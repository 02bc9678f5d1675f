-------------------------- MODULE InputManagerProofs --------------------------
(***************************************************************************)
(* The input manager over the SDL adapter: for any windows, contexts,      *)
(* devices and subscriptions, and any number of events and calls.          *)
(***************************************************************************)
EXTENDS InputManager, SequenceTheorems, FiniteSetTheorems, TLAPS

(***************************************************************************)
(* The adapter's operators keep its type, and a context that lives is bound*)
(* to a window.                                                            *)
(***************************************************************************)
Bound(s) == \A c \in Contexts : s.ctx[c].live => s.ctx[c].target \in Windows
Adapter == {s \in SDLState : Bound(s)}

(* What a refresh leaves alone: all but the modes.  The pointer is not       *)
(* captured for nobody.                                                      *)
SameBut(s, t) ==
  /\ t.win = s.win
  /\ t.capture => s.capture \/ \E c \in Contexts : s.ctx[c].live
  /\ \A c \in Contexts : /\ t.ctx[c].live = s.ctx[c].live /\ t.ctx[c].target = s.ctx[c].target
                         /\ t.ctx[c].enabled = s.ctx[c].enabled
                         /\ t.ctx[c].wantsCapture = s.ctx[c].wantsCapture
                         /\ t.ctx[c].wantsRelative = s.ctx[c].wantsRelative

LEMMA AdapterFields ==
  ASSUME NEW s \in Adapter
  PROVE  /\ s \in SDLState /\ s.win \in [Windows -> WindowRecord]
         /\ s.ctx \in [Contexts -> InputContextRecord]
         /\ s.capture \in BOOLEAN /\ s.relative \in SUBSET Windows /\ s.text \in SUBSET Windows
         /\ \A c \in Contexts : s.ctx[c].live => s.ctx[c].target \in Windows
BY DEF Adapter, SDLState, Bound

LEMMA RefreshedContextType ==
  ASSUME NEW s \in Adapter, NEW c \in Contexts, NEW ok \in BOOLEAN
  PROVE  /\ RefreshedContext(s, c, ok) \in InputContextRecord
         /\ RefreshedContext(s, c, ok).live = s.ctx[c].live
         /\ RefreshedContext(s, c, ok).target = s.ctx[c].target
         /\ RefreshedContext(s, c, ok).enabled = s.ctx[c].enabled
         /\ RefreshedContext(s, c, ok).wantsCapture = s.ctx[c].wantsCapture
         /\ RefreshedContext(s, c, ok).wantsRelative = s.ctx[c].wantsRelative
<1> DEFINE granted == Active(s, s.ctx[c].target) /\ s.ctx[c].enabled
           captured == granted /\ s.ctx[c].wantsCapture /\ ~Refused(WantsCapture(s), ok)
           relative == granted /\ s.ctx[c].wantsRelative
                         /\ ~Refused(WantsRelative(s, s.ctx[c].target), ok)
<1>1. captured \in BOOLEAN /\ relative \in BOOLEAN
  OBVIOUS
<1>2. RefreshedContext(s, c, ok) = [s.ctx[c] EXCEPT !.captured = captured, !.relative = relative]
  BY DEF RefreshedContext
<1>3. s.ctx[c] \in InputContextRecord
  BY AdapterFields
<1> HIDE DEF granted, captured, relative
<1> QED BY <1>1, <1>2, <1>3 DEF InputContextRecord

LEMMA RefreshModesType ==
  ASSUME NEW s \in Adapter, NEW ws, NEW ok \in BOOLEAN
  PROVE  /\ RefreshTargetPointerModes(s, ws, ok) \in Adapter
         /\ SameBut(s, RefreshTargetPointerModes(s, ws, ok))
<1> DEFINE alive == {w \in ws : s.win[w].alive}
           relative == {w \in Windows : IF w \notin alive \/ Refused(WantsRelative(s, w), ok)
                                        THEN w \in s.relative ELSE WantsRelative(s, w)}
           capture == IF Refused(WantsCapture(s), ok) THEN s.capture ELSE WantsCapture(s)
           ctx == [c \in Contexts |-> IF s.ctx[c].live /\ s.ctx[c].target \in alive
                                      THEN RefreshedContext(s, c, ok) ELSE s.ctx[c]]
           t == [s EXCEPT !.relative = relative, !.capture = capture, !.ctx = ctx]
<1>1. relative \in SUBSET Windows
  OBVIOUS
<1>2. capture \in BOOLEAN /\ (capture => s.capture \/ \E c \in Contexts : s.ctx[c].live)
  BY AdapterFields DEF WantsCapture, Refused
<1>3. /\ ctx \in [Contexts -> InputContextRecord]
      /\ \A c \in Contexts : /\ ctx[c].live = s.ctx[c].live /\ ctx[c].target = s.ctx[c].target
                             /\ ctx[c].enabled = s.ctx[c].enabled
                             /\ ctx[c].wantsCapture = s.ctx[c].wantsCapture
                             /\ ctx[c].wantsRelative = s.ctx[c].wantsRelative
  BY AdapterFields, RefreshedContextType
<1>4. RefreshTargetPointerModes(s, ws, ok) = IF alive = {} THEN s ELSE t
  BY DEF RefreshTargetPointerModes
<1>5. t \in SDLState /\ t.win = s.win /\ t.ctx = ctx /\ t.capture = capture
  <2> HIDE DEF relative, capture, ctx
  <2> QED BY <1>1, <1>2, <1>3, AdapterFields DEF SDLState
<1> HIDE DEF t, ctx, alive, capture
<1>6. t \in Adapter /\ SameBut(s, t)
  BY <1>2, <1>3, <1>5, AdapterFields DEF Adapter, Bound, SameBut
<1>7. SameBut(s, s)
  BY DEF SameBut
<1> QED BY <1>4, <1>6, <1>7

(* The same, when the refresh stopped at the first context it told.          *)
LEMMA RefreshedUpToType ==
  ASSUME NEW s \in Adapter, NEW w, NEW first \in Contexts
  PROVE  \E t \in Adapter : RefreshedUpTo(s, w, first) = t /\ SameBut(s, t)
<1> DEFINE ws == {w}
<1>1. PICK done \in Adapter : done = RefreshTargetPointerModes(s, ws, TRUE) /\ SameBut(s, done)
  BY RefreshModesType
<1> DEFINE ctx == [s.ctx EXCEPT ![first] = done.ctx[first]]
           t == [done EXCEPT !.ctx = ctx]
<1>2. RefreshedUpTo(s, w, first) = t
  BY <1>1 DEF RefreshedUpTo
<1>3. /\ ctx \in [Contexts -> InputContextRecord]
      /\ \A c \in Contexts : /\ ctx[c].live = s.ctx[c].live /\ ctx[c].target = s.ctx[c].target
                             /\ ctx[c].enabled = s.ctx[c].enabled
                             /\ ctx[c].wantsCapture = s.ctx[c].wantsCapture
                             /\ ctx[c].wantsRelative = s.ctx[c].wantsRelative
  BY <1>1, AdapterFields DEF SameBut
<1> HIDE DEF ctx
<1>4. t \in SDLState /\ t.win = done.win /\ t.ctx = ctx /\ t.capture = done.capture
  BY <1>1, <1>3, AdapterFields DEF SDLState
<1> HIDE DEF t
<1>5. t \in Adapter
  BY <1>3, <1>4, AdapterFields DEF Adapter, Bound
<1>6. SameBut(s, t)
  BY <1>1, <1>3, <1>4 DEF SameBut
<1> QED BY <1>2, <1>5, <1>6

LEMMA RefreshTextType ==
  ASSUME NEW s \in Adapter, NEW ws
  PROVE  /\ RefreshTextInput(s, ws) \in Adapter
         /\ SameBut(s, RefreshTextInput(s, ws))
         /\ RefreshTextInput(s, ws).ctx = s.ctx
         /\ RefreshTextInput(s, ws).capture = s.capture
<1> DEFINE text == {w \in Windows : IF w \in ws /\ s.win[w].alive THEN ReadsText(s, w) ELSE w \in s.text}
           t == [s EXCEPT !.text = text]
<1>1. text \in SUBSET Windows
  OBVIOUS
<1>2. RefreshTextInput(s, ws) = t
  BY DEF RefreshTextInput
<1>3. t \in SDLState /\ t.win = s.win /\ t.ctx = s.ctx /\ t.capture = s.capture
  <2> HIDE DEF text
  <2> QED BY <1>1, AdapterFields DEF SDLState
<1> HIDE DEF t
<1> QED BY <1>2, <1>3, AdapterFields DEF Adapter, Bound, SameBut

LEMMA RefreshType ==
  ASSUME NEW s \in Adapter, NEW ws, NEW ok \in BOOLEAN
  PROVE  /\ Refresh(s, ws, ok) \in Adapter
         /\ SameBut(s, Refresh(s, ws, ok))
<1>1. PICK r \in Adapter : r = RefreshTargetPointerModes(s, ws, ok) /\ SameBut(s, r)
  BY RefreshModesType
<1>2. RefreshTextInput(r, ws) \in Adapter /\ SameBut(r, RefreshTextInput(r, ws))
  BY RefreshTextType
<1>3. Refresh(s, ws, ok) = RefreshTextInput(r, ws)
  BY <1>1 DEF Refresh
<1>4. SameBut(s, RefreshTextInput(r, ws))
  BY <1>1, <1>2 DEF SameBut
<1> QED BY <1>2, <1>3, <1>4

(* Changing one context, or the windows, before a refresh.                   *)
LEMMA WithContextType ==
  ASSUME NEW s \in Adapter, NEW c \in Contexts, NEW r \in InputContextRecord,
         r.live => r.target \in Windows
  PROVE  /\ [s EXCEPT !.ctx[c] = r] \in Adapter
         /\ [s EXCEPT !.ctx[c] = r].win = s.win
         /\ [s EXCEPT !.ctx[c] = r].capture = s.capture
         /\ [s EXCEPT !.ctx[c] = r].ctx = [s.ctx EXCEPT ![c] = r]
<1> DEFINE t == [s EXCEPT !.ctx[c] = r]
<1>1. t \in SDLState /\ t.win = s.win /\ t.capture = s.capture /\ t.ctx = [s.ctx EXCEPT ![c] = r]
  BY AdapterFields DEF SDLState
<1> HIDE DEF t
<1>2. t \in Adapter
  BY <1>1, AdapterFields DEF Adapter, Bound
<1> QED BY <1>1, <1>2 DEF t

LEMMA WithWindowsType ==
  ASSUME NEW s \in Adapter, NEW win \in [Windows -> WindowRecord]
  PROVE  \E t \in Adapter : /\ [s EXCEPT !.win = win] = t
                            /\ t.win = win /\ t.ctx = s.ctx /\ t.capture = s.capture
<1> DEFINE t == [s EXCEPT !.win = win]
<1>1. t \in SDLState /\ t.win = win /\ t.ctx = s.ctx /\ t.capture = s.capture
  BY AdapterFields DEF SDLState
<1> HIDE DEF t
<1>2. t \in Adapter
  BY <1>1, AdapterFields DEF Adapter, Bound
<1> QED BY <1>1, <1>2 DEF t

LEMMA NoContextType == NoContext \in InputContextRecord /\ ~NoContext.live
BY DEF NoContext, InputContextRecord

(* A new context lives, and is enabled; the others are left alone.           *)
LEMMA CreateInputContextType ==
  ASSUME NEW s \in Adapter, NEW c \in Contexts, NEW w \in Windows, NEW wants, NEW ok \in BOOLEAN
  PROVE  \E t \in Adapter :
           /\ CreateInputContext(s, c, w, wants, ok) = t
           /\ t.win = s.win
           /\ t.ctx[c].live /\ t.ctx[c].target = w /\ t.ctx[c].enabled
           /\ \A d \in Contexts \ {c} : /\ t.ctx[d].live = s.ctx[d].live
                                        /\ t.ctx[d].target = s.ctx[d].target
                                        /\ t.ctx[d].enabled = s.ctx[d].enabled
<1> DEFINE capture == "capture" \in wants
           relative == "relative" \in wants
           r == [NoContext EXCEPT !.live = TRUE, !.target = w, !.enabled = TRUE,
                                  !.wantsCapture = capture, !.wantsRelative = relative]
           made == [s EXCEPT !.ctx[c] = r]
<1>1. r \in InputContextRecord /\ r.live /\ r.target = w /\ r.enabled
  <2>1. capture \in BOOLEAN /\ relative \in BOOLEAN
    OBVIOUS
  <2> HIDE DEF capture, relative
  <2> QED BY <2>1, NoContextType DEF InputContextRecord
<1>2. CreateInputContext(s, c, w, wants, ok) = Refresh(made, {w}, ok)
  BY DEF CreateInputContext
<1> HIDE DEF r
<1>3. made \in Adapter /\ made.win = s.win /\ made.ctx = [s.ctx EXCEPT ![c] = r]
  BY <1>1, WithContextType
<1>4. /\ made.ctx[c] = r
      /\ \A d \in Contexts \ {c} : made.ctx[d] = s.ctx[d]
  BY <1>3, AdapterFields
<1> HIDE DEF made
<1>5. PICK t \in Adapter : t = Refresh(made, {w}, ok) /\ SameBut(made, t)
  BY <1>3, RefreshType
<1>6. /\ t.win = s.win /\ t.ctx[c].live /\ t.ctx[c].target = w /\ t.ctx[c].enabled
      /\ \A d \in Contexts \ {c} : /\ t.ctx[d].live = s.ctx[d].live
                                   /\ t.ctx[d].target = s.ctx[d].target
                                   /\ t.ctx[d].enabled = s.ctx[d].enabled
  <2>1. t.win = s.win /\ t.ctx[c].live /\ t.ctx[c].target = w /\ t.ctx[c].enabled
    BY <1>1, <1>3, <1>4, <1>5 DEF SameBut
  <2>2. ASSUME NEW d \in Contexts \ {c}
        PROVE  /\ t.ctx[d].live = s.ctx[d].live /\ t.ctx[d].target = s.ctx[d].target
               /\ t.ctx[d].enabled = s.ctx[d].enabled
    <3>1. made.ctx[d] = s.ctx[d]
      BY <1>4
    <3> QED BY <1>5, <3>1 DEF SameBut
  <2> QED BY <2>1, <2>2
<1> QED BY <1>2, <1>5, <1>6

(* A destroyed context does not live; the others are left alone.             *)
LEMMA DestroyInputContextType ==
  ASSUME NEW s \in Adapter, NEW c \in Contexts, NEW ok \in BOOLEAN
  PROVE  \E t \in Adapter :
           /\ DestroyInputContext(s, c, ok) = t
           /\ t.win = s.win
           /\ ~t.ctx[c].live
           /\ \A d \in Contexts \ {c} : /\ t.ctx[d].live = s.ctx[d].live
                                        /\ t.ctx[d].target = s.ctx[d].target
                                        /\ t.ctx[d].enabled = s.ctx[d].enabled
<1> DEFINE gone == [s EXCEPT !.ctx[c] = NoContext]
           ws == {s.ctx[c].target}
<1>1. CASE ~s.ctx[c].live
  BY <1>1 DEF DestroyInputContext
<1>2. CASE s.ctx[c].live
  <2>1. DestroyInputContext(s, c, ok) = Refresh(gone, ws, ok)
    BY <1>2 DEF DestroyInputContext
  <2>2. gone \in Adapter /\ gone.win = s.win /\ gone.ctx = [s.ctx EXCEPT ![c] = NoContext]
    BY NoContextType, WithContextType
  <2>3. /\ gone.ctx[c] = NoContext
        /\ \A d \in Contexts \ {c} : gone.ctx[d] = s.ctx[d]
    BY <2>2, AdapterFields
  <2> HIDE DEF gone, ws
  <2>4. PICK t \in Adapter : t = Refresh(gone, ws, ok) /\ SameBut(gone, t)
    BY <2>2, RefreshType
  <2> QED BY <2>1, <2>2, <2>3, <2>4, NoContextType DEF SameBut
<1> QED BY <1>1, <1>2

LEMMA DestroyAllType ==
  ASSUME NEW s \in Adapter, NEW cs \in SUBSET Contexts
  PROVE  \E t \in Adapter :
           /\ DestroyAll(s, cs) = t
           /\ t.win = s.win
           /\ \A c \in Contexts : /\ t.ctx[c].live <=> s.ctx[c].live /\ c \notin cs
                                  /\ t.ctx[c].live => t.ctx[c].target = s.ctx[c].target
<1> DEFINE live == {c \in cs : s.ctx[c].live}
           ctx == [c \in Contexts |-> IF c \in live THEN NoContext ELSE s.ctx[c]]
           gone == [s EXCEPT !.ctx = ctx]
           ws == {s.ctx[c].target : c \in live}
<1>1. DestroyAll(s, cs) = Refresh(gone, ws, TRUE)
  BY DEF DestroyAll
<1>2. ctx \in [Contexts -> InputContextRecord]
  BY NoContextType, AdapterFields
<1>3. \A c \in Contexts : /\ ctx[c].live <=> s.ctx[c].live /\ c \notin cs
                          /\ ctx[c].live => ctx[c].target = s.ctx[c].target
  BY NoContextType
<1> HIDE DEF ctx, ws
<1>4. gone \in SDLState /\ gone.win = s.win /\ gone.ctx = ctx
  BY <1>2, AdapterFields DEF SDLState
<1> HIDE DEF gone
<1>5. gone \in Adapter
  BY <1>3, <1>4, AdapterFields DEF Adapter, Bound
<1>6. PICK t \in Adapter : t = Refresh(gone, ws, TRUE) /\ SameBut(gone, t)
  BY <1>5, RefreshType
<1>7. t.win = s.win
  BY <1>4, <1>6 DEF SameBut
<1>8. \A c \in Contexts : /\ t.ctx[c].live <=> s.ctx[c].live /\ c \notin cs
                          /\ t.ctx[c].live => t.ctx[c].target = s.ctx[c].target
  BY <1>3, <1>4, <1>6 DEF SameBut
<1> QED BY <1>1, <1>6, <1>7, <1>8

(* A mutation leaves alone who lives, and where.                             *)
SameRoutes(s, t) ==
  /\ \A c \in Contexts : t.ctx[c].live = s.ctx[c].live /\ t.ctx[c].target = s.ctx[c].target
  /\ t.capture => s.capture \/ \E c \in Contexts : s.ctx[c].live

LEMMA SetContextEnabledType ==
  ASSUME NEW s \in Adapter, NEW c \in Contexts, NEW b \in BOOLEAN, NEW ok \in BOOLEAN
  PROVE  \E t \in Adapter : /\ SetContextEnabled(s, c, b, ok) = t
                            /\ t.win = s.win /\ SameRoutes(s, t)
<1> DEFINE r == [s.ctx[c] EXCEPT !.enabled = b]
           set == [s EXCEPT !.ctx[c] = r]
           ws == {s.ctx[c].target}
<1>1. r \in InputContextRecord /\ r.live = s.ctx[c].live /\ r.target = s.ctx[c].target
  BY AdapterFields DEF InputContextRecord
<1>2. SetContextEnabled(s, c, b, ok) = Refresh(set, ws, ok)
  BY DEF SetContextEnabled
<1> HIDE DEF r, ws
<1>3. set \in Adapter /\ set.win = s.win /\ set.capture = s.capture /\ set.ctx = [s.ctx EXCEPT ![c] = r]
  BY <1>1, AdapterFields, WithContextType
<1> HIDE DEF set
<1>4. SameRoutes(s, set)
  BY <1>1, <1>3, AdapterFields DEF SameRoutes
<1>5. PICK t \in Adapter : t = Refresh(set, ws, ok) /\ SameBut(set, t)
  BY <1>3, RefreshType
<1>6. t.win = s.win /\ SameRoutes(s, t)
  BY <1>3, <1>4, <1>5 DEF SameBut, SameRoutes
<1> QED BY <1>2, <1>5, <1>6

(* Asking for a pointer mode, by a context that may have it or may not.      *)
LEMMA AsksType ==
  ASSUME NEW s \in Adapter, NEW c \in Contexts, NEW ok \in BOOLEAN,
         NEW r \in InputContextRecord, r.live = s.ctx[c].live, r.target = s.ctx[c].target,
         NEW q \in InputContextRecord, q.live = s.ctx[c].live, q.target = s.ctx[c].target, NEW ws
  PROVE  /\ \E t \in Adapter : /\ RefreshTargetPointerModes([s EXCEPT !.ctx[c] = r], ws, ok) = t
                               /\ t.win = s.win /\ SameRoutes(s, t)
         /\ \E t \in Adapter : /\ [s EXCEPT !.ctx[c] = q] = t
                               /\ t.win = s.win /\ SameRoutes(s, t)
<1> DEFINE asked == [s EXCEPT !.ctx[c] = r]
           u == [s EXCEPT !.ctx[c] = q]
<1>1. asked \in Adapter /\ asked.win = s.win /\ asked.capture = s.capture /\ asked.ctx = [s.ctx EXCEPT ![c] = r]
  BY AdapterFields, WithContextType
<1>2. u \in Adapter /\ u.win = s.win /\ u.capture = s.capture /\ u.ctx = [s.ctx EXCEPT ![c] = q]
  BY AdapterFields, WithContextType
<1> HIDE DEF asked, u
<1>3. SameRoutes(s, asked) /\ SameRoutes(s, u)
  BY <1>1, <1>2, AdapterFields DEF SameRoutes
<1>4. PICK t \in Adapter : t = RefreshTargetPointerModes(asked, ws, ok) /\ SameBut(asked, t)
  BY <1>1, RefreshModesType
<1>5. t.win = s.win /\ SameRoutes(s, t)
  BY <1>1, <1>3, <1>4 DEF SameBut, SameRoutes
<1>6. /\ \E x \in Adapter : /\ RefreshTargetPointerModes(asked, ws, ok) = x
                            /\ x.win = s.win /\ SameRoutes(s, x)
      /\ \E x \in Adapter : u = x /\ x.win = s.win /\ SameRoutes(s, x)
  BY <1>2, <1>3, <1>4, <1>5
<1> QED BY <1>6 DEF asked, u

LEMMA SetContextCaptureType ==
  ASSUME NEW s \in Adapter, NEW c \in Contexts, NEW b \in BOOLEAN, NEW ok \in BOOLEAN
  PROVE  \E t \in Adapter : /\ SetContextCapture(s, c, b, ok) = t
                            /\ t.win = s.win /\ SameRoutes(s, t)
<1> DEFINE r == [s.ctx[c] EXCEPT !.wantsCapture = b]
           q == [r EXCEPT !.captured = FALSE]
           ws == {s.ctx[c].target}
<1>1. r \in InputContextRecord /\ r.live = s.ctx[c].live /\ r.target = s.ctx[c].target
  BY AdapterFields DEF InputContextRecord
<1>2. q \in InputContextRecord /\ q.live = s.ctx[c].live /\ q.target = s.ctx[c].target
  <2> HIDE DEF r
  <2> QED BY <1>1 DEF InputContextRecord
<1>3. SetContextCapture(s, c, b, ok)
        = IF CanHoldPointer(s, c) THEN RefreshTargetPointerModes([s EXCEPT !.ctx[c] = r], ws, ok)
          ELSE [s EXCEPT !.ctx[c] = q]
  BY AdapterFields DEF SetContextCapture, SDLState, InputContextRecord
<1> HIDE DEF r, q, ws
<1> QED BY <1>1, <1>2, <1>3, AsksType

LEMMA SetRelativePointerModeType ==
  ASSUME NEW s \in Adapter, NEW c \in Contexts, NEW b \in BOOLEAN, NEW ok \in BOOLEAN
  PROVE  \E t \in Adapter : /\ SetRelativePointerMode(s, c, b, ok) = t
                            /\ t.win = s.win /\ SameRoutes(s, t)
<1> DEFINE r == [s.ctx[c] EXCEPT !.wantsRelative = b]
           q == [r EXCEPT !.relative = FALSE]
           ws == {s.ctx[c].target}
<1>1. r \in InputContextRecord /\ r.live = s.ctx[c].live /\ r.target = s.ctx[c].target
  BY AdapterFields DEF InputContextRecord
<1>2. q \in InputContextRecord /\ q.live = s.ctx[c].live /\ q.target = s.ctx[c].target
  <2> HIDE DEF r
  <2> QED BY <1>1 DEF InputContextRecord
<1>3. SetRelativePointerMode(s, c, b, ok)
        = IF CanHoldPointer(s, c) THEN RefreshTargetPointerModes([s EXCEPT !.ctx[c] = r], ws, ok)
          ELSE [s EXCEPT !.ctx[c] = q]
  BY AdapterFields DEF SetRelativePointerMode, SDLState, InputContextRecord
<1> HIDE DEF r, q, ws
<1> QED BY <1>1, <1>2, <1>3, AsksType

LEMMA ShutdownInputType ==
  ASSUME NEW s \in Adapter
  PROVE  \E t \in Adapter : /\ ShutdownInput(s) = t
                            /\ t.win = s.win /\ ~t.capture
                            /\ \A c \in Contexts : ~t.ctx[c].live
<1> DEFINE targets == {s.ctx[c].target : c \in {d \in Contexts : s.ctx[d].live}}
                        \cap {w \in Windows : s.win[w].alive}
           ctx == [c \in Contexts |-> NoContext]
           t == [s EXCEPT !.ctx = ctx, !.capture = FALSE, !.relative = @ \ targets, !.text = @ \ targets]
<1>1. ShutdownInput(s) = t
  BY DEF ShutdownInput
<1>2. ctx \in [Contexts -> InputContextRecord] /\ \A c \in Contexts : ~ctx[c].live
  BY NoContextType
<1> HIDE DEF ctx, targets
<1>3. t \in SDLState /\ t.win = s.win /\ t.ctx = ctx /\ ~t.capture
  BY <1>2, AdapterFields DEF SDLState
<1> HIDE DEF t
<1>4. t \in Adapter
  BY <1>2, <1>3 DEF Adapter, Bound
<1> QED BY <1>1, <1>2, <1>3, <1>4

(* The windows.                                                              *)
LEMMA QueryType ==
  ASSUME NEW s \in Adapter, NEW w \in Windows
  PROVE  \E t \in Adapter :
           /\ Query(s, w) = t
           /\ t.ctx = s.ctx /\ t.capture = s.capture
           /\ \A v \in Windows : t.win[v].alive = s.win[v].alive /\ t.win[v].enabled = s.win[v].enabled
<1> DEFINE focused == os.focus = w
           win == [s.win EXCEPT ![w].focused = focused]
<1>1. focused \in BOOLEAN
  OBVIOUS
<1>2. Query(s, w) = [s EXCEPT !.win = win]
  BY AdapterFields DEF Query, SDLState
<1> HIDE DEF focused
<1>3. /\ win \in [Windows -> WindowRecord]
      /\ \A v \in Windows : win[v].alive = s.win[v].alive /\ win[v].enabled = s.win[v].enabled
  BY <1>1, AdapterFields DEF WindowRecord
<1> HIDE DEF win
<1>4. PICK t \in Adapter : [s EXCEPT !.win = win] = t /\ t.win = win /\ t.ctx = s.ctx /\ t.capture = s.capture
  BY <1>3, WithWindowsType
<1> QED BY <1>2, <1>3, <1>4

(* A window is changed, refreshed, and asked for its focus.                  *)
LEMMA ChangedWindowType ==
  ASSUME NEW s \in Adapter, NEW r \in WindowRecord, NEW w \in Windows, NEW ok \in BOOLEAN
  PROVE  \E t \in Adapter :
           /\ [s EXCEPT !.win[w] = r] = t
           /\ t.ctx = s.ctx /\ t.capture = s.capture /\ t.win = [s.win EXCEPT ![w] = r]
<1> DEFINE win == [s.win EXCEPT ![w] = r]
<1>1. win \in [Windows -> WindowRecord]
  BY AdapterFields
<1>2. [s EXCEPT !.win[w] = r] = [s EXCEPT !.win = win]
  BY AdapterFields DEF SDLState
<1> HIDE DEF win
<1>3. PICK t \in Adapter : [s EXCEPT !.win = win] = t /\ t.win = win /\ t.ctx = s.ctx /\ t.capture = s.capture
  BY <1>1, WithWindowsType
<1>4. [s EXCEPT !.win[w] = r] = t /\ t.ctx = s.ctx /\ t.capture = s.capture /\ t.win = win
  BY <1>2, <1>3
<1> QED BY <1>4 DEF win

LEMMA WindowRecordType ==
  ASSUME NEW r \in WindowRecord, NEW b \in BOOLEAN, NEW d \in BOOLEAN
  PROVE  /\ [r EXCEPT !.enabled = b, !.suspended = d] \in WindowRecord
         /\ [r EXCEPT !.enabled = b, !.suspended = d].alive = r.alive
         /\ [r EXCEPT !.suspended = d] \in WindowRecord
         /\ [r EXCEPT !.suspended = d].alive = r.alive
         /\ NoWindowRecord \in WindowRecord /\ ~NoWindowRecord.alive
BY DEF WindowRecord, NoWindowRecord

SameAlive(s, t) == \A w \in Windows : t.win[w].alive = s.win[w].alive

LEMMA SetInputEnabledType ==
  ASSUME NEW s \in Adapter, NEW w \in Windows, NEW b \in BOOLEAN, NEW ok \in BOOLEAN
  PROVE  \E t \in Adapter : /\ SetInputEnabled(s, w, b, ok) = t
                            /\ SameAlive(s, t) /\ SameRoutes(s, t)
<1> DEFINE d == ~b \/ ~s.win[w].focused
           r == [s.win[w] EXCEPT !.enabled = b, !.suspended = d]
           set == [s EXCEPT !.win[w].enabled = b, !.win[w].suspended = d]
           ws == {w}
<1>1. d \in BOOLEAN
  OBVIOUS
<1>2. s.win[w] \in WindowRecord
  BY AdapterFields
<1>3. SetInputEnabled(s, w, b, ok) = Query(IF s.win[w].enabled = b THEN set ELSE Refresh(set, ws, ok), w)
  BY DEF SetInputEnabled
<1>4. set = [s EXCEPT !.win[w] = r]
  BY AdapterFields DEF SDLState
<1> HIDE DEF d
<1>5. r \in WindowRecord /\ r.alive = s.win[w].alive
  BY <1>1, <1>2, WindowRecordType
<1> HIDE DEF set, r, ws
<1>6. PICK t \in Adapter : set = t /\ t.ctx = s.ctx /\ t.capture = s.capture /\ t.win = [s.win EXCEPT ![w] = r]
  BY <1>4, <1>5, ChangedWindowType
<1>7. SameAlive(s, t) /\ SameRoutes(s, t)
  BY <1>5, <1>6, AdapterFields DEF SameAlive, SameRoutes
<1>8. PICK u \in Adapter : u = Refresh(t, ws, ok) /\ SameBut(t, u)
  BY RefreshType
<1>9. PICK v \in Adapter : /\ v = IF s.win[w].enabled = b THEN t ELSE u
                           /\ SameAlive(s, v) /\ SameRoutes(s, v)
  BY <1>7, <1>8 DEF SameAlive, SameRoutes, SameBut
<1>10. PICK x \in Adapter : Query(v, w) = x /\ x.ctx = v.ctx /\ x.capture = v.capture /\ SameAlive(v, x)
  BY QueryType DEF SameAlive
<1>11. SetInputEnabled(s, w, b, ok) = x
  BY <1>3, <1>6, <1>8, <1>9, <1>10
<1>12. SameAlive(s, x) /\ SameRoutes(s, x)
  BY <1>9, <1>10 DEF SameAlive, SameRoutes
<1> QED BY <1>11, <1>12

LEMMA PrepareWindowRemovalType ==
  ASSUME NEW s \in Adapter, NEW ws \in SUBSET Windows
  PROVE  \E t \in Adapter : /\ PrepareWindowRemoval(s, ws) = t
                            /\ SameAlive(s, t) /\ SameRoutes(s, t)
<1> DEFINE win == [w \in Windows |-> IF w \in ws THEN [s.win[w] EXCEPT !.enabled = FALSE, !.suspended = TRUE]
                                                 ELSE s.win[w]]
           set == [s EXCEPT !.win = win]
<1>1. PrepareWindowRemoval(s, ws) = Refresh(set, ws, TRUE)
  BY DEF PrepareWindowRemoval
<1>2. \A w \in Windows : s.win[w] \in WindowRecord
  BY AdapterFields
<1>3. win \in [Windows -> WindowRecord] /\ \A w \in Windows : win[w].alive = s.win[w].alive
  BY <1>2, WindowRecordType
<1> HIDE DEF win
<1>4. PICK t \in Adapter : set = t /\ t.win = win /\ t.ctx = s.ctx /\ t.capture = s.capture
  BY <1>3, WithWindowsType
<1> HIDE DEF set
<1>5. PICK u \in Adapter : u = Refresh(t, ws, TRUE) /\ SameBut(t, u)
  BY RefreshType
<1>6. u.win = win /\ SameRoutes(s, u)
  <2>1. u.win = win
    BY <1>4, <1>5 DEF SameBut
  <2>2. SameRoutes(s, u)
    BY <1>4, <1>5 DEF SameBut, SameRoutes
  <2> QED BY <2>1, <2>2
<1>7. SameAlive(s, u)
  BY <1>3, <1>6 DEF SameAlive
<1> QED BY <1>1, <1>4, <1>5, <1>6, <1>7

LEMMA EraseType ==
  ASSUME NEW s \in Adapter, NEW ws \in SUBSET Windows
  PROVE  \E t \in Adapter :
           /\ Erase(s, ws) = t
           /\ t.ctx = s.ctx /\ t.capture = s.capture
           /\ \A w \in Windows : t.win[w].alive <=> s.win[w].alive /\ w \notin ws
<1> DEFINE win == [w \in Windows |-> IF w \in ws THEN NoWindowRecord ELSE s.win[w]]
           t == [s EXCEPT !.win = win, !.relative = @ \ ws, !.text = @ \ ws]
<1>1. Erase(s, ws) = t
  BY DEF Erase
<1>2. \A w \in Windows : s.win[w] \in WindowRecord
  BY AdapterFields
<1>3. /\ win \in [Windows -> WindowRecord]
      /\ \A w \in Windows : win[w].alive <=> s.win[w].alive /\ w \notin ws
  BY <1>2, WindowRecordType
<1> HIDE DEF win
<1>4. t \in SDLState /\ t.win = win /\ t.ctx = s.ctx /\ t.capture = s.capture
  BY <1>3, AdapterFields DEF SDLState
<1> HIDE DEF t
<1>5. t \in Adapter
  BY <1>4, AdapterFields DEF Adapter, Bound
<1> QED BY <1>1, <1>3, <1>4, <1>5

LEMMA InvalidateRemovedInputTargetType ==
  ASSUME NEW s \in Adapter, NEW w \in Windows, NEW ok \in BOOLEAN
  PROVE  \E t \in Adapter :
           /\ InvalidateRemovedInputTarget(s, w, ok) = t
           /\ SameRoutes(s, t)
           /\ \A v \in Windows : t.win[v].alive <=> s.win[v].alive /\ v # w
<1> DEFINE ws == {w}
           bound == BoundTo(s, w)
<1>1. PICK gone \in Adapter :
           /\ Erase(s, ws) = gone
           /\ gone.ctx = s.ctx /\ gone.capture = s.capture
           /\ \A v \in Windows : gone.win[v].alive <=> s.win[v].alive /\ v \notin ws
  BY EraseType
<1> DEFINE capture == WantsCapture(gone) /\ (ok \/ gone.capture)
           ctx == [c \in Contexts |-> IF c \in bound
                                      THEN [gone.ctx[c] EXCEPT !.captured = FALSE, !.relative = FALSE]
                                      ELSE gone.ctx[c]]
           t == [gone EXCEPT !.capture = capture, !.ctx = ctx]
<1>2. InvalidateRemovedInputTarget(s, w, ok) = t
  BY <1>1 DEF InvalidateRemovedInputTarget
<1>3. capture \in BOOLEAN /\ (capture => \E c \in Contexts : s.ctx[c].live)
  BY <1>1 DEF WantsCapture
<1>4. \A c \in Contexts : gone.ctx[c] \in InputContextRecord
  BY AdapterFields
<1>5. /\ ctx \in [Contexts -> InputContextRecord]
      /\ \A c \in Contexts : ctx[c].live = gone.ctx[c].live /\ ctx[c].target = gone.ctx[c].target
  BY <1>4 DEF InputContextRecord
<1> HIDE DEF capture, ctx
<1>6. t \in SDLState /\ t.win = gone.win /\ t.ctx = ctx /\ t.capture = capture
  BY <1>3, <1>5, AdapterFields DEF SDLState
<1> HIDE DEF t
<1>7. t \in Adapter /\ SameRoutes(s, t)
  BY <1>1, <1>3, <1>5, <1>6, AdapterFields DEF Adapter, Bound, SameRoutes
<1> QED BY <1>1, <1>2, <1>6, <1>7

(* A window is suspended, or resumed, and its modes are refreshed.           *)
LEMMA SuspendsType ==
  ASSUME NEW s \in Adapter, NEW w \in Windows, NEW d \in BOOLEAN, NEW ok \in BOOLEAN
  PROVE  \E t \in Adapter : /\ Refresh([s EXCEPT !.win[w].suspended = d], {w}, ok) = t
                            /\ SameAlive(s, t) /\ SameRoutes(s, t)
<1> DEFINE r == [s.win[w] EXCEPT !.suspended = d]
           set == [s EXCEPT !.win[w].suspended = d]
           ws == {w}
<1>1. set = [s EXCEPT !.win[w] = r]
  BY AdapterFields DEF SDLState
<1>2. s.win[w] \in WindowRecord
  BY AdapterFields
<1>3. r \in WindowRecord /\ r.alive = s.win[w].alive
  BY <1>2, WindowRecordType
<1> HIDE DEF set, r, ws
<1>4. PICK t \in Adapter : set = t /\ t.ctx = s.ctx /\ t.capture = s.capture /\ t.win = [s.win EXCEPT ![w] = r]
  BY <1>1, <1>3, ChangedWindowType
<1>5. SameAlive(s, t) /\ SameRoutes(s, t)
  BY <1>3, <1>4, AdapterFields DEF SameAlive, SameRoutes
<1>6. PICK u \in Adapter : u = Refresh(t, ws, ok) /\ SameBut(t, u)
  BY RefreshType
<1>7. SameAlive(s, u) /\ SameRoutes(s, u)
  BY <1>5, <1>6 DEF SameAlive, SameRoutes, SameBut
<1>8. Refresh(set, ws, ok) = u
  BY <1>4, <1>6
<1> QED BY <1>7, <1>8 DEF set, ws

LEMMA FocusLostType ==
  ASSUME NEW s \in Adapter, NEW w \in Windows, NEW ok \in BOOLEAN
  PROVE  \E t \in Adapter : /\ FocusLost(s, w, ok) = t
                            /\ SameAlive(s, t) /\ SameRoutes(s, t)
<1>1. PICK t \in Adapter : /\ Refresh([s EXCEPT !.win[w].suspended = TRUE], {w}, ok) = t
                           /\ SameAlive(s, t) /\ SameRoutes(s, t)
  BY SuspendsType
<1>2. PICK u \in Adapter : Query(t, w) = u /\ u.ctx = t.ctx /\ u.capture = t.capture /\ SameAlive(t, u)
  BY QueryType DEF SameAlive
<1>3. FocusLost(s, w, ok) = u
  BY <1>1, <1>2 DEF FocusLost
<1>4. SameAlive(s, u) /\ SameRoutes(s, u)
  BY <1>1, <1>2 DEF SameAlive, SameRoutes
<1> QED BY <1>3, <1>4

LEMMA FocusGainedType ==
  ASSUME NEW s \in Adapter, NEW w \in Windows, NEW ok \in BOOLEAN
  PROVE  \E t \in Adapter : /\ FocusGained(s, w, ok) = t
                            /\ SameAlive(s, t) /\ SameRoutes(s, t)
<1>1. PICK read \in Adapter : Query(s, w) = read /\ read.ctx = s.ctx /\ read.capture = s.capture /\ SameAlive(s, read)
  BY QueryType DEF SameAlive
<1>2. SameRoutes(s, read)
  BY <1>1 DEF SameRoutes
<1>3. PICK t \in Adapter : /\ Refresh([read EXCEPT !.win[w].suspended = FALSE], {w}, ok) = t
                           /\ SameAlive(read, t) /\ SameRoutes(read, t)
  BY SuspendsType
<1>4. FocusGained(s, w, ok) = IF read.win[w].enabled THEN t ELSE read
  BY <1>1, <1>3 DEF FocusGained
<1>5. SameAlive(s, t) /\ SameRoutes(s, t)
  BY <1>1, <1>2, <1>3 DEF SameAlive, SameRoutes
<1> QED BY <1>1, <1>2, <1>4, <1>5

LEMMA ShutdownWindowsType ==
  ASSUME NEW s \in Adapter
  PROVE  \E t \in Adapter : /\ ShutdownWindows(s) = t
                            /\ SameRoutes(s, t)
                            /\ \A w \in Windows : ~t.win[w].alive
<1> DEFINE left == {w \in Windows : s.win[w].alive}
<1>0. left \in SUBSET Windows /\ \A w \in Windows : w \notin left => ~s.win[w].alive
  OBVIOUS
<1>00. ShutdownWindows(s) = Erase(PrepareWindowRemoval(s, left), left)
  BY DEF ShutdownWindows
<1> HIDE DEF left
<1>1. PICK t \in Adapter : PrepareWindowRemoval(s, left) = t /\ SameAlive(s, t) /\ SameRoutes(s, t)
  BY <1>0, PrepareWindowRemovalType
<1>2. PICK u \in Adapter :
           /\ Erase(t, left) = u
           /\ u.ctx = t.ctx /\ u.capture = t.capture
           /\ \A w \in Windows : u.win[w].alive <=> t.win[w].alive /\ w \notin left
  BY <1>0, EraseType
<1>3. ShutdownWindows(s) = u
  BY <1>00, <1>1, <1>2
<1>4. SameRoutes(s, u) /\ \A w \in Windows : ~u.win[w].alive
  BY <1>0, <1>1, <1>2 DEF SameRoutes, SameAlive
<1> QED BY <1>3, <1>4

(***************************************************************************)
(* The manager's records, and what is queued.                              *)
(***************************************************************************)
Lives == {"None", "Open", "Destroying", "Destroyed"}
RecordType == [life : Lives, enabled : BOOLEAN, captured : BOOLEAN, relative : BOOLEAN,
               pressed : SUBSET PressKinds]
Records == [Contexts -> RecordType]

(* A configuration that is taken over changes neither lives nor, for a       *)
(* mutation, what is pressed.                                                *)
LEMMA ConfiguredType ==
  ASSUME NEW r \in Records, NEW s \in Adapter, NEW c \in Contexts
  PROVE  /\ Configured(r, s, c) \in Records
         /\ Configured(r, s, c)[c].life = r[c].life
         /\ Configured(r, s, c)[c].pressed = r[c].pressed
         /\ \A d \in Contexts \ {c} : Configured(r, s, c)[d] = r[d]
<1> DEFINE q == [r[c] EXCEPT !.enabled = s.ctx[c].enabled, !.captured = s.ctx[c].captured,
                             !.relative = s.ctx[c].relative]
<1>1. /\ s.ctx[c].enabled \in BOOLEAN /\ s.ctx[c].captured \in BOOLEAN
      /\ s.ctx[c].relative \in BOOLEAN
  BY AdapterFields DEF InputContextRecord
<1>2. r[c] \in RecordType
  BY DEF Records
<1>3. q \in RecordType /\ q.life = r[c].life /\ q.pressed = r[c].pressed
  BY <1>1, <1>2 DEF RecordType
<1>4. Configured(r, s, c) = [r EXCEPT ![c] = q]
  BY DEF Configured, Records, RecordType
<1> HIDE DEF q
<1> QED BY <1>3, <1>4 DEF Records

LEMMA ApplyTargetConfigurationType ==
  ASSUME NEW r \in Records, NEW s \in Adapter, NEW w, NEW invalidated \in BOOLEAN
  PROVE  \E q \in Records :
           /\ ApplyTargetConfiguration(r, s, w, invalidated) = q
           /\ \A c \in Contexts :
                /\ q[c].life = r[c].life
                /\ q[c].pressed \in {{}, r[c].pressed}
                /\ ~invalidated => q[c].pressed = r[c].pressed
                /\ (invalidated /\ sink /\ s.ctx[c].live /\ s.ctx[c].target = w
                      /\ c \in contexts /\ r[c].life = "Open") => q[c].pressed = {}
<1> DEFINE told(c) == [Configured(r, s, c)[c] EXCEPT !.pressed = IF invalidated THEN {} ELSE @]
           kept(c) == ~sink \/ c \notin BoundTo(s, w) \/ c \notin contexts \/ r[c].life # "Open"
           q == [c \in Contexts |-> IF kept(c) THEN r[c] ELSE told(c)]
<1>1. ApplyTargetConfiguration(r, s, w, invalidated) = q
  BY DEF ApplyTargetConfiguration
<1>2. ASSUME NEW c \in Contexts
      PROVE  /\ told(c) \in RecordType /\ told(c).life = r[c].life
             /\ told(c).pressed = IF invalidated THEN {} ELSE r[c].pressed
  <2>1. PICK x \in RecordType : x = Configured(r, s, c)[c] /\ x.life = r[c].life /\ x.pressed = r[c].pressed
    BY ConfiguredType DEF Records
  <2>2. told(c) = [x EXCEPT !.pressed = IF invalidated THEN {} ELSE @]
    BY <2>1
  <2> HIDE DEF told
  <2> QED BY <2>1, <2>2 DEF RecordType
<1>3. ASSUME NEW c \in Contexts
      PROVE  /\ q[c] \in RecordType /\ q[c].life = r[c].life
             /\ q[c].pressed \in {{}, r[c].pressed}
             /\ ~invalidated => q[c].pressed = r[c].pressed
             /\ ~kept(c) /\ invalidated => q[c].pressed = {}
  <2>1. q[c] = IF kept(c) THEN r[c] ELSE told(c)
    OBVIOUS
  <2>2. r[c] \in RecordType
    BY DEF Records
  <2> HIDE DEF q, told, kept
  <2> QED BY <1>2, <2>1, <2>2
<1>4. q \in Records
  <2>1. q = [c \in Contexts |-> q[c]]
    OBVIOUS
  <2> HIDE DEF q
  <2> QED BY <1>3, <2>1 DEF Records
<1>5. ASSUME NEW c \in Contexts, invalidated, sink, s.ctx[c].live, s.ctx[c].target = w,
             c \in contexts, r[c].life = "Open"
      PROVE  ~kept(c)
  BY <1>5 DEF BoundTo
<1> HIDE DEF q, kept
<1> QED BY <1>1, <1>3, <1>4, <1>5

(* A mutation, or another context's end, releases nothing.                   *)
LEMMA ToldType ==
  ASSUME NEW r \in Records, NEW s \in Adapter, NEW w, NEW no \in BOOLEAN, ~no
  PROVE  \E q \in Records :
           /\ ApplyTargetConfiguration(r, s, w, no) = q
           /\ \A c \in Contexts : q[c].life = r[c].life /\ q[c].pressed = r[c].pressed
BY ApplyTargetConfigurationType

DeviceReports == [op : {"device"}, d : Devices, change : {"Connected", "Updated", "Disconnected"},
                  version : Versions]
Publications == [op : {"publish"}, c : Contexts, kind : Kinds, down : BOOLEAN]
Cleanups == [op : {"cleanup"}, cs : SUBSET Contexts]
Items == Commands \cup WindowCommands \cup DeviceReports \cup Publications \cup Cleanups
           \cup [op : {"discover"}]
Deadlocked == [op |-> "deadlocked"]
Steps == {NoStep, Deadlocked} \cup [op : {"create", "destroy"}, c : Contexts] \cup DeviceReports
FocusEvents == [t : {"lost", "gained"}, w : Windows]
Subscriptions == [Subs -> [topic : Topics \cup {<<>>}, life : {"free", "on", "off"}]]

(* The types, with those of what is queued.                                  *)
InputTypeInv ==
  /\ sdl \in Adapter
  /\ inventory \in [Devices -> Versions] /\ devices \in [Devices -> Versions]
  /\ os \in [focus : Windows \cup {NoWindow}, events : Seq(FocusEvents)]
  /\ rec \in Records
  /\ contexts \in SUBSET Contexts /\ owned \in SUBSET Contexts
  /\ subs \in Subscriptions
  /\ discovered \in BOOLEAN /\ stopping \in BOOLEAN /\ sink \in BOOLEAN /\ accepting \in BOOLEAN
  /\ queue \in Seq(Items)
  /\ pump \in {"off", "draining", "waiting", "stopped"}
  /\ step \in Steps
  /\ calls \in SUBSET Subs /\ running \in Subs \cup {NoSub} /\ fenced \in SUBSET Subs
  /\ teardown \in {"none", "detaching", "marking", "fencing", "done"}
  /\ pump = "off" => \A d \in Devices : inventory[d] = 0

LEMMA CommandFields ==
  ASSUME NEW cmd \in Commands
  PROVE  /\ cmd \in Items
         /\ cmd.op \in {"create", "enable", "capture", "relative", "destroy", "shutdown"}
         /\ cmd.op = "create" => cmd.c \in Contexts /\ cmd.w \in Windows
         /\ cmd.op \in {"enable", "capture", "relative"} => cmd.c \in Contexts /\ cmd.b \in BOOLEAN
         /\ cmd.op = "destroy" => cmd.c \in Contexts
BY DEF Commands, Items

LEMMA StepFields ==
  ASSUME step \in Steps
  PROVE  /\ step.op \in {"none", "create", "destroy", "device", "deadlocked"}
         /\ step.op \in {"create", "destroy"} => step.c \in Contexts
         /\ step.op = "device" => step \in DeviceReports /\ step.d \in Devices /\ step.version \in Versions
         /\ step = NoStep <=> step.op = "none"
BY DEF Steps, NoStep, Deadlocked, DeviceReports

LEMMA ItemReports ==
  ASSUME NEW item \in Items, item.op = "device"
  PROVE  item \in DeviceReports
BY DEF Items, Commands, WindowCommands, DeviceReports, Publications, Cleanups

LEMMA InputTypes == InputTypeInv => InputTypeOK
<1> SUFFICES ASSUME InputTypeInv PROVE InputTypeOK
  OBVIOUS
<1>1. SDLTypeOK
  BY AdapterFields DEF InputTypeInv, SDLTypeOK
<1>2. rec \in [Contexts -> [life : {"None", "Open", "Destroying", "Destroyed"}, enabled : BOOLEAN,
                            captured : BOOLEAN, relative : BOOLEAN, pressed : SUBSET PressKinds]]
  BY DEF InputTypeInv, Records, RecordType, Lives
<1>3. \A s \in Subs : subs[s].topic \in Topics \cup {<<>>} /\ subs[s].life \in {"free", "on", "off"}
  BY DEF InputTypeInv, Subscriptions
<1>4. step.op \in {"none", "create", "destroy", "device", "deadlocked"}
  BY StepFields DEF InputTypeInv
<1>5. {discovered, stopping, sink, accepting} \subseteq BOOLEAN
  BY DEF InputTypeInv
<1> QED BY <1>1, <1>2, <1>3, <1>4, <1>5 DEF InputTypeInv, InputTypeOK

LEMMA InputTypeInit == Init => InputTypeInv
<1> SUFFICES ASSUME Init PROVE InputTypeInv
  OBVIOUS
<1>1. sdl \in Adapter
  <2> DEFINE win == [w \in Windows |-> [alive |-> TRUE, enabled |-> TRUE,
                                        focused |-> w = os.focus, suspended |-> w # os.focus]]
             ctx == [c \in Contexts |-> NoContext]
  <2>1. win \in [Windows -> WindowRecord]
    BY DEF WindowRecord
  <2>2. ctx \in [Contexts -> InputContextRecord] /\ \A c \in Contexts : ~ctx[c].live
    BY NoContextType
  <2>3. sdl = [win |-> win, ctx |-> ctx, capture |-> FALSE, relative |-> {}, text |-> {}]
    BY DEF Init, SDLInit
  <2> HIDE DEF win, ctx
  <2>4. sdl \in SDLState /\ sdl.ctx = ctx
    BY <2>1, <2>2, <2>3 DEF SDLState
  <2> QED BY <2>2, <2>4 DEF Adapter, Bound
<1>2. /\ inventory \in [Devices -> Versions] /\ devices \in [Devices -> Versions]
      /\ \A d \in Devices : inventory[d] = 0
  BY FiniteAssumption DEF Init, SDLInit, Versions
<1>3. os \in [focus : Windows \cup {NoWindow}, events : Seq(FocusEvents)]
  <2>1. <<>> \in Seq(FocusEvents)
    OBVIOUS
  <2>2. os \in [focus : Windows \cup {NoWindow}, events : {<<>>}]
    BY DEF Init, SDLInit
  <2> QED BY <2>1, <2>2
<1>4. rec \in Records
  BY DEF Init, NoRecord, Records, RecordType, Lives
<1>5. subs \in Subscriptions
  BY DEF Init, Subscriptions
<1>6. queue \in Seq(Items)
  <2>1. [op |-> "discover"] \in Items
    BY DEF Items
  <2> QED BY <2>1 DEF Init
<1>7. step \in Steps
  BY DEF Init, Steps
<1> QED BY <1>1, <1>2, <1>3, <1>4, <1>5, <1>6, <1>7 DEF Init, InputTypeInv

(* The queue: a command is taken from its front, others are appended.        *)
LEMMA TailType ==
  ASSUME InputTypeInv, queue # <<>>
  PROVE  Tail(queue) \in Seq(Items) /\ Head(queue) \in Items
BY HeadTailProperties DEF InputTypeInv

LEMMA RunsType ==
  ASSUME InputTypeInv, NEW cmd, Runs(cmd)
  PROVE  queue' \in Seq(Items) /\ step = NoStep
BY TailType DEF InputTypeInv, Runs, Idle, InCallback

LEMMA DeactivatedType ==
  ASSUME subs \in Subscriptions, NEW topics
  PROVE  Deactivated(topics) \in Subscriptions
<1>1. ASSUME NEW s \in Subs
      PROVE  [subs[s] EXCEPT !.life = "off"] \in [topic : Topics \cup {<<>>}, life : {"free", "on", "off"}]
  BY DEF Subscriptions
<1> QED BY <1>1 DEF Deactivated, Subscriptions

LEMMA OffType ==
  ASSUME subs \in Subscriptions, NEW s \in Subs
  PROVE  [subs EXCEPT ![s].life = "off"] \in Subscriptions
<1>1. [subs[s] EXCEPT !.life = "off"] \in [topic : Topics \cup {<<>>}, life : {"free", "on", "off"}]
  BY DEF Subscriptions
<1> QED BY <1>1 DEF Subscriptions

LEMMA DiesType ==
  ASSUME NEW r \in Records, NEW c \in Contexts, NEW life \in Lives
  PROVE  /\ [r EXCEPT ![c].life = life] \in Records
         /\ [r EXCEPT ![c].life = life, ![c].pressed = {}] \in Records
<1>1. r[c] \in RecordType
  BY DEF Records
<1>2. [r[c] EXCEPT !.life = life] \in RecordType
  BY <1>1 DEF RecordType
<1>3. [r[c] EXCEPT !.life = life, !.pressed = {}] \in RecordType
  BY <1>1 DEF RecordType
<1>4. [r EXCEPT ![c].life = life] = [r EXCEPT ![c] = [r[c] EXCEPT !.life = life]]
  BY DEF Records, RecordType
<1>5. [r EXCEPT ![c].life = life, ![c].pressed = {}]
        = [r EXCEPT ![c] = [r[c] EXCEPT !.life = life, !.pressed = {}]]
  BY DEF Records, RecordType
<1> QED BY <1>2, <1>3, <1>4, <1>5 DEF Records

LEMMA RefreshedType ==
  ASSUME InputTypeInv, NEW s \in Adapter, NEW w, NEW invalidated \in BOOLEAN,
         Refreshed(s, w, invalidated)
  PROVE  /\ rec' \in Records
         /\ \A c \in Contexts :
              /\ rec'[c].life = rec[c].life
              /\ rec'[c].pressed \in {{}, rec[c].pressed}
              /\ ~invalidated => rec'[c].pressed = rec[c].pressed
              /\ (invalidated /\ s.win[w].alive /\ sink /\ s.ctx[c].live /\ s.ctx[c].target = w
                    /\ c \in contexts /\ rec[c].life = "Open") => rec'[c].pressed = {}
<1>1. PICK q \in Records :
           /\ ApplyTargetConfiguration(rec, s, w, invalidated) = q
           /\ \A c \in Contexts :
                /\ q[c].life = rec[c].life
                /\ q[c].pressed \in {{}, rec[c].pressed}
                /\ ~invalidated => q[c].pressed = rec[c].pressed
                /\ (invalidated /\ sink /\ s.ctx[c].live /\ s.ctx[c].target = w
                      /\ c \in contexts /\ rec[c].life = "Open") => q[c].pressed = {}
  BY ApplyTargetConfigurationType DEF InputTypeInv
<1>2. rec' = IF s.win[w].alive THEN q ELSE rec
  BY <1>1 DEF Refreshed
<1> QED BY <1>1, <1>2 DEF InputTypeInv

LEMMA TypeCreateContext ==
  ASSUME InputTypeInv, NEW cmd \in Commands, NEW ok \in BOOLEAN,
         cmd.op = "create", CreateContext(cmd, ok)
  PROVE  InputTypeInv'
<1>1. cmd.c \in Contexts /\ cmd.w \in Windows
  BY CommandFields
<1>2. queue' \in Seq(Items)
  BY RunsType DEF CreateContext
<1>3. sdl' \in Adapter /\ rec' \in Records /\ step' \in Steps
  <2>1. CASE stopping \/ ~sdl.win[cmd.w].alive
    BY <2>1 DEF CreateContext, InputTypeInv
  <2>2. CASE ~(stopping \/ ~sdl.win[cmd.w].alive)
    <3>1. /\ sdl' = CreateInputContext(sdl, cmd.c, cmd.w, cmd.wants, ok)
          /\ Refreshed(sdl', cmd.w, FALSE)
          /\ step' = [op |-> "create", c |-> cmd.c]
      BY <2>2 DEF CreateContext
    <3>2. PICK t \in Adapter : sdl' = t
      BY <1>1, <3>1, CreateInputContextType DEF InputTypeInv
    <3>3. rec' \in Records
      BY <3>1, <3>2, RefreshedType
    <3> QED BY <1>1, <3>1, <3>2, <3>3 DEF Steps
  <2> QED BY <2>1, <2>2
<1> QED BY <1>2, <1>3 DEF CreateContext, InputTypeInv, callbacks, ending

LEMMA TypeCreateContextOnRuntime ==
  ASSUME InputTypeInv, CreateContextOnRuntime
  PROVE  InputTypeInv'
<1>1. step.c \in Contexts
  BY StepFields DEF CreateContextOnRuntime, InputTypeInv
<1>2. step' \in Steps
  BY DEF CreateContextOnRuntime, Steps
<1>3. sdl' \in Adapter /\ rec' \in Records /\ contexts' \in SUBSET Contexts
  <2>1. CASE StoppedMeanwhile
    <3>1. PICK t \in Adapter : sdl' = t
      BY <1>1, <2>1, DestroyInputContextType DEF CreateContextOnRuntime, InputTypeInv
    <3> QED BY <2>1, <3>1 DEF CreateContextOnRuntime, InputTypeInv
  <2>2. CASE ~StoppedMeanwhile
    <3>1. [rec EXCEPT ![step.c].life = "Open"] \in Records
      BY <1>1, DiesType DEF InputTypeInv, Lives
    <3>2. rec' \in Records
      BY <1>1, <2>2, <3>1, ConfiguredType DEF CreateContextOnRuntime, InputTypeInv
    <3> QED BY <1>1, <2>2, <3>2 DEF CreateContextOnRuntime, InputTypeInv
  <2> QED BY <2>1, <2>2
<1> QED BY <1>2, <1>3 DEF CreateContextOnRuntime, InputTypeInv, runtime, callbacks, ending

(* The event thread waits for itself: the half-made context lives no more,   *)
(* nobody else's route changes, and another one is bound to the window.      *)
LEMMA UnderLockFrame ==
  ASSUME InputTypeInv, DestroyContextUnderLock
  PROVE  /\ step.op = "create" /\ step.c \in Contexts /\ stopping /\ sink
         /\ step' = Deadlocked /\ step'.op = "deadlocked"
         /\ UNCHANGED <<inventory, os, rec, contexts, devices, discovered, subs, stopping, sink,
                        queue, accepting, pump, calls, running, fenced, teardown, owned, native, requests>>
BY StepFields DEF DestroyContextUnderLock, WaitsForItself, StoppedMeanwhile, InputTypeInv, Deadlocked,
                  tables, runtime, callbacks, ending, budget

LEMMA UnderLockEffect ==
  ASSUME InputTypeInv, DestroyContextUnderLock
  PROVE  \E t \in Adapter :
           /\ sdl' = t
           /\ t.win = sdl.win
           /\ ~t.ctx[step.c].live
           /\ \A d \in Contexts \ {step.c} : /\ t.ctx[d].live = sdl.ctx[d].live
                                             /\ t.ctx[d].target = sdl.ctx[d].target
                                             /\ t.ctx[d].enabled = sdl.ctx[d].enabled
           /\ t.capture => sdl.capture \/ \E c \in Contexts : sdl.ctx[c].live
           /\ \E c \in Contexts : sdl.ctx[c].live
<1>1. PICK c \in Contexts : c = step.c
  BY UnderLockFrame
<1> DEFINE gone == [sdl EXCEPT !.ctx[c] = NoContext]
<1>2. /\ gone \in Adapter /\ gone.win = sdl.win /\ gone.capture = sdl.capture
      /\ gone.ctx = [sdl.ctx EXCEPT ![c] = NoContext]
  <2>1. sdl \in Adapter
    BY DEF InputTypeInv
  <2>2. gone \in Adapter
    BY <2>1, NoContextType, WithContextType
  <2> QED BY <2>1, <2>2, AdapterFields DEF SDLState
<1>3. \E w : \E first \in BoundTo(gone, w) : sdl' = RefreshedUpTo(gone, w, first)
  <2>1. [sdl EXCEPT !.ctx[step.c] = NoContext] = gone
    BY <1>1
  <2> QED BY <2>1 DEF DestroyContextUnderLock
<1>4. /\ ~gone.ctx[c].live
      /\ \A d \in Contexts \ {c} : gone.ctx[d] = sdl.ctx[d]
  BY <1>2, AdapterFields, NoContextType DEF InputTypeInv
<1> HIDE DEF gone
<1>5. PICK w : \E f \in BoundTo(gone, w) : sdl' = RefreshedUpTo(gone, w, f)
  BY <1>3
<1>11. PICK first \in BoundTo(gone, w) : sdl' = RefreshedUpTo(gone, w, first)
  BY <1>5
<1>6. first \in Contexts /\ gone.ctx[first].live
  BY <1>11 DEF BoundTo
<1>7. PICK t \in Adapter : RefreshedUpTo(gone, w, first) = t /\ SameBut(gone, t)
  BY <1>2, <1>6, RefreshedUpToType
<1>8. \A d \in Contexts \ {c} : /\ t.ctx[d].live = sdl.ctx[d].live
                                /\ t.ctx[d].target = sdl.ctx[d].target
                                /\ t.ctx[d].enabled = sdl.ctx[d].enabled
  BY <1>4, <1>7 DEF SameBut
<1>9. first # c /\ sdl.ctx[first].live
  BY <1>4, <1>6
<1>10. t.win = sdl.win /\ ~t.ctx[c].live /\ (t.capture => sdl.capture \/ \E d \in Contexts : sdl.ctx[d].live)
  BY <1>2, <1>4, <1>6, <1>7, <1>9 DEF SameBut
<1> QED BY <1>1, <1>6, <1>7, <1>8, <1>9, <1>10, <1>11

LEMMA TypeDestroyContextUnderLock ==
  ASSUME InputTypeInv, DestroyContextUnderLock
  PROVE  InputTypeInv'
<1>1. sdl' \in Adapter
  BY UnderLockEffect
<1>2. step' \in Steps
  BY UnderLockFrame DEF Steps
<1> QED BY <1>1, <1>2, UnderLockFrame DEF InputTypeInv

LEMMA MutatedType ==
  ASSUME InputTypeInv, NEW cmd \in Commands, NEW ok \in BOOLEAN,
         cmd.op \in {"enable", "capture", "relative"}
  PROVE  \E t \in Adapter : Mutated(cmd, ok) = t /\ t.win = sdl.win /\ SameRoutes(sdl, t)
<1>1. cmd.c \in Contexts /\ cmd.b \in BOOLEAN /\ sdl \in Adapter
  BY CommandFields DEF InputTypeInv
<1>2. CASE cmd.op = "enable"
  BY <1>1, <1>2, SetContextEnabledType DEF Mutated
<1>3. CASE cmd.op = "capture"
  BY <1>1, <1>3, SetContextCaptureType DEF Mutated
<1>4. CASE cmd.op = "relative"
  BY <1>1, <1>4, SetRelativePointerModeType DEF Mutated
<1> QED BY <1>2, <1>3, <1>4

LEMMA ToldRecordsType ==
  ASSUME rec \in Records, NEW cmd, NEW s \in Adapter
  PROVE  \E told \in Records :
           /\ Told(cmd, s) = told
           /\ \A c \in Contexts : told[c].life = rec[c].life /\ told[c].pressed = rec[c].pressed
<1>1. PICK w : w = s.ctx[cmd.c].target
  OBVIOUS
<1>0. PICK no \in BOOLEAN : no = FALSE
  OBVIOUS
<1>2. PICK q \in Records :
        /\ ApplyTargetConfiguration(rec, s, w, no) = q
        /\ \A c \in Contexts : q[c].life = rec[c].life /\ q[c].pressed = rec[c].pressed
  BY <1>0, ToldType
<1>3. Told(cmd, s) = q \/ Told(cmd, s) = rec
  BY <1>0, <1>1, <1>2 DEF Told
<1> QED BY <1>2, <1>3

(* What a mutation makes of the records.                                     *)
LEMMA TakenType ==
  ASSUME InputTypeInv, NEW cmd \in Commands, cmd.op \in {"enable", "capture", "relative"},
         NEW s \in Adapter
  PROVE  /\ Taken(cmd, Told(cmd, s), s) \in Records
         /\ \A c \in Contexts :
              /\ Taken(cmd, Told(cmd, s), s)[c].life = rec[c].life
              /\ Taken(cmd, Told(cmd, s), s)[c].pressed \in {{}, rec[c].pressed}
<1>1. cmd.c \in Contexts
  BY CommandFields
<1>2. PICK told \in Records :
        /\ Told(cmd, s) = told
        /\ \A c \in Contexts : told[c].life = rec[c].life /\ told[c].pressed = rec[c].pressed
  BY ToldRecordsType DEF InputTypeInv
<1>3. PICK r \in Records :
        /\ r = IF told[cmd.c].enabled /\ ~s.ctx[cmd.c].enabled
               THEN [told EXCEPT ![cmd.c].pressed = {}] ELSE told
        /\ \A c \in Contexts : r[c].life = told[c].life /\ r[c].pressed \in {{}, told[c].pressed}
  <2> DEFINE q == [told[cmd.c] EXCEPT !.pressed = {}]
             r == [told EXCEPT ![cmd.c].pressed = {}]
  <2>1. told[cmd.c] \in RecordType
    BY <1>1 DEF Records
  <2>2. q \in RecordType /\ q.life = told[cmd.c].life /\ q.pressed = {}
    BY <2>1 DEF RecordType
  <2>3. r = [told EXCEPT ![cmd.c] = q]
    BY DEF Records, RecordType
  <2> HIDE DEF q, r
  <2>4. /\ r \in Records
        /\ \A c \in Contexts : r[c].life = told[c].life /\ r[c].pressed \in {{}, told[c].pressed}
    BY <1>1, <2>2, <2>3 DEF Records
  <2>5. CASE told[cmd.c].enabled /\ ~s.ctx[cmd.c].enabled
    BY <2>4, <2>5 DEF r
  <2>6. CASE ~(told[cmd.c].enabled /\ ~s.ctx[cmd.c].enabled)
    BY <2>6
  <2> QED BY <2>5, <2>6
<1>4. Taken(cmd, told, s) = Configured(r, s, cmd.c)
  BY <1>3 DEF Taken
<1>5. PICK x : x = Configured(r, s, cmd.c)
  OBVIOUS
<1>6. /\ x \in Records /\ x[cmd.c].life = r[cmd.c].life /\ x[cmd.c].pressed = r[cmd.c].pressed
      /\ \A d \in Contexts \ {cmd.c} : x[d] = r[d]
  BY <1>1, <1>5, ConfiguredType
<1>7. \A c \in Contexts : x[c].life = rec[c].life /\ x[c].pressed \in {{}, rec[c].pressed}
  BY <1>2, <1>3, <1>6
<1>8. Taken(cmd, Told(cmd, s), s) = x
  BY <1>2, <1>4, <1>5
<1> QED BY <1>6, <1>7, <1>8

LEMMA TypeMutateOnRuntime ==
  ASSUME InputTypeInv, NEW cmd \in Commands, NEW ok \in BOOLEAN,
         cmd.op \in {"enable", "capture", "relative"}, MutateOnRuntime(cmd, ok)
  PROVE  InputTypeInv'
<1>1. queue' \in Seq(Items)
  BY RunsType DEF MutateOnRuntime
<1>2. sdl' \in Adapter /\ rec' \in Records
  <2>1. CASE UNCHANGED <<sdl, rec>>
    BY <2>1 DEF InputTypeInv
  <2>2. CASE sdl' = Mutated(cmd, ok) /\ rec' = Taken(cmd, Told(cmd, sdl'), sdl')
    <3>1. PICK t \in Adapter : sdl' = t
      BY <2>2, MutatedType
    <3>2. rec' = Taken(cmd, Told(cmd, t), t)
      BY <2>2, <3>1
    <3> QED BY <3>1, <3>2, TakenType
  <2> QED BY <2>1, <2>2 DEF MutateOnRuntime
<1> QED BY <1>1, <1>2 DEF MutateOnRuntime, InputTypeInv, callbacks, ending

LEMMA TypeDestroyContext ==
  ASSUME InputTypeInv, NEW cmd \in Commands, cmd.op = "destroy", DestroyContext(cmd)
  PROVE  InputTypeInv'
<1>1. queue' \in Seq(Items)
  BY RunsType DEF DestroyContext
<1>2. cmd.c \in Contexts
  BY CommandFields
<1>3. [rec EXCEPT ![cmd.c].life = "Destroying"] \in Records
  BY <1>2, DiesType DEF InputTypeInv, Lives
<1>4. rec' \in Records /\ step' \in Steps
  BY <1>2, <1>3 DEF DestroyContext, InputTypeInv, Steps
<1> QED BY <1>1, <1>4 DEF DestroyContext, InputTypeInv, callbacks, ending, adapter

LEMMA TypeDestroyContextOnRuntime ==
  ASSUME InputTypeInv, DestroyContextOnRuntime
  PROVE  InputTypeInv'
<1>1. step.c \in Contexts
  BY StepFields DEF DestroyContextOnRuntime, InputTypeInv
<1>2. step' \in Steps
  BY DEF DestroyContextOnRuntime, Steps
<1>3. PICK t \in Adapter : sdl' = t
  BY <1>1, DestroyInputContextType DEF DestroyContextOnRuntime, InputTypeInv
<1>0. PICK w : w = sdl.ctx[step.c].target
  OBVIOUS
<1>00. PICK no \in BOOLEAN : no = FALSE
  OBVIOUS
<1>4. PICK told \in Records : told = ApplyTargetConfiguration(rec, t, w, no)
  BY <1>00, ToldType DEF InputTypeInv
<1>5. rec' = [told EXCEPT ![step.c].life = "Destroyed", ![step.c].pressed = {}]
  BY <1>0, <1>00, <1>3, <1>4 DEF DestroyContextOnRuntime
<1>6. rec' \in Records
  BY <1>1, <1>5, DiesType DEF Lives
<1>7. subs' \in Subscriptions
  BY DeactivatedType DEF DestroyContextOnRuntime, InputTypeInv
<1>8. /\ contexts' = contexts \ {step.c}
      /\ UNCHANGED <<os, inventory, devices, discovered, pump, queue, accepting, calls, running, fenced, ending>>
  BY DEF DestroyContextOnRuntime, runtime, callbacks
<1>9. UNCHANGED <<teardown, owned, stopping, sink>>
  BY <1>8 DEF ending
<1>10. contexts' \in SUBSET Contexts
  BY <1>8 DEF InputTypeInv
<1> QED BY <1>2, <1>3, <1>6, <1>7, <1>8, <1>9, <1>10 DEF InputTypeInv

LEMMA DestroyRecordsType ==
  ASSUME rec \in Records, NEW cs \in SUBSET Contexts
  PROVE  DestroyRecords(cs) \in Records
<1>1. ASSUME NEW c \in Contexts
      PROVE  [rec[c] EXCEPT !.life = "Destroyed", !.pressed = {}] \in RecordType
  BY DEF Records, RecordType, Lives
<1> QED BY <1>1 DEF DestroyRecords, Records

(* A shutdown of the manager: all contexts of the adapter go.                *)
LEMMA ShutdownAllType ==
  ASSUME InputTypeInv, NEW cs \in SUBSET Contexts
  PROVE  \E t \in Adapter : /\ ShutdownInput(DestroyAll(sdl, cs)) = t
                            /\ t.win = sdl.win /\ ~t.capture
                            /\ \A c \in Contexts : ~t.ctx[c].live
<1>1. PICK s \in Adapter : DestroyAll(sdl, cs) = s /\ s.win = sdl.win
  BY DestroyAllType DEF InputTypeInv
<1>2. PICK t \in Adapter : /\ ShutdownInput(s) = t /\ t.win = s.win /\ ~t.capture
                           /\ \A c \in Contexts : ~t.ctx[c].live
  BY ShutdownInputType
<1> QED BY <1>1, <1>2

LEMMA TypeCleanupOnRuntime ==
  ASSUME InputTypeInv, NEW cmd \in Commands, CleanupOnRuntime(cmd)
  PROVE  InputTypeInv'
<1>1. queue' \in Seq(Items)
  BY RunsType DEF CleanupOnRuntime
<1>2. CASE stopping
  BY <1>1, <1>2 DEF CleanupOnRuntime, InputTypeInv, tables, callbacks
<1>3. CASE ~stopping
  <2>1. PICK t \in Adapter : sdl' = t
    BY <1>3, ShutdownAllType DEF CleanupOnRuntime, InputTypeInv
  <2>2. rec' \in Records /\ subs' \in Subscriptions
    BY <1>3, DestroyRecordsType, DeactivatedType DEF CleanupOnRuntime, InputTypeInv
  <2>3. devices' \in [Devices -> Versions]
    BY <1>3, FiniteAssumption DEF CleanupOnRuntime, Versions
  <2> QED BY <1>1, <1>3, <2>1, <2>2, <2>3 DEF CleanupOnRuntime, InputTypeInv, callbacks
<1> QED BY <1>2, <1>3

LEMMA TypeCleanup ==
  ASSUME InputTypeInv, NEW cs \in SUBSET Contexts, Cleanup(cs)
  PROVE  InputTypeInv'
<1>1. queue' \in Seq(Items)
  BY TailType DEF Cleanup
<1>2. PICK t \in Adapter : sdl' = t
  BY ShutdownAllType DEF Cleanup
<1> QED BY <1>1, <1>2 DEF Cleanup, InputTypeInv, callbacks, ending, tables

(* Publications, devices and callbacks.                                      *)
LEMMA AfterType ==
  ASSUME NEW pressed \in SUBSET PressKinds, NEW kind \in Kinds, NEW down \in BOOLEAN
  PROVE  /\ After(pressed, kind, down) \in SUBSET PressKinds
         /\ kind \notin PressKinds => After(pressed, kind, down) = pressed
         /\ "key" \in After(pressed, kind, down) => "key" \in pressed \/ kind = "key"
BY KindsAssumption
DEF After, AfterKeyboard, AfterPointerButton, AfterTouch, AfterPlain, With, Kinds

LEMMA TypePublish ==
  ASSUME InputTypeInv, NEW c \in Contexts, NEW kind \in Kinds, NEW down \in BOOLEAN,
         Publish(c, kind, down)
  PROVE  InputTypeInv'
<1>1. queue' \in Seq(Items)
  BY TailType DEF Publish
<1>2. rec' \in Records
  <2>1. PICK p : p = After(rec[c].pressed, kind, down)
    OBVIOUS
  <2>2. rec[c] \in RecordType /\ rec[c].pressed \in SUBSET PressKinds
    BY DEF InputTypeInv, Records, RecordType
  <2>3. p \in SUBSET PressKinds
    BY <2>1, <2>2, AfterType
  <2>4. [rec[c] EXCEPT !.pressed = p] \in RecordType
    BY <2>2, <2>3 DEF RecordType
  <2>5. [rec EXCEPT ![c].pressed = p] = [rec EXCEPT ![c] = [rec[c] EXCEPT !.pressed = p]]
    BY DEF InputTypeInv, Records, RecordType
  <2>6. rec' = [rec EXCEPT ![c].pressed = p] \/ rec' = rec
    BY <2>1 DEF Publish, InputTypeInv, Records, RecordType
  <2> QED BY <2>4, <2>5, <2>6 DEF InputTypeInv, Records
<1>3. calls' \in SUBSET Subs
  BY DEF Publish, InputTypeInv, SnapshotSubscriptions
<1> QED BY <1>1, <1>2, <1>3 DEF Publish, InputTypeInv, ending, adapter

LEMMA TypeTakeDeviceEvent ==
  ASSUME InputTypeInv, TakeDeviceEvent
  PROVE  InputTypeInv'
<1>1. queue' \in Seq(Items) /\ Head(queue) \in DeviceReports
  BY TailType, ItemReports DEF TakeDeviceEvent
<1>2. step' \in Steps
  BY <1>1 DEF TakeDeviceEvent, Steps
<1> QED BY <1>1, <1>2 DEF TakeDeviceEvent, InputTypeInv, ending, adapter, tables, callbacks

LEMMA TypePublishDeviceChanged ==
  ASSUME InputTypeInv, PublishDeviceChanged
  PROVE  InputTypeInv'
<1>1. step.d \in Devices /\ step.version \in Versions
  BY StepFields DEF PublishDeviceChanged, InputTypeInv
<1>2. step' \in Steps
  BY DEF PublishDeviceChanged, Steps
<1>3. devices' \in [Devices -> Versions] /\ calls' \in SUBSET Subs
  BY <1>1 DEF PublishDeviceChanged, InputTypeInv, SnapshotSubscriptions
<1> QED BY <1>2, <1>3 DEF PublishDeviceChanged, InputTypeInv, ending, adapter, runtime

LEMMA TypeDiscover ==
  ASSUME InputTypeInv, DiscoverConnectedDevicesOnRuntime
  PROVE  InputTypeInv'
<1>1. queue' \in Seq(Items)
  BY TailType DEF DiscoverConnectedDevicesOnRuntime
<1>2. devices' \in [Devices -> Versions]
  BY DEF DiscoverConnectedDevicesOnRuntime, InputTypeInv
<1> QED BY <1>1, <1>2 DEF DiscoverConnectedDevicesOnRuntime, InputTypeInv, adapter, callbacks, ending

LEMMA TypeInvoke ==
  ASSUME InputTypeInv, Invoke
  PROVE  InputTypeInv'
BY DEF Invoke, InputTypeInv, adapter, tables, runtime, ending

LEMMA TypeCallbackReturns ==
  ASSUME InputTypeInv, CallbackReturns
  PROVE  InputTypeInv'
BY DEF CallbackReturns, InputTypeInv, adapter, tables, runtime, ending

LEMMA TypeResetInCallback ==
  ASSUME InputTypeInv, NEW s \in Subs, ResetInCallback(s)
  PROVE  InputTypeInv'
<1>1. subs' \in Subscriptions
  BY OffType DEF ResetInCallback, InputTypeInv
<1> QED BY <1>1 DEF ResetInCallback, InputTypeInv, adapter, runtime, callbacks, ending

(* Other threads.                                                            *)
LEMMA TypeSubmit ==
  ASSUME InputTypeInv, NEW cmd \in Commands, Submit(cmd)
  PROVE  InputTypeInv'
<1>1. queue' \in Seq(Items)
  BY CommandFields, AppendProperties DEF Submit, InputTypeInv
<1> QED BY <1>1 DEF Submit, InputTypeInv, adapter, tables, callbacks, ending

LEMMA TypeSubmitWindow ==
  ASSUME InputTypeInv, NEW cmd \in WindowCommands, SubmitWindow(cmd)
  PROVE  InputTypeInv'
<1>1. cmd \in Items
  BY DEF Items
<1>2. queue' \in Seq(Items)
  BY <1>1, AppendProperties DEF SubmitWindow, InputTypeInv
<1> QED BY <1>2 DEF SubmitWindow, InputTypeInv, adapter, tables, callbacks, ending

LEMMA TypeSubscribe ==
  ASSUME InputTypeInv, NEW s \in Subs, NEW topic \in Topics, Subscribe(s, topic)
  PROVE  InputTypeInv'
<1>1. subs' \in Subscriptions
  BY DEF Subscribe, InputTypeInv, Subscriptions
<1> QED BY <1>1 DEF Subscribe, InputTypeInv, adapter, runtime, callbacks, ending

LEMMA TypeReset ==
  ASSUME InputTypeInv, NEW s \in Subs, Reset(s)
  PROVE  InputTypeInv'
<1>1. subs' \in Subscriptions
  BY OffType DEF Reset, InputTypeInv
<1> QED BY <1>1 DEF Reset, InputTypeInv, adapter, runtime, ending

LEMMA TypeTeardownBegins ==
  ASSUME InputTypeInv, BeginTeardown \/ DetachAllContexts \/ RequestStop
  PROVE  InputTypeInv'
BY DEF BeginTeardown, DetachAllContexts, RequestStop, InputTypeInv, adapter, tables, runtime, callbacks, ending

LEMMA TypeMarkRecordDestroyed ==
  ASSUME InputTypeInv, NEW c \in Contexts, MarkRecordDestroyed(c)
  PROVE  InputTypeInv'
<1>1. rec' \in Records
  BY DiesType DEF MarkRecordDestroyed, InputTypeInv, Lives
<1> QED BY <1>1 DEF MarkRecordDestroyed, InputTypeInv, adapter, runtime, callbacks, ending

LEMMA TypeFence ==
  ASSUME InputTypeInv, NEW s \in Subs, Fence(s)
  PROVE  InputTypeInv'
<1>1. subs' \in Subscriptions
  BY OffType DEF Fence, InputTypeInv
<1> QED BY <1>1 DEF Fence, InputTypeInv, adapter, runtime, ending

LEMMA TypeDeactivateManagerSubscriptions ==
  ASSUME InputTypeInv, DeactivateManagerSubscriptions
  PROVE  InputTypeInv'
<1>1. devices' \in [Devices -> Versions]
  BY FiniteAssumption DEF DeactivateManagerSubscriptions, Versions
<1> QED BY <1>1 DEF DeactivateManagerSubscriptions, InputTypeInv, adapter, runtime, callbacks

LEMMA TypePostCleanup ==
  ASSUME InputTypeInv, PostCleanup
  PROVE  InputTypeInv'
<1>1. [op |-> "cleanup", cs |-> owned] \in Items
  BY DEF InputTypeInv, Items, Cleanups
<1>2. queue' \in Seq(Items)
  BY <1>1, AppendProperties DEF PostCleanup, InputTypeInv
<1> QED BY <1>2 DEF PostCleanup, InputTypeInv, adapter, tables, callbacks
(* The windows and the system.                                               *)
LEMMA TypeWindowInput ==
  ASSUME InputTypeInv, NEW w \in Windows, NEW b \in BOOLEAN, NEW ok \in BOOLEAN, WindowInput(w, b, ok)
  PROVE  InputTypeInv'
<1>1. queue' \in Seq(Items)
  BY TailType DEF WindowInput
<1>2. sdl' \in Adapter /\ rec' \in Records
  <2>1. CASE UNCHANGED <<sdl, rec>>
    BY <2>1 DEF InputTypeInv
  <2>2. CASE /\ sdl' = SetInputEnabled(sdl, w, b, ok)
             /\ UNCHANGED rec \/ Refreshed(sdl', w, ~b)
    <3>1. PICK t \in Adapter : sdl' = t
      BY <2>2, SetInputEnabledType DEF InputTypeInv
    <3>2. PICK invalidated \in BOOLEAN : invalidated = ~b
      OBVIOUS
    <3>3. UNCHANGED rec \/ Refreshed(t, w, invalidated)
      BY <2>2, <3>1, <3>2
    <3>4. rec' \in Records
      BY <3>3, RefreshedType DEF InputTypeInv
    <3> QED BY <3>1, <3>4
  <2> QED BY <2>1, <2>2 DEF WindowInput
<1> QED BY <1>1, <1>2 DEF WindowInput, InputTypeInv, callbacks, ending

LEMMA TypeWindowMutation ==
  ASSUME InputTypeInv, NEW w \in Windows, WindowMutation(w)
  PROVE  InputTypeInv'
<1>1. queue' \in Seq(Items)
  BY TailType DEF WindowMutation
<1>2. PICK t \in Adapter : Query(sdl, w) = t
  BY QueryType DEF InputTypeInv
<1>3. sdl' \in Adapter
  BY <1>2 DEF WindowMutation, InputTypeInv
<1> QED BY <1>1, <1>3 DEF WindowMutation, InputTypeInv, callbacks, ending, tables

LEMMA TypeTurns ==
  ASSUME InputTypeInv, Wait \/ Woken
  PROVE  InputTypeInv'
BY DEF Wait, Woken, InputTypeInv, adapter, tables, callbacks, ending

LEMMA ShutdownPumpType ==
  ASSUME NEW s \in Adapter
  PROVE  \E t \in Adapter : /\ ShutdownWindows(ShutdownInput(s)) = t
                            /\ \A c \in Contexts : ~t.ctx[c].live
<1>1. PICK r \in Adapter : ShutdownInput(s) = r /\ \A c \in Contexts : ~r.ctx[c].live
  BY ShutdownInputType
<1>2. PICK t \in Adapter : ShutdownWindows(r) = t /\ SameRoutes(r, t)
  BY ShutdownWindowsType
<1> QED BY <1>1, <1>2 DEF SameRoutes

LEMMA TypeStopPump ==
  ASSUME InputTypeInv, StopPump
  PROVE  InputTypeInv'
<1>1. PICK t \in Adapter : ShutdownWindows(ShutdownInput(sdl)) = t
  BY ShutdownPumpType DEF InputTypeInv
<1>2. inventory' \in [Devices -> Versions]
  BY FiniteAssumption DEF StopPump, Versions
<1> QED BY <1>1, <1>2 DEF StopPump, InputTypeInv, callbacks, ending, tables

LEMMA TypeFocusMoves ==
  ASSUME InputTypeInv, NEW w \in Windows \cup {NoWindow}, FocusMoves(w)
  PROVE  InputTypeInv'
<1> DEFINE lost == IF os.focus = NoWindow THEN <<>> ELSE <<[t |-> "lost", w |-> os.focus]>>
           gained == IF w = NoWindow THEN <<>> ELSE <<[t |-> "gained", w |-> w]>>
<1>1. os.focus \in Windows \cup {NoWindow} /\ os.events \in Seq(FocusEvents)
  BY DEF InputTypeInv
<1>2. lost \in Seq(FocusEvents) /\ gained \in Seq(FocusEvents)
  <2>1. [t |-> "gained", w |-> w] \in FocusEvents \/ w = NoWindow
    BY DEF FocusEvents
  <2>2. [t |-> "lost", w |-> os.focus] \in FocusEvents \/ os.focus = NoWindow
    BY <1>1 DEF FocusEvents
  <2> QED BY <2>1, <2>2
<1>3. os' = [focus |-> w, events |-> os.events \o lost \o gained]
  BY DEF FocusMoves
<1> HIDE DEF lost, gained
<1>4. os.events \o lost \o gained \in Seq(FocusEvents)
  BY <1>1, <1>2, ConcatProperties
<1>5. os' \in [focus : Windows \cup {NoWindow}, events : Seq(FocusEvents)]
  BY <1>3, <1>4
<1> QED BY <1>5 DEF FocusMoves, InputTypeInv, tables, runtime, callbacks, ending

(* What the adapter posts.                                                   *)
LEMMA OrderedType ==
  ASSUME NEW S, IsFiniteSet(S), NEW ds \in SetToSeqs(S)
  PROVE  /\ ds \in Seq(S)
         /\ \A x \in S : \E i \in DOMAIN ds : ds[i] = x
         /\ \A i, j \in DOMAIN ds : i # j => ds[i] # ds[j]
<1>1. PICK n \in Nat : n = Cardinality(S)
  BY FS_CardinalityType
<1>2. ds \in [1..n -> S] /\ \A i, j \in 1..n : i # j => ds[i] # ds[j]
  BY <1>1 DEF SetToSeqs
<1>3. ds \in Injection(1..n, S)
  BY <1>2 DEF Injection, IsInjective
<1>4. IsFiniteSet(1..n) /\ Cardinality(1..n) = n
  BY FS_Interval
<1>5. ds \in Surjection(1..n, S)
  BY <1>1, <1>3, <1>4, FS_Injection
<1>6. \A x \in S : \E i \in 1..n : ds[i] = x
  BY <1>5 DEF Surjection
<1>7. ds \in Seq(S)
  BY <1>2
<1> QED BY <1>2, <1>6, <1>7

LEMMA PublishedType ==
  ASSUME InputTypeInv, NEW w \in Windows, NEW kind \in Kinds, NEW down \in BOOLEAN,
         NEW cs \in SetToSeqs(InputTargetsForWindow(sdl, w))
  PROVE  Published(cs, kind, down) \in Seq(Publications)
<1>1. PICK S \in SUBSET Contexts : S = InputTargetsForWindow(sdl, w)
  BY DEF InputTargetsForWindow, BoundTo
<1>2. cs \in Seq(S)
  BY <1>1, FS_Subset, FiniteAssumption, OrderedType
<1>3. DOMAIN cs = 1..Len(cs) /\ Len(cs) \in Nat
  BY <1>2
<1>4. ASSUME NEW i \in 1..Len(cs)
      PROVE  [op |-> "publish", c |-> cs[i], kind |-> kind, down |-> down] \in Publications
  BY <1>2, <1>4, ElementOfSeq DEF Publications
<1> QED BY <1>3, <1>4 DEF Published

LEMMA PostType ==
  ASSUME InputTypeInv, NEW events \in Seq(Items), Post(events)
  PROVE  queue' \in Seq(Items)
BY ConcatProperties DEF Post, InputTypeInv

LEMMA ItemsType ==
  /\ \A events \in Seq(DeviceReports) : events \in Seq(Items)
  /\ \A events \in Seq(Publications) : events \in Seq(Items)
BY DEF Items

(* A report says what becomes of the device, and there is one if it changes. *)
LEMMA ReportType ==
  ASSUME NEW d \in Devices, NEW version \in Versions
  PROVE  /\ version # 0 => AddOrUpdateDevice(d, version) \in Seq(DeviceReports)
         /\ RemoveDevice(d) \in Seq(DeviceReports)
<1>1. ASSUME NEW change \in {"Connected", "Updated", "Disconnected"}, NEW v \in Versions
      PROVE  Report(d, change, v) \in Seq(DeviceReports)
  <2>1. [op |-> "device", d |-> d, change |-> change, version |-> v] \in DeviceReports
    BY DEF DeviceReports
  <2> QED BY <2>1 DEF Report
<1>2. <<>> \in Seq(DeviceReports)
  OBVIOUS
<1>3. 0 \in Versions
  BY FiniteAssumption DEF Versions
<1>4. RemoveDevice(d) \in Seq(DeviceReports)
  BY <1>1, <1>2, <1>3 DEF RemoveDevice
<1>5. AddOrUpdateDevice(d, version) \in Seq(DeviceReports)
  BY <1>1, <1>2 DEF AddOrUpdateDevice
<1> QED BY <1>4, <1>5

LEMMA StartPosts ==
  ASSUME InputTypeInv, NEW connected \in SUBSET Devices, StartPump(connected)
  PROVE  \E events \in Seq(Items) : Post(events)
<1>2. PICK ds \in SetToSeqs(connected) : Post([i \in DOMAIN ds |-> AddOrUpdateDevice(ds[i], 1)[1]])
  BY DEF StartPump
<1> DEFINE events == [i \in DOMAIN ds |-> AddOrUpdateDevice(ds[i], 1)[1]]
<1>3. ds \in Seq(connected)
  BY FS_Subset, FiniteAssumption, OrderedType
<1>4. DOMAIN ds = 1..Len(ds) /\ Len(ds) \in Nat
  BY <1>3
<1>5. ASSUME NEW i \in 1..Len(ds)
      PROVE  AddOrUpdateDevice(ds[i], 1)[1] \in DeviceReports
  <2>1. ds[i] \in Devices
    BY <1>3, <1>5, ElementOfSeq
  <2>2. inventory[ds[i]] = 0
    BY <2>1 DEF StartPump, InputTypeInv
  <2> QED BY <2>1, <2>2, FiniteAssumption DEF AddOrUpdateDevice, Report, DeviceReports, Versions
<1>6. events \in Seq(Items)
  BY <1>4, <1>5 DEF Items
<1> HIDE DEF events
<1> QED BY <1>2, <1>6 DEF events

LEMMA TypeStartPump ==
  ASSUME InputTypeInv, NEW connected \in SUBSET Devices, StartPump(connected)
  PROVE  InputTypeInv'
<1>1. inventory' \in [Devices -> Versions]
  BY FiniteAssumption DEF StartPump, Versions
<1>2. queue' \in Seq(Items)
  BY StartPosts, PostType
<1> QED BY <1>1, <1>2 DEF StartPump, InputTypeInv, tables, callbacks, ending

LEMMA TypeDispatchFocus ==
  ASSUME InputTypeInv, NEW w \in Windows, NEW gained \in BOOLEAN, NEW ok \in BOOLEAN,
         DispatchFocus(w, gained, ok)
  PROVE  InputTypeInv'
<1>1. os' \in [focus : Windows \cup {NoWindow}, events : Seq(FocusEvents)]
  <2>1. os.events \in Seq(FocusEvents) /\ os.events # <<>>
    BY DEF DispatchFocus, InputTypeInv
  <2>2. PICK rest \in Seq(FocusEvents) : rest = Tail(os.events)
    BY <2>1, HeadTailProperties
  <2>3. os' = [os EXCEPT !.events = rest]
    BY <2>2 DEF DispatchFocus
  <2> QED BY <2>2, <2>3 DEF InputTypeInv
<1>2. sdl' \in Adapter /\ rec' \in Records
  <2>1. CASE UNCHANGED <<sdl, rec>>
    BY <2>1 DEF InputTypeInv
  <2>2. CASE /\ sdl' = IF gained THEN FocusGained(sdl, w, ok) ELSE FocusLost(sdl, w, ok)
             /\ UNCHANGED rec \/ Refreshed(sdl', w, ~gained)
    <3>1. PICK t \in Adapter : sdl' = t
      BY <2>2, FocusGainedType, FocusLostType DEF InputTypeInv
    <3>2. PICK invalidated \in BOOLEAN : invalidated = ~gained
      OBVIOUS
    <3>3. UNCHANGED rec \/ Refreshed(t, w, invalidated)
      BY <2>2, <3>1, <3>2
    <3>4. rec' \in Records
      BY <3>3, RefreshedType DEF InputTypeInv
    <3> QED BY <3>1, <3>4
  <2> QED BY <2>1, <2>2 DEF DispatchFocus
<1> QED BY <1>1, <1>2 DEF DispatchFocus, Delivered, InputTypeInv, callbacks, ending

(* The last configuration of a window that goes.                             *)
LEMMA LastType ==
  ASSUME InputTypeInv, NEW w \in Windows, NEW taken \in BOOLEAN, NEW ok \in BOOLEAN
  PROVE  \E last \in Adapter :
           /\ (IF taken THEN InvalidateRemovedInputTarget(sdl, w, ok) ELSE PrepareWindowRemoval(sdl, {w})) = last
           /\ SameRoutes(sdl, last)
           /\ \A v \in Windows \ {w} : last.win[v].alive = sdl.win[v].alive
<1>1. PICK s \in Adapter : /\ InvalidateRemovedInputTarget(sdl, w, ok) = s
                          /\ SameRoutes(sdl, s)
                          /\ \A v \in Windows : s.win[v].alive <=> sdl.win[v].alive /\ v # w
  BY InvalidateRemovedInputTargetType DEF InputTypeInv
<1>2. PICK ws \in SUBSET Windows : ws = {w}
  OBVIOUS
<1>3. PICK t \in Adapter : PrepareWindowRemoval(sdl, ws) = t /\ SameAlive(sdl, t) /\ SameRoutes(sdl, t)
  BY PrepareWindowRemovalType DEF InputTypeInv
<1>4. s.win \in [Windows -> WindowRecord] /\ sdl.win \in [Windows -> WindowRecord]
  BY AdapterFields DEF InputTypeInv
<1>5. \A v \in Windows \ {w} : s.win[v].alive = sdl.win[v].alive
  BY <1>1, <1>4 DEF WindowRecord
<1>6. CASE taken
  BY <1>1, <1>5, <1>6
<1>7. CASE ~taken
  BY <1>2, <1>3, <1>7 DEF SameAlive
<1> QED BY <1>6, <1>7

LEMMA TypeDispatchClosed ==
  ASSUME InputTypeInv, NEW w \in Windows, NEW taken \in BOOLEAN, NEW ok \in BOOLEAN,
         DispatchClosed(w, taken, ok)
  PROVE  InputTypeInv'
<1>1. os' \in [focus : Windows \cup {NoWindow}, events : Seq(FocusEvents)]
  BY DEF DispatchClosed, InputTypeInv
<1>2. PICK last \in Adapter :
        (IF taken THEN InvalidateRemovedInputTarget(sdl, w, ok) ELSE PrepareWindowRemoval(sdl, {w})) = last
  BY LastType
<1>3. PICK ws \in SUBSET Windows : ws = {w}
  OBVIOUS
<1>4. PICK gone \in BOOLEAN : gone = TRUE
  OBVIOUS
<1>5. PICK q \in Records : ApplyTargetConfiguration(rec, last, w, gone) = q
  BY ApplyTargetConfigurationType DEF InputTypeInv
<1>6. PICK t \in Adapter : Erase(last, ws) = t
  BY EraseType
<1>7. rec' = q /\ sdl' = t
  BY <1>2, <1>3, <1>4, <1>5, <1>6 DEF DispatchClosed
<1> QED BY <1>1, <1>7 DEF DispatchClosed, Occurs, Delivered, Happens, InputTypeInv, callbacks, ending

LEMMA TypeDispatchInput ==
  ASSUME InputTypeInv, NEW w \in Windows, NEW kind \in Kinds, NEW down \in BOOLEAN,
         DispatchInput(w, kind, down)
  PROVE  InputTypeInv'
<1>1. PICK cs \in SetToSeqs(InputTargetsForWindow(sdl, w)) : Post(Published(cs, kind, down))
  BY DEF DispatchInput
<1>2. queue' \in Seq(Items)
  BY <1>1, PublishedType, ItemsType, PostType
<1> QED BY <1>2 DEF DispatchInput, Occurs, Delivered, InputTypeInv, callbacks, ending, adapter, tables

(* A finger posts a report of its device, if it was not known, and its input.*)
LEMMA TouchPosts ==
  ASSUME InputTypeInv, NEW w \in Windows, NEW d \in Devices, NEW down \in BOOLEAN,
         DispatchTouchEvent(w, d, down)
  PROVE  \E events \in Seq(Items) : Post(events)
<1>1. PICK one \in Versions : one = 1 /\ one # 0
  BY FiniteAssumption DEF Versions
<1>3. PICK touch \in Kinds : touch = "touch"
  BY DEF DispatchTouchEvent, Kinds
<1>4. PICK cs \in SetToSeqs(InputTargetsForWindow(sdl, w)), added \in BOOLEAN :
        Post((IF added THEN AddOrUpdateDevice(d, one) ELSE <<>>) \o Published(cs, touch, down))
  <2>1. PICK added \in BOOLEAN : added = (sink /\ inventory[d] = 0)
    OBVIOUS
  <2> QED BY <1>1, <1>3, <2>1 DEF DispatchTouchEvent
<1>5. PICK reported \in Seq(Items) : reported = IF added THEN AddOrUpdateDevice(d, one) ELSE <<>>
  <2>1. AddOrUpdateDevice(d, one) \in Seq(Items)
    BY <1>1, ReportType, ItemsType
  <2>2. <<>> \in Seq(Items)
    OBVIOUS
  <2> QED BY <2>1, <2>2
<1>6. PICK published \in Seq(Items) : published = Published(cs, touch, down)
  BY PublishedType, ItemsType
<1>7. reported \o published \in Seq(Items)
  BY ConcatProperties
<1> QED BY <1>4, <1>5, <1>6, <1>7

LEMMA TypeDispatchTouchEvent ==
  ASSUME InputTypeInv, NEW w \in Windows, NEW d \in Devices, NEW down \in BOOLEAN,
         DispatchTouchEvent(w, d, down)
  PROVE  InputTypeInv'
<1>1. PICK one \in Versions : one = 1
  BY FiniteAssumption DEF Versions
<1>2. inventory' \in [Devices -> Versions]
  BY <1>1 DEF DispatchTouchEvent, InputTypeInv
<1>3. queue' \in Seq(Items)
  BY TouchPosts, PostType
<1> QED BY <1>2, <1>3 DEF DispatchTouchEvent, Occurs, Delivered, InputTypeInv, callbacks, ending, tables

LEMMA TypeDispatchDeviceEvent ==
  ASSUME InputTypeInv, NEW d \in Devices, NEW version \in Versions, DispatchDeviceEvent(d, version)
  PROVE  InputTypeInv'
<1>1. PICK events \in Seq(Items) : events = IF version = 0 THEN RemoveDevice(d) ELSE AddOrUpdateDevice(d, version)
  BY ReportType, ItemsType
<1>2. queue' \in Seq(Items)
  BY <1>1, PostType DEF DispatchDeviceEvent
<1> QED BY <1>2 DEF DispatchDeviceEvent, Occurs, Delivered, InputTypeInv, callbacks, ending, tables
LEMMA InputTypeNext == InputTypeInv /\ [Next]_vars => InputTypeInv'
<1> SUFFICES ASSUME InputTypeInv, [Next]_vars PROVE InputTypeInv'
  OBVIOUS
<1>1. CASE UNCHANGED vars
  BY <1>1 DEF vars, adapter, tables, runtime, callbacks, ending, InputTypeInv
<1>2. ASSUME EventThread PROVE InputTypeInv'
  <2>1. CASE Executes
    <3>1. PICK cmd \in Commands : Execute(cmd)
      BY <2>1 DEF Executes
    <3>2. CASE \E ok \in BOOLEAN : cmd.op = "create" /\ CreateContext(cmd, ok)
      BY <3>2, TypeCreateContext
    <3>3. CASE \E ok \in BOOLEAN : cmd.op \in {"enable", "capture", "relative"} /\ MutateOnRuntime(cmd, ok)
      BY <3>3, TypeMutateOnRuntime
    <3>4. CASE cmd.op = "destroy" /\ DestroyContext(cmd)
      BY <3>4, TypeDestroyContext
    <3>5. CASE CleanupOnRuntime(cmd)
      BY <3>5, TypeCleanupOnRuntime
    <3> QED BY <3>1, <3>2, <3>3, <3>4, <3>5 DEF Execute
  <2>2. CASE CreateContextOnRuntime \/ DestroyContextUnderLock \/ DestroyContextOnRuntime
    BY <2>2, TypeCreateContextOnRuntime, TypeDestroyContextUnderLock, TypeDestroyContextOnRuntime
  <2>3. CASE \E cs \in SUBSET Contexts : Cleanup(cs)
    BY <2>3, TypeCleanup
  <2>4. CASE \E c \in Contexts, kind \in Kinds, down \in BOOLEAN : Publish(c, kind, down)
    BY <2>4, TypePublish
  <2>5. CASE TakeDeviceEvent \/ PublishDeviceChanged \/ DiscoverConnectedDevicesOnRuntime
    BY <2>5, TypeTakeDeviceEvent, TypePublishDeviceChanged, TypeDiscover
  <2>6. CASE Invoke \/ CallbackReturns \/ Woken \/ StopPump
    BY <2>6, TypeInvoke, TypeCallbackReturns, TypeTurns, TypeStopPump
  <2>7. CASE \E w \in Windows, b, ok \in BOOLEAN : WindowInput(w, b, ok)
    BY <2>7, TypeWindowInput
  <2>8. CASE \E w \in Windows : WindowMutation(w)
    BY <2>8, TypeWindowMutation
  <2> QED BY <1>2, <2>1, <2>2, <2>3, <2>4, <2>5, <2>6, <2>7, <2>8 DEF EventThread
<1>3. ASSUME Teardown PROVE InputTypeInv'
  <2>1. CASE DetachAllContexts \/ DeactivateManagerSubscriptions \/ PostCleanup
    BY <2>1, TypeTeardownBegins, TypeDeactivateManagerSubscriptions, TypePostCleanup
  <2>2. CASE \E c \in Contexts : MarkRecordDestroyed(c)
    BY <2>2, TypeMarkRecordDestroyed
  <2>3. CASE \E s \in Subs : Fence(s)
    BY <2>3, TypeFence
  <2> QED BY <1>3, <2>1, <2>2, <2>3 DEF Teardown
<1>4. ASSUME Delivery PROVE InputTypeInv'
  <2>1. CASE \E w \in Windows, gained, ok \in BOOLEAN : DispatchFocus(w, gained, ok)
    BY <2>1, TypeDispatchFocus
  <2>2. CASE \E w \in Windows, taken, ok \in BOOLEAN : DispatchClosed(w, taken, ok)
    BY <2>2, TypeDispatchClosed
  <2>3. CASE \E w \in Windows, kind \in Kinds \ {"touch"}, down \in BOOLEAN : DispatchInput(w, kind, down)
    BY <2>3, TypeDispatchInput
  <2>4. CASE \E w \in Windows, d \in Devices, down \in BOOLEAN : DispatchTouchEvent(w, d, down)
    BY <2>4, TypeDispatchTouchEvent
  <2>5. CASE \E d \in Devices, v \in Versions : DispatchDeviceEvent(d, v)
    BY <2>5, TypeDispatchDeviceEvent
  <2> QED BY <1>4, <2>1, <2>2, <2>3, <2>4, <2>5 DEF Delivery
<1>5. ASSUME OtherThreads PROVE InputTypeInv'
  <2>1. CASE \E cmd \in Commands : Submit(cmd)
    BY <2>1, TypeSubmit
  <2>2. CASE \E cmd \in WindowCommands : SubmitWindow(cmd)
    BY <2>2, TypeSubmitWindow
  <2>3. CASE \E s \in Subs, topic \in Topics : Subscribe(s, topic)
    BY <2>3, TypeSubscribe
  <2>4. CASE \E s \in Subs : Reset(s)
    BY <2>4, TypeReset
  <2>5. CASE BeginTeardown \/ RequestStop
    BY <2>5, TypeTeardownBegins
  <2> QED BY <1>5, <2>1, <2>2, <2>3, <2>4, <2>5 DEF OtherThreads
<1>6. CASE \E s \in Subs : ResetInCallback(s)
  BY <1>6, TypeResetInCallback
<1>7. CASE \E connected \in SUBSET Devices : StartPump(connected)
  BY <1>7, TypeStartPump
<1>8. CASE \E w \in Windows \cup {NoWindow} : FocusMoves(w)
  BY <1>8, TypeFocusMoves
<1>9. CASE Wait
  BY <1>9, TypeTurns
<1> QED BY <1>1, <1>2, <1>3, <1>4, <1>5, <1>6, <1>7, <1>8, <1>9 DEF Next

(* Every variable keeps its type: what commands, callbacks, windows, devices *)
(* and a teardown leave of the adapter is always an adapter's state, and what*)
(* is queued is always a command, a report or an event (InputManager.cpp,    *)
(* SDLDesktopState.cpp).                                                     *)
THEOREM InputTypeCorrect == Spec => []InputTypeOK
<1>1. Spec => []InputTypeInv
  BY InputTypeInit, InputTypeNext, PTL DEF Spec
<1> QED BY <1>1, InputTypes, PTL
(***************************************************************************)
(* What most steps leave alone: the contexts that can be found, the        *)
(* subscriptions, the teardown, and the lives of the records.              *)
(***************************************************************************)
SameLives == \A c \in Contexts : rec'[c].life = rec[c].life
Kept == \A c \in Contexts : /\ rec'[c].life = rec[c].life
                            /\ rec'[c].pressed \in {{}, rec[c].pressed}
Publishes == \E c \in Contexts, kind \in Kinds, down \in BOOLEAN : Publish(c, kind, down)

QuietStep == /\ UNCHANGED <<contexts, subs, stopping, sink, teardown, owned, fenced>>
             /\ SameLives
             /\ running' \in {running, NoSub}
             /\ Kept \/ Publishes

LoudStep == \/ CreateContextOnRuntime \/ DestroyContextOnRuntime
            \/ \E cmd \in Commands : cmd.op = "destroy" /\ DestroyContext(cmd)
            \/ \E cmd \in Commands : CleanupOnRuntime(cmd)
            \/ Invoke
            \/ \E s \in Subs : ResetInCallback(s) \/ Reset(s)
            \/ \E s \in Subs, topic \in Topics : Subscribe(s, topic)
            \/ BeginTeardown \/ Teardown

LEMMA KeptCreateContext ==
  ASSUME InputTypeInv, NEW cmd \in Commands, NEW ok \in BOOLEAN,
         cmd.op = "create", CreateContext(cmd, ok)
  PROVE  Kept
<1>1. cmd.c \in Contexts /\ cmd.w \in Windows
  BY CommandFields
<1>2. CASE UNCHANGED <<sdl, rec, step>>
  BY <1>2 DEF Kept
<1>3. CASE /\ sdl' = CreateInputContext(sdl, cmd.c, cmd.w, cmd.wants, ok)
           /\ Refreshed(sdl', cmd.w, FALSE)
  <2>1. PICK t \in Adapter : sdl' = t
    BY <1>1, <1>3, CreateInputContextType DEF InputTypeInv
  <2>2. PICK no \in BOOLEAN : no = FALSE
    OBVIOUS
  <2>3. Refreshed(t, cmd.w, no)
    BY <1>3, <2>1, <2>2
  <2> QED BY <2>3, RefreshedType DEF Kept
<1> QED BY <1>2, <1>3 DEF CreateContext

LEMMA KeptMutateOnRuntime ==
  ASSUME InputTypeInv, NEW cmd \in Commands, NEW ok \in BOOLEAN,
         cmd.op \in {"enable", "capture", "relative"}, MutateOnRuntime(cmd, ok)
  PROVE  Kept
<1>1. CASE UNCHANGED <<sdl, rec>>
  BY <1>1 DEF Kept
<1>2. CASE sdl' = Mutated(cmd, ok) /\ rec' = Taken(cmd, Told(cmd, sdl'), sdl')
  <2>1. PICK t \in Adapter : sdl' = t
    BY <1>2, MutatedType
  <2>2. rec' = Taken(cmd, Told(cmd, t), t)
    BY <1>2, <2>1
  <2> QED BY <2>2, TakenType DEF Kept
<1> QED BY <1>1, <1>2 DEF MutateOnRuntime

LEMMA KeptWindowInput ==
  ASSUME InputTypeInv, NEW w \in Windows, NEW b \in BOOLEAN, NEW ok \in BOOLEAN, WindowInput(w, b, ok)
  PROVE  Kept
<1>1. CASE UNCHANGED rec
  BY <1>1 DEF Kept
<1>2. CASE sdl' = SetInputEnabled(sdl, w, b, ok) /\ Refreshed(sdl', w, ~b)
  <2>1. PICK t \in Adapter : sdl' = t
    BY <1>2, SetInputEnabledType DEF InputTypeInv
  <2>2. PICK invalidated \in BOOLEAN : invalidated = ~b
    OBVIOUS
  <2>3. Refreshed(t, w, invalidated)
    BY <1>2, <2>1, <2>2
  <2> QED BY <2>3, RefreshedType DEF Kept
<1> QED BY <1>1, <1>2 DEF WindowInput

LEMMA KeptDispatchFocus ==
  ASSUME InputTypeInv, NEW w \in Windows, NEW gained \in BOOLEAN, NEW ok \in BOOLEAN,
         DispatchFocus(w, gained, ok)
  PROVE  Kept
<1>1. CASE UNCHANGED rec
  BY <1>1 DEF Kept
<1>2. CASE /\ sdl' = IF gained THEN FocusGained(sdl, w, ok) ELSE FocusLost(sdl, w, ok)
           /\ Refreshed(sdl', w, ~gained)
  <2>1. PICK t \in Adapter : sdl' = t
    BY <1>2, FocusGainedType, FocusLostType DEF InputTypeInv
  <2>2. PICK invalidated \in BOOLEAN : invalidated = ~gained
    OBVIOUS
  <2>3. Refreshed(t, w, invalidated)
    BY <1>2, <2>1, <2>2
  <2> QED BY <2>3, RefreshedType DEF Kept
<1> QED BY <1>1, <1>2 DEF DispatchFocus

LEMMA KeptDispatchClosed ==
  ASSUME InputTypeInv, NEW w \in Windows, NEW taken \in BOOLEAN, NEW ok \in BOOLEAN,
         DispatchClosed(w, taken, ok)
  PROVE  Kept
<1>1. PICK last \in Adapter :
        (IF taken THEN InvalidateRemovedInputTarget(sdl, w, ok) ELSE PrepareWindowRemoval(sdl, {w})) = last
  BY LastType
<1>2. PICK gone \in BOOLEAN : gone = TRUE
  OBVIOUS
<1>3. rec' = ApplyTargetConfiguration(rec, last, w, gone)
  BY <1>1, <1>2 DEF DispatchClosed
<1>4. PICK q \in Records : /\ ApplyTargetConfiguration(rec, last, w, gone) = q
                           /\ \A c \in Contexts : q[c].life = rec[c].life /\ q[c].pressed \in {{}, rec[c].pressed}
  BY ApplyTargetConfigurationType DEF InputTypeInv
<1> QED BY <1>3, <1>4 DEF Kept

LEMMA LivesPublish ==
  ASSUME InputTypeInv, NEW c \in Contexts, NEW kind \in Kinds, NEW down \in BOOLEAN,
         Publish(c, kind, down)
  PROVE  SameLives
<1>1. CASE UNCHANGED rec
  BY <1>1 DEF SameLives
<1>2. CASE rec' = [rec EXCEPT ![c].pressed = After(@, kind, down)]
  <2>1. PICK p : p = After(rec[c].pressed, kind, down)
    OBVIOUS
  <2>2. rec' = [rec EXCEPT ![c].pressed = p]
    BY <1>2, <2>1 DEF InputTypeInv, Records, RecordType
  <2> QED BY <2>2 DEF SameLives, InputTypeInv, Records, RecordType
<1> QED BY <1>1, <1>2 DEF Publish

LEMMA QuietOrLoud ==
  ASSUME InputTypeInv, [Next]_vars
  PROVE  QuietStep \/ LoudStep
<1>1. CASE UNCHANGED vars
  BY <1>1 DEF vars, tables, callbacks, ending, QuietStep, SameLives, Kept
<1>2. ASSUME EventThread PROVE QuietStep \/ LoudStep
  <2>1. CASE Executes
    <3>1. PICK cmd \in Commands : Execute(cmd)
      BY <2>1 DEF Executes
    <3>2. ASSUME NEW ok \in BOOLEAN, cmd.op = "create", CreateContext(cmd, ok) PROVE QuietStep
      BY <3>2, KeptCreateContext DEF CreateContext, callbacks, ending, QuietStep, Kept, SameLives
    <3>3. ASSUME NEW ok \in BOOLEAN, cmd.op \in {"enable", "capture", "relative"}, MutateOnRuntime(cmd, ok)
          PROVE  QuietStep
      BY <3>3, KeptMutateOnRuntime DEF MutateOnRuntime, callbacks, ending, QuietStep, Kept, SameLives
    <3> QED BY <3>1, <3>2, <3>3 DEF Execute, LoudStep
  <2>2. CASE CreateContextOnRuntime \/ DestroyContextOnRuntime \/ Invoke
    BY <2>2 DEF LoudStep
  <2>3. CASE \E cs \in SUBSET Contexts : Cleanup(cs)
    BY <2>3 DEF Cleanup, tables, callbacks, ending, QuietStep, SameLives, Kept
  <2>4. CASE \E c \in Contexts, kind \in Kinds, down \in BOOLEAN : Publish(c, kind, down)
    <3>1. SameLives
      BY <2>4, LivesPublish
    <3>2. Publishes
      BY <2>4 DEF Publishes
    <3> QED BY <2>4, <3>1, <3>2 DEF Publish, ending, QuietStep
  <2>5. CASE TakeDeviceEvent \/ PublishDeviceChanged \/ DiscoverConnectedDevicesOnRuntime
    BY <2>5 DEF TakeDeviceEvent, PublishDeviceChanged, DiscoverConnectedDevicesOnRuntime,
                tables, callbacks, ending, QuietStep, SameLives, Kept
  <2>6. CASE CallbackReturns \/ Woken \/ StopPump
    BY <2>6 DEF CallbackReturns, Woken, StopPump, tables, callbacks, ending, QuietStep, SameLives, Kept
  <2>9. CASE DestroyContextUnderLock
    BY <2>9, UnderLockFrame DEF QuietStep, SameLives, Kept
  <2>7. CASE \E w \in Windows, b, ok \in BOOLEAN : WindowInput(w, b, ok)
    <3>1. Kept
      BY <2>7, KeptWindowInput
    <3> QED BY <2>7, <3>1 DEF WindowInput, callbacks, ending, QuietStep, Kept, SameLives
  <2>8. CASE \E w \in Windows : WindowMutation(w)
    BY <2>8 DEF WindowMutation, tables, callbacks, ending, QuietStep, SameLives, Kept
  <2> QED BY <1>2, <2>1, <2>2, <2>3, <2>4, <2>5, <2>6, <2>7, <2>8, <2>9 DEF EventThread
<1>3. CASE Teardown
  BY <1>3 DEF LoudStep
<1>4. ASSUME Delivery PROVE QuietStep
  <2>1. CASE \E w \in Windows, gained, ok \in BOOLEAN : DispatchFocus(w, gained, ok)
    <3>1. Kept
      BY <2>1, KeptDispatchFocus
    <3> QED BY <2>1, <3>1 DEF DispatchFocus, callbacks, ending, QuietStep, Kept, SameLives
  <2>2. CASE \E w \in Windows, taken, ok \in BOOLEAN : DispatchClosed(w, taken, ok)
    <3>1. Kept
      BY <2>2, KeptDispatchClosed
    <3> QED BY <2>2, <3>1 DEF DispatchClosed, callbacks, ending, QuietStep, Kept, SameLives
  <2>3. CASE \E w \in Windows, kind \in Kinds \ {"touch"}, down \in BOOLEAN : DispatchInput(w, kind, down)
    BY <2>3 DEF DispatchInput, tables, callbacks, ending, QuietStep, SameLives, Kept
  <2>4. CASE \E w \in Windows, d \in Devices, down \in BOOLEAN : DispatchTouchEvent(w, d, down)
    BY <2>4 DEF DispatchTouchEvent, tables, callbacks, ending, QuietStep, SameLives, Kept
  <2>5. CASE \E d \in Devices, v \in Versions : DispatchDeviceEvent(d, v)
    BY <2>5 DEF DispatchDeviceEvent, tables, callbacks, ending, QuietStep, SameLives, Kept
  <2> QED BY <1>4, <2>1, <2>2, <2>3, <2>4, <2>5 DEF Delivery
<1>5. ASSUME OtherThreads PROVE QuietStep \/ LoudStep
  <2>1. CASE \E cmd \in Commands : Submit(cmd)
    BY <2>1 DEF Submit, tables, callbacks, ending, QuietStep, SameLives, Kept
  <2>2. CASE \E cmd \in WindowCommands : SubmitWindow(cmd)
    BY <2>2 DEF SubmitWindow, tables, callbacks, ending, QuietStep, SameLives, Kept
  <2>3. CASE \E s \in Subs, topic \in Topics : Subscribe(s, topic)
    BY <2>3 DEF LoudStep
  <2>4. CASE (\E s \in Subs : Reset(s)) \/ BeginTeardown
    BY <2>4 DEF LoudStep
  <2>5. CASE RequestStop
    BY <2>5 DEF RequestStop, tables, callbacks, ending, QuietStep, SameLives, Kept
  <2> QED BY <1>5, <2>1, <2>2, <2>3, <2>4, <2>5 DEF OtherThreads
<1>6. CASE \E s \in Subs : ResetInCallback(s)
  BY <1>6 DEF LoudStep
<1>7. CASE \E connected \in SUBSET Devices : StartPump(connected)
  BY <1>7 DEF StartPump, tables, callbacks, ending, QuietStep, SameLives, Kept
<1>8. CASE \E w \in Windows \cup {NoWindow} : FocusMoves(w)
  BY <1>8 DEF FocusMoves, tables, callbacks, ending, QuietStep, SameLives, Kept
<1>9. CASE Wait
  BY <1>9 DEF Wait, tables, callbacks, ending, QuietStep, SameLives, Kept
<1> QED BY <1>1, <1>2, <1>3, <1>4, <1>5, <1>6, <1>7, <1>8, <1>9 DEF Next

(***************************************************************************)
(* Subscriptions and the end of the manager.                               *)
(***************************************************************************)
Off(s) == subs[s].life # "on"

(* A fenced subscription stays off, and is not the one that runs.            *)
FencesHold == /\ \A s \in fenced : subs[s].life = "off"
              /\ running \notin fenced

(* A record is open, and a subscription of a context is on, only while the   *)
(* context can be found or belongs to the thread that tears down.            *)
OpenIsFound ==
  /\ \A c \in Contexts : rec[c].life = "Open" => c \in contexts \cup owned
  /\ \A s \in Subs : Off(s) \/ subs[s].topic \in TopicsOf(contexts \cup owned) \cup {<<"devices">>}

(* How far a teardown is.                                                    *)
TeardownPhases ==
  /\ teardown # "none" => stopping
  /\ teardown \in {"none", "detaching"} => owned = {}
  /\ (stopping /\ teardown = "none") => contexts = {} /\ \A s \in Subs : Off(s)
  /\ teardown \in {"marking", "fencing", "done"} => contexts = {}
  /\ teardown \in {"fencing", "done"} => /\ \A c \in owned : rec[c].life # "Open"
                                         /\ \A s \in Subs : Off(s) \/ subs[s].topic = <<"devices">>
  /\ teardown = "done" => \A s \in Subs : Off(s)

FencedInv == FencesHold /\ OpenIsFound /\ TeardownPhases

LEMMA FencedImplies == FencedInv => FencedNeverRuns
BY DEF FencedInv, FencesHold, TeardownPhases, FencedNeverRuns, Off

LEMMA FencedInit == Init => FencedInv
BY DEF Init, FencedInv, FencesHold, OpenIsFound, TeardownPhases, Off, NoRecord

LEMMA NoSubIsNone == InputTypeInv => NoSub \notin Subs /\ fenced \subseteq Subs
BY BoundAssumption DEF InputTypeInv, Subs, NoSub

LEMMA FencedQuiet ==
  ASSUME InputTypeInv, FencedInv, QuietStep
  PROVE  FencedInv'
<1>1. FencesHold'
  BY NoSubIsNone DEF FencedInv, FencesHold, QuietStep
<1>2. OpenIsFound'
  BY DEF FencedInv, OpenIsFound, QuietStep, SameLives, Off
<1>3. TeardownPhases'
  <2>1. owned \in SUBSET Contexts
    BY DEF InputTypeInv
  <2> QED BY <2>1 DEF FencedInv, TeardownPhases, QuietStep, SameLives, Off
<1> QED BY <1>1, <1>2, <1>3 DEF FencedInv

(* Subscriptions are turned off, and not on.                                 *)
OnlyOff == /\ subs' \in Subscriptions
           /\ \A s \in Subs : subs'[s].topic = subs[s].topic /\ subs'[s].life \in {subs[s].life, "off"}

LEMMA OffIsOff ==
  ASSUME subs \in Subscriptions, NEW s \in Subs, subs' = [subs EXCEPT ![s].life = "off"]
  PROVE  OnlyOff /\ subs'[s].life = "off" /\ \A r \in Subs \ {s} : subs'[r] = subs[r]
<1>1. subs' \in Subscriptions
  BY OffType
<1>2. \A r \in Subs : subs'[r] = IF r = s THEN [subs[r] EXCEPT !.life = "off"] ELSE subs[r]
  BY DEF Subscriptions
<1>3. \A r \in Subs : subs[r] \in [topic : Topics \cup {<<>>}, life : {"free", "on", "off"}]
  BY DEF Subscriptions
<1> QED BY <1>1, <1>2, <1>3 DEF OnlyOff

LEMMA DeactivatedIsOff ==
  ASSUME subs \in Subscriptions, NEW topics, subs' = Deactivated(topics)
  PROVE  OnlyOff /\ \A s \in Subs : subs[s].topic \in topics => subs'[s].life = "off"
<1>1. subs' \in Subscriptions
  BY DeactivatedType
<1>2. \A r \in Subs : subs'[r] = IF subs[r].topic \in topics THEN [subs[r] EXCEPT !.life = "off"] ELSE subs[r]
  BY DEF Deactivated
<1>3. \A r \in Subs : subs[r] \in [topic : Topics \cup {<<>>}, life : {"free", "on", "off"}]
  BY DEF Subscriptions
<1> QED BY <1>1, <1>2, <1>3 DEF OnlyOff

(* A life is set, and the others are left.                                   *)
LEMMA LifeSet ==
  ASSUME NEW r \in Records, NEW c \in Contexts, NEW life \in Lives
  PROVE  \E q \in Records : /\ [r EXCEPT ![c].life = life] = q
                            /\ q[c].life = life /\ q[c].pressed = r[c].pressed
                            /\ \A d \in Contexts \ {c} : q[d] = r[d]
<1>1. PICK q \in Records : [r EXCEPT ![c].life = life] = q
  BY DiesType
<1>2. /\ q[c].life = life /\ q[c].pressed = r[c].pressed
      /\ \A d \in Contexts \ {c} : q[d] = r[d]
  BY <1>1 DEF Records, RecordType
<1> QED BY <1>1, <1>2

Ended(r, c) == [r EXCEPT ![c].life = "Destroyed", ![c].pressed = {}]

LEMMA LifeEnds ==
  ASSUME NEW r \in Records, NEW c \in Contexts
  PROVE  /\ Ended(r, c) \in Records
         /\ Ended(r, c)[c].life = "Destroyed" /\ Ended(r, c)[c].pressed = {}
         /\ \A d \in Contexts \ {c} : Ended(r, c)[d] = r[d]
<1>1. PICK life \in Lives : life = "Destroyed"
  BY DEF Lives
<1>2. PICK q \in Records : q = [r EXCEPT ![c].life = life, ![c].pressed = {}]
  BY DiesType
<1>3. q[c].life = life /\ q[c].pressed = {} /\ \A d \in Contexts \ {c} : q[d] = r[d]
  BY <1>2 DEF Records, RecordType
<1>4. Ended(r, c) = q
  BY <1>1, <1>2 DEF Ended
<1> QED BY <1>1, <1>3, <1>4

(* The records after the second half of a creation and of a destruction.     *)
LEMMA CreatedLives ==
  ASSUME InputTypeInv, CreateContextOnRuntime
  PROVE  /\ step.c \in Contexts
         /\ stopping => Kept /\ contexts' = contexts
         /\ ~stopping => /\ contexts' = contexts \cup {step.c}
                         /\ rec'[step.c].life = "Open"
                         /\ rec'[step.c].pressed = rec[step.c].pressed
                         /\ \A d \in Contexts \ {step.c} : rec'[d] = rec[d]
<1>1. step.c \in Contexts
  BY StepFields DEF CreateContextOnRuntime, InputTypeInv
<1>2. ASSUME stopping PROVE Kept /\ contexts' = contexts
  BY <1>2 DEF CreateContextOnRuntime, StoppedMeanwhile, Kept
<1>3. ASSUME ~stopping
      PROVE  /\ contexts' = contexts \cup {step.c}
             /\ rec'[step.c].life = "Open" /\ rec'[step.c].pressed = rec[step.c].pressed
             /\ \A d \in Contexts \ {step.c} : rec'[d] = rec[d]
  <2>1. /\ rec' = Configured([rec EXCEPT ![step.c].life = "Open"], sdl, step.c)
        /\ contexts' = contexts \cup {step.c}
    BY <1>3 DEF CreateContextOnRuntime, StoppedMeanwhile
  <2>2. PICK c \in Contexts, life \in Lives : c = step.c /\ life = "Open"
    BY <1>1 DEF Lives
  <2>3. PICK r \in Records : /\ [rec EXCEPT ![c].life = life] = r
                             /\ r[c].life = life /\ r[c].pressed = rec[c].pressed
                             /\ \A d \in Contexts \ {c} : r[d] = rec[d]
    BY LifeSet DEF InputTypeInv
  <2>4. PICK q \in Records : /\ q = Configured(r, sdl, c)
                             /\ q[c].life = r[c].life /\ q[c].pressed = r[c].pressed
                             /\ \A d \in Contexts \ {c} : q[d] = r[d]
    BY ConfiguredType DEF InputTypeInv
  <2>5. rec' = q
    BY <2>1, <2>2, <2>3, <2>4
  <2> QED BY <2>1, <2>2, <2>3, <2>4, <2>5
<1> QED BY <1>1, <1>2, <1>3

LEMMA DestroyedLives ==
  ASSUME InputTypeInv, DestroyContextOnRuntime
  PROVE  /\ step.c \in Contexts
         /\ rec'[step.c].life = "Destroyed" /\ rec'[step.c].pressed = {}
         /\ \A d \in Contexts \ {step.c} : rec'[d].life = rec[d].life /\ rec'[d].pressed = rec[d].pressed
<1>1. PICK c \in Contexts : c = step.c
  BY StepFields DEF DestroyContextOnRuntime, InputTypeInv
<1>2. PICK ok \in BOOLEAN, no \in BOOLEAN : ok = TRUE /\ no = FALSE
  OBVIOUS
<1>7. PICK w : w = sdl.ctx[step.c].target
  OBVIOUS
<1>3. PICK t \in Adapter : DestroyInputContext(sdl, c, ok) = t
  BY DestroyInputContextType DEF InputTypeInv
<1>4. PICK told \in Records :
        /\ ApplyTargetConfiguration(rec, t, w, no) = told
        /\ \A d \in Contexts : told[d].life = rec[d].life /\ told[d].pressed = rec[d].pressed
  BY <1>2, ToldType DEF InputTypeInv
<1>5. rec' = Ended(told, c)
  BY <1>1, <1>2, <1>3, <1>4, <1>7 DEF DestroyContextOnRuntime, Ended
<1>6. /\ rec'[c].life = "Destroyed" /\ rec'[c].pressed = {}
      /\ \A d \in Contexts \ {c} : rec'[d] = told[d]
  BY <1>5, LifeEnds
<1> QED BY <1>1, <1>4, <1>6

LEMMA FencedCreated ==
  ASSUME InputTypeInv, FencedInv, CreateContextOnRuntime
  PROVE  FencedInv'
<1>1. UNCHANGED <<subs, stopping, teardown, owned, fenced, running>>
  BY DEF CreateContextOnRuntime, callbacks, ending
<1>2. CASE stopping
  <2>1. contexts' = contexts /\ \A c \in Contexts : rec'[c].life = rec[c].life
    BY <1>2, CreatedLives DEF Kept
  <2>2. owned \in SUBSET Contexts
    BY DEF InputTypeInv
  <2> QED BY <1>1, <2>1, <2>2 DEF FencedInv, FencesHold, OpenIsFound, TeardownPhases, Off
<1>3. CASE ~stopping
  <2>1. /\ step.c \in Contexts
        /\ contexts' = contexts \cup {step.c}
        /\ \A d \in Contexts \ {step.c} : rec'[d] = rec[d]
    BY <1>3, CreatedLives
  <2>2. teardown = "none"
    BY <1>3 DEF FencedInv, TeardownPhases
  <2>3. OpenIsFound'
    BY <1>1, <2>1 DEF FencedInv, OpenIsFound, Off, TopicsOf
  <2> QED BY <1>1, <1>3, <2>1, <2>2, <2>3 DEF FencedInv, FencesHold, TeardownPhases, Off
<1> QED BY <1>2, <1>3

LEMMA FencedDestroys ==
  ASSUME InputTypeInv, FencedInv, NEW cmd \in Commands, cmd.op = "destroy", DestroyContext(cmd)
  PROVE  FencedInv'
<1>1. UNCHANGED <<contexts, subs, stopping, teardown, owned, fenced, running>>
  BY DEF DestroyContext, callbacks, ending
<1>2. PICK c \in Contexts, life \in Lives : c = cmd.c /\ life = "Destroying"
  BY CommandFields DEF Lives
<1>3. PICK q \in Records : /\ [rec EXCEPT ![c].life = life] = q
                           /\ q[c].life = life
                           /\ \A d \in Contexts \ {c} : q[d] = rec[d]
  BY LifeSet DEF InputTypeInv
<1>4. rec' = rec \/ rec' = q
  BY <1>2, <1>3 DEF DestroyContext
<1>5. \A d \in Contexts : rec'[d].life = "Open" => rec[d].life = "Open"
  BY <1>2, <1>3, <1>4
<1>6. owned \in SUBSET Contexts
  BY DEF InputTypeInv
<1> QED BY <1>1, <1>5, <1>6 DEF FencedInv, FencesHold, OpenIsFound, TeardownPhases, Off

LEMMA FencedDestroyed ==
  ASSUME InputTypeInv, FencedInv, DestroyContextOnRuntime
  PROVE  FencedInv'
<1>1. /\ UNCHANGED <<stopping, teardown, owned, fenced, running>>
      /\ contexts' = contexts \ {step.c}
      /\ subs' = Deactivated(TopicsOf({step.c}))
  BY DEF DestroyContextOnRuntime, callbacks, ending
<1>2. OnlyOff /\ \A s \in Subs : subs[s].topic \in TopicsOf({step.c}) => subs'[s].life = "off"
  BY <1>1, DeactivatedIsOff DEF InputTypeInv
<1>3. /\ step.c \in Contexts /\ rec'[step.c].life = "Destroyed"
      /\ \A d \in Contexts \ {step.c} : rec'[d].life = rec[d].life
  BY DestroyedLives
<1>4. owned \in SUBSET Contexts /\ fenced \in SUBSET Subs
  BY DEF InputTypeInv
<1>5. FencesHold'
  BY <1>1, <1>2, <1>4 DEF FencedInv, FencesHold, OnlyOff
<1>6. OpenIsFound'
  <2>1. \A c \in Contexts : rec'[c].life = "Open" => c \in contexts' \cup owned'
    BY <1>1, <1>3 DEF FencedInv, OpenIsFound
  <2>2. ASSUME NEW s \in Subs, ~Off(s)'
        PROVE  subs'[s].topic \in TopicsOf(contexts' \cup owned') \cup {<<"devices">>}
    <3>1. ~Off(s) /\ subs'[s].topic = subs[s].topic /\ subs[s].topic \notin TopicsOf({step.c})
      BY <1>2, <2>2 DEF OnlyOff, Off
    <3>2. subs[s].topic \in TopicsOf(contexts \cup owned) \cup {<<"devices">>}
      BY <3>1 DEF FencedInv, OpenIsFound
    <3> QED BY <1>1, <3>1, <3>2 DEF TopicsOf
  <2> QED BY <2>1, <2>2 DEF OpenIsFound
<1>7. TeardownPhases'
  BY <1>1, <1>2, <1>3, <1>4 DEF FencedInv, TeardownPhases, OnlyOff, Off
<1> QED BY <1>5, <1>6, <1>7 DEF FencedInv

LEMMA FencedCleanupOnRuntime ==
  ASSUME InputTypeInv, FencedInv, NEW cmd \in Commands, CleanupOnRuntime(cmd)
  PROVE  FencedInv'
<1>0. UNCHANGED <<teardown, owned, fenced, running>>
  BY DEF CleanupOnRuntime, callbacks
<1>1. CASE stopping
  <2>1. UNCHANGED <<rec, contexts, subs, stopping>>
    BY <1>1 DEF CleanupOnRuntime, tables
  <2> QED BY <1>0, <2>1 DEF FencedInv, FencesHold, OpenIsFound, TeardownPhases, Off
<1>2. CASE ~stopping
  <2>1. teardown = "none" /\ owned = {}
    BY <1>2 DEF FencedInv, TeardownPhases
  <2>2. contexts' = {} /\ rec' = DestroyRecords(contexts)
    BY <1>2 DEF CleanupOnRuntime
  <2>3. subs' = Deactivated(TopicsOf(contexts) \cup {<<"devices">>})
    BY <1>2 DEF CleanupOnRuntime
  <2>4. OnlyOff /\ \A s \in Subs : subs[s].topic \in TopicsOf(contexts) \cup {<<"devices">>} => subs'[s].life = "off"
    BY <2>3, DeactivatedIsOff DEF InputTypeInv
  <2>5. \A s \in Subs : subs'[s].life # "on"
    BY <2>1, <2>4 DEF FencedInv, OpenIsFound, OnlyOff, Off
  <2>6. \A c \in Contexts : rec'[c].life # "Open"
    <3>1. ASSUME NEW c \in Contexts PROVE rec'[c].life # "Open"
      <4>1. /\ rec[c] \in RecordType
            /\ rec[c].life = "Open" => c \in contexts
        BY <2>1 DEF InputTypeInv, Records, FencedInv, OpenIsFound
      <4>2. rec'[c] = IF c \in contexts THEN [rec[c] EXCEPT !.life = "Destroyed", !.pressed = {}] ELSE rec[c]
        BY <2>2 DEF DestroyRecords
      <4>3. [rec[c] EXCEPT !.life = "Destroyed", !.pressed = {}].life = "Destroyed"
        BY <4>1 DEF RecordType
      <4>4. CASE c \in contexts
        BY <4>2, <4>3, <4>4
      <4>5. CASE c \notin contexts
        BY <4>1, <4>2, <4>5
      <4> QED BY <4>4, <4>5
    <3> QED BY <3>1
  <2>7. fenced \in SUBSET Subs
    BY DEF InputTypeInv
  <2> QED BY <1>0, <2>1, <2>2, <2>4, <2>5, <2>6, <2>7
          DEF FencedInv, FencesHold, OpenIsFound, TeardownPhases, OnlyOff, Off
<1> QED BY <1>1, <1>2

(* One subscription is turned off, and fenced or not.                        *)
LEMMA FencedTurnsOff ==
  ASSUME InputTypeInv, FencedInv, NEW s \in Subs, subs' = [subs EXCEPT ![s].life = "off"],
         UNCHANGED <<rec, contexts, stopping, teardown, owned, running>>,
         fenced' = fenced \/ (fenced' = fenced \cup {s} /\ running # s)
  PROVE  FencedInv'
<1>1. OnlyOff /\ subs'[s].life = "off" /\ \A r \in Subs \ {s} : subs'[r] = subs[r]
  BY OffIsOff DEF InputTypeInv
<1>2. fenced \in SUBSET Subs
  BY DEF InputTypeInv
<1>3. FencesHold'
  BY <1>1, <1>2 DEF FencedInv, FencesHold, OnlyOff
<1>4. OpenIsFound' /\ TeardownPhases'
  BY <1>1 DEF FencedInv, OpenIsFound, TeardownPhases, OnlyOff, Off
<1> QED BY <1>3, <1>4 DEF FencedInv

LEMMA FencedSubscribe ==
  ASSUME InputTypeInv, FencedInv, NEW s \in Subs, NEW topic \in Topics, Subscribe(s, topic)
  PROVE  FencedInv'
<1>1. /\ UNCHANGED <<rec, contexts, stopping, teardown, owned, fenced, running>>
      /\ subs[s].life = "free"
      /\ IF topic = <<"devices">> THEN ~stopping ELSE rec[topic[1]].life = "Open"
      /\ subs' = [subs EXCEPT ![s] = [topic |-> topic, life |-> "on"]]
  BY DEF Subscribe, callbacks, ending
<1>2. subs'[s] = [topic |-> topic, life |-> "on"] /\ \A r \in Subs \ {s} : subs'[r] = subs[r]
  BY <1>1 DEF InputTypeInv, Subscriptions
<1>3. fenced \in SUBSET Subs /\ s \notin fenced
  BY <1>1 DEF InputTypeInv, FencedInv, FencesHold
<1>4. FencesHold'
  BY <1>1, <1>2, <1>3 DEF FencedInv, FencesHold
<1>5. CASE topic = <<"devices">>
  <2>1. ~stopping /\ teardown = "none"
    BY <1>1, <1>5 DEF FencedInv, TeardownPhases
  <2>2. OpenIsFound'
    <3>1. subs'[s].topic = <<"devices">>
      BY <1>2, <1>5
    <3> QED BY <1>1, <1>2, <3>1 DEF FencedInv, OpenIsFound, Off
  <2>3. TeardownPhases'
    BY <1>1, <2>1 DEF FencedInv, TeardownPhases
  <2> QED BY <1>4, <2>2, <2>3 DEF FencedInv
<1>6. CASE topic # <<"devices">>
  <2>1. topic \in Contexts \X HeardKinds
    BY <1>6 DEF Topics
  <2>2. PICK c \in Contexts, kind \in HeardKinds : topic = <<c, kind>> /\ rec[c].life = "Open"
    BY <1>1, <1>6, <2>1
  <2>3. c \in contexts \cup owned
    BY <2>2 DEF FencedInv, OpenIsFound
  <2>4. topic \in TopicsOf(contexts \cup owned)
    BY <2>2, <2>3 DEF TopicsOf
  <2>5. OpenIsFound'
    <3>1. subs'[s].topic \in TopicsOf(contexts' \cup owned')
      BY <1>1, <1>2, <2>4
    <3> QED BY <1>1, <1>2, <3>1 DEF FencedInv, OpenIsFound, Off
  <2>6. teardown \notin {"fencing", "done"} /\ ~(stopping /\ teardown = "none")
    BY <2>2, <2>3 DEF FencedInv, TeardownPhases
  <2>7. TeardownPhases'
    BY <1>1, <1>2, <2>6 DEF FencedInv, TeardownPhases, Off
  <2> QED BY <1>4, <2>5, <2>7 DEF FencedInv
<1> QED BY <1>5, <1>6

LEMMA FencedTeardown ==
  ASSUME InputTypeInv, FencedInv, BeginTeardown \/ Teardown
  PROVE  FencedInv'
<1>0. contexts \in SUBSET Contexts /\ owned \in SUBSET Contexts
  BY DEF InputTypeInv
<1>1. CASE BeginTeardown
  <2>1. /\ UNCHANGED <<rec, contexts, subs, owned, fenced, running>>
        /\ teardown = "none" /\ teardown' = "detaching" /\ stopping'
    BY <1>1 DEF BeginTeardown, tables, callbacks
  <2> QED BY <2>1 DEF FencedInv, FencesHold, OpenIsFound, TeardownPhases, Off
<1>2. CASE DetachAllContexts
  <2>1. /\ UNCHANGED <<rec, subs, fenced, running, stopping>>
        /\ teardown = "detaching" /\ teardown' = "marking" /\ owned' = contexts /\ contexts' = {}
    BY <1>2 DEF DetachAllContexts, callbacks
  <2>2. stopping /\ owned = {} /\ contexts' \cup owned' = contexts \cup owned
    BY <2>1 DEF FencedInv, TeardownPhases
  <2>3. OpenIsFound'
    BY <2>1, <2>2 DEF FencedInv, OpenIsFound, Off
  <2>4. FencesHold' /\ TeardownPhases'
    BY <2>1, <2>2 DEF FencedInv, FencesHold, TeardownPhases
  <2> QED BY <2>3, <2>4 DEF FencedInv
<1>3. ASSUME NEW c \in Contexts, MarkRecordDestroyed(c) PROVE FencedInv'
  <2>1. UNCHANGED <<contexts, subs, fenced, running, stopping, teardown, owned>>
    BY <1>3 DEF MarkRecordDestroyed, callbacks, ending
  <2>2. rec' = Ended(rec, c)
    BY <1>3 DEF MarkRecordDestroyed, Ended
  <2>5. \A d \in Contexts : rec'[d].life = "Open" => rec[d].life = "Open"
    BY <2>2, LifeEnds DEF InputTypeInv
  <2> QED BY <1>0, <2>1, <2>5 DEF FencedInv, FencesHold, OpenIsFound, TeardownPhases, Off
<1>4. ASSUME NEW s \in Subs, Fence(s) PROVE FencedInv'
  <2>1. /\ UNCHANGED <<rec, contexts, stopping, teardown, owned, running>>
        /\ subs' = [subs EXCEPT ![s].life = "off"]
        /\ fenced' = fenced \cup {s} /\ running # s
    BY <1>4 DEF Fence, MayDeactivate, ending
  <2> QED BY <2>1, FencedTurnsOff
<1>5. CASE DeactivateManagerSubscriptions
  <2>1. /\ UNCHANGED <<rec, contexts, subs, fenced, running, stopping, owned>>
        /\ teardown = "marking" /\ teardown' = "fencing"
        /\ \A c \in owned : rec[c].life = "Destroyed"
    BY <1>5 DEF DeactivateManagerSubscriptions, callbacks
  <2>2. \A s \in Subs : Off(s) \/ subs[s].topic \notin TopicsOf(owned)
    BY <1>5, <2>1 DEF DeactivateManagerSubscriptions, ToFence, Off
  <2>3. contexts = {}
    BY <2>1 DEF FencedInv, TeardownPhases
  <2>4. \A s \in Subs : Off(s) \/ subs[s].topic = <<"devices">>
    BY <2>2, <2>3 DEF FencedInv, OpenIsFound
  <2> QED BY <2>1, <2>3, <2>4 DEF FencedInv, FencesHold, OpenIsFound, TeardownPhases, Off
<1>6. CASE PostCleanup
  <2>1. /\ UNCHANGED <<rec, contexts, subs, fenced, running, stopping, owned>>
        /\ teardown = "fencing" /\ teardown' = "done"
    BY <1>6 DEF PostCleanup, tables, callbacks
  <2>2. \A s \in Subs : Off(s)
    BY <1>6, <2>1 DEF PostCleanup, ToFence, FencedInv, TeardownPhases, Off
  <2> QED BY <2>1, <2>2 DEF FencedInv, FencesHold, OpenIsFound, TeardownPhases, Off
<1> QED BY <1>1, <1>2, <1>3, <1>4, <1>5, <1>6 DEF Teardown

LEMMA FencedNext == InputTypeInv /\ FencedInv /\ [Next]_vars => FencedInv'
<1> SUFFICES ASSUME InputTypeInv, FencedInv, [Next]_vars PROVE FencedInv'
  OBVIOUS
<1>1. CASE QuietStep
  BY <1>1, FencedQuiet
<1>2. CASE Invoke
  <2>1. /\ UNCHANGED <<rec, contexts, subs, fenced, stopping, teardown, owned>>
        /\ running' = NoSub \/ subs[running'].life = "on"
    BY <1>2 DEF Invoke, StillActive, tables, ending
  <2>2. running' \notin fenced
    BY <2>1, NoSubIsNone DEF FencedInv, FencesHold
  <2> QED BY <2>1, <2>2 DEF FencedInv, FencesHold, OpenIsFound, TeardownPhases, Off
<1>3. ASSUME NEW s \in Subs, ResetInCallback(s) \/ Reset(s) PROVE FencedInv'
  <2>1. /\ UNCHANGED <<rec, contexts, stopping, teardown, owned, running>>
        /\ subs' = [subs EXCEPT ![s].life = "off"]
        /\ fenced' = fenced \/ (fenced' = fenced \cup {s} /\ running # s)
    BY <1>3 DEF ResetInCallback, Reset, MayDeactivate, callbacks, ending
  <2> QED BY <2>1, FencedTurnsOff
<1>4. CASE LoudStep
  BY <1>2, <1>3, <1>4, FencedCreated, FencedDestroys, FencedDestroyed, FencedCleanupOnRuntime,
     FencedSubscribe, FencedTeardown DEF LoudStep
<1> QED BY <1>1, <1>4, QuietOrLoud

(* A subscription reset by another thread, or by the end of the manager,     *)
(* never runs its callback again, and none outlives the manager, however     *)
(* subscriptions, callbacks and shutdowns interleave (SubscriptionState,     *)
(* InvokeSubscriptions, ShutdownFallback): for any number of each.           *)
THEOREM FencedNeverRunsHolds == Spec => []FencedNeverRuns
<1>1. Spec => []InputTypeInv
  BY InputTypeInit, InputTypeNext, PTL DEF Spec
<1>2. Spec => []FencedInv
  BY <1>1, FencedInit, FencedNext, PTL DEF Spec
<1> QED BY <1>2, FencedImplies, PTL
(***************************************************************************)
(* The devices: what was reported last, or is shown, is what is connected. *)
(***************************************************************************)
IsReport(item, d) == item.op = "device" /\ item.d = d

(* The last report of a device in a queue says v, or else v is known.        *)
Tells(q, d, known, v) ==
  /\ \A i \in 1..Len(q) :
       (IsReport(q[i], d) /\ \A j \in 1..Len(q) : j > i => ~IsReport(q[j], d)) => q[i].version = v
  /\ (\A i \in 1..Len(q) : ~IsReport(q[i], d)) => known = v

Shown(d) == IF step.op = "device" /\ step.d = d THEN step.version ELSE devices[d]

ConvergeInv ==
  (accepting /\ ~stopping) => sink /\ \A d \in Devices : Tells(queue, d, Shown(d), inventory[d])

LEMMA ConvergeImplies == InputTypeInv /\ ConvergeInv => DevicesConverge
<1> SUFFICES ASSUME InputTypeInv, ConvergeInv, ~stopping, accepting, step = NoStep,
                    \A i \in DOMAIN queue : queue[i].op # "device"
             PROVE  devices = inventory
  BY DEF DevicesConverge
<1>1. DOMAIN queue = 1..Len(queue)
  BY DEF InputTypeInv
<1>2. \A d \in Devices : Shown(d) = inventory[d]
  BY <1>1 DEF ConvergeInv, Tells, IsReport
<1>3. \A d \in Devices : Shown(d) = devices[d]
  BY DEF Shown, NoStep
<1> QED BY <1>2, <1>3 DEF InputTypeInv

LEMMA ConvergeInit == Init => ConvergeInv
<1> SUFFICES ASSUME Init PROVE sink /\ \A d \in Devices : Tells(queue, d, Shown(d), inventory[d])
  BY DEF ConvergeInv
<1>1. queue = <<[op |-> "discover"]>> /\ sink
  BY DEF Init
<1>2. Len(queue) = 1 /\ queue[1].op = "discover"
  BY <1>1
<1>3. \A d \in Devices : Shown(d) = inventory[d]
  BY DEF Init, SDLInit, Shown, NoStep
<1> QED BY <1>1, <1>2, <1>3 DEF Tells, IsReport

LEMMA TellsTail ==
  ASSUME NEW q \in Seq(Items), q # <<>>, NEW d, NEW known, NEW v, Tells(q, d, known, v)
  PROVE  Tells(Tail(q), d, IF IsReport(Head(q), d) THEN Head(q).version ELSE known, v)
<1>1. PICK n \in Nat : Len(q) = n + 1
  BY EmptySeq
<1>0. PICK t \in Seq(Items) : t = Tail(q) /\ Len(t) = Len(q) - 1 /\ \A i \in 1..Len(t) : t[i] = q[i + 1]
  BY HeadTailProperties
<1>2. t = Tail(q) /\ Len(t) = n /\ \A i \in 1..n : t[i] = q[i + 1]
  BY <1>0, <1>1
<1>3. Head(q) = q[1]
  OBVIOUS
<1>4. ASSUME NEW i \in 1..n, IsReport(t[i], d), \A j \in 1..n : j > i => ~IsReport(t[j], d)
      PROVE  t[i].version = v
  <2>1. i + 1 \in 1..Len(q) /\ q[i + 1] = t[i]
    BY <1>1, <1>2
  <2>2. ASSUME NEW j \in 1..Len(q), j > i + 1 PROVE ~IsReport(q[j], d)
    <3>1. j - 1 \in 1..n /\ j - 1 > i /\ q[j] = t[j - 1]
      BY <1>1, <1>2, <2>2
    <3> QED BY <1>4, <3>1
  <2> QED BY <1>4, <2>1, <2>2 DEF Tells
<1>5. ASSUME \A i \in 1..n : ~IsReport(t[i], d)
      PROVE  (IF IsReport(Head(q), d) THEN Head(q).version ELSE known) = v
  <2>1. ASSUME NEW j \in 1..Len(q), j > 1 PROVE ~IsReport(q[j], d)
    <3>1. j - 1 \in 1..n /\ q[j] = t[j - 1]
      BY <1>1, <1>2, <2>1
    <3> QED BY <1>5, <3>1
  <2>2. CASE IsReport(q[1], d)
    BY <1>1, <1>3, <2>1, <2>2 DEF Tells
  <2>3. CASE ~IsReport(q[1], d)
    <3>1. \A j \in 1..Len(q) : ~IsReport(q[j], d)
      BY <1>1, <2>1, <2>3
    <3> QED BY <1>3, <2>3, <3>1 DEF Tells
  <2> QED BY <2>2, <2>3
<1> QED BY <1>2, <1>4, <1>5 DEF Tells

(* Events follow that do not tell of the device, or the last of which does.  *)
LEMMA TellsMore ==
  ASSUME NEW q \in Seq(Items), NEW events \in Seq(Items), NEW d, NEW known, NEW u, NEW v,
         Tells(q, d, known, u),
         \/ u = v /\ \A i \in 1..Len(events) : ~IsReport(events[i], d)
         \/ \E i \in 1..Len(events) : /\ IsReport(events[i], d) /\ events[i].version = v
                                      /\ \A j \in 1..Len(events) : j # i => ~IsReport(events[j], d)
  PROVE  Tells(q \o events, d, known, v)
<1>1. PICK m \in Nat, n \in Nat : m = Len(q) /\ n = Len(events)
  OBVIOUS
<1> DEFINE t == q \o events
<1>0. /\ t \in Seq(Items) /\ Len(t) = Len(q) + Len(events)
      /\ \A i \in 1..(Len(q) + Len(events)) : t[i] = IF i <= Len(q) THEN q[i] ELSE events[i - Len(q)]
  BY ConcatProperties
<1> HIDE DEF t
<1>2. /\ t = q \o events /\ Len(t) = m + n
      /\ \A i \in 1..(m + n) : t[i] = IF i <= m THEN q[i] ELSE events[i - m]
  BY <1>0, <1>1 DEF t
<1>3. CASE u = v /\ \A i \in 1..Len(events) : ~IsReport(events[i], d)
  <2>1. ASSUME NEW i \in 1..(m + n), IsReport(t[i], d) PROVE i \in 1..m /\ t[i] = q[i]
    <3>1. ASSUME i > m PROVE FALSE
      <4>1. i - m \in 1..n /\ t[i] = events[i - m]
        BY <1>2, <3>1
      <4> QED BY <1>1, <1>3, <2>1, <4>1
    <3> QED BY <1>2, <3>1
  <2>2. \A i \in 1..m : i \in 1..(m + n) /\ t[i] = q[i]
    BY <1>2
  <2>3. ASSUME NEW i \in 1..(m + n), IsReport(t[i], d),
               \A j \in 1..(m + n) : j > i => ~IsReport(t[j], d)
        PROVE  t[i].version = v
    <3>1. i \in 1..m /\ t[i] = q[i]
      BY <2>1, <2>3
    <3>2. \A j \in 1..m : j > i => ~IsReport(q[j], d)
      BY <2>2, <2>3
    <3> QED BY <1>1, <1>3, <2>3, <3>1, <3>2 DEF Tells
  <2>4. (\A i \in 1..(m + n) : ~IsReport(t[i], d)) => known = v
    BY <1>1, <1>3, <2>2 DEF Tells
  <2> QED BY <1>2, <2>3, <2>4 DEF Tells
<1>4. ASSUME NEW k \in 1..Len(events), IsReport(events[k], d), events[k].version = v,
             \A j \in 1..Len(events) : j # k => ~IsReport(events[j], d)
      PROVE  Tells(q \o events, d, known, v)
  <2>1. m + k \in 1..(m + n) /\ t[m + k] = events[k]
    BY <1>1, <1>2
  <2>2. ASSUME NEW i \in 1..(m + n), IsReport(t[i], d),
               \A j \in 1..(m + n) : j > i => ~IsReport(t[j], d)
        PROVE  t[i].version = v
    <3>1. i >= m + k
      BY <1>4, <2>1, <2>2
    <3>2. i - m \in 1..n /\ t[i] = events[i - m]
      BY <1>1, <1>2, <3>1
    <3>3. i - m = k
      BY <1>1, <1>4, <2>2, <3>2
    <3> QED BY <1>4, <3>2, <3>3
  <2> QED BY <1>2, <1>4, <2>1, <2>2 DEF Tells
<1> QED BY <1>3, <1>4

(* What most steps do to the queue: nothing is reported.                     *)
NoReports ==
  \/ queue' = queue
  \/ queue # <<>> /\ Head(queue).op # "device" /\ queue' = Tail(queue)
  \/ \E events \in Seq(Items) : /\ \A i \in 1..Len(events) : events[i].op # "device"
                                /\ queue' = queue \o events

LEMMA ConvergeAgain ==
  ASSUME ConvergeInv, accepting' => accepting, ~stopping' => ~stopping /\ sink' = sink,
         \A d \in Devices : accepting' /\ ~stopping' => Tells(queue', d, Shown(d)', inventory'[d])
  PROVE  ConvergeInv'
BY DEF ConvergeInv

LEMMA ConvergeQuiet ==
  ASSUME InputTypeInv, ConvergeInv, NoReports, inventory' = inventory, accepting' => accepting,
         ~stopping' => ~stopping /\ sink' = sink,
         \A d \in Devices : Shown(d)' = Shown(d)
  PROVE  ConvergeInv'
<1> SUFFICES ASSUME accepting', ~stopping', NEW d \in Devices
             PROVE  Tells(queue', d, Shown(d)', inventory'[d])
  BY ConvergeAgain
<1>1. PICK v, known : v = inventory[d] /\ known = Shown(d)
  OBVIOUS
<1>2. Tells(queue, d, known, v) /\ queue \in Seq(Items)
  BY <1>1 DEF ConvergeInv, InputTypeInv
<1>3. CASE queue # <<>> /\ Head(queue).op # "device" /\ queue' = Tail(queue)
  <2>1. ~IsReport(Head(queue), d)
    BY <1>3 DEF IsReport
  <2>2. PICK k : k = IF IsReport(Head(queue), d) THEN Head(queue).version ELSE known
    OBVIOUS
  <2>3. Tells(Tail(queue), d, k, v)
    BY <1>2, <1>3, <2>2, TellsTail
  <2> QED BY <1>1, <1>2, <1>3, <2>1, <2>2, <2>3
<1>4. ASSUME NEW events \in Seq(Items), \A i \in 1..Len(events) : events[i].op # "device",
             queue' = queue \o events
      PROVE  Tells(queue', d, known, v)
  <2>1. \A i \in 1..Len(events) : ~IsReport(events[i], d)
    BY <1>4 DEF IsReport
  <2> QED BY <1>2, <1>4, <2>1, TellsMore
<1> QED BY <1>1, <1>2, <1>3, <1>4 DEF NoReports
QuietReports == /\ NoReports /\ inventory' = inventory /\ (accepting' => accepting)
                /\ ~stopping' => ~stopping /\ sink' = sink
                /\ \A d \in Devices : Shown(d)' = Shown(d)

LEMMA RunsNoReports ==
  ASSUME NEW cmd \in Commands, Runs(cmd)
  PROVE  NoReports /\ step = NoStep
BY CommandFields DEF Runs, Idle, InCallback, NoReports

LEMMA AppendNoReports ==
  ASSUME InputTypeInv, NEW item \in Items, item.op # "device", queue' = Append(queue, item)
  PROVE  NoReports
<1>1. queue' = queue \o <<item>>
  BY AppendIsConcat DEF InputTypeInv
<1>2. <<item>> \in Seq(Items) /\ Len(<<item>>) = 1 /\ <<item>>[1] = item
  OBVIOUS
<1>3. \A i \in 1..Len(<<item>>) : <<item>>[i].op # "device"
  BY <1>2
<1> QED BY <1>1, <1>2, <1>3 DEF NoReports

LEMMA PublishedNoReports ==
  ASSUME InputTypeInv, NEW w \in Windows, NEW kind \in Kinds, NEW down \in BOOLEAN,
         NEW cs \in SetToSeqs(InputTargetsForWindow(sdl, w))
  PROVE  /\ Published(cs, kind, down) \in Seq(Items)
         /\ \A i \in 1..Len(Published(cs, kind, down)) : Published(cs, kind, down)[i].op = "publish"
<1>1. PICK events \in Seq(Publications) : events = Published(cs, kind, down)
  BY PublishedType
<1>2. \A i \in 1..Len(events) : events[i] \in Publications
  BY ElementOfSeq
<1>3. \A i \in 1..Len(events) : events[i].op = "publish"
  BY <1>2 DEF Publications
<1> QED BY <1>1, <1>3, ItemsType

LEMMA ReportsEventThread ==
  ASSUME InputTypeInv, EventThread, ~stopping', accepting'
  PROVE  \/ QuietReports \/ TakeDeviceEvent \/ PublishDeviceChanged \/ DiscoverConnectedDevicesOnRuntime
<1>1. CASE Executes
  <2>1. PICK cmd \in Commands : Execute(cmd)
    BY <1>1 DEF Executes
  <2>2. ASSUME NEW ok \in BOOLEAN, cmd.op = "create", CreateContext(cmd, ok) PROVE QuietReports
    <3>1. NoReports /\ step = NoStep
      BY <2>2, RunsNoReports DEF CreateContext
    <3>2. /\ UNCHANGED <<inventory, devices, stopping, sink, accepting>>
          /\ step' = step \/ step' = [op |-> "create", c |-> cmd.c]
      BY <2>2 DEF CreateContext, ending
    <3> QED BY <3>1, <3>2 DEF QuietReports, Shown, NoStep
  <2>3. ASSUME NEW ok \in BOOLEAN, cmd.op \in {"enable", "capture", "relative"}, MutateOnRuntime(cmd, ok)
        PROVE  QuietReports
    <3>1. NoReports
      BY <2>3, RunsNoReports DEF MutateOnRuntime
    <3> QED BY <2>3, <3>1 DEF MutateOnRuntime, ending, QuietReports, Shown
  <2>4. ASSUME cmd.op = "destroy", DestroyContext(cmd) PROVE QuietReports
    <3>1. NoReports /\ step = NoStep
      BY <2>4, RunsNoReports DEF DestroyContext
    <3>2. /\ UNCHANGED <<inventory, devices, stopping, sink, accepting>>
          /\ step' = step \/ step' = [op |-> "destroy", c |-> cmd.c]
      BY <2>4 DEF DestroyContext, ending, adapter
    <3> QED BY <3>1, <3>2 DEF QuietReports, Shown, NoStep
  <2>5. ASSUME CleanupOnRuntime(cmd) PROVE FALSE
    BY <2>5 DEF CleanupOnRuntime
  <2> QED BY <2>1, <2>2, <2>3, <2>4, <2>5 DEF Execute
<1>2. CASE CreateContextOnRuntime
  BY <1>2 DEF CreateContextOnRuntime, runtime, ending, QuietReports, NoReports, Shown, NoStep
<1>3. CASE DestroyContextOnRuntime
  BY <1>3 DEF DestroyContextOnRuntime, runtime, ending, QuietReports, NoReports, Shown, NoStep
<1>4. CASE \E cs \in SUBSET Contexts : Cleanup(cs)
  BY <1>4 DEF Cleanup, tables, ending, QuietReports, NoReports, Shown
<1>5. CASE \E c \in Contexts, kind \in Kinds, down \in BOOLEAN : Publish(c, kind, down)
  <2>1. NoReports
    BY <1>5 DEF Publish, NoReports
  <2> QED BY <1>5, <2>1 DEF Publish, ending, adapter, QuietReports, Shown
<1>6. CASE Invoke \/ CallbackReturns \/ Woken
  BY <1>6 DEF Invoke, CallbackReturns, Woken, adapter, tables, runtime, ending, QuietReports, NoReports, Shown
<1>7. CASE StopPump
  BY <1>7 DEF StopPump
<1>8. CASE \E w \in Windows, b, ok \in BOOLEAN : WindowInput(w, b, ok)
  <2>1. NoReports
    BY <1>8 DEF WindowInput, NoReports
  <2> QED BY <1>8, <2>1 DEF WindowInput, ending, QuietReports, Shown
<1>9. CASE \E w \in Windows : WindowMutation(w)
  <2>1. NoReports
    BY <1>9 DEF WindowMutation, NoReports
  <2> QED BY <1>9, <2>1 DEF WindowMutation, ending, tables, QuietReports, Shown
<1>10. CASE DestroyContextUnderLock
  BY <1>10, UnderLockFrame
<1> QED BY <1>1, <1>2, <1>3, <1>4, <1>5, <1>6, <1>7, <1>8, <1>9, <1>10 DEF EventThread

LEMMA ReportsOtherThreads ==
  ASSUME InputTypeInv, OtherThreads, ~stopping', accepting'
  PROVE  QuietReports
<1>1. ASSUME NEW cmd \in Commands, Submit(cmd) PROVE QuietReports
  <2>1. NoReports
    BY <1>1, CommandFields, AppendNoReports DEF Submit
  <2> QED BY <1>1, <2>1 DEF Submit, adapter, tables, ending, QuietReports, Shown
<1>2. ASSUME NEW cmd \in WindowCommands, SubmitWindow(cmd) PROVE QuietReports
  <2>1. cmd \in Items /\ cmd.op # "device"
    BY DEF Items, WindowCommands
  <2>2. NoReports
    BY <1>2, <2>1, AppendNoReports DEF SubmitWindow
  <2> QED BY <1>2, <2>2 DEF SubmitWindow, adapter, tables, ending, QuietReports, Shown
<1>3. CASE \E s \in Subs, topic \in Topics : Subscribe(s, topic)
  BY <1>3 DEF Subscribe, adapter, runtime, ending, QuietReports, NoReports, Shown
<1>4. CASE \E s \in Subs : Reset(s)
  BY <1>4 DEF Reset, adapter, runtime, ending, QuietReports, NoReports, Shown
<1>5. CASE BeginTeardown \/ RequestStop
  BY <1>5 DEF BeginTeardown, RequestStop
<1> QED BY <1>1, <1>2, <1>3, <1>4, <1>5 DEF OtherThreads

LEMMA ReportsDelivery ==
  ASSUME InputTypeInv, Delivery
  PROVE  \/ QuietReports
         \/ \E w \in Windows, d \in Devices, down \in BOOLEAN : DispatchTouchEvent(w, d, down)
         \/ \E d \in Devices, v \in Versions : DispatchDeviceEvent(d, v)
<1>1. CASE \E w \in Windows, gained, ok \in BOOLEAN : DispatchFocus(w, gained, ok)
  BY <1>1 DEF DispatchFocus, ending, QuietReports, NoReports, Shown
<1>2. CASE \E w \in Windows, taken, ok \in BOOLEAN : DispatchClosed(w, taken, ok)
  BY <1>2 DEF DispatchClosed, ending, QuietReports, NoReports, Shown
<1>3. ASSUME NEW w \in Windows, NEW kind \in Kinds, NEW down \in BOOLEAN, DispatchInput(w, kind, down)
      PROVE  QuietReports
  <2>1. PICK cs \in SetToSeqs(InputTargetsForWindow(sdl, w)) : Post(Published(cs, kind, down))
    BY <1>3 DEF DispatchInput
  <2>2. NoReports
    BY <2>1, PublishedNoReports DEF Post, NoReports
  <2> QED BY <1>3, <2>2 DEF DispatchInput, adapter, tables, ending, QuietReports, Shown
<1> QED BY <1>1, <1>2, <1>3 DEF Delivery

LEMMA ConvergeTake ==
  ASSUME InputTypeInv, ConvergeInv, TakeDeviceEvent
  PROVE  ConvergeInv'
<1> SUFFICES ASSUME accepting', ~stopping', NEW d \in Devices
             PROVE  Tells(queue', d, Shown(d)', inventory'[d])
  BY ConvergeAgain DEF TakeDeviceEvent, ending
<1>1. /\ UNCHANGED <<inventory, devices, stopping, sink, accepting>>
      /\ queue # <<>> /\ queue' = Tail(queue) /\ Head(queue).op = "device" /\ step = NoStep /\ step' = Head(queue)
  BY DEF TakeDeviceEvent, Idle, adapter, tables, ending
<1>2. PICK v, known : v = inventory[d] /\ known = Shown(d)
  OBVIOUS
<1>3. sink /\ Tells(queue, d, known, v) /\ queue \in Seq(Items)
  BY <1>1, <1>2 DEF ConvergeInv, InputTypeInv
<1>4. PICK k : k = IF IsReport(Head(queue), d) THEN Head(queue).version ELSE known
  OBVIOUS
<1>5. Tells(Tail(queue), d, k, v)
  BY <1>1, <1>3, <1>4, TellsTail
<1>6. k = Shown(d)'
  BY <1>1, <1>2, <1>4 DEF Shown, NoStep, IsReport
<1> QED BY <1>1, <1>2, <1>3, <1>5, <1>6

LEMMA ConvergePublished ==
  ASSUME InputTypeInv, ConvergeInv, PublishDeviceChanged
  PROVE  ConvergeInv'
<1>1. step.op = "device" /\ step.d \in Devices /\ step' = NoStep
  BY StepFields DEF PublishDeviceChanged, InputTypeInv
<1>2. \/ devices' = devices /\ devices[step.d] = step.version
      \/ devices' = [devices EXCEPT ![step.d] = step.version]
  BY DEF PublishDeviceChanged, NothingNew
<1>3. \A d \in Devices : Shown(d)' = Shown(d)
  BY <1>1, <1>2 DEF Shown, NoStep, InputTypeInv
<1>4. UNCHANGED <<inventory, queue, accepting, stopping, sink>>
  BY DEF PublishDeviceChanged, adapter, runtime, ending
<1> QED BY <1>3, <1>4, ConvergeQuiet DEF NoReports

(* What is shown after the discovery: only a device nothing is reported of   *)
(* could be told wrongly, and that one was shown as it is before.            *)
LEMMA ConvergeDiscover ==
  ASSUME InputTypeInv, ConvergeInv, DiscoverConnectedDevicesOnRuntime
  PROVE  ConvergeInv'
<1> SUFFICES ASSUME accepting', ~stopping', NEW d \in Devices
             PROVE  Tells(queue', d, Shown(d)', inventory'[d])
  BY ConvergeAgain DEF DiscoverConnectedDevicesOnRuntime, ending
<1>1. /\ UNCHANGED <<inventory, step, stopping, sink, accepting>>
      /\ queue # <<>> /\ queue' = Tail(queue) /\ Head(queue).op = "discover" /\ step = NoStep
      /\ devices' = [e \in Devices |-> IF Known(e) THEN devices[e] ELSE inventory[e]]
  BY DEF DiscoverConnectedDevicesOnRuntime, Idle, adapter, ending
<1>2. PICK v, known : v = inventory[d] /\ known = Shown(d)
  OBVIOUS
<1>3. sink /\ Tells(queue, d, known, v) /\ queue \in Seq(Items)
  BY <1>1, <1>2 DEF ConvergeInv, InputTypeInv
<1>4. ~IsReport(Head(queue), d)
  BY <1>1 DEF IsReport
<1>5. PICK k : k = IF IsReport(Head(queue), d) THEN Head(queue).version ELSE known
  OBVIOUS
<1>6. Tells(Tail(queue), d, k, v)
  BY <1>1, <1>3, <1>5, TellsTail
<1>7. Shown(d)' = known \/ Shown(d)' = v
  BY <1>1, <1>2 DEF Shown, NoStep
<1>8. Tells(Tail(queue), d, Shown(d)', v)
  BY <1>4, <1>5, <1>6, <1>7 DEF Tells
<1> QED BY <1>1, <1>2, <1>3, <1>8

LEMMA ReportInItems ==
  ASSUME NEW d \in Devices, NEW change \in {"Connected", "Updated", "Disconnected"}, NEW version \in Versions
  PROVE  Report(d, change, version) \in Seq(Items)
<1>1. [op |-> "device", d |-> d, change |-> change, version |-> version] \in DeviceReports
  BY DEF DeviceReports
<1>2. Report(d, change, version) \in Seq(DeviceReports)
  BY <1>1 DEF Report
<1> QED BY <1>2, ItemsType

(* A report of a device follows what is known of it.                         *)
LEMMA ReportTells ==
  ASSUME NEW q \in Seq(Items), NEW d \in Devices, NEW known, NEW u, NEW change, NEW version,
         Report(d, change, version) \in Seq(Items), Tells(q, d, known, u)
  PROVE  Tells(q \o Report(d, change, version), d, known, version)
<1>1. PICK events \in Seq(Items) : events = Report(d, change, version)
  OBVIOUS
<1>2. Len(events) = 1 /\ IsReport(events[1], d) /\ events[1].version = version
  BY <1>1 DEF Report, IsReport
<1>3. 1 \in 1..Len(events) /\ \A j \in 1..Len(events) : j # 1 => ~IsReport(events[j], d)
  BY <1>2
<1> QED BY <1>1, <1>2, <1>3, TellsMore

LEMMA OthersTell ==
  ASSUME NEW q \in Seq(Items), NEW d \in Devices, NEW e \in Devices \ {d}, NEW known, NEW v,
         NEW change, NEW version,
         Report(d, change, version) \in Seq(Items), Tells(q, e, known, v)
  PROVE  Tells(q \o Report(d, change, version), e, known, v)
<1>1. /\ Len(Report(d, change, version)) = 1
      /\ ~IsReport(Report(d, change, version)[1], e)
  BY DEF Report, IsReport
<1>2. \A i \in 1..Len(Report(d, change, version)) : ~IsReport(Report(d, change, version)[i], e)
  BY <1>1
<1> QED BY <1>2, TellsMore

LEMMA ConvergeDispatchDevice ==
  ASSUME InputTypeInv, ConvergeInv, NEW d \in Devices, NEW version \in Versions,
         DispatchDeviceEvent(d, version)
  PROVE  ConvergeInv'
<1> SUFFICES ASSUME accepting', ~stopping', NEW e \in Devices
             PROVE  Tells(queue', e, Shown(e)', inventory'[e])
  BY ConvergeAgain DEF DispatchDeviceEvent, ending
<1>1. /\ inventory' = [inventory EXCEPT ![d] = version] /\ UNCHANGED <<devices, step, sink, accepting, stopping>>
      /\ Post(IF version = 0 THEN RemoveDevice(d) ELSE AddOrUpdateDevice(d, version))
  BY DEF DispatchDeviceEvent, tables, ending
<1>2. sink /\ \A g \in Devices : Tells(queue, g, Shown(g), inventory[g])
  BY <1>1 DEF ConvergeInv
<1>3. PICK known, u : known = Shown(e) /\ u = inventory[e]
  OBVIOUS
<1>4. Shown(e)' = known /\ Tells(queue, e, known, u) /\ queue \in Seq(Items)
  BY <1>1, <1>2, <1>3 DEF Shown, InputTypeInv
<1>5. \/ version = inventory[d] /\ queue' = queue \o <<>>
      \/ \E change \in {"Connected", "Updated", "Disconnected"} : queue' = queue \o Report(d, change, version)
  BY <1>1, <1>2 DEF Post, RemoveDevice, AddOrUpdateDevice
<1>6. CASE version = inventory[d] /\ queue' = queue \o <<>>
  <2>1. queue' = queue /\ inventory'[e] = u
    BY <1>1, <1>3, <1>4, <1>6 DEF InputTypeInv
  <2> QED BY <1>4, <2>1
<1>7. ASSUME NEW change \in {"Connected", "Updated", "Disconnected"}, queue' = queue \o Report(d, change, version)
      PROVE  Tells(queue', e, known, inventory'[e])
  <2>1. Report(d, change, version) \in Seq(Items)
    BY ReportInItems
  <2>2. CASE e = d
    <3>1. inventory'[e] = version
      BY <1>1, <2>2 DEF InputTypeInv
    <3> QED BY <1>4, <1>7, <2>1, <2>2, <3>1, ReportTells
  <2>3. CASE e # d
    <3>1. inventory'[e] = u
      BY <1>1, <1>3, <2>3 DEF InputTypeInv
    <3> QED BY <1>4, <1>7, <2>1, <2>3, <3>1, OthersTell
  <2> QED BY <2>2, <2>3
<1> QED BY <1>4, <1>5, <1>6, <1>7

LEMMA ConvergeDispatchTouch ==
  ASSUME InputTypeInv, ConvergeInv, NEW w \in Windows, NEW d \in Devices, NEW down \in BOOLEAN,
         DispatchTouchEvent(w, d, down)
  PROVE  ConvergeInv'
<1> SUFFICES ASSUME accepting', ~stopping', NEW e \in Devices
             PROVE  Tells(queue', e, Shown(e)', inventory'[e])
  BY ConvergeAgain DEF DispatchTouchEvent, ending
<1>1. /\ UNCHANGED <<devices, step, sink, accepting, stopping>> /\ "touch" \in Kinds
      /\ inventory' = IF sink /\ inventory[d] = 0 THEN [inventory EXCEPT ![d] = 1] ELSE inventory
  BY DEF DispatchTouchEvent, tables, ending, Kinds
<1>2. sink /\ \A g \in Devices : Tells(queue, g, Shown(g), inventory[g])
  BY <1>1 DEF ConvergeInv
<1>3. PICK known, u : known = Shown(e) /\ u = inventory[e]
  OBVIOUS
<1>4. Shown(e)' = known /\ Tells(queue, e, known, u) /\ queue \in Seq(Items)
  BY <1>1, <1>2, <1>3 DEF Shown, InputTypeInv
<1>5. PICK cs \in SetToSeqs(InputTargetsForWindow(sdl, w)) :
        queue' = queue \o ((IF inventory[d] = 0 THEN AddOrUpdateDevice(d, 1) ELSE <<>>) \o Published(cs, "touch", down))
  <2>1. PICK added \in BOOLEAN : added = (sink /\ inventory[d] = 0)
    OBVIOUS
  <2>2. PICK cs \in SetToSeqs(InputTargetsForWindow(sdl, w)) :
          Post((IF added THEN AddOrUpdateDevice(d, 1) ELSE <<>>) \o Published(cs, "touch", down))
    BY <2>1 DEF DispatchTouchEvent
  <2>3. added = (inventory[d] = 0) /\ accepting
    BY <1>1, <1>2, <2>1
  <2> QED BY <1>2, <2>2, <2>3 DEF Post
<1>6. PICK kind \in Kinds : kind = "touch"
  BY <1>1
<1>7. PICK published \in Seq(Items) : published = Published(cs, kind, down)
                                      /\ \A i \in 1..Len(published) : ~IsReport(published[i], e)
  BY PublishedNoReports DEF IsReport
<1>8. CASE inventory[d] = 0
  <2>1. AddOrUpdateDevice(d, 1) = Report(d, "Connected", 1) /\ 1 \in Versions
    BY <1>8, FiniteAssumption DEF AddOrUpdateDevice, Versions
  <2>2. Report(d, "Connected", 1) \in Seq(Items)
    BY <2>1, ReportInItems
  <2>3. PICK report \in Seq(Items) : report = Report(d, "Connected", 1)
    BY <2>2
  <2>4. queue' = queue \o (report \o published)
    BY <1>5, <1>6, <1>7, <1>8, <2>1, <2>3
  <2>5. queue' = (queue \o report) \o published
    BY <1>4, <2>4, ConcatAssociative
  <2>7. queue \o report \in Seq(Items)
    BY <1>4, ConcatProperties
  <2>6. Tells(queue \o report, e, known, inventory'[e])
    <3>1. CASE e = d
      <4>1. inventory'[e] = 1
        BY <1>1, <1>2, <1>8, <3>1 DEF InputTypeInv
      <4> QED BY <1>4, <2>2, <2>3, <3>1, <4>1, ReportTells
    <3>2. CASE e # d
      <4>1. inventory'[e] = u
        BY <1>1, <1>3, <3>2 DEF InputTypeInv
      <4> QED BY <1>4, <2>2, <2>3, <3>2, <4>1, OthersTell
    <3> QED BY <3>1, <3>2
  <2> QED BY <1>4, <1>7, <2>5, <2>6, <2>7, TellsMore
<1>9. CASE inventory[d] # 0
  <2>1. queue' = queue \o published /\ inventory' = inventory
    BY <1>1, <1>5, <1>6, <1>7, <1>9
  <2> QED BY <1>3, <1>4, <1>7, <2>1, TellsMore
<1> QED BY <1>8, <1>9

LEMMA ConvergeStartPump ==
  ASSUME InputTypeInv, ConvergeInv, NEW connected \in SUBSET Devices, StartPump(connected)
  PROVE  ConvergeInv'
<1> SUFFICES ASSUME accepting', ~stopping', NEW d \in Devices
             PROVE  Tells(queue', d, Shown(d)', inventory'[d])
  BY ConvergeAgain DEF StartPump, ending
<1>1. /\ UNCHANGED <<devices, step, sink, accepting, stopping>>
      /\ inventory' = [e \in Devices |-> IF e \in connected THEN 1 ELSE 0]
      /\ \A e \in Devices : inventory[e] = 0
  BY DEF StartPump, tables, ending, InputTypeInv
<1>2. PICK known : known = Shown(d)
  OBVIOUS
<1>3. Shown(d)' = known /\ Tells(queue, d, known, 0) /\ queue \in Seq(Items) /\ sink /\ accepting
  BY <1>1, <1>2 DEF Shown, InputTypeInv, ConvergeInv
<1>4. PICK ds \in SetToSeqs(connected) : Post([i \in DOMAIN ds |-> AddOrUpdateDevice(ds[i], 1)[1]])
  BY DEF StartPump
<1>5. /\ ds \in Seq(connected)
      /\ \A x \in connected : \E i \in DOMAIN ds : ds[i] = x
      /\ \A i, j \in DOMAIN ds : i # j => ds[i] # ds[j]
  BY FS_Subset, FiniteAssumption, OrderedType
<1>6. DOMAIN ds = 1..Len(ds) /\ Len(ds) \in Nat /\ \A i \in 1..Len(ds) : ds[i] \in connected
  BY <1>5, ElementOfSeq
<1>7. ASSUME NEW i \in 1..Len(ds)
      PROVE  AddOrUpdateDevice(ds[i], 1)[1] = [op |-> "device", d |-> ds[i], change |-> "Connected", version |-> 1]
  <2>1. inventory[ds[i]] = 0
    BY <1>1, <1>6
  <2> QED BY <2>1 DEF AddOrUpdateDevice, Report
<1>8. PICK events : events = [i \in DOMAIN ds |-> AddOrUpdateDevice(ds[i], 1)[1]]
  OBVIOUS
<1>9. ASSUME NEW i \in 1..Len(ds)
      PROVE  /\ events[i] \in Items
             /\ events[i].op = "device" /\ events[i].d = ds[i] /\ events[i].version = 1
  <2>1. PICK e : e = [op |-> "device", d |-> ds[i], change |-> "Connected", version |-> 1]
    OBVIOUS
  <2>2. e \in DeviceReports
    BY <1>6, <2>1, FiniteAssumption DEF DeviceReports, Versions
  <2>3. e.op = "device" /\ e.d = ds[i] /\ e.version = 1
    BY <2>1
  <2>4. events[i] = e
    BY <1>6, <1>7, <1>8, <2>1
  <2> QED BY <2>2, <2>3, <2>4 DEF Items
<1>10. events \in Seq(Items) /\ Len(events) = Len(ds)
  BY <1>6, <1>8, <1>9
<1>11. queue' = queue \o events
  BY <1>3, <1>4, <1>8 DEF Post
<1>12. CASE d \in connected
  <2>1. PICK i \in 1..Len(events) : ds[i] = d
    BY <1>5, <1>6, <1>10, <1>12
  <2>2. IsReport(events[i], d) /\ events[i].version = 1
    BY <1>9, <1>10, <2>1 DEF IsReport
  <2>3. \A j \in 1..Len(events) : j # i => ~IsReport(events[j], d)
    BY <1>5, <1>6, <1>9, <1>10, <2>1 DEF IsReport
  <2>4. inventory'[d] = 1
    BY <1>1, <1>12
  <2> QED BY <1>3, <1>10, <1>11, <2>2, <2>3, <2>4, TellsMore
<1>13. CASE d \notin connected
  <2>1. \A j \in 1..Len(events) : ~IsReport(events[j], d)
    BY <1>6, <1>9, <1>10, <1>13 DEF IsReport
  <2>2. inventory'[d] = 0
    BY <1>1, <1>13
  <2> QED BY <1>3, <1>10, <1>11, <2>1, <2>2, TellsMore
<1> QED BY <1>12, <1>13

LEMMA ConvergeNext == InputTypeInv /\ FencedInv /\ ConvergeInv /\ [Next]_vars => ConvergeInv'
<1> SUFFICES ASSUME InputTypeInv, FencedInv, ConvergeInv, [Next]_vars PROVE ConvergeInv'
  OBVIOUS
<1> SUFFICES ASSUME accepting', ~stopping' PROVE ConvergeInv'
  BY DEF ConvergeInv
<1>1. CASE QuietReports
  BY <1>1, ConvergeQuiet DEF QuietReports
<1>2. CASE EventThread
  BY <1>1, <1>2, ReportsEventThread, ConvergeTake, ConvergePublished, ConvergeDiscover
<1>3. CASE Teardown
  <2>1. teardown # "none" => stopping
    BY DEF FencedInv, TeardownPhases, InputTypeInv
  <2>2. teardown # "none" /\ stopping' = stopping
    BY <1>3 DEF Teardown, DetachAllContexts, MarkRecordDestroyed, Fence, DeactivateManagerSubscriptions,
       PostCleanup, ending
  <2> QED BY <2>1, <2>2
<1>4. CASE Delivery
  BY <1>1, <1>4, ReportsDelivery, ConvergeDispatchTouch, ConvergeDispatchDevice
<1>5. CASE OtherThreads
  BY <1>1, <1>5, ReportsOtherThreads
<1>6. CASE \E connected \in SUBSET Devices : StartPump(connected)
  BY <1>6, ConvergeStartPump
<1>7. CASE \E s \in Subs : ResetInCallback(s)
  <2>1. QuietReports
    BY <1>7 DEF ResetInCallback, adapter, runtime, ending, QuietReports, NoReports, Shown
  <2> QED BY <1>1, <2>1
<1>8. CASE \E w \in Windows \cup {NoWindow} : FocusMoves(w)
  <2>1. QuietReports
    BY <1>8 DEF FocusMoves, tables, runtime, ending, QuietReports, NoReports, Shown
  <2> QED BY <1>1, <2>1
<1>9. CASE Wait \/ UNCHANGED vars
  <2>1. UNCHANGED <<inventory, devices, queue, accepting, step, stopping, sink>>
    BY <1>9 DEF Wait, vars, adapter, tables, runtime, ending
  <2> QED BY <1>1, <2>1 DEF QuietReports, NoReports, Shown
<1> QED BY <1>2, <1>3, <1>4, <1>5, <1>6, <1>7, <1>8, <1>9 DEF Next

(* Whenever no report of a device is left to be published, the manager lists *)
(* the devices that are connected, as they are, although the discovery runs  *)
(* once, late, and beside queued changes (DiscoverConnectedDevicesOnRuntime, *)
(* PublishDeviceChanged): for any number of devices and changes.             *)
THEOREM DevicesConvergeHolds == Spec => []DevicesConverge
<1>1. Spec => []InputTypeInv
  BY InputTypeInit, InputTypeNext, PTL DEF Spec
<1>2. Spec => []FencedInv
  BY <1>1, FencedInit, FencedNext, PTL DEF Spec
<1>3. Spec => []ConvergeInv
  BY <1>1, <1>2, ConvergeInit, ConvergeNext, PTL DEF Spec
<1> QED BY <1>1, <1>3, ConvergeImplies, PTL

(***************************************************************************)
(* What a shutdown releases.                                               *)
(***************************************************************************)
IsFree(s) == ~s.capture /\ \A c \in Contexts : ~s.ctx[c].live

(* A cleanup waits in the queue.                                             *)
Left(q) == \E i \in 1..Len(q) : q[i].op = "cleanup"

(* The loop leaves the event thread's work only when there is none.          *)
Turns == Idle \/ pump = "draining"

(* A destruction that is under way is the step that goes on.                 *)
DestroyingGoesOn == \A c \in Contexts : rec[c].life = "Destroying" => step.op = "destroy" /\ step.c = c

(* The sink outlives the stop only until a teardown has detached it, and no  *)
(* teardown does so while the event thread waits for itself.                 *)
SinkInv == stopping /\ sink => teardown = "detaching"
StuckInv == step.op = "deadlocked" => teardown = "detaching" /\ sink

(* What is owed at the end: the command that stopped the manager has freed   *)
(* everything and nothing is under way; after a destructor on another thread *)
(* the cleanup waits or has run; and a loop that has ended left nothing.     *)
ReleasedInv ==
  /\ stopping /\ teardown = "none" => IsFree(sdl) /\ step.op # "create"
  /\ teardown = "done" /\ accepting => Left(queue) \/ (IsFree(sdl) /\ step.op # "create")
  /\ pump = "stopped" => IsFree(sdl)

LEMMA ReleasedImplies ==
  InputTypeInv /\ FencedInv /\ DestroyingGoesOn /\ StuckInv /\ ReleasedInv => ShutdownReleases
<1> SUFFICES ASSUME InputTypeInv, FencedInv, DestroyingGoesOn, StuckInv, ReleasedInv,
                    stopping, teardown \in {"none", "done"}, step = NoStep,
                    pump = "stopped" \/ (pump # "off" /\ accepting),
                    \A i \in DOMAIN queue : queue[i].op # "cleanup"
             PROVE  /\ \A c \in Contexts : rec[c].life \in {"None", "Destroyed"} /\ ~sdl.ctx[c].live
                    /\ ~sdl.capture
  BY DEF ShutdownReleases, StuckInv
<1>1. ~Left(queue)
  BY DEF InputTypeInv, Left
<1>2. IsFree(sdl)
  BY <1>1 DEF ReleasedInv
<1>3. \A c \in Contexts : rec[c].life # "Open"
  BY DEF FencedInv, OpenIsFound, TeardownPhases
<1>4. \A c \in Contexts : rec[c].life # "Destroying"
  BY DEF DestroyingGoesOn, NoStep
<1>5. \A c \in Contexts : rec[c].life \in Lives
  BY DEF InputTypeInv, Records, RecordType
<1> QED BY <1>2, <1>3, <1>4, <1>5 DEF Lives, IsFree

LEMMA ReleasedInit == Init => Turns /\ DestroyingGoesOn /\ SinkInv /\ StuckInv /\ ReleasedInv
BY DEF Init, Turns, Idle, DestroyingGoesOn, NoRecord, NoStep, SinkInv, StuckInv, ReleasedInv

LEMMA RoutesFree ==
  ASSUME NEW s, NEW t, SameRoutes(s, t), IsFree(s)
  PROVE  IsFree(t)
BY DEF SameRoutes, IsFree

(* The queue loses no cleanup.                                               *)
NoneLost ==
  \/ queue' = queue
  \/ queue # <<>> /\ Head(queue).op # "cleanup" /\ queue' = Tail(queue)
  \/ \E events \in Seq(Items) : queue' = queue \o events

LEMMA LeftStays ==
  ASSUME InputTypeInv, NoneLost, Left(queue)
  PROVE  Left(queue')
<1>1. PICK k \in 1..Len(queue) : queue[k].op = "cleanup"
  BY DEF Left
<1>2. queue \in Seq(Items)
  BY DEF InputTypeInv
<1>3. CASE queue # <<>> /\ Head(queue).op # "cleanup" /\ queue' = Tail(queue)
  <2>1. k # 1 /\ k - 1 \in 1..(Len(queue) - 1)
    BY <1>1, <1>2, <1>3
  <2>2. PICK t \in Seq(Items) : t = Tail(queue) /\ Len(t) = Len(queue) - 1 /\ \A i \in 1..Len(t) : t[i] = queue[i + 1]
    BY <1>2, <1>3, HeadTailProperties
  <2>3. t[k - 1] = queue[k]
    BY <1>1, <2>1, <2>2
  <2> QED BY <1>1, <1>3, <2>1, <2>2, <2>3 DEF Left
<1>4. ASSUME NEW events \in Seq(Items), queue' = queue \o events PROVE Left(queue')
  <2>1. PICK t : t = queue \o events
    OBVIOUS
  <2>2. Len(t) = Len(queue) + Len(events) /\ t[k] = queue[k] /\ k \in 1..Len(t)
    BY <1>1, <1>2, <2>1, ConcatProperties
  <2> QED BY <1>1, <1>4, <2>1, <2>2 DEF Left
<1> QED BY <1>1, <1>3, <1>4 DEF NoneLost, Left

(* What most steps leave of an end that has begun.                           *)
CalmStep ==
  /\ UNCHANGED <<stopping, teardown>>
  /\ accepting' => accepting
  /\ pump' = "stopped" => pump = "stopped"
  /\ NoneLost
  /\ step'.op = "create" => step.op = "create" \/ (~stopping /\ pump = "draining")
  /\ IsFree(sdl) => IsFree(sdl') \/ (~stopping /\ pump # "stopped")

LEMMA ReleasedCalm ==
  ASSUME InputTypeInv, FencedInv, ReleasedInv, CalmStep
  PROVE  ReleasedInv'
<1>1. teardown = "done" => stopping
  BY DEF FencedInv, TeardownPhases
<1>2. Left(queue) => Left(queue')
  BY LeftStays DEF CalmStep
<1> QED BY <1>1, <1>2 DEF ReleasedInv, CalmStep

LEMMA CalmRuns ==
  ASSUME InputTypeInv, Turns, NEW cmd \in Commands, Runs(cmd)
  PROVE  NoneLost /\ step = NoStep /\ pump = "draining"
<1>1. pump = "draining"
  BY DEF Runs, Turns, Idle, InCallback
<1>2. NoneLost
  BY CommandFields DEF Runs, NoneLost
<1> QED BY <1>1, <1>2 DEF Runs, Idle, InCallback

LEMMA FreeDestroys ==
  ASSUME NEW s, IsFree(s), NEW c \in Contexts, NEW ok
  PROVE  DestroyInputContext(s, c, ok) = s
BY DEF IsFree, DestroyInputContext

(* The commands, and what continues one.                                     *)
LEMMA CalmExecutes ==
  ASSUME InputTypeInv, Turns, NEW cmd \in Commands, Execute(cmd)
  PROVE  CalmStep \/ (~stopping /\ cmd.op = "shutdown" /\ CleanupOnRuntime(cmd))
<1>1. ASSUME NEW ok \in BOOLEAN, cmd.op = "create", CreateContext(cmd, ok) PROVE CalmStep
  <2>1. NoneLost /\ step = NoStep /\ pump = "draining"
    BY <1>1, CalmRuns DEF CreateContext
  <2>2. UNCHANGED <<stopping, teardown, accepting, pump>>
    BY <1>1 DEF CreateContext, ending
  <2>3. stopping => UNCHANGED <<sdl, step>>
    BY <1>1 DEF CreateContext
  <2> QED BY <2>1, <2>2, <2>3 DEF CalmStep
<1>2. ASSUME NEW ok \in BOOLEAN, cmd.op \in {"enable", "capture", "relative"}, MutateOnRuntime(cmd, ok)
      PROVE  CalmStep
  <2>1. NoneLost
    BY <1>2, CalmRuns DEF MutateOnRuntime
  <2>2. UNCHANGED <<stopping, teardown, accepting, pump, step>>
    BY <1>2 DEF MutateOnRuntime, ending
  <2>3. sdl.ctx[cmd.c].live \/ sdl' = sdl
    BY <1>2 DEF MutateOnRuntime
  <2>4. cmd.c \in Contexts
    BY <1>2, CommandFields
  <2> QED BY <2>1, <2>2, <2>3, <2>4 DEF CalmStep, IsFree
<1>3. ASSUME cmd.op = "destroy", DestroyContext(cmd) PROVE CalmStep
  <2>1. NoneLost
    BY <1>3, CalmRuns DEF DestroyContext
  <2>2. /\ UNCHANGED <<stopping, teardown, accepting, pump, sdl>>
        /\ step' = step \/ step' = [op |-> "destroy", c |-> cmd.c]
    BY <1>3 DEF DestroyContext, ending, adapter
  <2> QED BY <2>1, <2>2 DEF CalmStep
<1>4. ASSUME stopping, CleanupOnRuntime(cmd) PROVE CalmStep
  <2>1. NoneLost
    BY <1>4, CalmRuns DEF CleanupOnRuntime
  <2>2. UNCHANGED <<stopping, teardown, accepting, pump, sdl, step>>
    BY <1>4 DEF CleanupOnRuntime
  <2> QED BY <2>1, <2>2 DEF CalmStep
<1> QED BY <1>1, <1>2, <1>3, <1>4 DEF Execute

LEMMA CalmEventThread ==
  ASSUME InputTypeInv, Turns, EventThread
  PROVE  \/ CalmStep
         \/ \E cmd \in Commands : ~stopping /\ cmd.op = "shutdown" /\ CleanupOnRuntime(cmd)
         \/ \E cs \in SUBSET Contexts : Cleanup(cs)
         \/ StopPump
<1>1. CASE Executes
  BY <1>1, CalmExecutes DEF Executes
<1>2. CASE CreateContextOnRuntime
  <2>1. /\ UNCHANGED <<stopping, teardown, accepting, pump, queue>> /\ step' = NoStep /\ step.op = "create"
        /\ sdl' = DestroyInputContext(sdl, step.c, TRUE) \/ sdl' = sdl
    BY <1>2 DEF CreateContextOnRuntime, ending, runtime
  <2>2. step.c \in Contexts
    BY <2>1, StepFields DEF InputTypeInv
  <2>3. IsFree(sdl) => sdl' = sdl
    BY <2>1, <2>2, FreeDestroys
  <2> QED BY <2>1, <2>3 DEF CalmStep, NoneLost, NoStep
<1>3. CASE DestroyContextOnRuntime
  <2>1. /\ UNCHANGED <<stopping, teardown, accepting, pump, queue>> /\ step' = NoStep /\ step.op = "destroy"
        /\ sdl' = DestroyInputContext(sdl, step.c, TRUE)
    BY <1>3 DEF DestroyContextOnRuntime, ending, runtime
  <2>2. step.c \in Contexts
    BY <2>1, StepFields DEF InputTypeInv
  <2>3. IsFree(sdl) => sdl' = sdl
    BY <2>1, <2>2, FreeDestroys
  <2> QED BY <2>1, <2>3 DEF CalmStep, NoneLost, NoStep
<1>4. CASE \E c \in Contexts, kind \in Kinds, down \in BOOLEAN : Publish(c, kind, down)
  <2>1. /\ UNCHANGED <<stopping, teardown, accepting, pump, sdl, step>>
        /\ queue # <<>> /\ Head(queue).op = "publish" /\ queue' = Tail(queue)
    BY <1>4 DEF Publish, ending, adapter
  <2> QED BY <2>1 DEF CalmStep, NoneLost
<1>5. CASE TakeDeviceEvent \/ DiscoverConnectedDevicesOnRuntime
  <2>1. /\ UNCHANGED <<stopping, teardown, accepting, pump, sdl>>
        /\ queue # <<>> /\ Head(queue).op \in {"device", "discover"} /\ queue' = Tail(queue)
        /\ step' = step \/ step' = NoStep \/ step'.op = "device"
    BY <1>5 DEF TakeDeviceEvent, DiscoverConnectedDevicesOnRuntime, ending, adapter
  <2> QED BY <2>1 DEF CalmStep, NoneLost, NoStep
<1>6. CASE PublishDeviceChanged \/ Invoke \/ CallbackReturns \/ Woken
  <2>1. /\ UNCHANGED <<stopping, teardown, accepting, queue, sdl>>
        /\ step' = step \/ step' = NoStep
        /\ pump' = pump \/ pump' = "draining"
    BY <1>6 DEF PublishDeviceChanged, Invoke, CallbackReturns, Woken, runtime, ending, adapter
  <2> QED BY <2>1 DEF CalmStep, NoneLost, NoStep
<1>7. ASSUME NEW w \in Windows, NEW b \in BOOLEAN, NEW ok \in BOOLEAN, WindowInput(w, b, ok) PROVE CalmStep
  <2>1. /\ UNCHANGED <<stopping, teardown, accepting, pump, step>>
        /\ queue # <<>> /\ Head(queue).op = "window" /\ queue' = Tail(queue)
        /\ sdl' = sdl \/ sdl' = SetInputEnabled(sdl, w, b, ok)
    BY <1>7 DEF WindowInput, ending
  <2>2. PICK t \in Adapter : SetInputEnabled(sdl, w, b, ok) = t /\ SameRoutes(sdl, t)
    BY SetInputEnabledType DEF InputTypeInv
  <2>3. IsFree(sdl) => IsFree(sdl')
    BY <2>1, <2>2, RoutesFree
  <2> QED BY <2>1, <2>3 DEF CalmStep, NoneLost
<1>8. ASSUME NEW w \in Windows, WindowMutation(w) PROVE CalmStep
  <2>1. /\ UNCHANGED <<stopping, teardown, accepting, pump, step>>
        /\ queue # <<>> /\ Head(queue).op = "mutate" /\ queue' = Tail(queue)
        /\ sdl' = sdl \/ sdl' = Query(sdl, w)
    BY <1>8 DEF WindowMutation, tables, ending
  <2>2. PICK t \in Adapter : Query(sdl, w) = t /\ t.ctx = sdl.ctx /\ t.capture = sdl.capture
    BY QueryType DEF InputTypeInv
  <2>3. IsFree(sdl) => IsFree(sdl')
    BY <2>1, <2>2 DEF IsFree
  <2> QED BY <2>1, <2>3 DEF CalmStep, NoneLost
<1>9. CASE DestroyContextUnderLock
  <2>1. ~IsFree(sdl)
    BY <1>9, UnderLockEffect DEF IsFree
  <2> QED BY <1>9, <2>1, UnderLockFrame DEF CalmStep, NoneLost
<1> QED BY <1>1, <1>2, <1>3, <1>4, <1>5, <1>6, <1>7, <1>8, <1>9 DEF EventThread

LEMMA CalmDelivery ==
  ASSUME InputTypeInv, Delivery
  PROVE  CalmStep
<1>0. ASSUME NEW events \in Seq(Items), Post(events) PROVE NoneLost
  BY <1>0 DEF Post, NoneLost
<1>1. ASSUME NEW w \in Windows, NEW gained \in BOOLEAN, NEW ok \in BOOLEAN, DispatchFocus(w, gained, ok)
      PROVE  CalmStep
  <2>1. /\ UNCHANGED <<stopping, teardown, accepting, queue, step>> /\ pump' = "draining"
        /\ sdl' = sdl \/ sdl' = IF gained THEN FocusGained(sdl, w, ok) ELSE FocusLost(sdl, w, ok)
    BY <1>1 DEF DispatchFocus, Delivered, ending
  <2>2. PICK t \in Adapter : FocusGained(sdl, w, ok) = t /\ SameRoutes(sdl, t)
    BY FocusGainedType DEF InputTypeInv
  <2>3. PICK u \in Adapter : FocusLost(sdl, w, ok) = u /\ SameRoutes(sdl, u)
    BY FocusLostType DEF InputTypeInv
  <2>4. IsFree(sdl) => IsFree(sdl')
    BY <2>1, <2>2, <2>3, RoutesFree
  <2> QED BY <2>1, <2>4 DEF CalmStep, NoneLost
<1>2. ASSUME NEW w \in Windows, NEW taken \in BOOLEAN, NEW ok \in BOOLEAN, DispatchClosed(w, taken, ok)
      PROVE  CalmStep
  <2>1. PICK last \in Adapter :
          /\ (IF taken THEN InvalidateRemovedInputTarget(sdl, w, ok) ELSE PrepareWindowRemoval(sdl, {w})) = last
          /\ SameRoutes(sdl, last)
    BY LastType
  <2>2. UNCHANGED <<stopping, teardown, accepting, queue, step>> /\ pump' = "draining" /\ sdl' = Erase(last, {w})
    BY <1>2, <2>1 DEF DispatchClosed, Occurs, Delivered, ending
  <2>3. PICK ws \in SUBSET Windows : ws = {w}
    OBVIOUS
  <2>4. PICK t \in Adapter : Erase(last, ws) = t /\ t.ctx = last.ctx /\ t.capture = last.capture
    BY EraseType
  <2>5. IsFree(sdl) => IsFree(sdl')
    BY <2>1, <2>2, <2>3, <2>4, RoutesFree DEF IsFree
  <2> QED BY <2>2, <2>5 DEF CalmStep, NoneLost
<1>3. ASSUME NEW w \in Windows, NEW kind \in Kinds, NEW down \in BOOLEAN, DispatchInput(w, kind, down)
      PROVE  CalmStep
  <2>1. UNCHANGED <<stopping, teardown, accepting, sdl, step>> /\ pump' = "draining"
    BY <1>3 DEF DispatchInput, Occurs, Delivered, ending, adapter
  <2>2. PICK cs \in SetToSeqs(InputTargetsForWindow(sdl, w)) : Post(Published(cs, kind, down))
    BY <1>3 DEF DispatchInput
  <2>3. NoneLost
    BY <1>0, <2>2, PublishedType, ItemsType
  <2> QED BY <2>1, <2>3 DEF CalmStep
<1>4. ASSUME NEW w \in Windows, NEW d \in Devices, NEW down \in BOOLEAN, DispatchTouchEvent(w, d, down)
      PROVE  CalmStep
  <2>1. UNCHANGED <<stopping, teardown, accepting, sdl, step>> /\ pump' = "draining"
    BY <1>4 DEF DispatchTouchEvent, Occurs, Delivered, ending
  <2>2. NoneLost
    BY <1>4, TouchPosts, <1>0
  <2> QED BY <2>1, <2>2 DEF CalmStep
<1>5. ASSUME NEW d \in Devices, NEW version \in Versions, DispatchDeviceEvent(d, version)
      PROVE  CalmStep
  <2>1. UNCHANGED <<stopping, teardown, accepting, sdl, step>> /\ pump' = "draining"
    BY <1>5 DEF DispatchDeviceEvent, Occurs, Delivered, ending
  <2>2. PICK events \in Seq(Items) :
          events = IF version = 0 THEN RemoveDevice(d) ELSE AddOrUpdateDevice(d, version)
    BY ReportType, ItemsType
  <2>3. NoneLost
    BY <1>0, <1>5, <2>2 DEF DispatchDeviceEvent
  <2> QED BY <2>1, <2>3 DEF CalmStep
<1> QED BY <1>1, <1>2, <1>3, <1>4, <1>5 DEF Delivery

LEMMA CalmOtherThreads ==
  ASSUME InputTypeInv, OtherThreads
  PROVE  CalmStep \/ BeginTeardown
<1>1. ASSUME NEW item \in Items, queue' = Append(queue, item) PROVE NoneLost
  <2>1. queue' = queue \o <<item>> /\ <<item>> \in Seq(Items)
    BY <1>1, AppendIsConcat DEF InputTypeInv
  <2> QED BY <2>1 DEF NoneLost
<1>2. ASSUME NEW cmd \in Commands, Submit(cmd) PROVE CalmStep
  <2>1. NoneLost
    BY <1>1, <1>2, CommandFields DEF Submit
  <2> QED BY <1>2, <2>1 DEF Submit, adapter, ending, CalmStep
<1>3. ASSUME NEW cmd \in WindowCommands, SubmitWindow(cmd) PROVE CalmStep
  <2>1. NoneLost
    BY <1>1, <1>3 DEF SubmitWindow, Items
  <2> QED BY <1>3, <2>1 DEF SubmitWindow, adapter, ending, CalmStep
<1>4. CASE (\E s \in Subs, topic \in Topics : Subscribe(s, topic)) \/ \E s \in Subs : Reset(s)
  BY <1>4 DEF Subscribe, Reset, adapter, runtime, ending, CalmStep, NoneLost
<1>5. CASE RequestStop
  BY <1>5 DEF RequestStop, adapter, ending, CalmStep, NoneLost
<1> QED BY <1>2, <1>3, <1>4, <1>5 DEF OtherThreads

LEMMA TurnsNext == InputTypeInv /\ Turns /\ [Next]_vars => Turns'
<1> SUFFICES ASSUME InputTypeInv, Turns, [Next]_vars PROVE Turns'
  OBVIOUS
<1>1. CASE EventThread
  <2>1. CASE Executes
    <3>1. PICK cmd \in Commands : Execute(cmd)
      BY <2>1 DEF Executes
    <3>2. Runs(cmd) /\ pump' = pump
      BY <3>1 DEF Execute, CreateContext, MutateOnRuntime, DestroyContext, CleanupOnRuntime
    <3> QED BY <3>2, CalmRuns DEF Turns
  <2>2. CASE Woken
    BY <2>2 DEF Woken, Turns
  <2>3. CASE StopPump
    BY <2>3 DEF StopPump, Turns, Idle, callbacks
  <2>4. CASE \/ CreateContextOnRuntime \/ DestroyContextOnRuntime \/ PublishDeviceChanged
             \/ Invoke \/ CallbackReturns
    <3>1. ~Idle
      <4>1. CreateContextOnRuntime \/ DestroyContextOnRuntime \/ PublishDeviceChanged => step # NoStep
        <5>1. NoStep.op = "none"
          BY DEF NoStep
        <5>2. CreateContextOnRuntime => step.op = "create"
          BY DEF CreateContextOnRuntime
        <5>3. DestroyContextOnRuntime => step.op = "destroy"
          BY DEF DestroyContextOnRuntime
        <5>4. PublishDeviceChanged => step.op = "device"
          BY DEF PublishDeviceChanged
        <5> QED BY <5>1, <5>2, <5>3, <5>4
      <4>2. Invoke => calls # {}
        BY DEF Invoke
      <4>3. CallbackReturns => running # NoSub
        BY DEF CallbackReturns, InCallback
      <4> QED BY <2>4, <4>1, <4>2, <4>3 DEF Idle
    <3>2. pump' = pump
      BY <2>4 DEF CreateContextOnRuntime, DestroyContextOnRuntime, PublishDeviceChanged, Invoke, CallbackReturns, runtime
    <3> QED BY <3>1, <3>2 DEF Turns
  <2>6. CASE DestroyContextUnderLock
    <3>1. ~Idle
      BY <2>6, UnderLockFrame DEF Idle, NoStep
    <3> QED BY <2>6, <3>1, UnderLockFrame DEF Turns
  <2>5. CASE \/ \E cs \in SUBSET Contexts : Cleanup(cs)
             \/ \E c \in Contexts, kind \in Kinds, down \in BOOLEAN : Publish(c, kind, down)
             \/ TakeDeviceEvent \/ DiscoverConnectedDevicesOnRuntime
             \/ \E w \in Windows, b, ok \in BOOLEAN : WindowInput(w, b, ok)
             \/ \E w \in Windows : WindowMutation(w)
    BY <2>5 DEF Cleanup, Publish, TakeDeviceEvent, DiscoverConnectedDevicesOnRuntime, WindowInput, WindowMutation, Turns
  <2> QED BY <1>1, <2>1, <2>2, <2>3, <2>4, <2>5, <2>6 DEF EventThread
<1>2. CASE Teardown
  BY <1>2 DEF Teardown, DetachAllContexts, MarkRecordDestroyed, Fence, DeactivateManagerSubscriptions, PostCleanup,
     runtime, callbacks, Turns, Idle
<1>3. CASE Delivery
  BY <1>3 DEF Delivery, DispatchFocus, DispatchClosed, DispatchInput, DispatchTouchEvent, DispatchDeviceEvent,
     Occurs, Delivered, Turns
<1>4. CASE OtherThreads
  BY <1>4 DEF OtherThreads, Submit, SubmitWindow, Subscribe, Reset, BeginTeardown, RequestStop,
     runtime, callbacks, Turns, Idle
<1>5. CASE \E connected \in SUBSET Devices : StartPump(connected)
  BY <1>5 DEF StartPump, Turns
<1>6. CASE \/ \E s \in Subs : ResetInCallback(s)
           \/ \E w \in Windows \cup {NoWindow} : FocusMoves(w)
           \/ Wait \/ UNCHANGED vars
  BY <1>6 DEF ResetInCallback, FocusMoves, Wait, vars, runtime, callbacks, Turns, Idle
<1> QED BY <1>1, <1>2, <1>3, <1>4, <1>5, <1>6 DEF Next

(* While a destruction is under way nothing else is.                         *)
LEMMA DestructionGoesOn ==
  ASSUME InputTypeInv, Turns, [Next]_vars, step.op = "destroy"
  PROVE  step' = step \/ DestroyContextOnRuntime
<1>0. step # NoStep
  BY DEF NoStep
<1>1. CASE EventThread
  <2>1. ~Executes
    <3>1. ASSUME NEW cmd \in Commands, Execute(cmd) PROVE FALSE
      <4>1. Runs(cmd)
        BY <3>1 DEF Execute, CreateContext, MutateOnRuntime, DestroyContext, CleanupOnRuntime
      <4> QED BY <1>0, <4>1, CalmRuns
    <3> QED BY <3>1 DEF Executes
  <2>2. ~CreateContextOnRuntime /\ ~DestroyContextUnderLock /\ ~PublishDeviceChanged /\ ~TakeDeviceEvent
    BY <1>0 DEF CreateContextOnRuntime, DestroyContextUnderLock, PublishDeviceChanged, TakeDeviceEvent, Idle
  <2> QED BY <1>1, <2>1, <2>2 DEF EventThread, Cleanup, Publish, DiscoverConnectedDevicesOnRuntime, Invoke,
             CallbackReturns, WindowInput, WindowMutation, Woken, StopPump
<1>2. CASE Teardown
  BY <1>2 DEF Teardown, DetachAllContexts, MarkRecordDestroyed, Fence, DeactivateManagerSubscriptions, PostCleanup
<1>3. CASE Delivery
  BY <1>3 DEF Delivery, DispatchFocus, DispatchClosed, DispatchInput, DispatchTouchEvent, DispatchDeviceEvent
<1>4. CASE OtherThreads
  BY <1>4 DEF OtherThreads, Submit, SubmitWindow, Subscribe, Reset, BeginTeardown, RequestStop
<1>5. CASE \/ \E s \in Subs : ResetInCallback(s)
           \/ \E connected \in SUBSET Devices : StartPump(connected)
           \/ \E w \in Windows \cup {NoWindow} : FocusMoves(w)
           \/ Wait \/ UNCHANGED vars
  BY <1>5 DEF ResetInCallback, StartPump, FocusMoves, Wait, vars
<1> QED BY <1>1, <1>2, <1>3, <1>4, <1>5 DEF Next

(* An event thread that waits for itself does so for ever, and so does the   *)
(* one that tears down, which waits for the sink.                            *)
LEMMA StuckStays ==
  ASSUME InputTypeInv, Turns, StuckInv, [Next]_vars, step.op = "deadlocked"
  PROVE  UNCHANGED <<sdl, rec, contexts, step, stopping, sink, teardown, owned>>
<1>0. step # NoStep /\ ~Idle /\ pump = "draining"
  BY DEF NoStep, Idle, Turns
<1>1. CASE EventThread
  <2>1. ~Executes
    <3>1. ASSUME NEW cmd \in Commands, Execute(cmd) PROVE FALSE
      <4>1. Runs(cmd)
        BY <3>1 DEF Execute, CreateContext, MutateOnRuntime, DestroyContext, CleanupOnRuntime
      <4> QED BY <1>0, <4>1, CalmRuns
    <3> QED BY <3>1 DEF Executes
  <2>2. /\ ~CreateContextOnRuntime /\ ~DestroyContextUnderLock /\ ~DestroyContextOnRuntime
        /\ ~PublishDeviceChanged
    BY DEF CreateContextOnRuntime, DestroyContextUnderLock, DestroyContextOnRuntime, PublishDeviceChanged
  <2>3. ~Invoke /\ ~CallbackReturns /\ ~DiscoverConnectedDevicesOnRuntime /\ ~TakeDeviceEvent /\ ~StopPump
    BY <1>0 DEF Invoke, CallbackReturns, InCallback, DiscoverConnectedDevicesOnRuntime, TakeDeviceEvent, StopPump
  <2>4. /\ \A w \in Windows, b, ok \in BOOLEAN : ~WindowInput(w, b, ok)
        /\ \A w \in Windows : ~WindowMutation(w)
        /\ \A cs \in SUBSET Contexts : ~Cleanup(cs)
        /\ \A c \in Contexts, kind \in Kinds, down \in BOOLEAN : ~Publish(c, kind, down)
    BY <1>0 DEF WindowInput, WindowMutation, Cleanup, Publish
  <2>5. ~Woken
    BY <1>0 DEF Woken
  <2> QED BY <1>1, <2>1, <2>2, <2>3, <2>4, <2>5 DEF EventThread
<1>2. ~Teardown
  BY DEF Teardown, DetachAllContexts, MarkRecordDestroyed, Fence, DeactivateManagerSubscriptions, PostCleanup, StuckInv
<1>3. ~Delivery
  BY <1>0 DEF Delivery, DispatchFocus, DispatchClosed, DispatchInput, DispatchTouchEvent, DispatchDeviceEvent,
     Occurs, Delivered
<1>4. CASE OtherThreads
  BY <1>4 DEF OtherThreads, Submit, SubmitWindow, Subscribe, Reset, BeginTeardown, RequestStop, adapter, tables, ending,
     StuckInv
<1>5. ~\E connected \in SUBSET Devices : StartPump(connected)
  BY <1>0 DEF StartPump
<1>6. CASE \/ \E s \in Subs : ResetInCallback(s)
           \/ \E w \in Windows \cup {NoWindow} : FocusMoves(w)
           \/ Wait \/ UNCHANGED vars
  BY <1>6 DEF ResetInCallback, FocusMoves, Wait, vars, adapter, tables, ending
<1> QED BY <1>1, <1>2, <1>3, <1>4, <1>5, <1>6 DEF Next

LEMMA Sticks ==
  ASSUME InputTypeInv, Turns, [Next]_vars, step.op # "deadlocked", step'.op = "deadlocked"
  PROVE  DestroyContextUnderLock
<1>0. step' # step
  OBVIOUS
<1>1. CASE EventThread
  <2>1. ~Executes
    <3>1. ASSUME NEW cmd \in Commands, Execute(cmd) PROVE FALSE
      <4>1. \A c : /\ [op |-> "create", c |-> c].op = "create"
                   /\ [op |-> "destroy", c |-> c].op = "destroy"
        OBVIOUS
      <4>2. CASE \E ok \in BOOLEAN : CreateContext(cmd, ok)
        BY <1>0, <4>1, <4>2 DEF CreateContext
      <4>3. CASE DestroyContext(cmd)
        BY <1>0, <4>1, <4>3 DEF DestroyContext
      <4> QED BY <1>0, <3>1, <4>2, <4>3 DEF Execute, MutateOnRuntime, CleanupOnRuntime
    <3> QED BY <3>1 DEF Executes
  <2>2. ~TakeDeviceEvent
    BY DEF TakeDeviceEvent, NoStep
  <2>3. ~CreateContextOnRuntime /\ ~DestroyContextOnRuntime /\ ~PublishDeviceChanged
    <3>1. step' # NoStep
      BY DEF NoStep
    <3> QED BY <3>1 DEF CreateContextOnRuntime, DestroyContextOnRuntime, PublishDeviceChanged
  <2> QED BY <1>0, <1>1, <2>1, <2>2, <2>3 DEF EventThread, Cleanup, Publish, DiscoverConnectedDevicesOnRuntime, Invoke,
             CallbackReturns, WindowInput, WindowMutation, Woken, StopPump
<1>2. CASE Teardown
  BY <1>0, <1>2 DEF Teardown, DetachAllContexts, MarkRecordDestroyed, Fence, DeactivateManagerSubscriptions, PostCleanup
<1>3. CASE Delivery
  BY <1>0, <1>3 DEF Delivery, DispatchFocus, DispatchClosed, DispatchInput, DispatchTouchEvent, DispatchDeviceEvent
<1>4. CASE OtherThreads
  BY <1>0, <1>4 DEF OtherThreads, Submit, SubmitWindow, Subscribe, Reset, BeginTeardown, RequestStop
<1>5. CASE \/ \E s \in Subs : ResetInCallback(s)
           \/ \E connected \in SUBSET Devices : StartPump(connected)
           \/ \E w \in Windows \cup {NoWindow} : FocusMoves(w)
           \/ Wait \/ UNCHANGED vars
  BY <1>0, <1>5 DEF ResetInCallback, StartPump, FocusMoves, Wait, vars
<1> QED BY <1>1, <1>2, <1>3, <1>4, <1>5 DEF Next

LEMMA StuckNext ==
  InputTypeInv /\ FencedInv /\ Turns /\ SinkInv /\ StuckInv /\ [Next]_vars => StuckInv'
<1> SUFFICES ASSUME InputTypeInv, FencedInv, Turns, SinkInv, StuckInv, [Next]_vars, step'.op = "deadlocked"
             PROVE  (teardown = "detaching" /\ sink)'
  BY DEF StuckInv
<1>1. CASE step.op = "deadlocked"
  BY <1>1, StuckStays DEF StuckInv
<1>2. CASE step.op # "deadlocked"
  BY <1>2, Sticks, UnderLockFrame DEF SinkInv
<1> QED BY <1>1, <1>2

LEMMA SinkNext == InputTypeInv /\ SinkInv /\ [Next]_vars => SinkInv'
<1> SUFFICES ASSUME InputTypeInv, SinkInv, [Next]_vars PROVE SinkInv'
  OBVIOUS
<1>1. CASE QuietStep
  BY <1>1 DEF QuietStep, SinkInv
<1>2. CASE \/ CreateContextOnRuntime \/ DestroyContextOnRuntime
           \/ \E cmd \in Commands : cmd.op = "destroy" /\ DestroyContext(cmd)
           \/ Invoke
           \/ \E s \in Subs : ResetInCallback(s) \/ Reset(s)
           \/ \E s \in Subs, topic \in Topics : Subscribe(s, topic)
  BY <1>2 DEF CreateContextOnRuntime, DestroyContextOnRuntime, DestroyContext, Invoke, ResetInCallback, Reset,
     Subscribe, ending, SinkInv
<1>3. CASE \E cmd \in Commands : CleanupOnRuntime(cmd)
  BY <1>3 DEF CleanupOnRuntime, SinkInv
<1>4. CASE BeginTeardown \/ Teardown
  BY <1>4 DEF BeginTeardown, Teardown, DetachAllContexts, MarkRecordDestroyed, Fence, DeactivateManagerSubscriptions,
     PostCleanup, ending, SinkInv
<1> QED BY <1>1, <1>2, <1>3, <1>4, QuietOrLoud DEF LoudStep

LEMMA DestroyingNext ==
  InputTypeInv /\ Turns /\ DestroyingGoesOn /\ [Next]_vars => DestroyingGoesOn'
<1> SUFFICES ASSUME InputTypeInv, Turns, DestroyingGoesOn, [Next]_vars PROVE DestroyingGoesOn'
  OBVIOUS
<1>0. ASSUME \A c \in Contexts : rec'[c].life = "Destroying" => rec[c].life = "Destroying"
      PROVE  DestroyingGoesOn' \/ DestroyContextOnRuntime
  BY <1>0, DestructionGoesOn DEF DestroyingGoesOn
<1>1. CASE DestroyContextOnRuntime
  <2>1. \A c \in Contexts : rec'[c].life # "Destroying"
    BY <1>1, DestroyedLives DEF DestroyingGoesOn
  <2> QED BY <2>1 DEF DestroyingGoesOn
<1>2. CASE QuietStep
  BY <1>0, <1>1, <1>2 DEF QuietStep, SameLives
<1>3. CASE CreateContextOnRuntime
  <2>1. \A c \in Contexts : rec'[c].life \in {rec[c].life, "Open"}
    BY <1>3, CreatedLives DEF Kept
  <2> QED BY <1>0, <1>1, <2>1
<1>4. ASSUME NEW cmd \in Commands, cmd.op = "destroy", DestroyContext(cmd) PROVE DestroyingGoesOn'
  <2>1. step = NoStep
    BY <1>4, CalmRuns DEF DestroyContext
  <2>2. \A c \in Contexts : rec[c].life # "Destroying"
    BY <2>1 DEF DestroyingGoesOn, NoStep
  <2>3. PICK c \in Contexts, life \in Lives : c = cmd.c /\ life = "Destroying"
    BY <1>4, CommandFields DEF Lives
  <2>4. PICK q \in Records : /\ [rec EXCEPT ![c].life = life] = q
                             /\ q[c].life = life
                             /\ \A d \in Contexts \ {c} : q[d] = rec[d]
    BY LifeSet DEF InputTypeInv
  <2>5. rec' = rec \/ (rec' = q /\ step' = [op |-> "destroy", c |-> c])
    BY <1>4, <2>3, <2>4 DEF DestroyContext
  <2> QED BY <2>2, <2>4, <2>5 DEF DestroyingGoesOn
<1>5. ASSUME NEW cmd \in Commands, CleanupOnRuntime(cmd) PROVE DestroyingGoesOn'
  <2>1. rec' = rec \/ rec' = DestroyRecords(contexts)
    BY <1>5 DEF CleanupOnRuntime, tables
  <2>2. ASSUME NEW c \in Contexts, rec'[c].life = "Destroying" PROVE rec[c].life = "Destroying"
    <3>1. CASE rec' = rec
      BY <2>2, <3>1
    <3>2. CASE rec' = DestroyRecords(contexts)
      <4>1. rec'[c] = IF c \in contexts THEN [rec[c] EXCEPT !.life = "Destroyed", !.pressed = {}] ELSE rec[c]
        BY <3>2 DEF DestroyRecords
      <4>2. [rec[c] EXCEPT !.life = "Destroyed", !.pressed = {}].life = "Destroyed"
        BY DEF InputTypeInv, Records, RecordType
      <4> QED BY <2>2, <4>1, <4>2
    <3> QED BY <2>1, <3>1, <3>2
  <2> QED BY <1>0, <1>1, <2>2
<1>6. CASE \/ Invoke \/ BeginTeardown
           \/ \E s \in Subs : ResetInCallback(s) \/ Reset(s)
           \/ \E s \in Subs, topic \in Topics : Subscribe(s, topic)
           \/ DetachAllContexts \/ (\E s \in Subs : Fence(s))
           \/ DeactivateManagerSubscriptions \/ PostCleanup
  <2>1. rec' = rec
    BY <1>6 DEF Invoke, BeginTeardown, ResetInCallback, Reset, Subscribe, DetachAllContexts, Fence,
       DeactivateManagerSubscriptions, PostCleanup, tables
  <2> QED BY <1>0, <1>1, <2>1
<1>7. ASSUME NEW c \in Contexts, MarkRecordDestroyed(c) PROVE DestroyingGoesOn'
  <2>1. rec' = Ended(rec, c)
    BY <1>7 DEF MarkRecordDestroyed, Ended
  <2>2. \A d \in Contexts : rec'[d].life = "Destroying" => rec[d].life = "Destroying"
    BY <2>1, LifeEnds DEF InputTypeInv
  <2> QED BY <1>0, <1>1, <2>2
<1> QED BY <1>1, <1>2, <1>3, <1>4, <1>5, <1>6, <1>7, QuietOrLoud DEF LoudStep, Teardown

LEMMA ReleasedNext ==
  InputTypeInv /\ FencedInv /\ Turns /\ ReleasedInv /\ [Next]_vars => ReleasedInv'
<1> SUFFICES ASSUME InputTypeInv, FencedInv, Turns, ReleasedInv, [Next]_vars PROVE ReleasedInv'
  OBVIOUS
<1>0. PICK t \in Adapter : ShutdownInput(sdl) = t /\ IsFree(t)
  BY ShutdownInputType DEF InputTypeInv, IsFree
<1>1. CASE CalmStep
  BY <1>1, ReleasedCalm
<1>2. ASSUME NEW cmd \in Commands, ~stopping, CleanupOnRuntime(cmd) PROVE ReleasedInv'
  <2>1. step = NoStep /\ pump = "draining"
    BY <1>2, CalmRuns DEF CleanupOnRuntime
  <2>2. /\ UNCHANGED <<teardown, accepting, pump, step>>
        /\ sdl' = ShutdownInput(DestroyAll(sdl, contexts))
    BY <1>2 DEF CleanupOnRuntime
  <2>3. PICK u \in Adapter : DestroyAll(sdl, contexts) = u
    BY DestroyAllType DEF InputTypeInv
  <2>4. IsFree(sdl')
    BY <2>2, <2>3, ShutdownInputType DEF IsFree
  <2> QED BY <2>1, <2>2, <2>4 DEF ReleasedInv, NoStep
<1>3. ASSUME NEW cs \in SUBSET Contexts, Cleanup(cs) PROVE ReleasedInv'
  <2>1. step = NoStep /\ step' = step /\ sdl' = ShutdownInput(DestroyAll(sdl, cs))
    BY <1>3 DEF Cleanup, Idle
  <2>2. PICK u \in Adapter : DestroyAll(sdl, cs) = u
    BY DestroyAllType DEF InputTypeInv
  <2>3. IsFree(sdl')
    BY <2>1, <2>2, ShutdownInputType DEF IsFree
  <2> QED BY <2>1, <2>3 DEF ReleasedInv, NoStep
<1>4. CASE StopPump
  <2>1. step = NoStep /\ step' = step /\ sdl' = ShutdownWindows(ShutdownInput(sdl))
    BY <1>4 DEF StopPump, Idle
  <2>2. PICK u \in Adapter : ShutdownWindows(t) = u /\ SameRoutes(t, u)
    BY ShutdownWindowsType
  <2>3. IsFree(sdl')
    BY <1>0, <2>1, <2>2, RoutesFree
  <2> QED BY <2>1, <2>3 DEF ReleasedInv, NoStep
<1>5. CASE BeginTeardown
  <2>1. UNCHANGED <<sdl, pump>> /\ teardown' = "detaching"
    BY <1>5 DEF BeginTeardown, adapter, runtime
  <2> QED BY <2>1 DEF ReleasedInv
<1>6. CASE Teardown
  <2>1. CASE \E c \in Contexts : MarkRecordDestroyed(c)
    BY <1>1, <2>1 DEF MarkRecordDestroyed, CalmStep, NoneLost, adapter, runtime, ending
  <2>2. CASE \E s \in Subs : Fence(s)
    BY <1>1, <2>2 DEF Fence, CalmStep, NoneLost, adapter, runtime, ending
  <2>3. CASE DetachAllContexts \/ DeactivateManagerSubscriptions
    <3>1. UNCHANGED <<sdl, pump>> /\ teardown' \in {"marking", "fencing"}
      BY <2>3 DEF DetachAllContexts, DeactivateManagerSubscriptions, adapter, runtime
    <3> QED BY <3>1 DEF ReleasedInv
  <2>4. CASE PostCleanup
    <3>1. /\ UNCHANGED <<sdl, pump, accepting>> /\ teardown' = "done"
          /\ accepting => queue' = Append(queue, [op |-> "cleanup", cs |-> owned])
      BY <2>4 DEF PostCleanup, adapter
    <3>2. accepting => Left(queue')
      <4>1. PICK item : item = [op |-> "cleanup", cs |-> owned]
        OBVIOUS
      <4>2. item \in Items /\ item.op = "cleanup"
        BY <4>1 DEF InputTypeInv, Items, Cleanups
      <4>3. PICK longer : longer = Append(queue, item)
        OBVIOUS
      <4>4. Len(longer) = Len(queue) + 1 /\ longer[Len(longer)] = item /\ Len(longer) \in 1..Len(longer)
        BY <4>2, <4>3 DEF InputTypeInv
      <4> QED BY <3>1, <4>1, <4>2, <4>3, <4>4 DEF Left
    <3> QED BY <3>1, <3>2 DEF ReleasedInv
  <2> QED BY <1>6, <2>1, <2>2, <2>3, <2>4 DEF Teardown
<1>7. CASE \E connected \in SUBSET Devices : StartPump(connected)
  <2>1. PICK connected \in SUBSET Devices : StartPump(connected)
    BY <1>7
  <2>2. PICK events \in Seq(Items) : Post(events)
    BY <2>1, StartPosts
  <2>3. NoneLost
    BY <2>2 DEF Post, NoneLost
  <2>4. UNCHANGED <<stopping, teardown, accepting, sdl, step>> /\ pump' = "draining"
    BY <2>1 DEF StartPump, ending
  <2> QED BY <1>1, <2>3, <2>4 DEF CalmStep
<1>8. CASE \E s \in Subs : ResetInCallback(s)
  BY <1>1, <1>8 DEF ResetInCallback, CalmStep, NoneLost, adapter, runtime, ending
<1>9. CASE \E w \in Windows \cup {NoWindow} : FocusMoves(w)
  BY <1>1, <1>9 DEF FocusMoves, CalmStep, NoneLost, runtime, ending
<1>10. CASE Wait \/ UNCHANGED vars
  <2>1. /\ UNCHANGED <<sdl, stopping, teardown, accepting, queue, step>>
        /\ pump' = "stopped" => pump = "stopped"
    BY <1>10 DEF Wait, vars, adapter, runtime, ending
  <2> QED BY <1>1, <2>1 DEF CalmStep, NoneLost
<1>11. CASE EventThread
  BY <1>1, <1>2, <1>3, <1>4, <1>11, CalmEventThread
<1>12. CASE Delivery
  BY <1>1, <1>12, CalmDelivery
<1>13. CASE OtherThreads
  BY <1>1, <1>5, <1>13, CalmOtherThreads
<1> QED BY <1>6, <1>7, <1>8, <1>9, <1>10, <1>11, <1>12, <1>13 DEF Next

(* A shutdown by command, or by a destructor on another thread, leaves every *)
(* record destroyed, no context in the adapter and the pointer free, however *)
(* it meets creations and destructions that are under way (ShutdownTask,     *)
(* ShutdownFallback, CleanupOnRuntime): for any number of contexts.          *)
THEOREM ShutdownReleasesHolds == Spec => []ShutdownReleases
<1>1. Spec => []InputTypeInv
  BY InputTypeInit, InputTypeNext, PTL DEF Spec
<1>2. Spec => []FencedInv
  BY <1>1, FencedInit, FencedNext, PTL DEF Spec
<1>3. Spec => []Turns
  BY <1>1, ReleasedInit, TurnsNext, PTL DEF Spec
<1>4. Spec => []DestroyingGoesOn
  BY <1>1, <1>3, ReleasedInit, DestroyingNext, PTL DEF Spec
<1>5. Spec => []ReleasedInv
  BY <1>1, <1>2, <1>3, ReleasedInit, ReleasedNext, PTL DEF Spec
<1>6. Spec => []SinkInv
  BY <1>1, ReleasedInit, SinkNext, PTL DEF Spec
<1>7. Spec => []StuckInv
  BY <1>1, <1>2, <1>3, <1>6, ReleasedInit, StuckNext, PTL DEF Spec
<1> QED BY <1>1, <1>2, <1>4, <1>5, <1>7, ReleasedImplies, PTL

(***************************************************************************)
(* Names are used once: a context that is asked for, or is being made, has *)
(* no record, nothing pressed and no input on its way.                     *)
(***************************************************************************)
(* Contexts keep their window or go, and windows do not come back.           *)
Shrinks(s, t) ==
  /\ \A c \in Contexts : t.ctx[c].live => s.ctx[c].live /\ t.ctx[c].target = s.ctx[c].target
  /\ \A w \in Windows : t.win[w].alive => s.win[w].alive

Makes == \E cmd \in Commands, ok \in BOOLEAN : cmd.op = "create" /\ CreateContext(cmd, ok)

LEMMA ShrinksSame ==
  ASSUME NEW s, NEW t, t.win = s.win \/ SameAlive(s, t), SameRoutes(s, t)
  PROVE  Shrinks(s, t)
BY DEF Shrinks, SameAlive, SameRoutes

LEMMA ShrinksSelf == \A s : Shrinks(s, s)
BY DEF Shrinks

LEMMA ShrinksEvent ==
  ASSUME InputTypeInv, EventThread
  PROVE  Shrinks(sdl, sdl') \/ Makes
<1>0. sdl \in Adapter
  BY DEF InputTypeInv
<1>1. CASE Executes
  <2>1. PICK cmd \in Commands : Execute(cmd)
    BY <1>1 DEF Executes
  <2>2. ASSUME NEW ok \in BOOLEAN, cmd.op = "create", CreateContext(cmd, ok) PROVE Makes
    BY <2>2 DEF Makes
  <2>3. ASSUME NEW ok \in BOOLEAN, cmd.op \in {"enable", "capture", "relative"}, MutateOnRuntime(cmd, ok)
        PROVE  Shrinks(sdl, sdl')
    <3>1. PICK t \in Adapter : Mutated(cmd, ok) = t /\ t.win = sdl.win /\ SameRoutes(sdl, t)
      BY <2>3, MutatedType
    <3>2. sdl' = sdl \/ sdl' = t
      BY <2>3, <3>1 DEF MutateOnRuntime
    <3> QED BY <3>1, <3>2, ShrinksSame, ShrinksSelf
  <2>4. ASSUME DestroyContext(cmd) PROVE Shrinks(sdl, sdl')
    BY <2>4, ShrinksSelf DEF DestroyContext, adapter
  <2>5. ASSUME CleanupOnRuntime(cmd) PROVE Shrinks(sdl, sdl')
    <3>1. contexts \in SUBSET Contexts
      BY DEF InputTypeInv
    <3>2. PICK t \in Adapter : DestroyAll(sdl, contexts) = t /\ t.win = sdl.win
      BY <1>0, <3>1, DestroyAllType
    <3>3. PICK u \in Adapter : ShutdownInput(t) = u /\ u.win = t.win /\ \A c \in Contexts : ~u.ctx[c].live
      BY ShutdownInputType
    <3>4. sdl' = sdl \/ sdl' = u
      BY <2>5, <3>2, <3>3 DEF CleanupOnRuntime
    <3> QED BY <3>2, <3>3, <3>4, ShrinksSelf DEF Shrinks
  <2> QED BY <2>1, <2>2, <2>3, <2>4, <2>5 DEF Execute
<1>8. CASE DestroyContextUnderLock
  BY <1>8, UnderLockEffect DEF Shrinks
<1>2. CASE CreateContextOnRuntime \/ DestroyContextOnRuntime
  <2>1. PICK c \in Contexts : c = step.c
    BY <1>2, StepFields DEF CreateContextOnRuntime, DestroyContextOnRuntime, InputTypeInv
  <2>2. PICK ok \in BOOLEAN : ok = TRUE
    OBVIOUS
  <2>3. PICK t \in Adapter :
          /\ DestroyInputContext(sdl, c, ok) = t
          /\ t.win = sdl.win
          /\ ~t.ctx[c].live
          /\ \A d \in Contexts \ {c} : /\ t.ctx[d].live = sdl.ctx[d].live
                                       /\ t.ctx[d].target = sdl.ctx[d].target
    BY <1>0, DestroyInputContextType
  <2>4. sdl' = sdl \/ sdl' = t
    BY <1>2, <2>1, <2>2, <2>3 DEF CreateContextOnRuntime, DestroyContextOnRuntime
  <2> QED BY <2>3, <2>4, ShrinksSelf DEF Shrinks
<1>3. ASSUME NEW cs \in SUBSET Contexts, Cleanup(cs) PROVE Shrinks(sdl, sdl')
  <2>1. PICK t \in Adapter : DestroyAll(sdl, cs) = t /\ t.win = sdl.win
    BY <1>0, DestroyAllType
  <2>2. PICK u \in Adapter : ShutdownInput(t) = u /\ u.win = t.win /\ \A c \in Contexts : ~u.ctx[c].live
    BY ShutdownInputType
  <2> QED BY <1>3, <2>1, <2>2 DEF Cleanup, Shrinks
<1>4. CASE \/ \E c \in Contexts, kind \in Kinds, down \in BOOLEAN : Publish(c, kind, down)
           \/ TakeDeviceEvent \/ PublishDeviceChanged \/ DiscoverConnectedDevicesOnRuntime
           \/ Invoke \/ CallbackReturns \/ Woken
  BY <1>4, ShrinksSelf DEF Publish, TakeDeviceEvent, PublishDeviceChanged, DiscoverConnectedDevicesOnRuntime,
     Invoke, CallbackReturns, Woken, adapter
<1>5. ASSUME NEW w \in Windows, NEW b \in BOOLEAN, NEW ok \in BOOLEAN, WindowInput(w, b, ok)
      PROVE  Shrinks(sdl, sdl')
  <2>1. PICK t \in Adapter : SetInputEnabled(sdl, w, b, ok) = t /\ SameAlive(sdl, t) /\ SameRoutes(sdl, t)
    BY <1>0, SetInputEnabledType
  <2>2. sdl' = sdl \/ sdl' = t
    BY <1>5, <2>1 DEF WindowInput
  <2> QED BY <2>1, <2>2, ShrinksSame, ShrinksSelf
<1>6. ASSUME NEW w \in Windows, WindowMutation(w) PROVE Shrinks(sdl, sdl')
  <2>1. PICK t \in Adapter : /\ Query(sdl, w) = t /\ t.ctx = sdl.ctx
                             /\ \A v \in Windows : t.win[v].alive = sdl.win[v].alive
    BY <1>0, QueryType
  <2>2. sdl' = sdl \/ sdl' = t
    BY <1>6, <2>1 DEF WindowMutation
  <2> QED BY <2>1, <2>2 DEF Shrinks
<1>7. CASE StopPump
  <2>1. PICK t \in Adapter : ShutdownInput(sdl) = t /\ \A c \in Contexts : ~t.ctx[c].live
    BY <1>0, ShutdownInputType
  <2>2. PICK u \in Adapter : ShutdownWindows(t) = u /\ SameRoutes(t, u) /\ \A w \in Windows : ~u.win[w].alive
    BY ShutdownWindowsType
  <2> QED BY <1>7, <2>1, <2>2 DEF StopPump, Shrinks, SameRoutes
<1> QED BY <1>1, <1>2, <1>3, <1>4, <1>5, <1>6, <1>7, <1>8 DEF EventThread

LEMMA ShrinksNext ==
  ASSUME InputTypeInv, [Next]_vars
  PROVE  Shrinks(sdl, sdl') \/ Makes
<1>0. sdl \in Adapter
  BY DEF InputTypeInv
<1>1. CASE EventThread
  BY <1>1, ShrinksEvent
<1>2. CASE Teardown
  BY <1>2, ShrinksSelf DEF Teardown, DetachAllContexts, MarkRecordDestroyed, Fence,
     DeactivateManagerSubscriptions, PostCleanup, adapter
<1>3. ASSUME NEW w \in Windows, NEW gained \in BOOLEAN, NEW ok \in BOOLEAN, DispatchFocus(w, gained, ok)
      PROVE  Shrinks(sdl, sdl')
  <2>1. PICK t \in Adapter : FocusGained(sdl, w, ok) = t /\ SameAlive(sdl, t) /\ SameRoutes(sdl, t)
    BY <1>0, FocusGainedType
  <2>2. PICK u \in Adapter : FocusLost(sdl, w, ok) = u /\ SameAlive(sdl, u) /\ SameRoutes(sdl, u)
    BY <1>0, FocusLostType
  <2>3. sdl' = sdl \/ sdl' = t \/ sdl' = u
    BY <1>3, <2>1, <2>2 DEF DispatchFocus
  <2> QED BY <2>1, <2>2, <2>3, ShrinksSame, ShrinksSelf
<1>4. ASSUME NEW w \in Windows, NEW taken \in BOOLEAN, NEW ok \in BOOLEAN, DispatchClosed(w, taken, ok)
      PROVE  Shrinks(sdl, sdl')
  <2>1. PICK last \in Adapter :
          /\ (IF taken THEN InvalidateRemovedInputTarget(sdl, w, ok) ELSE PrepareWindowRemoval(sdl, {w})) = last
          /\ SameRoutes(sdl, last)
          /\ \A v \in Windows \ {w} : last.win[v].alive = sdl.win[v].alive
    BY LastType
  <2>2. PICK ws \in SUBSET Windows : ws = {w}
    OBVIOUS
  <2>3. PICK t \in Adapter : /\ Erase(last, ws) = t /\ t.ctx = last.ctx
                             /\ \A v \in Windows : t.win[v].alive <=> last.win[v].alive /\ v \notin ws
    BY EraseType
  <2>4. sdl' = t
    BY <1>4, <2>1, <2>2, <2>3 DEF DispatchClosed
  <2> QED BY <2>1, <2>2, <2>3, <2>4 DEF Shrinks, SameRoutes
<1>5. CASE \/ \E w \in Windows, kind \in Kinds \ {"touch"}, down \in BOOLEAN : DispatchInput(w, kind, down)
           \/ \E w \in Windows, d \in Devices, down \in BOOLEAN : DispatchTouchEvent(w, d, down)
           \/ \E d \in Devices, v \in Versions : DispatchDeviceEvent(d, v)
  BY <1>5, ShrinksSelf DEF DispatchInput, DispatchTouchEvent, DispatchDeviceEvent, adapter
<1>6. CASE Delivery
  BY <1>3, <1>4, <1>5, <1>6 DEF Delivery
<1>7. CASE OtherThreads
  BY <1>7, ShrinksSelf DEF OtherThreads, Submit, SubmitWindow, Subscribe, Reset, BeginTeardown, RequestStop, adapter
<1>8. CASE \/ \E s \in Subs : ResetInCallback(s)
           \/ \E connected \in SUBSET Devices : StartPump(connected)
           \/ \E w \in Windows \cup {NoWindow} : FocusMoves(w)
           \/ Wait \/ UNCHANGED vars
  BY <1>8, ShrinksSelf DEF ResetInCallback, StartPump, FocusMoves, Wait, vars, adapter
<1> QED BY <1>1, <1>2, <1>6, <1>7, <1>8 DEF Next

(* A creation under way is the step that goes on, and it alone begins one.   *)
Making(c) == step.op = "create" /\ step.c = c

LEMMA CreationGoesOn ==
  ASSUME InputTypeInv, Turns, [Next]_vars, step.op = "create"
  PROVE  UNCHANGED <<step, sdl>> \/ CreateContextOnRuntime \/ DestroyContextUnderLock
<1>0. step # NoStep
  BY DEF NoStep
<1>1. CASE EventThread
  <2>1. ~Executes
    <3>1. ASSUME NEW cmd \in Commands, Execute(cmd) PROVE FALSE
      <4>1. Runs(cmd)
        BY <3>1 DEF Execute, CreateContext, MutateOnRuntime, DestroyContext, CleanupOnRuntime
      <4> QED BY <1>0, <4>1, CalmRuns
    <3> QED BY <3>1 DEF Executes
  <2>2. ~DestroyContextOnRuntime /\ ~PublishDeviceChanged /\ ~TakeDeviceEvent /\ ~StopPump
    BY <1>0 DEF DestroyContextOnRuntime, PublishDeviceChanged, TakeDeviceEvent, StopPump, Idle
  <2>3. ~Invoke /\ ~CallbackReturns /\ ~DiscoverConnectedDevicesOnRuntime
    BY <1>0 DEF Invoke, CallbackReturns, InCallback, DiscoverConnectedDevicesOnRuntime, Idle
  <2>4. /\ \A w \in Windows, b, ok \in BOOLEAN : ~WindowInput(w, b, ok)
        /\ \A w \in Windows : ~WindowMutation(w)
        /\ \A cs \in SUBSET Contexts : ~Cleanup(cs)
        /\ \A c \in Contexts, kind \in Kinds, down \in BOOLEAN : ~Publish(c, kind, down)
    BY <1>0 DEF WindowInput, WindowMutation, Cleanup, Publish, Idle
  <2>5. Woken => UNCHANGED <<step, sdl>>
    BY DEF Woken, adapter
  <2> QED BY <1>1, <2>1, <2>2, <2>3, <2>4, <2>5 DEF EventThread
<1>2. CASE Teardown
  BY <1>2 DEF Teardown, DetachAllContexts, MarkRecordDestroyed, Fence, DeactivateManagerSubscriptions, PostCleanup,
     adapter
<1>3. ~Delivery
  BY <1>0 DEF Delivery, DispatchFocus, DispatchClosed, DispatchInput, DispatchTouchEvent, DispatchDeviceEvent,
     Occurs, Delivered, Turns, Idle
<1>4. CASE OtherThreads
  BY <1>4 DEF OtherThreads, Submit, SubmitWindow, Subscribe, Reset, BeginTeardown, RequestStop, adapter
<1>5. CASE \/ \E s \in Subs : ResetInCallback(s)
           \/ \E connected \in SUBSET Devices : StartPump(connected)
           \/ \E w \in Windows \cup {NoWindow} : FocusMoves(w)
           \/ Wait \/ UNCHANGED vars
  BY <1>5 DEF ResetInCallback, StartPump, FocusMoves, Wait, vars, adapter
<1> QED BY <1>1, <1>2, <1>3, <1>4, <1>5 DEF Next

LEMMA CreationBegins ==
  ASSUME InputTypeInv, Turns, [Next]_vars, ~Makes
  PROVE  step'.op # "create" \/ step' = step
<1>1. CASE EventThread
  <2>1. CASE Executes
    <3>1. PICK cmd \in Commands : Execute(cmd)
      BY <2>1 DEF Executes
    <3> QED BY <3>1 DEF Execute, Makes, MutateOnRuntime, DestroyContext, CleanupOnRuntime
  <2>2. CASE TakeDeviceEvent
    BY <2>2 DEF TakeDeviceEvent, NoStep
  <2>3. CASE CreateContextOnRuntime \/ DestroyContextOnRuntime \/ PublishDeviceChanged
    <3>1. step' = NoStep
      BY <2>3 DEF CreateContextOnRuntime, DestroyContextOnRuntime, PublishDeviceChanged
    <3> QED BY <3>1 DEF NoStep
  <2>4. CASE DestroyContextUnderLock
    BY <2>4, UnderLockFrame
  <2> QED BY <1>1, <2>1, <2>2, <2>3, <2>4 DEF EventThread, Cleanup, Publish, DiscoverConnectedDevicesOnRuntime, Invoke,
             CallbackReturns, WindowInput, WindowMutation, Woken, StopPump
<1>2. CASE Teardown
  BY <1>2 DEF Teardown, DetachAllContexts, MarkRecordDestroyed, Fence, DeactivateManagerSubscriptions, PostCleanup
<1>3. CASE Delivery
  BY <1>3 DEF Delivery, DispatchFocus, DispatchClosed, DispatchInput, DispatchTouchEvent, DispatchDeviceEvent
<1>4. CASE OtherThreads
  BY <1>4 DEF OtherThreads, Submit, SubmitWindow, Subscribe, Reset, BeginTeardown, RequestStop
<1>5. CASE \/ \E s \in Subs : ResetInCallback(s)
           \/ \E connected \in SUBSET Devices : StartPump(connected)
           \/ \E w \in Windows \cup {NoWindow} : FocusMoves(w)
           \/ Wait \/ UNCHANGED vars
  BY <1>5 DEF ResetInCallback, StartPump, FocusMoves, Wait, vars
<1> QED BY <1>1, <1>2, <1>3, <1>4, <1>5 DEF Next

Named ==
  \A c \in Contexts :
    /\ rec[c].life = "None" => rec[c].pressed = {} /\ c \notin owned
    /\ c \in contexts => rec[c].life \in {"Open", "Destroying"}
    /\ sdl.ctx[c].live => rec[c].life # "None" \/ Making(c)
    /\ Making(c) => rec[c].life = "None" /\ sdl.ctx[c].live

(* What is queued: one creation of a context that was never made, and input  *)
(* only of contexts that were.                                               *)
Unmade(c) == rec[c].life = "None" /\ ~sdl.ctx[c].live
OrdersCreation(item, c) == item.op = "create" /\ item.c = c
Queued ==
  \A i \in 1..Len(queue) :
    /\ queue[i].op = "create" => /\ Unmade(queue[i].c)
                                 /\ \A j \in 1..Len(queue) : OrdersCreation(queue[j], queue[i].c) => i = j
    /\ queue[i].op = "publish" => rec[queue[i].c].life # "None"

LEMMA NamedInit == Init => Named /\ Queued
BY DEF Init, SDLInit, Named, Queued, NoRecord, NoContext, NoStep, Making

LEMMA PublishPresses ==
  ASSUME InputTypeInv, NEW c \in Contexts, NEW kind \in Kinds, NEW down \in BOOLEAN, Publish(c, kind, down)
  PROVE  \A d \in Contexts :
           \/ rec'[d].pressed = rec[d].pressed
           \/ /\ d = c /\ c \in contexts /\ rec[c].life = "Open"
              /\ "key" \in rec'[d].pressed => "key" \in rec[d].pressed \/ kind = "key"
<1>1. CASE UNCHANGED rec
  BY <1>1
<1>2. CASE rec' = [rec EXCEPT ![c].pressed = After(@, kind, down)] /\ c \in contexts /\ rec[c].life = "Open"
  <2>1. PICK p : p = After(rec[c].pressed, kind, down)
    OBVIOUS
  <2>2. rec[c] \in RecordType /\ rec[c].pressed \in SUBSET PressKinds
    BY DEF InputTypeInv, Records, RecordType
  <2>3. "key" \in p => "key" \in rec[c].pressed \/ kind = "key"
    BY <2>1, <2>2, AfterType
  <2>4. rec' = [rec EXCEPT ![c].pressed = p]
    BY <1>2, <2>1 DEF InputTypeInv, Records, RecordType
  <2>5. rec'[c].pressed = p /\ \A d \in Contexts \ {c} : rec'[d] = rec[d]
    BY <2>4 DEF InputTypeInv, Records, RecordType
  <2> QED BY <1>2, <2>3, <2>5
<1> QED BY <1>1, <1>2 DEF Publish

(* The records after the commands that end several, or begin to end one.     *)
LEMMA DestroyingLives ==
  ASSUME InputTypeInv, NEW cmd \in Commands, cmd.op = "destroy", DestroyContext(cmd)
  PROVE  \/ rec' = rec
         \/ /\ cmd.c \in contexts
            /\ rec'[cmd.c].life = "Destroying" /\ rec'[cmd.c].pressed = rec[cmd.c].pressed
            /\ \A d \in Contexts \ {cmd.c} : rec'[d] = rec[d]
<1>1. PICK c \in Contexts, life \in Lives : c = cmd.c /\ life = "Destroying"
  BY CommandFields DEF Lives
<1>2. PICK q \in Records : /\ [rec EXCEPT ![c].life = life] = q
                           /\ q[c].life = life /\ q[c].pressed = rec[c].pressed
                           /\ \A d \in Contexts \ {c} : q[d] = rec[d]
  BY LifeSet DEF InputTypeInv
<1>3. rec' = rec \/ (rec' = q /\ c \in contexts)
  BY <1>1, <1>2 DEF DestroyContext
<1> QED BY <1>1, <1>2, <1>3

LEMMA CleanedLives ==
  ASSUME InputTypeInv, NEW cmd \in Commands, CleanupOnRuntime(cmd)
  PROVE  \/ UNCHANGED <<rec, contexts, sdl>>
         \/ /\ contexts' = {} /\ \A c \in Contexts : ~sdl'.ctx[c].live
            /\ \A c \in Contexts : \/ c \notin contexts /\ rec'[c] = rec[c]
                                   \/ c \in contexts /\ rec'[c].life = "Destroyed" /\ rec'[c].pressed = {}
<1>1. CASE stopping
  BY <1>1 DEF CleanupOnRuntime, tables
<1>2. CASE ~stopping
  <2>1. contexts' = {} /\ rec' = DestroyRecords(contexts) /\ sdl' = ShutdownInput(DestroyAll(sdl, contexts))
    BY <1>2 DEF CleanupOnRuntime
  <2>2. sdl \in Adapter /\ contexts \in SUBSET Contexts
    BY DEF InputTypeInv
  <2>3. PICK t \in Adapter : DestroyAll(sdl, contexts) = t
    BY <2>2, DestroyAllType
  <2>4. PICK u \in Adapter : ShutdownInput(t) = u /\ \A c \in Contexts : ~u.ctx[c].live
    BY ShutdownInputType
  <2>5. ASSUME NEW c \in Contexts
        PROVE  \/ c \notin contexts /\ rec'[c] = rec[c]
               \/ c \in contexts /\ rec'[c].life = "Destroyed" /\ rec'[c].pressed = {}
    <3>1. rec[c] \in RecordType
      BY DEF InputTypeInv, Records
    <3>2. rec'[c] = IF c \in contexts THEN [rec[c] EXCEPT !.life = "Destroyed", !.pressed = {}] ELSE rec[c]
      BY <2>1 DEF DestroyRecords
    <3> QED BY <3>1, <3>2 DEF RecordType
  <2> QED BY <2>1, <2>3, <2>4, <2>5
<1> QED BY <1>1, <1>2

(* Creations go on, and begin, as the step says.                             *)
Stepwise == /\ Shrinks(sdl, sdl')
            /\ step'.op # "create" \/ step' = step
            /\ step.op = "create" => UNCHANGED <<step, sdl>>

LEMMA NamedQuiet ==
  ASSUME InputTypeInv, Named, Stepwise, QuietStep
  PROVE  Named'
<1>1. UNCHANGED <<contexts, owned>> /\ SameLives /\ (Kept \/ Publishes)
  BY DEF QuietStep
<1>2. ASSUME NEW c \in Contexts, rec[c].life = "None" PROVE rec'[c].pressed = {}
  <2>1. rec[c].pressed = {} /\ c \notin contexts
    BY <1>2 DEF Named
  <2>2. CASE Kept
    BY <2>1, <2>2 DEF Kept
  <2>3. CASE Publishes
    BY <2>1, <2>3, PublishPresses DEF Publishes
  <2> QED BY <1>1, <2>2, <2>3
<1>3. ASSUME NEW c \in Contexts PROVE (sdl.ctx[c].live => rec[c].life # "None" \/ Making(c))'
  BY DEF Named, Stepwise, Shrinks, SameLives, Making, QuietStep
<1>4. ASSUME NEW c \in Contexts PROVE (Making(c) => rec[c].life = "None" /\ sdl.ctx[c].live)'
  BY DEF Named, Stepwise, SameLives, Making, QuietStep
<1> QED BY <1>1, <1>2, <1>3, <1>4 DEF Named, SameLives

LEMMA NamedLoud ==
  ASSUME InputTypeInv, FencedInv, Named, Stepwise, LoudStep, ~CreateContextOnRuntime
  PROVE  Named'
<1>0. contexts \in SUBSET Contexts /\ owned \in SUBSET Contexts
  BY DEF InputTypeInv
<1>1. ASSUME \A c \in Contexts : \/ rec'[c].life = rec[c].life /\ rec'[c].pressed = rec[c].pressed
                                 \/ rec'[c].life # "None" /\ ~Making(c),
             \A c \in contexts' : rec'[c].life \in {"Open", "Destroying"},
             \A c \in owned' : rec'[c].life # "None"
      PROVE  Named'
  <2>1. ASSUME NEW c \in Contexts PROVE (sdl.ctx[c].live => rec[c].life # "None" \/ Making(c))'
    BY <1>1 DEF Named, Stepwise, Shrinks, Making
  <2>2. ASSUME NEW c \in Contexts PROVE (Making(c) => rec[c].life = "None" /\ sdl.ctx[c].live)'
    <3>1. Making(c)' => Making(c) /\ sdl' = sdl
      BY DEF Stepwise, Making
    <3> QED BY <1>1, <3>1 DEF Named
  <2>3. ASSUME NEW c \in Contexts PROVE (rec[c].life = "None" => rec[c].pressed = {} /\ c \notin owned)'
    BY <1>1 DEF Named
  <2> QED BY <1>1, <2>1, <2>2, <2>3 DEF Named
<1>2. CASE UNCHANGED <<rec, contexts, owned>>
  BY <1>0, <1>1, <1>2 DEF Named
<1>3. CASE DestroyContextOnRuntime
  <2>1. contexts' = contexts \ {step.c} /\ owned' = owned /\ step.op = "destroy"
    BY <1>3 DEF DestroyContextOnRuntime, ending
  <2>2. /\ step.c \in Contexts
        /\ rec'[step.c].life = "Destroyed"
        /\ \A d \in Contexts \ {step.c} : rec'[d].life = rec[d].life /\ rec'[d].pressed = rec[d].pressed
    BY <1>3, DestroyedLives
  <2> QED BY <1>0, <1>1, <2>1, <2>2 DEF Named, Making
<1>4. ASSUME NEW cmd \in Commands, cmd.op = "destroy", DestroyContext(cmd) PROVE Named'
  <2>1. contexts' = contexts /\ owned' = owned /\ step = NoStep
    BY <1>4, RunsType DEF DestroyContext, ending
  <2>2. \A c \in Contexts : ~Making(c)
    BY <2>1 DEF Making, NoStep
  <2>3. \/ rec' = rec
        \/ /\ cmd.c \in contexts
           /\ rec'[cmd.c].life = "Destroying" /\ rec'[cmd.c].pressed = rec[cmd.c].pressed
           /\ \A d \in Contexts \ {cmd.c} : rec'[d] = rec[d]
    BY <1>4, DestroyingLives
  <2>4. \A c \in Contexts : c = cmd.c \/ rec'[c] = rec[c]
    BY <2>3
  <2> QED BY <1>0, <1>1, <2>1, <2>2, <2>3, <2>4 DEF Named
<1>5. ASSUME NEW cmd \in Commands, CleanupOnRuntime(cmd) PROVE Named'
  <2>1. owned' = owned /\ step = NoStep
    BY <1>5, RunsType DEF CleanupOnRuntime
  <2>2. \A c \in Contexts : ~Making(c)
    BY <2>1 DEF Making, NoStep
  <2>3. \/ UNCHANGED <<rec, contexts, sdl>>
        \/ /\ contexts' = {}
           /\ \A c \in Contexts : rec'[c] = rec[c] \/ rec'[c].life = "Destroyed"
    BY <1>5, CleanedLives
  <2> QED BY <1>0, <1>1, <1>2, <2>1, <2>2, <2>3 DEF Named
<1>6. CASE DetachAllContexts
  <2>1. owned' = contexts /\ contexts' = {} /\ rec' = rec
    BY <1>6 DEF DetachAllContexts
  <2> QED BY <1>0, <1>1, <2>1 DEF Named
<1>7. ASSUME NEW c \in Contexts, MarkRecordDestroyed(c) PROVE Named'
  <2>1. teardown = "marking" /\ contexts' = contexts /\ owned' = owned /\ c \in owned /\ rec' = Ended(rec, c)
    BY <1>7 DEF MarkRecordDestroyed, ending, Ended
  <2>2. contexts = {} /\ ~Making(c)
    BY <2>1 DEF FencedInv, TeardownPhases, Named
  <2>3. rec'[c].life = "Destroyed" /\ \A d \in Contexts \ {c} : rec'[d] = rec[d]
    BY <2>1, LifeEnds DEF InputTypeInv
  <2> QED BY <1>0, <1>1, <2>1, <2>2, <2>3 DEF Named
<1>8. CASE \/ Invoke \/ BeginTeardown
           \/ \E s \in Subs : ResetInCallback(s) \/ Reset(s) \/ Fence(s)
           \/ \E s \in Subs, topic \in Topics : Subscribe(s, topic)
           \/ DeactivateManagerSubscriptions \/ PostCleanup
  BY <1>2, <1>8 DEF Invoke, BeginTeardown, ResetInCallback, Reset, Fence, Subscribe, DeactivateManagerSubscriptions,
     PostCleanup, tables, ending
<1> QED BY <1>3, <1>4, <1>5, <1>6, <1>7, <1>8 DEF LoudStep, Teardown

LEMMA NamedCreated ==
  ASSUME InputTypeInv, FencedInv, Named, Shrinks(sdl, sdl'), CreateContextOnRuntime
  PROVE  Named'
<1>0. contexts \in SUBSET Contexts /\ owned \in SUBSET Contexts
  BY DEF InputTypeInv
<1>1. /\ step.op = "create" /\ step' = NoStep /\ owned' = owned
      /\ stopping => sdl' = DestroyInputContext(sdl, step.c, TRUE)
  BY DEF CreateContextOnRuntime, ending, StoppedMeanwhile
<1>2. \A c \in Contexts : ~Making(c)'
  BY <1>1 DEF Making, NoStep
<1>3. step.c \in Contexts /\ Making(step.c)
  BY <1>1, CreatedLives DEF Making
<1>4. CASE stopping
  <2>1. Kept /\ contexts' = contexts
    BY <1>4, CreatedLives
  <2>2. PICK ok \in BOOLEAN : ok = TRUE
    OBVIOUS
  <2>20. sdl \in Adapter
    BY DEF InputTypeInv
  <2>3. PICK t \in Adapter : DestroyInputContext(sdl, step.c, ok) = t /\ ~t.ctx[step.c].live
    BY <1>3, <2>2, <2>20, DestroyInputContextType
  <2>4. ~sdl'.ctx[step.c].live
    BY <1>1, <1>4, <2>2, <2>3
  <2>5. ASSUME NEW c \in Contexts, sdl'.ctx[c].live PROVE rec'[c].life # "None"
    BY <2>1, <2>4, <2>5 DEF Named, Shrinks, Making, Kept
  <2> QED BY <1>0, <1>1, <1>2, <2>1, <2>5 DEF Named, Kept
<1>5. CASE ~stopping
  <2>1. /\ contexts' = contexts \cup {step.c}
        /\ rec'[step.c].life = "Open"
        /\ \A d \in Contexts \ {step.c} : rec'[d] = rec[d]
    BY <1>5, CreatedLives
  <2>2. ASSUME NEW c \in Contexts, sdl'.ctx[c].live PROVE rec'[c].life # "None"
    BY <2>1, <2>2 DEF Named, Shrinks, Making
  <2>3. ASSUME NEW c \in Contexts
        PROVE  /\ (rec[c].life = "None" => rec[c].pressed = {} /\ c \notin owned)'
               /\ (c \in contexts => rec[c].life \in {"Open", "Destroying"})'
    BY <1>1, <2>1 DEF Named
  <2> QED BY <1>2, <2>2, <2>3 DEF Named
<1> QED BY <1>4, <1>5

LEMMA NamedUnderLock ==
  ASSUME InputTypeInv, Named, DestroyContextUnderLock
  PROVE  Named'
<1>1. UNCHANGED <<rec, contexts, owned>> /\ step.op = "create" /\ step'.op = "deadlocked"
  BY UnderLockFrame
<1>2. /\ ~sdl'.ctx[step.c].live
      /\ \A d \in Contexts \ {step.c} : sdl'.ctx[d].live = sdl.ctx[d].live
  BY UnderLockEffect
<1>3. \A c \in Contexts : ~Making(c)'
  BY <1>1 DEF Making
<1>4. ASSUME NEW c \in Contexts, sdl'.ctx[c].live PROVE rec'[c].life # "None"
  BY <1>1, <1>2, <1>4 DEF Named, Making
<1> QED BY <1>1, <1>3, <1>4 DEF Named

(* A creation that begins takes a name that nothing else waits for.          *)
LEMMA CreateTakes ==
  ASSUME InputTypeInv, Queued, NEW cmd \in Commands, cmd.op = "create", Runs(cmd)
  PROVE  /\ cmd.c \in Contexts /\ Unmade(cmd.c)
         /\ \A i \in 1..Len(queue') : ~OrdersCreation(queue'[i], cmd.c)
<1>1. cmd.c \in Contexts /\ queue \in Seq(Items)
  BY CommandFields DEF InputTypeInv
<1>2. CASE /\ queue # <<>> /\ Head(queue) = cmd
           /\ queue' = Tail(queue)
  <2>1. 1 \in 1..Len(queue) /\ queue[1] = cmd
    BY <1>1, <1>2
  <2>2. PICK t \in Seq(Items) : t = Tail(queue) /\ Len(t) = Len(queue) - 1 /\ \A i \in 1..Len(t) : t[i] = queue[i + 1]
    BY <1>1, <1>2, HeadTailProperties
  <2>3. ASSUME NEW i \in 1..Len(t), OrdersCreation(t[i], cmd.c) PROVE FALSE
    <3>1. i + 1 \in 1..Len(queue) /\ i + 1 # 1 /\ t[i] = queue[i + 1]
      BY <1>1, <2>2
    <3> QED BY <2>1, <2>3, <3>1 DEF Queued
  <2> QED BY <1>1, <1>2, <2>1, <2>2, <2>3 DEF Queued
<1>3. CASE Admissible(cmd) /\ queue' = queue
  <2>1. Fresh(cmd.c)
    BY <1>3 DEF Admissible
  <2>2. \A i \in 1..Len(queue) : ~OrdersCreation(queue[i], cmd.c)
    BY <1>1, <2>1 DEF Fresh, OrdersCreation
  <2> QED BY <1>1, <1>3, <2>1, <2>2 DEF Fresh, Unmade
<1> QED BY <1>2, <1>3 DEF Runs

LEMMA MadeContexts ==
  ASSUME InputTypeInv, NEW cmd \in Commands, NEW ok \in BOOLEAN, cmd.op = "create", CreateContext(cmd, ok)
  PROVE  /\ cmd.c \in Contexts /\ step = NoStep
         /\ \/ UNCHANGED <<sdl, step>>
            \/ /\ step' = [op |-> "create", c |-> cmd.c]
               /\ sdl'.win = sdl.win
               /\ sdl'.ctx[cmd.c].live
               /\ \A d \in Contexts \ {cmd.c} : /\ sdl'.ctx[d].live = sdl.ctx[d].live
                                                /\ sdl'.ctx[d].target = sdl.ctx[d].target
<1>1. cmd.c \in Contexts /\ cmd.w \in Windows /\ step = NoStep
  BY CommandFields, RunsType DEF CreateContext
<1>2. PICK t \in Adapter :
        /\ CreateInputContext(sdl, cmd.c, cmd.w, cmd.wants, ok) = t
        /\ t.win = sdl.win /\ t.ctx[cmd.c].live
        /\ \A d \in Contexts \ {cmd.c} : /\ t.ctx[d].live = sdl.ctx[d].live
                                         /\ t.ctx[d].target = sdl.ctx[d].target
  BY <1>1, CreateInputContextType DEF InputTypeInv
<1>3. UNCHANGED <<sdl, step>> \/ (step' = [op |-> "create", c |-> cmd.c] /\ sdl' = t)
  BY <1>2 DEF CreateContext
<1> QED BY <1>1, <1>2, <1>3

LEMMA NamedMakes ==
  ASSUME InputTypeInv, Named, Queued, Makes
  PROVE  Named'
<1>1. PICK cmd \in Commands, ok \in BOOLEAN : cmd.op = "create" /\ CreateContext(cmd, ok)
  BY DEF Makes
<1>2. Unmade(cmd.c)
  BY <1>1, CreateTakes DEF CreateContext
<1>3. /\ cmd.c \in Contexts /\ step = NoStep
      /\ \/ UNCHANGED <<sdl, step>>
         \/ /\ step' = [op |-> "create", c |-> cmd.c]
            /\ sdl'.ctx[cmd.c].live
            /\ \A d \in Contexts \ {cmd.c} : sdl'.ctx[d].live = sdl.ctx[d].live
  BY <1>1, MadeContexts
<1>4. Kept /\ UNCHANGED <<contexts, owned>>
  BY <1>1, KeptCreateContext DEF CreateContext, ending
<1>5. \A c \in Contexts : ~Making(c)
  BY <1>3 DEF Making, NoStep
<1>6. ASSUME NEW c \in Contexts
      PROVE  /\ (sdl.ctx[c].live => rec[c].life # "None" \/ Making(c))'
             /\ (Making(c) => rec[c].life = "None" /\ sdl.ctx[c].live)'
  <2>1. CASE UNCHANGED <<sdl, step>>
    BY <1>4, <1>5, <2>1 DEF Named, Kept, Making
  <2>2. CASE /\ step' = [op |-> "create", c |-> cmd.c]
             /\ sdl'.ctx[cmd.c].live
             /\ \A d \in Contexts \ {cmd.c} : sdl'.ctx[d].live = sdl.ctx[d].live
    BY <1>2, <1>4, <1>5, <2>2 DEF Named, Kept, Making, Unmade
  <2> QED BY <1>3, <2>1, <2>2
<1> QED BY <1>4, <1>6 DEF Named, Kept

LEMMA NamedNext ==
  InputTypeInv /\ FencedInv /\ Turns /\ Named /\ Queued /\ [Next]_vars => Named'
<1> SUFFICES ASSUME InputTypeInv, FencedInv, Turns, Named, Queued, [Next]_vars PROVE Named'
  OBVIOUS
<1>1. CASE Makes
  BY <1>1, NamedMakes
<1>2. CASE ~Makes /\ CreateContextOnRuntime
  BY <1>2, ShrinksNext, NamedCreated
<1>4. CASE DestroyContextUnderLock
  BY <1>4, NamedUnderLock
<1>3. CASE ~Makes /\ ~CreateContextOnRuntime /\ ~DestroyContextUnderLock
  <2>1. Stepwise
    BY <1>3, ShrinksNext, CreationBegins, CreationGoesOn DEF Stepwise
  <2> QED BY <1>3, <2>1, QuietOrLoud, NamedQuiet, NamedLoud
<1> QED BY <1>1, <1>2, <1>3, <1>4

(* What is appended to the queue: a command that may be, something that is   *)
(* neither a creation nor input, or what the system delivered.               *)
Arrives(item) ==
  \/ item.op \notin {"create", "publish", "cleanup"}
  \/ /\ item.op = "publish" /\ pump = "waiting"
     /\ item.c \in Contexts /\ sdl.ctx[item.c].live
     /\ item.kind = "key" => FocusTold = sdl.ctx[item.c].target

QueueMoves ==
  \/ queue' = queue
  \/ queue # <<>> /\ queue' = Tail(queue)
  \/ \E cmd \in Commands : Admissible(cmd) /\ UNCHANGED <<sdl, os, pump, rec>> /\ queue' = Append(queue, cmd)
  \/ \E item \in Items : /\ item.op \notin {"create", "publish"} /\ queue' = Append(queue, item)
                         /\ item.op = "cleanup" => teardown = "fencing"
  \/ \E events \in Seq(Items) :
       /\ pump' = "draining" /\ UNCHANGED <<sdl, os, rec>>
       /\ queue' = queue \o events
       /\ \A i \in 1..Len(events) : Arrives(events[i])

LEMMA PostMoves ==
  ASSUME NEW events \in Seq(Items), Post(events), \A i \in 1..Len(events) : Arrives(events[i]),
         pump' = "draining", UNCHANGED <<sdl, os, rec>>
  PROVE  QueueMoves
BY DEF Post, QueueMoves

LEMMA PublishedArrives ==
  ASSUME InputTypeInv, NEW w \in Windows, NEW kind \in Kinds, NEW down \in BOOLEAN,
         NEW cs \in SetToSeqs(InputTargetsForWindow(sdl, w)), pump = "waiting", kind = "key" => FocusTold = w
  PROVE  \E events \in Seq(Items) : /\ Published(cs, kind, down) = events
                                    /\ \A i \in 1..Len(events) : Arrives(events[i])
<1>1. PICK S \in SUBSET Contexts : S = InputTargetsForWindow(sdl, w)
  BY DEF InputTargetsForWindow, BoundTo
<1>2. cs \in Seq(S)
  BY <1>1, FS_Subset, FiniteAssumption, OrderedType
<1>3. PICK n \in Nat : n = Len(cs) /\ DOMAIN cs = 1..n
  BY <1>2
<1>4. PICK events \in Seq(Publications) : events = Published(cs, kind, down)
  BY PublishedType
<1>5. /\ Len(events) = n
      /\ \A i \in 1..n : events[i] = [op |-> "publish", c |-> cs[i], kind |-> kind, down |-> down]
  BY <1>3, <1>4 DEF Published
<1>6. ASSUME NEW i \in 1..n PROVE Arrives(events[i])
  <2>1. cs[i] \in S
    BY <1>2, <1>3, ElementOfSeq
  <2>2. cs[i] \in Contexts /\ sdl.ctx[cs[i]].live /\ sdl.ctx[cs[i]].target = w
    BY <1>1, <2>1 DEF InputTargetsForWindow, BoundTo
  <2> QED BY <1>5, <2>2 DEF Arrives
<1> QED BY <1>4, <1>5, <1>6, ItemsType

LEMMA ReportsArrive ==
  ASSUME NEW events \in Seq(DeviceReports)
  PROVE  events \in Seq(Items) /\ \A i \in 1..Len(events) : Arrives(events[i])
<1>1. \A i \in 1..Len(events) : events[i] \in DeviceReports
  BY ElementOfSeq
<1> QED BY <1>1, ItemsType DEF DeviceReports, Arrives

LEMMA QueueEvent ==
  ASSUME InputTypeInv, EventThread
  PROVE  QueueMoves
<1>1. CASE Executes
  <2>1. PICK cmd \in Commands : Execute(cmd)
    BY <1>1 DEF Executes
  <2>2. Runs(cmd)
    BY <2>1 DEF Execute, CreateContext, MutateOnRuntime, DestroyContext, CleanupOnRuntime
  <2> QED BY <2>2 DEF Runs, QueueMoves
<1>2. CASE CreateContextOnRuntime \/ DestroyContextOnRuntime \/ PublishDeviceChanged \/ Invoke \/ CallbackReturns
           \/ Woken \/ StopPump
  BY <1>2 DEF CreateContextOnRuntime, DestroyContextOnRuntime, PublishDeviceChanged, Invoke, CallbackReturns,
     Woken, StopPump, runtime, QueueMoves
<1>3. CASE \/ \E cs \in SUBSET Contexts : Cleanup(cs)
           \/ \E c \in Contexts, kind \in Kinds, down \in BOOLEAN : Publish(c, kind, down)
           \/ TakeDeviceEvent \/ DiscoverConnectedDevicesOnRuntime
  BY <1>3 DEF Cleanup, Publish, TakeDeviceEvent, DiscoverConnectedDevicesOnRuntime, QueueMoves
<1>4. CASE \/ \E w \in Windows, b, ok \in BOOLEAN : WindowInput(w, b, ok)
           \/ \E w \in Windows : WindowMutation(w)
  BY <1>4 DEF WindowInput, WindowMutation, QueueMoves
<1>5. CASE DestroyContextUnderLock
  BY <1>5, UnderLockFrame DEF QueueMoves
<1> QED BY <1>1, <1>2, <1>3, <1>4, <1>5 DEF EventThread

LEMMA QueueTouch ==
  ASSUME InputTypeInv, NEW w \in Windows, NEW d \in Devices, NEW down \in BOOLEAN,
         DispatchTouchEvent(w, d, down)
  PROVE  QueueMoves
<1>1. PICK one \in Versions : one = 1 /\ one # 0
  BY FiniteAssumption DEF Versions
<1>2. PICK touch \in Kinds : touch = "touch" /\ touch # "key"
  BY DEF DispatchTouchEvent, Kinds
<1>3. PICK cs \in SetToSeqs(InputTargetsForWindow(sdl, w)), added \in BOOLEAN :
        Post((IF added THEN AddOrUpdateDevice(d, one) ELSE <<>>) \o Published(cs, touch, down))
  <2>1. PICK added \in BOOLEAN : added = (sink /\ inventory[d] = 0)
    OBVIOUS
  <2> QED BY <1>1, <1>2, <2>1 DEF DispatchTouchEvent
<1>4. PICK reported \in Seq(DeviceReports) : reported = IF added THEN AddOrUpdateDevice(d, one) ELSE <<>>
  <2>1. AddOrUpdateDevice(d, one) \in Seq(DeviceReports)
    BY <1>1, ReportType
  <2>2. <<>> \in Seq(DeviceReports)
    OBVIOUS
  <2> QED BY <2>1, <2>2
<1>5. pump = "waiting" /\ pump' = "draining" /\ UNCHANGED <<sdl, os, rec>>
  BY DEF DispatchTouchEvent, Occurs, Delivered, tables
<1>6. PICK published \in Seq(Items) : /\ published = Published(cs, touch, down)
                                      /\ \A i \in 1..Len(published) : Arrives(published[i])
  BY <1>2, <1>5, PublishedArrives
<1>7. reported \in Seq(Items) /\ \A i \in 1..Len(reported) : Arrives(reported[i])
  BY ReportsArrive
<1>8. PICK events : events = reported \o published
  OBVIOUS
<1>9. events \in Seq(Items) /\ \A i \in 1..Len(events) : Arrives(events[i])
  <2>1. /\ events \in Seq(Items) /\ Len(events) = Len(reported) + Len(published)
        /\ \A i \in 1..Len(events) :
             events[i] = IF i \in 1..Len(reported) THEN reported[i] ELSE published[i - Len(reported)]
    BY <1>6, <1>7, <1>8, ConcatProperties
  <2>2. Len(reported) \in Nat /\ Len(published) \in Nat
    BY <1>6, <1>7
  <2>3. ASSUME NEW i \in 1..Len(events), i \notin 1..Len(reported) PROVE i - Len(reported) \in 1..Len(published)
    BY <2>1, <2>2, <2>3
  <2> QED BY <1>6, <1>7, <2>1, <2>3
<1> QED BY <1>3, <1>4, <1>5, <1>6, <1>8, <1>9, PostMoves

LEMMA QueueStart ==
  ASSUME InputTypeInv, NEW connected \in SUBSET Devices, StartPump(connected)
  PROVE  QueueMoves
<1>2. PICK ds \in SetToSeqs(connected) : Post([i \in DOMAIN ds |-> AddOrUpdateDevice(ds[i], 1)[1]])
  BY DEF StartPump
<1> DEFINE events == [i \in DOMAIN ds |-> AddOrUpdateDevice(ds[i], 1)[1]]
<1>3. ds \in Seq(connected)
  BY FS_Subset, FiniteAssumption, OrderedType
<1>4. DOMAIN ds = 1..Len(ds) /\ Len(ds) \in Nat
  BY <1>3
<1>5. ASSUME NEW i \in 1..Len(ds)
      PROVE  AddOrUpdateDevice(ds[i], 1)[1] \in DeviceReports
  <2>1. ds[i] \in Devices
    BY <1>3, <1>5, ElementOfSeq
  <2>2. inventory[ds[i]] = 0
    BY <2>1 DEF StartPump, InputTypeInv
  <2> QED BY <2>1, <2>2, FiniteAssumption DEF AddOrUpdateDevice, Report, DeviceReports, Versions
<1>6. events \in Seq(DeviceReports)
  BY <1>4, <1>5
<1>7. pump' = "draining" /\ UNCHANGED <<sdl, os, rec>>
  BY DEF StartPump, tables
<1>8. PICK reported \in Seq(DeviceReports) : reported = events
  BY <1>6
<1>9. Post(reported)
  BY <1>2, <1>8
<1> HIDE DEF events
<1> QED BY <1>7, <1>9, ReportsArrive, PostMoves

LEMMA QueueNext ==
  ASSUME InputTypeInv, [Next]_vars
  PROVE  QueueMoves
<1>1. CASE EventThread
  BY <1>1, QueueEvent
<1>2. CASE Teardown
  <2>1. CASE PostCleanup
    <3>1. PICK item : item = [op |-> "cleanup", cs |-> owned]
      OBVIOUS
    <3>2. item \in Items /\ item.op = "cleanup"
      BY <3>1 DEF InputTypeInv, Items, Cleanups
    <3> QED BY <2>1, <3>1, <3>2 DEF PostCleanup, QueueMoves
  <2> QED BY <1>2, <2>1 DEF Teardown, DetachAllContexts, MarkRecordDestroyed, Fence, DeactivateManagerSubscriptions,
             runtime, QueueMoves
<1>3. CASE Delivery
  <2>1. CASE \/ \E w \in Windows, gained, ok \in BOOLEAN : DispatchFocus(w, gained, ok)
             \/ \E w \in Windows, taken, ok \in BOOLEAN : DispatchClosed(w, taken, ok)
    BY <2>1 DEF DispatchFocus, DispatchClosed, QueueMoves
  <2>2. ASSUME NEW w \in Windows, NEW kind \in Kinds, NEW down \in BOOLEAN, DispatchInput(w, kind, down)
        PROVE  QueueMoves
    <3>1. PICK cs \in SetToSeqs(InputTargetsForWindow(sdl, w)) : Post(Published(cs, kind, down))
      BY <2>2 DEF DispatchInput
    <3>2. /\ pump = "waiting" /\ pump' = "draining" /\ UNCHANGED <<sdl, os, rec>>
          /\ kind = "key" => FocusTold = w
      BY <2>2 DEF DispatchInput, Occurs, Delivered, adapter, tables
    <3>3. PICK events \in Seq(Items) : /\ Published(cs, kind, down) = events
                                       /\ \A i \in 1..Len(events) : Arrives(events[i])
      BY <3>2, PublishedArrives
    <3> QED BY <3>1, <3>2, <3>3, PostMoves
  <2>3. ASSUME NEW d \in Devices, NEW version \in Versions, DispatchDeviceEvent(d, version) PROVE QueueMoves
    <3>1. PICK events \in Seq(DeviceReports) :
            events = IF version = 0 THEN RemoveDevice(d) ELSE AddOrUpdateDevice(d, version)
      BY ReportType
    <3>2. pump' = "draining" /\ UNCHANGED <<sdl, os, rec>> /\ Post(events)
      BY <2>3, <3>1 DEF DispatchDeviceEvent, Occurs, Delivered, tables
    <3> QED BY <3>2, ReportsArrive, PostMoves
  <2> QED BY <1>3, <2>1, <2>2, <2>3, QueueTouch DEF Delivery
<1>4. CASE OtherThreads
  <2>1. ASSUME NEW cmd \in Commands, Submit(cmd) PROVE QueueMoves
    BY <2>1 DEF Submit, adapter, tables, QueueMoves
  <2>2. ASSUME NEW cmd \in WindowCommands, SubmitWindow(cmd) PROVE QueueMoves
    <3>1. cmd \in Items /\ cmd.op \notin {"create", "publish", "cleanup"}
      BY DEF WindowCommands, Items
    <3> QED BY <2>2, <3>1 DEF SubmitWindow, QueueMoves
  <2> QED BY <1>4, <2>1, <2>2 DEF OtherThreads, Subscribe, Reset, BeginTeardown, RequestStop, runtime, QueueMoves
<1>5. CASE \E connected \in SUBSET Devices : StartPump(connected)
  BY <1>5, QueueStart
<1>6. CASE \/ \E s \in Subs : ResetInCallback(s)
           \/ \E w \in Windows \cup {NoWindow} : FocusMoves(w)
           \/ Wait \/ UNCHANGED vars
  BY <1>6 DEF ResetInCallback, FocusMoves, Wait, vars, runtime, QueueMoves
<1> QED BY <1>1, <1>2, <1>3, <1>4, <1>5, <1>6 DEF Next

(* A destruction under way is of a context that was made.                    *)
Destroys == \E cmd \in Commands : cmd.op = "destroy" /\ DestroyContext(cmd)
Ending == step.op = "destroy" => rec[step.c].life # "None"

LEMMA DestructionBegins ==
  ASSUME InputTypeInv, Turns, [Next]_vars, ~Destroys
  PROVE  step'.op # "destroy" \/ step' = step
<1>1. CASE EventThread
  <2>1. CASE Executes
    <3>1. PICK cmd \in Commands : Execute(cmd)
      BY <2>1 DEF Executes
    <3>2. ASSUME NEW ok \in BOOLEAN, CreateContext(cmd, ok) PROVE step'.op # "destroy" \/ step' = step
      <4>1. step' = step \/ step' = [op |-> "create", c |-> cmd.c]
        BY <3>2 DEF CreateContext
      <4> QED BY <4>1
    <3> QED BY <3>1, <3>2 DEF Execute, Destroys, MutateOnRuntime, CleanupOnRuntime
  <2>2. CASE TakeDeviceEvent
    BY <2>2 DEF TakeDeviceEvent, NoStep
  <2>3. CASE CreateContextOnRuntime \/ DestroyContextOnRuntime \/ PublishDeviceChanged
    <3>1. step' = NoStep
      BY <2>3 DEF CreateContextOnRuntime, DestroyContextOnRuntime, PublishDeviceChanged
    <3> QED BY <3>1 DEF NoStep
  <2>4. CASE DestroyContextUnderLock
    BY <2>4, UnderLockFrame
  <2> QED BY <1>1, <2>1, <2>2, <2>3, <2>4 DEF EventThread, Cleanup, Publish, DiscoverConnectedDevicesOnRuntime, Invoke,
             CallbackReturns, WindowInput, WindowMutation, Woken, StopPump
<1>2. CASE Teardown
  BY <1>2 DEF Teardown, DetachAllContexts, MarkRecordDestroyed, Fence, DeactivateManagerSubscriptions, PostCleanup
<1>3. CASE Delivery
  BY <1>3 DEF Delivery, DispatchFocus, DispatchClosed, DispatchInput, DispatchTouchEvent, DispatchDeviceEvent
<1>4. CASE OtherThreads
  BY <1>4 DEF OtherThreads, Submit, SubmitWindow, Subscribe, Reset, BeginTeardown, RequestStop
<1>5. CASE \/ \E s \in Subs : ResetInCallback(s)
           \/ \E connected \in SUBSET Devices : StartPump(connected)
           \/ \E w \in Windows \cup {NoWindow} : FocusMoves(w)
           \/ Wait \/ UNCHANGED vars
  BY <1>5 DEF ResetInCallback, StartPump, FocusMoves, Wait, vars
<1> QED BY <1>1, <1>2, <1>3, <1>4, <1>5 DEF Next

(* A record is never taken back, and only a creation takes a name.           *)
LEMMA LivesGoOn ==
  ASSUME InputTypeInv, FencedInv, Turns, Named, Ending, [Next]_vars, ~Makes
  PROVE  \A c \in Contexts : /\ rec[c].life # "None" => rec'[c].life # "None"
                             /\ Unmade(c) => Unmade(c)'
<1>0. contexts \in SUBSET Contexts /\ owned \in SUBSET Contexts /\ Shrinks(sdl, sdl')
  BY ShrinksNext DEF InputTypeInv
<1>1. ASSUME \A c \in Contexts : rec'[c].life = rec[c].life \/ (rec'[c].life # "None" /\ ~Unmade(c))
      PROVE  \A c \in Contexts : /\ rec[c].life # "None" => rec'[c].life # "None"
                                 /\ Unmade(c) => Unmade(c)'
  BY <1>0, <1>1 DEF Unmade, Shrinks
<1> HIDE DEF Unmade
<1>2. CASE QuietStep
  BY <1>1, <1>2 DEF QuietStep, SameLives
<1>3. CASE CreateContextOnRuntime
  <2>1. step.c \in Contexts /\ Making(step.c)
    BY <1>3, CreatedLives DEF CreateContextOnRuntime, Making
  <2>2. ~Unmade(step.c)
    BY <2>1 DEF Named, Unmade
  <2>3. \A d \in Contexts : \/ rec'[d].life = rec[d].life
                            \/ d = step.c /\ rec'[d].life = "Open"
    BY <1>3, CreatedLives DEF Kept
  <2> QED BY <1>1, <2>2, <2>3
<1>4. CASE DestroyContextOnRuntime
  <2>1. /\ step.c \in Contexts /\ step.op = "destroy"
        /\ rec'[step.c].life = "Destroyed"
        /\ \A d \in Contexts \ {step.c} : rec'[d].life = rec[d].life
    BY <1>4, DestroyedLives DEF DestroyContextOnRuntime
  <2>2. ~Unmade(step.c)
    BY <2>1 DEF Ending, Unmade
  <2> QED BY <1>1, <2>1, <2>2
<1>5. ASSUME NEW cmd \in Commands, cmd.op = "destroy", DestroyContext(cmd)
      PROVE  \A c \in Contexts : rec'[c].life = rec[c].life \/ (rec'[c].life # "None" /\ ~Unmade(c))
  <2>1. \/ rec' = rec
        \/ /\ cmd.c \in contexts
           /\ rec'[cmd.c].life = "Destroying"
           /\ \A d \in Contexts \ {cmd.c} : rec'[d] = rec[d]
    BY <1>5, DestroyingLives
  <2> QED BY <1>0, <2>1 DEF Named, Unmade
<1>6. ASSUME NEW cmd \in Commands, CleanupOnRuntime(cmd)
      PROVE  \A c \in Contexts : rec'[c].life = rec[c].life \/ (rec'[c].life # "None" /\ ~Unmade(c))
  <2>1. \/ rec' = rec
        \/ \A c \in Contexts : \/ rec'[c] = rec[c]
                               \/ c \in contexts /\ rec'[c].life = "Destroyed"
    BY <1>6, CleanedLives
  <2> QED BY <1>0, <2>1 DEF Named, Unmade
<1>7. ASSUME NEW c \in Contexts, MarkRecordDestroyed(c)
      PROVE  \A d \in Contexts : rec'[d].life = rec[d].life \/ (rec'[d].life # "None" /\ ~Unmade(d))
  <2>1. c \in owned /\ rec' = Ended(rec, c)
    BY <1>7 DEF MarkRecordDestroyed, Ended
  <2>2. rec'[c].life = "Destroyed" /\ \A d \in Contexts \ {c} : rec'[d] = rec[d]
    BY <2>1, LifeEnds DEF InputTypeInv
  <2> QED BY <2>1, <2>2 DEF Named, Unmade
<1>8. CASE \/ Invoke \/ BeginTeardown
           \/ \E s \in Subs : ResetInCallback(s) \/ Reset(s) \/ Fence(s)
           \/ \E s \in Subs, topic \in Topics : Subscribe(s, topic)
           \/ DetachAllContexts \/ DeactivateManagerSubscriptions \/ PostCleanup
  BY <1>1, <1>8 DEF Invoke, BeginTeardown, ResetInCallback, Reset, Fence, Subscribe, DetachAllContexts,
     DeactivateManagerSubscriptions, PostCleanup, tables
<1> QED BY <1>1, <1>2, <1>3, <1>4, <1>5, <1>6, <1>7, <1>8, QuietOrLoud DEF LoudStep, Teardown

LEMMA EndingNext ==
  InputTypeInv /\ FencedInv /\ Turns /\ Named /\ Ending /\ [Next]_vars => Ending'
<1> SUFFICES ASSUME InputTypeInv, FencedInv, Turns, Named, Ending, [Next]_vars, step'.op = "destroy"
             PROVE  rec'[step'.c].life # "None"
  BY DEF Ending
<1>1. step' \in Steps
  BY InputTypeNext DEF InputTypeInv
<1>2. step'.c \in Contexts
  BY <1>1 DEF Steps, NoStep, Deadlocked, DeviceReports
<1>3. CASE Destroys
  <2>1. PICK cmd \in Commands : cmd.op = "destroy" /\ DestroyContext(cmd)
    BY <1>3 DEF Destroys
  <2>2. step = NoStep
    BY <2>1, RunsType DEF DestroyContext
  <2>3. cmd.c \in contexts /\ rec' = [rec EXCEPT ![cmd.c].life = "Destroying"] /\ step'.c = cmd.c
    BY <2>1, <2>2 DEF DestroyContext, NoStep
  <2>4. rec'[cmd.c].life = "Destroying" \/ rec' = rec
    BY <2>1, DestroyingLives
  <2> QED BY <1>2, <2>3, <2>4 DEF Named
<1>4. CASE ~Destroys
  <2>1. step' = step
    BY <1>4, DestructionBegins
  <2>2. ~Makes
    <3>1. ASSUME NEW cmd \in Commands, NEW ok \in BOOLEAN, CreateContext(cmd, ok) PROVE step = NoStep
      BY <3>1, RunsType DEF CreateContext
    <3> QED BY <2>1, <3>1 DEF Makes, NoStep
  <2> QED BY <1>2, <2>1, <2>2, LivesGoOn DEF Ending
<1> QED BY <1>3, <1>4

LEMMA ItemFields ==
  ASSUME NEW item \in Items, item.op \in {"create", "publish"}
  PROVE  item.c \in Contexts
BY DEF Items, Commands, WindowCommands, DeviceReports, Publications, Cleanups

LEMMA QueuedShorter ==
  ASSUME InputTypeInv, Queued,
         \/ queue' = queue
         \/ queue # <<>> /\ queue' = Tail(queue),
         \A c \in Contexts : rec[c].life # "None" => rec'[c].life # "None",
         \A c \in Contexts : (\E i \in 1..Len(queue') : OrdersCreation(queue'[i], c)) /\ Unmade(c) => Unmade(c)'
  PROVE  Queued'
<1>1. queue \in Seq(Items)
  BY DEF InputTypeInv
<1>2. PICK k \in {0, 1} : /\ queue' \in Seq(Items) /\ Len(queue') = Len(queue) - k
                         /\ \A i \in 1..Len(queue') : queue'[i] = queue[i + k] /\ i + k \in 1..Len(queue)
  <2>1. CASE queue' = queue
    BY <1>1, <2>1
  <2>2. CASE queue # <<>> /\ queue' = Tail(queue)
    <3>1. PICK t \in Seq(Items) : t = Tail(queue) /\ Len(t) = Len(queue) - 1 /\ \A i \in 1..Len(t) : t[i] = queue[i + 1]
      BY <1>1, <2>2, HeadTailProperties
    <3>2. \A i \in 1..Len(t) : i + 1 \in 1..Len(queue)
      BY <1>1, <3>1
    <3> QED BY <2>2, <3>1, <3>2
  <2> QED BY <2>1, <2>2
<1>3. ASSUME NEW i \in 1..Len(queue')
      PROVE  (/\ queue[i].op = "create" => /\ Unmade(queue[i].c)
                                           /\ \A j \in 1..Len(queue) : OrdersCreation(queue[j], queue[i].c) => i = j
              /\ queue[i].op = "publish" => rec[queue[i].c].life # "None")'
  <2>1. PICK item \in Items : item = queue'[i]
    BY <1>2, <1>3, ElementOfSeq
  <2>2. queue[i + k] = item /\ i + k \in 1..Len(queue)
    BY <1>2, <2>1
  <2>3. CASE item.op = "create"
    <3>1. item.c \in Contexts
      BY <2>3, ItemFields
    <3>2. Unmade(item.c) /\ \A j \in 1..Len(queue) : OrdersCreation(queue[j], item.c) => i + k = j
      BY <2>2, <2>3 DEF Queued
    <3>3. Unmade(item.c)'
      BY <2>1, <2>3, <3>1, <3>2 DEF OrdersCreation
    <3>4. ASSUME NEW j \in 1..Len(queue'), OrdersCreation(queue'[j], item.c) PROVE i = j
      <4>1. OrdersCreation(queue[j + k], item.c) /\ j + k \in 1..Len(queue)
        BY <1>2, <3>4
      <4>2. i + k = j + k
        BY <3>2, <4>1
      <4>3. i \in Nat /\ j \in Nat
        BY <1>2
      <4> QED BY <4>2, <4>3
    <3> QED BY <2>1, <2>3, <3>3, <3>4
  <2>4. CASE item.op = "publish"
    <3>1. item.c \in Contexts /\ rec[item.c].life # "None"
      BY <2>2, <2>4, ItemFields DEF Queued
    <3> QED BY <2>1, <2>4, <3>1
  <2> QED BY <2>1, <2>3, <2>4
<1> QED BY <1>3 DEF Queued

LEMMA QueuedLonger ==
  ASSUME InputTypeInv, Queued, NEW events \in Seq(Items), queue' = queue \o events,
         \A i \in 1..Len(events) : \/ events[i].op \notin {"create", "publish"}
                                   \/ events[i].op = "publish" /\ rec[events[i].c].life # "None"
                                   \/ /\ events[i].op = "create" /\ Len(events) = 1
                                      /\ Unmade(events[i].c)
                                      /\ \A j \in 1..Len(queue) : ~OrdersCreation(queue[j], events[i].c),
         \A c \in Contexts : rec[c].life # "None" => rec'[c].life # "None",
         \A c \in Contexts : Unmade(c) => Unmade(c)'
  PROVE  Queued'
<1>1. queue \in Seq(Items) /\ Len(queue) \in Nat /\ Len(events) \in Nat
  BY DEF InputTypeInv
<1>2. PICK q \in Seq(Items) :
        /\ q = queue \o events /\ Len(q) = Len(queue) + Len(events)
        /\ \A i \in 1..Len(q) : q[i] = IF i \in 1..Len(queue) THEN queue[i] ELSE events[i - Len(queue)]
        /\ \A i \in 1..Len(q) : i \in 1..Len(queue) \/ i - Len(queue) \in 1..Len(events)
  <2>0. PICK q : q = queue \o events
    OBVIOUS
  <2>1. /\ q \in Seq(Items) /\ Len(q) = Len(queue) + Len(events)
        /\ \A i \in 1..Len(q) : q[i] = IF i \in 1..Len(queue) THEN queue[i] ELSE events[i - Len(queue)]
    BY <1>1, <2>0, ConcatProperties
  <2>2. \A i \in 1..Len(q) : i \in 1..Len(queue) \/ i - Len(queue) \in 1..Len(events)
    BY <1>1, <2>1
  <2> QED BY <2>0, <2>1, <2>2
<1>3. ASSUME NEW i \in 1..Len(q), q[i].op = "create"
      PROVE  /\ q[i].c \in Contexts /\ Unmade(q[i].c)
             /\ \A j \in 1..Len(q) : OrdersCreation(q[j], q[i].c) => i = j
  <2>1. q[i] \in Items /\ q[i].c \in Contexts
    BY <1>2, <1>3, ElementOfSeq, ItemFields
  <2>2. PICK c \in Contexts : c = q[i].c
    BY <2>1
  <2>3. CASE i \in 1..Len(queue)
    <3>1. OrdersCreation(queue[i], c) /\ Unmade(c)
      BY <1>2, <1>3, <2>2, <2>3 DEF Queued, OrdersCreation
    <3>2. \A j \in 1..Len(queue) : OrdersCreation(queue[j], c) => i = j
      BY <1>2, <1>3, <2>2, <2>3 DEF Queued
    <3>3. ASSUME NEW j \in 1..Len(q), OrdersCreation(q[j], c) PROVE i = j
      <4>1. CASE j \in 1..Len(queue)
        BY <1>2, <3>2, <3>3, <4>1
      <4>2. CASE j \notin 1..Len(queue)
        <5>1. PICK n \in 1..Len(events) : n = j - Len(queue) /\ q[j] = events[n]
          BY <1>2, <4>2
        <5>2. \A m \in 1..Len(queue) : ~OrdersCreation(queue[m], c)
          BY <3>3, <5>1 DEF OrdersCreation
        <5> QED BY <2>3, <3>1, <5>2
      <4> QED BY <4>1, <4>2
    <3> QED BY <2>2, <3>1, <3>3
  <2>4. CASE i \notin 1..Len(queue)
    <3>1. PICK n \in 1..Len(events) : n = i - Len(queue) /\ q[i] = events[n]
      BY <1>2, <2>4
    <3>2. /\ Len(events) = 1 /\ Unmade(c)
          /\ \A j \in 1..Len(queue) : ~OrdersCreation(queue[j], c)
      BY <1>3, <2>2, <3>1
    <3>3. ASSUME NEW j \in 1..Len(q), OrdersCreation(q[j], c) PROVE i = j
      <4>1. j \notin 1..Len(queue)
        BY <1>2, <3>2, <3>3
      <4>2. j - Len(queue) \in 1..1 /\ i - Len(queue) \in 1..1 /\ i \in Nat /\ j \in Nat
        BY <1>1, <1>2, <3>1, <3>2, <4>1
      <4> QED BY <1>1, <4>2
    <3> QED BY <2>2, <3>2, <3>3
  <2> QED BY <2>3, <2>4
<1>4. ASSUME NEW i \in 1..Len(q), q[i].op = "publish"
      PROVE  q[i].c \in Contexts /\ rec[q[i].c].life # "None"
  <2>1. q[i] \in Items /\ q[i].c \in Contexts
    BY <1>2, <1>4, ElementOfSeq, ItemFields
  <2>2. CASE i \in 1..Len(queue)
    BY <1>2, <1>4, <2>1, <2>2 DEF Queued
  <2>3. CASE i \notin 1..Len(queue)
    <3>1. PICK n \in 1..Len(events) : q[i] = events[n]
      BY <1>2, <2>3
    <3> QED BY <1>4, <2>1, <3>1
  <2> QED BY <2>2, <2>3
<1>5. queue' = q
  BY <1>2
<1> QED BY <1>3, <1>4, <1>5 DEF Queued

LEMMA QueuedNext ==
  InputTypeInv /\ FencedInv /\ Turns /\ Named /\ Ending /\ Queued /\ [Next]_vars => Queued'
<1> SUFFICES ASSUME InputTypeInv, FencedInv, Turns, Named, Ending, Queued, [Next]_vars PROVE Queued'
  OBVIOUS
<1>1. CASE Makes
  <2>1. PICK cmd \in Commands, ok \in BOOLEAN : cmd.op = "create" /\ CreateContext(cmd, ok)
    BY <1>1 DEF Makes
  <2>2. Runs(cmd) /\ Kept
    BY <2>1, KeptCreateContext DEF CreateContext
  <2>3. /\ cmd.c \in Contexts
        /\ \A i \in 1..Len(queue') : ~OrdersCreation(queue'[i], cmd.c)
    BY <2>1, <2>2, CreateTakes
  <2>4. \A d \in Contexts \ {cmd.c} : sdl'.ctx[d].live = sdl.ctx[d].live
    BY <2>1, MadeContexts
  <2>5. \A d \in Contexts \ {cmd.c} : Unmade(d) => Unmade(d)'
    BY <2>2, <2>4 DEF Unmade, Kept
  <2>6. queue' = queue \/ (queue # <<>> /\ queue' = Tail(queue))
    BY <2>2 DEF Runs
  <2> QED BY <2>2, <2>3, <2>5, <2>6, QueuedShorter DEF Kept
<1>2. CASE ~Makes
  <2>1. \A c \in Contexts : /\ rec[c].life # "None" => rec'[c].life # "None"
                            /\ Unmade(c) => Unmade(c)'
    BY <1>2, LivesGoOn
  <2>2. CASE queue' = queue \/ (queue # <<>> /\ queue' = Tail(queue))
    BY <2>1, <2>2, QueuedShorter
  <2>3. ASSUME NEW item \in Items, queue' = Append(queue, item),
               \/ item.op \notin {"create", "publish"}
               \/ /\ item.op = "create"
                  /\ Unmade(item.c) /\ \A j \in 1..Len(queue) : ~OrdersCreation(queue[j], item.c)
        PROVE  Queued'
    <3>1. queue' = queue \o <<item>>
      BY <2>3, AppendIsConcat DEF InputTypeInv
    <3>2. PICK events : events = <<item>>
      OBVIOUS
    <3>3. events \in Seq(Items) /\ Len(events) = 1 /\ \A i \in 1..Len(events) : events[i] = item
      BY <3>2
    <3> QED BY <2>1, <2>3, <3>1, <3>2, <3>3, QueuedLonger
  <2>4. ASSUME NEW cmd \in Commands, Admissible(cmd), queue' = Append(queue, cmd) PROVE Queued'
    <3>1. cmd \in Items /\ cmd.op # "publish"
      BY CommandFields
    <3>2. cmd.op = "create" => Fresh(cmd.c)
      BY <2>4 DEF Admissible
    <3>3. cmd.op = "create" => Unmade(cmd.c) /\ \A j \in 1..Len(queue) : ~OrdersCreation(queue[j], cmd.c)
      BY <3>2 DEF Fresh, Unmade, OrdersCreation, InputTypeInv
    <3> QED BY <2>3, <2>4, <3>1, <3>3
  <2>5. ASSUME NEW events \in Seq(Items), queue' = queue \o events, \A i \in 1..Len(events) : Arrives(events[i])
        PROVE  Queued'
    <3>1. ASSUME NEW i \in 1..Len(events), events[i].op = "publish" PROVE rec[events[i].c].life # "None"
      <4>1. pump = "waiting" /\ events[i].c \in Contexts /\ sdl.ctx[events[i].c].live
        BY <2>5, <3>1 DEF Arrives
      <4>2. ~Making(events[i].c)
        BY <4>1 DEF Turns, Idle, Making, NoStep
      <4> QED BY <4>1, <4>2 DEF Named
    <3>2. \A i \in 1..Len(events) : \/ events[i].op \notin {"create", "publish"}
                                    \/ events[i].op = "publish" /\ rec[events[i].c].life # "None"
      BY <2>5, <3>1 DEF Arrives
    <3> QED BY <2>1, <2>5, <3>2, QueuedLonger
  <2> QED BY <2>2, <2>3, <2>4, <2>5, QueueNext DEF QueueMoves
<1> QED BY <1>1, <1>2

(***************************************************************************)
(* Keys and the focus.                                                     *)
(***************************************************************************)
Routed(s, c) == s.ctx[c].live /\ s.win[s.ctx[c].target].alive
Loses(w) == [t |-> "lost", w |-> w]
Gains(w) == [t |-> "gained", w |-> w]
LossComes(w) == \E i \in 1..Len(os.events) : os.events[i] = Loses(w)

(* A key that is queued is for the window that was told to have the focus;   *)
(* no focus event is delivered before it is published.                       *)
KeysTold ==
  \A i \in 1..Len(queue) :
    queue[i].op = "publish" =>
      /\ pump # "waiting"
      /\ queue[i].kind = "key" /\ Routed(sdl, queue[i].c) => FocusTold = sdl.ctx[queue[i].c].target

(* A key is held only for a window that has the focus, or will be told that  *)
(* it lost it.                                                               *)
KeysHeld ==
  \A c \in contexts : sink /\ "key" \in rec[c].pressed /\ Routed(sdl, c) =>
                        os.focus = sdl.ctx[c].target \/ LossComes(sdl.ctx[c].target)

LEMMA KeysImply == InputTypeInv /\ KeysHeld => FocusLossReleases
<1> SUFFICES ASSUME InputTypeInv, KeysHeld, NEW c \in contexts,
                    sink, Routed(sdl, c), os.focus # sdl.ctx[c].target,
                    \A i \in DOMAIN os.events : os.events[i] # Loses(sdl.ctx[c].target)
             PROVE  "key" \notin rec[c].pressed
  BY DEF FocusLossReleases, Routed, Loses
<1>1. os.events \in Seq(FocusEvents)
  BY DEF InputTypeInv
<1>2. ~LossComes(sdl.ctx[c].target)
  BY <1>1 DEF LossComes
<1> QED BY <1>2 DEF KeysHeld

LEMMA KeysInit == Init => KeysTold /\ KeysHeld
BY DEF Init, KeysTold, KeysHeld

LEMMA EventsJoin ==
  ASSUME NEW a \in Seq(FocusEvents), NEW b \in Seq(FocusEvents), NEW c \in Seq(FocusEvents)
  PROVE  (a \o b) \o c = a \o (b \o c)
BY ConcatAssociative

LEMMA FocusMoved ==
  ASSUME InputTypeInv, NEW w \in Windows \cup {NoWindow}, FocusMoves(w)
  PROVE  \E more \in Seq(FocusEvents) :
           /\ os' = [focus |-> w, events |-> os.events \o more]
           /\ os.focus # w
           /\ \/ /\ os.focus = NoWindow /\ Len(more) = 1 /\ more[1] = Gains(w)
              \/ /\ w = NoWindow /\ Len(more) = 1 /\ more[1] = Loses(os.focus)
              \/ /\ os.focus # NoWindow /\ w # NoWindow
                 /\ Len(more) = 2 /\ more[1] = Loses(os.focus) /\ more[2] = Gains(w)
<1>1. os.focus \in Windows \cup {NoWindow} /\ os.events \in Seq(FocusEvents) /\ os.focus # w
  BY DEF InputTypeInv, FocusMoves
<1>2. PICK lost : lost = IF os.focus = NoWindow THEN <<>> ELSE <<Loses(os.focus)>>
  OBVIOUS
<1>3. PICK gained : gained = IF w = NoWindow THEN <<>> ELSE <<Gains(w)>>
  OBVIOUS
<1>4. /\ os.focus # NoWindow => Loses(os.focus) \in FocusEvents
      /\ w # NoWindow => Gains(w) \in FocusEvents
  BY <1>1 DEF Loses, Gains, FocusEvents
<1>5. lost \in Seq(FocusEvents) /\ gained \in Seq(FocusEvents)
  BY <1>2, <1>3, <1>4
<1>6. os' = [focus |-> w, events |-> (os.events \o lost) \o gained]
  BY <1>2, <1>3 DEF FocusMoves, Loses, Gains
<1>7. PICK more : more = lost \o gained
  OBVIOUS
<1>8. more \in Seq(FocusEvents) /\ (os.events \o lost) \o gained = os.events \o more
  <2>1. more \in Seq(FocusEvents)
    BY <1>5, <1>7, ConcatProperties
  <2>2. (os.events \o lost) \o gained = os.events \o (lost \o gained)
    BY <1>1, <1>5, EventsJoin
  <2> QED BY <1>7, <2>1, <2>2
<1>9. \/ /\ os.focus = NoWindow /\ Len(more) = 1 /\ more[1] = Gains(w)
      \/ /\ w = NoWindow /\ Len(more) = 1 /\ more[1] = Loses(os.focus)
      \/ /\ os.focus # NoWindow /\ w # NoWindow
         /\ Len(more) = 2 /\ more[1] = Loses(os.focus) /\ more[2] = Gains(w)
  <2>1. CASE os.focus = NoWindow
    BY <1>1, <1>2, <1>3, <1>7, <2>1
  <2>2. CASE os.focus # NoWindow /\ w = NoWindow
    BY <1>2, <1>3, <1>7, <2>2
  <2>3. CASE os.focus # NoWindow /\ w # NoWindow
    BY <1>2, <1>3, <1>7, <2>3
  <2> QED BY <2>1, <2>2, <2>3
<1> QED BY <1>1, <1>6, <1>8, <1>9

(* The first event is not overtaken, and none is lost.                       *)
LEMMA MovesKeep ==
  ASSUME InputTypeInv, NEW w \in Windows \cup {NoWindow}, FocusMoves(w)
  PROVE  /\ FocusTold' = FocusTold
         /\ \A v \in Windows : LossComes(v) \/ os.focus = v => LossComes(v)' \/ os'.focus = v
<1>1. PICK more \in Seq(FocusEvents) :
        /\ os' = [focus |-> w, events |-> os.events \o more]
        /\ \/ /\ os.focus = NoWindow /\ Len(more) = 1 /\ more[1] = Gains(w)
           \/ /\ w = NoWindow /\ Len(more) = 1 /\ more[1] = Loses(os.focus)
           \/ /\ os.focus # NoWindow /\ w # NoWindow
              /\ Len(more) = 2 /\ more[1] = Loses(os.focus)
  BY FocusMoved
<1>2. os.events \in Seq(FocusEvents) /\ Len(os.events) \in Nat /\ Len(more) \in Nat
  BY DEF InputTypeInv
<1>3. PICK q : q = os.events \o more
  OBVIOUS
<1>4. /\ q \in Seq(FocusEvents) /\ Len(q) = Len(os.events) + Len(more)
      /\ \A i \in 1..Len(os.events) : q[i] = os.events[i]
      /\ \A i \in 1..Len(more) : q[Len(os.events) + i] = more[i]
  BY <1>2, <1>3, ConcatProperties
<1>5. os'.focus = w /\ os'.events = q
  BY <1>1, <1>3
<1>6. FocusTold' = FocusTold
  <2>1. CASE os.events = <<>>
    <3>1. 0 + 1 \in 1..Len(more) /\ Len(os.events) = 0
      BY <1>1, <2>1
    <3>2. q # <<>> /\ Head(q) = more[1]
      BY <1>2, <1>4, <3>1
    <3> QED BY <1>1, <1>5, <2>1, <3>2 DEF FocusTold, Loses, Gains
  <2>2. CASE os.events # <<>>
    <3>1. 1 \in 1..Len(os.events) /\ q # <<>>
      BY <1>2, <1>4, <2>2
    <3>2. Head(q) = Head(os.events)
      BY <1>2, <1>4, <3>1
    <3> QED BY <1>5, <2>2, <3>1, <3>2 DEF FocusTold
  <2> QED BY <2>1, <2>2
<1>7. ASSUME NEW v \in Windows, LossComes(v) PROVE LossComes(v)'
  <2>1. PICK i \in 1..Len(os.events) : os.events[i] = Loses(v)
    BY <1>7 DEF LossComes
  <2>2. i \in 1..Len(q) /\ q[i] = Loses(v)
    BY <1>2, <1>4, <2>1
  <2> QED BY <1>5, <2>2 DEF LossComes, Loses
<1>8. ASSUME NEW v \in Windows, os.focus = v, w # v PROVE LossComes(v)'
  <2>1. Len(more) \in Nat /\ 1 \in 1..Len(more) /\ more[1] = Loses(v)
    BY <1>1, <1>8, WindowsAssumption
  <2>2. Len(os.events) + 1 \in 1..Len(q) /\ q[Len(os.events) + 1] = Loses(v)
    BY <1>2, <1>4, <2>1
  <2> QED BY <1>5, <2>2 DEF LossComes, Loses
<1> QED BY <1>5, <1>6, <1>7, <1>8

(* The system's state changes when the focus moves or is told.               *)
LEMMA SystemNext ==
  ASSUME [Next]_vars
  PROVE  \/ os' = os
         \/ \E w \in Windows \cup {NoWindow} : FocusMoves(w)
         \/ \E w \in Windows, gained, ok \in BOOLEAN : DispatchFocus(w, gained, ok)
         \/ \E w \in Windows, taken, ok \in BOOLEAN : DispatchClosed(w, taken, ok)
<1>1. CASE EventThread
  <2>1. CASE Executes
    BY <2>1 DEF Executes, Execute, CreateContext, MutateOnRuntime, DestroyContext, CleanupOnRuntime, adapter
  <2>2. CASE \/ CreateContextOnRuntime \/ DestroyContextOnRuntime \/ PublishDeviceChanged \/ Invoke
             \/ CallbackReturns \/ Woken \/ StopPump \/ TakeDeviceEvent \/ DiscoverConnectedDevicesOnRuntime
    BY <2>2 DEF CreateContextOnRuntime, DestroyContextOnRuntime, PublishDeviceChanged, Invoke, CallbackReturns,
       Woken, StopPump, TakeDeviceEvent, DiscoverConnectedDevicesOnRuntime, adapter
  <2>3. CASE DestroyContextUnderLock
    BY <2>3 DEF DestroyContextUnderLock
  <2> QED BY <1>1, <2>1, <2>2, <2>3 DEF EventThread, Cleanup, Publish, WindowInput, WindowMutation, adapter
<1>2. CASE Teardown
  BY <1>2 DEF Teardown, DetachAllContexts, MarkRecordDestroyed, Fence, DeactivateManagerSubscriptions, PostCleanup,
     adapter
<1>3. CASE Delivery
  BY <1>3 DEF Delivery, DispatchInput, DispatchTouchEvent, DispatchDeviceEvent, adapter
<1>4. CASE OtherThreads
  BY <1>4 DEF OtherThreads, Submit, SubmitWindow, Subscribe, Reset, BeginTeardown, RequestStop, adapter
<1>5. CASE \/ \E s \in Subs : ResetInCallback(s)
           \/ \E connected \in SUBSET Devices : StartPump(connected)
           \/ Wait \/ UNCHANGED vars
  BY <1>5 DEF ResetInCallback, StartPump, Wait, vars, adapter
<1> QED BY <1>1, <1>2, <1>3, <1>4, <1>5 DEF Next

LEMMA PumpNext ==
  ASSUME [Next]_vars, pump' = "waiting"
  PROVE  pump = "waiting" \/ queue' = <<>>
<1>1. CASE EventThread
  <2>1. CASE Executes
    BY <2>1 DEF Executes, Execute, CreateContext, MutateOnRuntime, DestroyContext, CleanupOnRuntime
  <2>2. CASE \/ CreateContextOnRuntime \/ DestroyContextOnRuntime \/ PublishDeviceChanged \/ Invoke
             \/ CallbackReturns \/ Woken \/ StopPump \/ TakeDeviceEvent \/ DiscoverConnectedDevicesOnRuntime
    BY <2>2 DEF CreateContextOnRuntime, DestroyContextOnRuntime, PublishDeviceChanged, Invoke, CallbackReturns,
       Woken, StopPump, TakeDeviceEvent, DiscoverConnectedDevicesOnRuntime, runtime
  <2>3. CASE DestroyContextUnderLock
    BY <2>3 DEF DestroyContextUnderLock, runtime
  <2> QED BY <1>1, <2>1, <2>2, <2>3 DEF EventThread, Cleanup, Publish, WindowInput, WindowMutation
<1>2. CASE Teardown
  BY <1>2 DEF Teardown, DetachAllContexts, MarkRecordDestroyed, Fence, DeactivateManagerSubscriptions, PostCleanup,
     runtime
<1>3. CASE Delivery
  BY <1>3 DEF Delivery, DispatchFocus, DispatchClosed, DispatchInput, DispatchTouchEvent, DispatchDeviceEvent,
     Occurs, Delivered
<1>4. CASE OtherThreads
  BY <1>4 DEF OtherThreads, Submit, SubmitWindow, Subscribe, Reset, BeginTeardown, RequestStop, runtime
<1>5. CASE \/ \E s \in Subs : ResetInCallback(s)
           \/ \E connected \in SUBSET Devices : StartPump(connected)
           \/ \E w \in Windows \cup {NoWindow} : FocusMoves(w)
           \/ Wait \/ UNCHANGED vars
  BY <1>5 DEF ResetInCallback, StartPump, FocusMoves, Wait, vars, runtime
<1> QED BY <1>1, <1>2, <1>3, <1>4, <1>5 DEF Next

LEMMA ToldStays ==
  ASSUME InputTypeInv, [Next]_vars, pump # "waiting"
  PROVE  FocusTold' = FocusTold
<1>1. CASE os' = os
  BY <1>1 DEF FocusTold
<1>2. CASE \E w \in Windows \cup {NoWindow} : FocusMoves(w)
  BY <1>2, MovesKeep
<1> QED BY <1>1, <1>2, SystemNext DEF DispatchFocus, DispatchClosed, Occurs, Delivered

(* A context that was made stays where it was made.                          *)
LEMMA RoutesStay ==
  ASSUME InputTypeInv, Queued, [Next]_vars, NEW c \in Contexts, rec[c].life # "None", Routed(sdl', c)
  PROVE  Routed(sdl, c) /\ sdl'.ctx[c].target = sdl.ctx[c].target /\ sdl.ctx[c].target \in Windows
<1>1. /\ sdl'.ctx[c].live => sdl.ctx[c].live /\ sdl'.ctx[c].target = sdl.ctx[c].target
      /\ \A w \in Windows : sdl'.win[w].alive => sdl.win[w].alive
  <2>1. CASE Makes
    <3>1. PICK cmd \in Commands, ok \in BOOLEAN : cmd.op = "create" /\ CreateContext(cmd, ok)
      BY <2>1 DEF Makes
    <3>2. Runs(cmd)
      BY <3>1 DEF CreateContext
    <3>3. c # cmd.c
      BY <3>1, <3>2, CreateTakes DEF Unmade
    <3>4. \/ sdl' = sdl
          \/ /\ sdl'.win = sdl.win
             /\ sdl'.ctx[c].live = sdl.ctx[c].live
             /\ sdl'.ctx[c].target = sdl.ctx[c].target
      BY <3>1, <3>3, MadeContexts
    <3> QED BY <3>4
  <2> QED BY <2>1, ShrinksNext DEF Shrinks
<1>2. sdl'.ctx[c].live
  BY DEF Routed
<1>3. sdl.ctx[c].target \in Windows
  BY <1>1, <1>2, AdapterFields DEF InputTypeInv
<1> QED BY <1>1, <1>2, <1>3 DEF Routed

(* Where what is queued comes from.                                          *)
LEMMA PublishOrigin ==
  ASSUME InputTypeInv, QueueMoves, NEW i \in 1..Len(queue'), queue'[i].op = "publish"
  PROVE  \/ \E j \in 1..Len(queue) : queue'[i] = queue[j]
         \/ Arrives(queue'[i]) /\ pump' = "draining" /\ UNCHANGED <<sdl, os, rec>>
<1>1. queue \in Seq(Items) /\ Len(queue) \in Nat
  BY DEF InputTypeInv
<1>2. CASE queue' = queue
  BY <1>2
<1>3. CASE queue # <<>> /\ queue' = Tail(queue)
  <2>1. PICK t \in Seq(Items) : t = Tail(queue) /\ Len(t) = Len(queue) - 1 /\ \A k \in 1..Len(t) : t[k] = queue[k + 1]
    BY <1>1, <1>3, HeadTailProperties
  <2>2. i \in 1..Len(t) /\ queue'[i] = queue[i + 1]
    BY <1>3, <2>1
  <2>3. i + 1 \in 1..Len(queue)
    BY <1>1, <2>1, <2>2
  <2> QED BY <2>2, <2>3
<1>4. ASSUME NEW item \in Items, item.op # "publish", queue' = Append(queue, item)
      PROVE  \E j \in 1..Len(queue) : queue'[i] = queue[j]
  <2>1. PICK q \in Seq(Items) : /\ q = Append(queue, item) /\ Len(q) = Len(queue) + 1
                                /\ \A k \in 1..Len(queue) : q[k] = queue[k]
                                /\ q[Len(queue) + 1] = item
    BY <1>1, <1>4, AppendProperties
  <2>2. i \in 1..Len(q) /\ queue'[i] = q[i]
    BY <1>4, <2>1
  <2>3. i # Len(queue) + 1
    BY <1>4, <2>1, <2>2
  <2>4. i \in 1..Len(queue)
    BY <1>1, <2>1, <2>2, <2>3
  <2> QED BY <2>1, <2>2, <2>4
<1>5. ASSUME NEW cmd \in Commands, queue' = Append(queue, cmd)
      PROVE  \E j \in 1..Len(queue) : queue'[i] = queue[j]
  <2>1. cmd \in Items /\ cmd.op # "publish"
    BY CommandFields
  <2> QED BY <1>4, <1>5, <2>1
<1>6. ASSUME NEW events \in Seq(Items), queue' = queue \o events, \A k \in 1..Len(events) : Arrives(events[k])
      PROVE  (\E j \in 1..Len(queue) : queue'[i] = queue[j]) \/ Arrives(queue'[i])
  <2>1. PICK q : q = queue \o events
    OBVIOUS
  <2>2. /\ q \in Seq(Items) /\ Len(q) = Len(queue) + Len(events)
        /\ \A k \in 1..Len(q) : q[k] = IF k \in 1..Len(queue) THEN queue[k] ELSE events[k - Len(queue)]
    BY <1>1, <2>1, ConcatProperties
  <2>3. i \in 1..Len(q) /\ queue'[i] = q[i]
    BY <1>6, <2>1
  <2>4. CASE i \in 1..Len(queue)
    BY <2>2, <2>3, <2>4
  <2>5. CASE i \notin 1..Len(queue)
    <3>1. Len(events) \in Nat
      BY <1>6
    <3>2. i - Len(queue) \in 1..Len(events)
      BY <1>1, <2>2, <2>3, <2>5, <3>1
    <3>3. queue'[i] = events[i - Len(queue)]
      BY <2>2, <2>3, <2>5
    <3> QED BY <1>6, <3>2, <3>3
  <2> QED BY <2>4, <2>5
<1> QED BY <1>2, <1>3, <1>4, <1>5, <1>6 DEF QueueMoves

LEMMA KeysToldNext ==
  InputTypeInv /\ Queued /\ KeysTold /\ [Next]_vars => KeysTold'
<1> SUFFICES ASSUME InputTypeInv, Queued, KeysTold, [Next]_vars,
                    NEW i \in 1..Len(queue'), queue'[i].op = "publish"
             PROVE  /\ pump' # "waiting"
                    /\ queue'[i].kind = "key" /\ Routed(sdl', queue'[i].c) => FocusTold' = sdl'.ctx[queue'[i].c].target
  BY DEF KeysTold, Routed
<1>1. queue' # <<>>
  BY EmptySeq
<1>2. CASE \E j \in 1..Len(queue) : queue'[i] = queue[j]
  <2>1. PICK j \in 1..Len(queue) : queue'[i] = queue[j]
    BY <1>2
  <2>2. PICK item \in Items : item = queue[j] /\ item = queue'[i]
    BY <2>1, ElementOfSeq DEF InputTypeInv
  <2>3. item.op = "publish" /\ item.c \in Contexts /\ rec[item.c].life # "None"
    BY <2>2, ItemFields DEF Queued
  <2>4. /\ pump # "waiting"
        /\ item.kind = "key" /\ Routed(sdl, item.c) => FocusTold = sdl.ctx[item.c].target
    BY <2>2, <2>3 DEF KeysTold
  <2>5. pump' # "waiting"
    BY <1>1, <2>4, PumpNext
  <2>6. FocusTold' = FocusTold
    BY <2>4, ToldStays
  <2>7. Routed(sdl', item.c) => Routed(sdl, item.c) /\ sdl'.ctx[item.c].target = sdl.ctx[item.c].target
    BY <2>3, RoutesStay
  <2> QED BY <2>2, <2>4, <2>5, <2>6, <2>7
<1>3. CASE Arrives(queue'[i]) /\ pump' = "draining" /\ UNCHANGED <<sdl, os, rec>>
  <2>1. FocusTold' = FocusTold
    BY <1>3 DEF FocusTold
  <2>2. queue'[i].kind = "key" => FocusTold = sdl.ctx[queue'[i].c].target
    BY <1>3 DEF Arrives
  <2> QED BY <1>3, <2>1, <2>2
<1> QED BY <1>2, <1>3, QueueNext, PublishOrigin

LEMMA SinkStays == InputTypeInv /\ [Next]_vars /\ sink' => sink
<1> SUFFICES ASSUME InputTypeInv, [Next]_vars, sink' PROVE sink
  OBVIOUS
<1>1. CASE QuietStep
  BY <1>1 DEF QuietStep
<1>2. CASE LoudStep
  <2>1. CASE Teardown
    BY <2>1 DEF Teardown, DetachAllContexts, MarkRecordDestroyed, Fence, DeactivateManagerSubscriptions, PostCleanup,
       ending
  <2>2. CASE \/ CreateContextOnRuntime \/ DestroyContextOnRuntime
             \/ \E cmd \in Commands : cmd.op = "destroy" /\ DestroyContext(cmd)
             \/ \E cmd \in Commands : CleanupOnRuntime(cmd)
    BY <2>2 DEF CreateContextOnRuntime, DestroyContextOnRuntime, DestroyContext, CleanupOnRuntime, ending
  <2>3. CASE \/ Invoke \/ BeginTeardown
             \/ \E s \in Subs : ResetInCallback(s) \/ Reset(s)
             \/ \E s \in Subs, topic \in Topics : Subscribe(s, topic)
    BY <2>3 DEF Invoke, BeginTeardown, ResetInCallback, Reset, Subscribe, ending
  <2> QED BY <1>2, <2>1, <2>2, <2>3 DEF LoudStep
<1> QED BY <1>1, <1>2, QuietOrLoud

(* Only input presses a key, and a context that can be found from now on has *)
(* none pressed.                                                             *)
Pressed(c) == c \in contexts /\ "key" \in rec[c].pressed

LEMMA PressedNext ==
  ASSUME InputTypeInv, Named, [Next]_vars, NEW c \in Contexts, Pressed(c)'
  PROVE  Pressed(c) \/ (c \in contexts /\ \E down \in BOOLEAN : Publish(c, "key", down))
<1>1. c \in contexts' /\ "key" \in rec'[c].pressed
  BY DEF Pressed
<1>2. CASE QuietStep
  <2>1. contexts' = contexts /\ (Kept \/ Publishes)
    BY <1>2 DEF QuietStep
  <2>2. CASE Kept
    BY <1>1, <2>1, <2>2 DEF Kept, Pressed
  <2>3. CASE Publishes
    <3>1. PICK d \in Contexts, kind \in Kinds, down \in BOOLEAN : Publish(d, kind, down)
      BY <2>3 DEF Publishes
    <3>2. \/ rec'[c].pressed = rec[c].pressed
          \/ c = d /\ ("key" \in rec[c].pressed \/ kind = "key")
      BY <1>1, <3>1, PublishPresses
    <3>3. CASE "key" \in rec[c].pressed
      BY <1>1, <2>1, <3>3 DEF Pressed
    <3>4. CASE c = d /\ kind = "key"
      <4>1. Publish(c, "key", down)
        BY <3>1, <3>4
      <4> QED BY <1>1, <2>1, <4>1
    <3> QED BY <1>1, <3>2, <3>3, <3>4
  <2> QED BY <2>1, <2>2, <2>3
<1>3. CASE LoudStep
  <2>1. CASE CreateContextOnRuntime
    <3>1. /\ step.c \in Contexts /\ Making(step.c)
          /\ stopping => Kept /\ contexts' = contexts
          /\ ~stopping => /\ contexts' = contexts \cup {step.c}
                          /\ rec'[step.c].pressed = rec[step.c].pressed
                          /\ \A d \in Contexts \ {step.c} : rec'[d] = rec[d]
      BY <2>1, CreatedLives DEF CreateContextOnRuntime, Making
    <3>2. rec[step.c].pressed = {}
      BY <3>1 DEF Named
    <3>3. CASE stopping
      BY <1>1, <3>1, <3>3 DEF Kept, Pressed
    <3>4. CASE ~stopping
      <4>1. c # step.c
        BY <1>1, <3>1, <3>2, <3>4
      <4> QED BY <1>1, <3>1, <3>4, <4>1 DEF Pressed
    <3> QED BY <3>3, <3>4
  <2>2. CASE DestroyContextOnRuntime
    <3>1. contexts' = contexts \ {step.c}
      BY <2>2 DEF DestroyContextOnRuntime
    <3>2. rec'[c].pressed = rec[c].pressed
      BY <1>1, <2>2, <3>1, DestroyedLives
    <3> QED BY <1>1, <3>1, <3>2 DEF Pressed
  <2>3. CASE \E cmd \in Commands : cmd.op = "destroy" /\ DestroyContext(cmd)
    <3>1. PICK cmd \in Commands : cmd.op = "destroy" /\ DestroyContext(cmd)
      BY <2>3
    <3>2. contexts' = contexts
      BY <3>1 DEF DestroyContext
    <3>3. rec'[c].pressed = rec[c].pressed
      BY <3>1, DestroyingLives
    <3> QED BY <1>1, <3>2, <3>3 DEF Pressed
  <2>4. CASE \E cmd \in Commands : CleanupOnRuntime(cmd)
    BY <1>1, <2>4, CleanedLives DEF Pressed
  <2>5. ASSUME NEW d \in Contexts, MarkRecordDestroyed(d) PROVE Pressed(c)
    <3>1. contexts' = contexts /\ rec' = [rec EXCEPT ![d].life = "Destroyed", ![d].pressed = {}]
      BY <2>5 DEF MarkRecordDestroyed
    <3>2. rec[d] \in RecordType
      BY DEF InputTypeInv, Records
    <3>3. rec'[d].pressed = {} /\ \A e \in Contexts \ {d} : rec'[e] = rec[e]
      BY <3>1, <3>2 DEF InputTypeInv, Records, RecordType
    <3> QED BY <1>1, <3>1, <3>3 DEF Pressed
  <2>6. CASE \/ Invoke \/ BeginTeardown
             \/ \E s \in Subs : ResetInCallback(s) \/ Reset(s) \/ Fence(s)
             \/ \E s \in Subs, topic \in Topics : Subscribe(s, topic)
             \/ DeactivateManagerSubscriptions \/ PostCleanup
    BY <1>1, <2>6 DEF Invoke, BeginTeardown, ResetInCallback, Reset, Fence, Subscribe,
       DeactivateManagerSubscriptions, PostCleanup, tables, Pressed
  <2>7. ~DetachAllContexts
    BY <1>1 DEF DetachAllContexts
  <2> QED BY <1>3, <2>1, <2>2, <2>3, <2>4, <2>5, <2>6, <2>7 DEF LoudStep, Teardown
<1> QED BY <1>2, <1>3, QuietOrLoud

LEMMA EndingInit == Init => Ending
BY DEF Init, NoStep, Ending

(* A loss that is told releases the keys of the window.                      *)
LEMMA LossReleases ==
  ASSUME InputTypeInv, Turns, DestroyingGoesOn, Named, sink,
         NEW w \in Windows, NEW ok \in BOOLEAN, DispatchFocus(w, FALSE, ok),
         NEW c \in contexts, Routed(sdl, c), sdl.ctx[c].target = w
  PROVE  rec'[c].pressed = {}
<1>1. c \in Contexts /\ rec[c].life \in {"Open", "Destroying"}
  BY DEF InputTypeInv, Named
<1>2. step.op # "destroy"
  BY DEF DispatchFocus, Delivered, Turns, Idle, NoStep
<1>3. rec[c].life = "Open"
  BY <1>1, <1>2 DEF DestroyingGoesOn
<1>4. PICK t \in Adapter : FocusLost(sdl, w, ok) = t /\ SameAlive(sdl, t) /\ SameRoutes(sdl, t)
  BY FocusLostType DEF InputTypeInv
<1>5. PICK lost \in BOOLEAN : lost = TRUE
  OBVIOUS
<1>6. Refreshed(t, w, lost)
  BY <1>4, <1>5 DEF DispatchFocus, Routed
<1>7. t.win[w].alive /\ t.ctx[c].live /\ t.ctx[c].target = w
  BY <1>1, <1>4 DEF SameAlive, SameRoutes, Routed
<1> QED BY <1>1, <1>3, <1>5, <1>6, <1>7, RefreshedType

(* Another event that is told loses no loss.                                 *)
LEMMA LossStays ==
  ASSUME InputTypeInv, NEW w \in Windows, NEW v \in Windows, NEW gained \in BOOLEAN, NEW ok \in BOOLEAN,
         DispatchFocus(v, gained, ok), LossComes(w)
  PROVE  LossComes(w)' \/ (~gained /\ v = w)
<1>1. os.events \in Seq(FocusEvents) /\ os.events # <<>> /\ os' = [os EXCEPT !.events = Tail(@)]
  BY DEF InputTypeInv, DispatchFocus
<1>2. PICK t \in Seq(FocusEvents) : /\ t = Tail(os.events) /\ Len(t) = Len(os.events) - 1
                                    /\ \A i \in 1..Len(t) : t[i] = os.events[i + 1]
  BY <1>1, HeadTailProperties
<1>3. os'.events = t
  BY <1>1, <1>2 DEF InputTypeInv
<1>4. PICK i \in 1..Len(os.events) : os.events[i] = Loses(w)
  BY DEF LossComes
<1>5. CASE i = 1
  <2>1. Head(os.events) = Loses(w)
    BY <1>1, <1>4, <1>5
  <2>2. Head(os.events).t = (IF gained THEN "gained" ELSE "lost") /\ Head(os.events).w = v
    BY DEF DispatchFocus
  <2> QED BY <2>1, <2>2 DEF Loses
<1>6. CASE i # 1
  <2>1. PICK j \in 1..Len(t) : j + 1 = i
    <3>1. i \in Nat /\ Len(os.events) \in Nat /\ i - 1 \in 1..Len(t) /\ (i - 1) + 1 = i
      BY <1>1, <1>2, <1>4, <1>6
    <3> QED BY <3>1
  <2>2. t[j] = Loses(w)
    BY <1>2, <1>4, <2>1
  <2> QED BY <1>3, <2>2 DEF LossComes, Loses
<1> QED BY <1>5, <1>6

LEMMA ClosedFocus ==
  ASSUME InputTypeInv, NEW v \in Windows, NEW taken \in BOOLEAN, NEW ok \in BOOLEAN, DispatchClosed(v, taken, ok)
  PROVE  /\ ~sdl'.win[v].alive
         /\ os'.events = os.events
         /\ os.focus # v => os'.focus = os.focus
<1>1. PICK last \in Adapter :
        (IF taken THEN InvalidateRemovedInputTarget(sdl, v, ok) ELSE PrepareWindowRemoval(sdl, {v})) = last
  BY LastType
<1>2. PICK ws \in SUBSET Windows : ws = {v}
  OBVIOUS
<1>3. PICK t \in Adapter : /\ Erase(last, ws) = t
                           /\ \A w \in Windows : t.win[w].alive <=> last.win[w].alive /\ w \notin ws
  BY EraseType
<1>4. sdl' = t
  BY <1>1, <1>2, <1>3 DEF DispatchClosed
<1>5. os' = [os EXCEPT !.focus = IF @ = v THEN NoWindow ELSE @]
  BY DEF DispatchClosed
<1> QED BY <1>2, <1>3, <1>4, <1>5 DEF InputTypeInv

LEMMA HeldStays ==
  ASSUME InputTypeInv, Turns, DestroyingGoesOn, Named, Queued, KeysHeld, [Next]_vars,
         NEW c \in Contexts, sink, Pressed(c), Pressed(c)', Routed(sdl', c)
  PROVE  os'.focus = sdl'.ctx[c].target \/ LossComes(sdl.ctx[c].target)'
<1>1. c \in contexts /\ "key" \in rec[c].pressed /\ "key" \in rec'[c].pressed
  BY DEF Pressed
<1>2. rec[c].life # "None"
  BY <1>1 DEF Named
<1>3. PICK w \in Windows : w = sdl.ctx[c].target /\ sdl'.ctx[c].target = w /\ Routed(sdl, c)
  BY <1>2, RoutesStay
<1>4. os.focus = w \/ LossComes(w)
  BY <1>1, <1>3 DEF KeysHeld
<1>5. os'.focus = w \/ LossComes(w)'
  <2>1. CASE os' = os
    BY <1>4, <2>1 DEF LossComes
  <2>2. CASE \E v \in Windows \cup {NoWindow} : FocusMoves(v)
    BY <1>4, <2>2, MovesKeep
  <2>3. ASSUME NEW v \in Windows, NEW gained \in BOOLEAN, NEW ok \in BOOLEAN, DispatchFocus(v, gained, ok)
        PROVE  os'.focus = w \/ LossComes(w)'
    <3>1. os'.focus = os.focus
      BY <2>3 DEF DispatchFocus, InputTypeInv
    <3>2. ~(~gained /\ v = w)
      <4>1. SUFFICES ASSUME ~gained, v = w PROVE FALSE
        OBVIOUS
      <4>2. gained = FALSE
        BY <4>1
      <4>3. DispatchFocus(w, FALSE, ok)
        BY <2>3, <4>1, <4>2
      <4>4. rec'[c].pressed = {}
        BY <1>1, <1>3, <4>3, LossReleases
      <4> QED BY <1>1, <4>4
    <3> QED BY <1>4, <2>3, <3>1, <3>2, LossStays
  <2>4. ASSUME NEW v \in Windows, NEW taken \in BOOLEAN, NEW ok \in BOOLEAN, DispatchClosed(v, taken, ok)
        PROVE  os'.focus = w \/ LossComes(w)'
    <3>1. /\ ~sdl'.win[v].alive /\ os'.events = os.events
          /\ os.focus # v => os'.focus = os.focus
      BY <2>4, ClosedFocus
    <3>2. v # w
      BY <1>3, <3>1 DEF Routed
    <3> QED BY <1>4, <3>1, <3>2 DEF LossComes
  <2> QED BY <2>1, <2>2, <2>3, <2>4, SystemNext
<1> QED BY <1>3, <1>5 DEF LossComes

LEMMA KeysHeldNext ==
  InputTypeInv /\ Turns /\ DestroyingGoesOn /\ Named /\ Queued /\ KeysTold /\ KeysHeld /\ [Next]_vars => KeysHeld'
<1> SUFFICES ASSUME InputTypeInv, Turns, DestroyingGoesOn, Named, Queued, KeysTold, KeysHeld, [Next]_vars,
                    NEW c \in contexts', sink', "key" \in rec'[c].pressed, Routed(sdl', c)
             PROVE  os'.focus = sdl'.ctx[c].target \/ LossComes(sdl.ctx[c].target)'
  BY DEF KeysHeld, Routed, LossComes
<1>1. c \in Contexts
  BY InputTypeNext DEF InputTypeInv
<1>2. Pressed(c)' /\ sink
  BY SinkStays DEF Pressed
<1>3. CASE Pressed(c)
  BY <1>1, <1>2, <1>3, HeldStays
<1>4. ASSUME NEW down \in BOOLEAN, Publish(c, "key", down), c \in contexts
      PROVE  os'.focus = sdl'.ctx[c].target \/ LossComes(sdl.ctx[c].target)'
  <2>1. sdl' = sdl /\ os' = os
    BY <1>4 DEF Publish, adapter
  <2>2. queue # <<>> /\ Head(queue) = [op |-> "publish", c |-> c, kind |-> "key", down |-> down]
    BY <1>4 DEF Publish
  <2>3. 1 \in 1..Len(queue) /\ queue[1] = [op |-> "publish", c |-> c, kind |-> "key", down |-> down]
    BY <2>2 DEF InputTypeInv
  <2>4. FocusTold = sdl.ctx[c].target
    BY <2>1, <2>3 DEF KeysTold
  <2>5. sdl.ctx[c].target \in Windows
    BY <1>1, <2>1, AdapterFields DEF InputTypeInv, Routed
  <2>6. os.focus = sdl.ctx[c].target \/ LossComes(sdl.ctx[c].target)
    <3>1. CASE os.events = <<>>
      BY <2>4, <3>1 DEF FocusTold
    <3>2. CASE os.events # <<>>
      <4>1. os.events \in Seq(FocusEvents)
        BY DEF InputTypeInv
      <4>2. 1 \in 1..Len(os.events) /\ os.events[1] = Head(os.events) /\ os.events[1] \in FocusEvents
        BY <3>2, <4>1, ElementOfSeq
      <4>3. Head(os.events).t = "lost" /\ Head(os.events).w = sdl.ctx[c].target
        BY <2>4, <2>5, <3>2, WindowsAssumption DEF FocusTold
      <4>4. os.events[1] = Loses(sdl.ctx[c].target)
        BY <4>2, <4>3 DEF FocusEvents, Loses
      <4> QED BY <4>2, <4>4 DEF LossComes
    <3> QED BY <3>1, <3>2
  <2> QED BY <2>1, <2>6 DEF LossComes
<1> QED BY <1>1, <1>2, <1>3, <1>4, PressedNext

(* Keys whose release goes elsewhere do not stay pressed: once the loss of   *)
(* the focus was handled no context of the window holds a key, whatever was  *)
(* queued when the focus moved, and however it meets creations, destructions,*)
(* windows that go and the end of the manager (DispatchWindowEvent,          *)
(* QueuePlatformEvent, OnTargetInputChanged): for any number of contexts,    *)
(* windows and events.                                                       *)
THEOREM FocusLossReleasesHolds == Spec => []FocusLossReleases
<1>1. Spec => []InputTypeInv
  BY InputTypeInit, InputTypeNext, PTL DEF Spec
<1>2. Spec => []FencedInv
  BY <1>1, FencedInit, FencedNext, PTL DEF Spec
<1>3. Spec => []Turns
  BY <1>1, ReleasedInit, TurnsNext, PTL DEF Spec
<1>4. Spec => []DestroyingGoesOn
  BY <1>1, <1>3, ReleasedInit, DestroyingNext, PTL DEF Spec
<1>5. Spec => [](Named /\ Ending /\ Queued)
  <2>1. Init => Named /\ Ending /\ Queued
    BY NamedInit, EndingInit
  <2>2. InputTypeInv /\ FencedInv /\ Turns /\ (Named /\ Ending /\ Queued) /\ [Next]_vars
          => (Named /\ Ending /\ Queued)'
    BY NamedNext, EndingNext, QueuedNext
  <2> QED BY <1>1, <1>2, <1>3, <2>1, <2>2, PTL DEF Spec
<1>6. Spec => []KeysTold
  BY <1>1, <1>5, KeysInit, KeysToldNext, PTL DEF Spec
<1>7. Spec => []KeysHeld
  BY <1>1, <1>3, <1>4, <1>5, <1>6, KeysInit, KeysHeldNext, PTL DEF Spec
<1> QED BY <1>1, <1>7, KeysImply, PTL

(***************************************************************************)
(* The pointer modes and text input of the adapter.                        *)
(***************************************************************************)
(* What a refresh of the windows ws gives: the modes of those that live are  *)
(* what is wanted of them, and only contexts bound to those are touched.     *)
Alive(s, w) == s.win[w].alive
Reads(s, c, w) == s.ctx[c].live /\ s.ctx[c].target = w /\ s.ctx[c].enabled
Outside(s, w, ws) == w \notin ws \/ ~Alive(s, w)
ModesOf(s, t, ws) ==
  /\ \A w \in t.relative : WantsRelative(s, w) \/ (w \in s.relative /\ Outside(s, w, ws))
  /\ t.capture => WantsCapture(s) \/ (s.capture /\ \A w \in ws : ~Alive(s, w))
TextOf(s, t, ws) == \A w \in t.text : ReadsText(s, w) \/ (w \in s.text /\ Outside(s, w, ws))
Reaches(s, t, ws) ==
  \A c \in Contexts : \/ t.ctx[c] = s.ctx[c]
                      \/ s.ctx[c].live /\ s.ctx[c].target \in ws /\ Alive(s, s.ctx[c].target)

LEMMA RefreshModesGives ==
  ASSUME NEW s \in Adapter, NEW ws, NEW ok \in BOOLEAN
  PROVE  \E t \in Adapter : /\ RefreshTargetPointerModes(s, ws, ok) = t
                            /\ SameBut(s, t) /\ t.text = s.text
                            /\ ModesOf(s, t, ws) /\ Reaches(s, t, ws)
<1> DEFINE alive == {w \in ws : s.win[w].alive}
           relative == {w \in Windows : IF w \notin alive \/ Refused(WantsRelative(s, w), ok)
                                        THEN w \in s.relative ELSE WantsRelative(s, w)}
           capture == IF Refused(WantsCapture(s), ok) THEN s.capture ELSE WantsCapture(s)
           ctx == [c \in Contexts |-> IF s.ctx[c].live /\ s.ctx[c].target \in alive
                                      THEN RefreshedContext(s, c, ok) ELSE s.ctx[c]]
           t == [s EXCEPT !.relative = relative, !.capture = capture, !.ctx = ctx]
<1>1. \A w \in relative : WantsRelative(s, w) \/ (w \in s.relative /\ Outside(s, w, ws))
  BY DEF Refused, Outside, Alive
<1>2. capture => WantsCapture(s)
  BY DEF Refused
<1>3. \A c \in Contexts : \/ ctx[c] = s.ctx[c]
                          \/ s.ctx[c].live /\ s.ctx[c].target \in ws /\ Alive(s, s.ctx[c].target)
  BY DEF Alive
<1>4. RefreshTargetPointerModes(s, ws, ok) = IF alive = {} THEN s ELSE t
  BY DEF RefreshTargetPointerModes
<1> HIDE DEF relative, capture, ctx
<1>5. t.text = s.text /\ t.relative = relative /\ t.capture = capture /\ t.ctx = ctx
  BY AdapterFields DEF SDLState
<1> HIDE DEF t
<1>6. CASE alive = {}
  <2>1. SameBut(s, s) /\ Reaches(s, s, ws) /\ ModesOf(s, s, ws)
    BY <1>6 DEF SameBut, Reaches, ModesOf, Outside, Alive
  <2> QED BY <1>4, <1>6, <2>1
<1>7. CASE alive # {}
  <2>1. RefreshTargetPointerModes(s, ws, ok) = t
    BY <1>4, <1>7
  <2>2. t \in Adapter /\ SameBut(s, t)
    BY <2>1, RefreshModesType
  <2>3. ModesOf(s, t, ws) /\ Reaches(s, t, ws)
    BY <1>1, <1>2, <1>3, <1>5 DEF ModesOf, Reaches
  <2> QED BY <1>5, <2>1, <2>2, <2>3
<1> QED BY <1>6, <1>7

LEMMA RefreshTextGives ==
  ASSUME NEW s \in Adapter, NEW ws
  PROVE  \E t \in Adapter : /\ RefreshTextInput(s, ws) = t
                            /\ t.win = s.win /\ t.ctx = s.ctx /\ t.capture = s.capture /\ t.relative = s.relative
                            /\ TextOf(s, t, ws)
<1> DEFINE text == {w \in Windows : IF w \in ws /\ s.win[w].alive THEN ReadsText(s, w) ELSE w \in s.text}
           t == [s EXCEPT !.text = text]
<1>1. \A w \in text : ReadsText(s, w) \/ (w \in s.text /\ Outside(s, w, ws))
  BY DEF Outside, Alive
<1>2. RefreshTextInput(s, ws) = t
  BY DEF RefreshTextInput
<1> HIDE DEF text
<1>3. t.win = s.win /\ t.ctx = s.ctx /\ t.capture = s.capture /\ t.relative = s.relative /\ t.text = text
  BY AdapterFields DEF SDLState
<1>4. t \in Adapter
  BY <1>2, RefreshTextType
<1> HIDE DEF t
<1>5. TextOf(s, t, ws)
  BY <1>1, <1>3 DEF TextOf
<1> QED BY <1>2, <1>3, <1>4, <1>5

(* Both look only at what a refresh leaves alone.                            *)
LEMMA WantsAlike ==
  ASSUME NEW s, NEW t, SameBut(s, t)
  PROVE  /\ \A w : Active(t, w) <=> Active(s, w)
         /\ \A w : ReadsText(t, w) <=> ReadsText(s, w)
         /\ \A w : WantsRelative(t, w) <=> WantsRelative(s, w)
         /\ WantsCapture(t) <=> WantsCapture(s)
<1>1. \A w : Active(t, w) <=> Active(s, w)
  BY DEF SameBut, Active
<1>2. \A w : BoundTo(t, w) = BoundTo(s, w)
  BY DEF SameBut, BoundTo
<1>3. \A w : \A c \in BoundTo(s, w) : /\ t.ctx[c].enabled = s.ctx[c].enabled
                                      /\ t.ctx[c].wantsRelative = s.ctx[c].wantsRelative
  BY DEF SameBut, BoundTo
<1>4. \A w : ReadsText(t, w) <=> ReadsText(s, w)
  BY <1>1, <1>2, <1>3 DEF ReadsText
<1>5. \A w : WantsRelative(t, w) <=> WantsRelative(s, w)
  BY <1>1, <1>2, <1>3 DEF WantsRelative
<1>6. WantsCapture(t) <=> WantsCapture(s)
  BY <1>1 DEF SameBut, WantsCapture
<1> QED BY <1>1, <1>4, <1>5, <1>6

Refreshes(s, t, ws) == SameBut(s, t) /\ ModesOf(s, t, ws) /\ TextOf(s, t, ws) /\ Reaches(s, t, ws)

LEMMA RefreshGives ==
  ASSUME NEW s \in Adapter, NEW ws, NEW ok \in BOOLEAN
  PROVE  \E t \in Adapter : Refresh(s, ws, ok) = t /\ Refreshes(s, t, ws)
<1>1. PICK r \in Adapter : /\ RefreshTargetPointerModes(s, ws, ok) = r
                           /\ SameBut(s, r) /\ r.text = s.text
                           /\ ModesOf(s, r, ws) /\ Reaches(s, r, ws)
  BY RefreshModesGives
<1>2. PICK t \in Adapter : /\ RefreshTextInput(r, ws) = t
                           /\ t.win = r.win /\ t.ctx = r.ctx /\ t.capture = r.capture /\ t.relative = r.relative
                           /\ TextOf(r, t, ws)
  BY RefreshTextGives
<1>3. Refresh(s, ws, ok) = t
  BY <1>1, <1>2 DEF Refresh
<1>4. SameBut(s, t)
  BY <1>1, <1>2 DEF SameBut
<1>5. ModesOf(s, t, ws) /\ Reaches(s, t, ws)
  BY <1>1, <1>2 DEF ModesOf, Reaches
<1>6. TextOf(s, t, ws)
  <2>1. \A w : Alive(r, w) = Alive(s, w)
    BY <1>1 DEF SameBut, Alive
  <2> QED BY <1>1, <1>2, <2>1, WantsAlike DEF TextOf, Outside
<1> QED BY <1>3, <1>4, <1>5, <1>6 DEF Refreshes

(* A mode is on for a window that lives and takes input, or that will be told *)
(* that it lost the focus, and that has a context that wants the mode.       *)
Held(s, w, losing) == Alive(s, w) /\ (Active(s, w) \/ w \in losing)
RelativeFollows(s, losing) ==
  \A w \in s.relative : Held(s, w, losing) /\ \E c \in Contexts : Reads(s, c, w) /\ s.ctx[c].wantsRelative
TextFollows(s, losing) == \A w \in s.text : Held(s, w, losing) /\ \E c \in Contexts : Reads(s, c, w)
CaptureFollows(s, losing) ==
  s.capture => \E w \in Windows : Held(s, w, losing) /\ \E c \in Contexts : Reads(s, c, w) /\ s.ctx[c].wantsCapture
Follows(s, losing) == RelativeFollows(s, losing) /\ TextFollows(s, losing) /\ CaptureFollows(s, losing)

(* The context of a window, or the window, was changed before the refresh.   *)
Changes(s, t, ws) ==
  /\ t.relative = s.relative /\ t.text = s.text /\ t.capture = s.capture
  /\ \A w \in Windows : Alive(t, w) = Alive(s, w) /\ (w \notin ws => t.win[w] = s.win[w])
  /\ \A c \in Contexts : s.ctx[c].live /\ s.ctx[c].target \notin ws => t.ctx[c] = s.ctx[c]

LEMMA WantsHold ==
  ASSUME NEW s \in Adapter, NEW losing
  PROVE  /\ \A w \in Windows : WantsRelative(s, w) =>
              Held(s, w, losing) /\ \E c \in Contexts : Reads(s, c, w) /\ s.ctx[c].wantsRelative
         /\ \A w \in Windows : ReadsText(s, w) => Held(s, w, losing) /\ \E c \in Contexts : Reads(s, c, w)
         /\ WantsCapture(s) =>
              \E w \in Windows : Held(s, w, losing) /\ \E c \in Contexts : Reads(s, c, w) /\ s.ctx[c].wantsCapture
<1>1. \A w \in Windows : Active(s, w) => Held(s, w, losing) /\ Alive(s, w)
  BY DEF Active, Held, Alive
<1>2. \A w \in Windows : WantsRelative(s, w) =>
              Held(s, w, losing) /\ \E c \in Contexts : Reads(s, c, w) /\ s.ctx[c].wantsRelative
  BY <1>1 DEF WantsRelative, BoundTo, Reads
<1>3. \A w \in Windows : ReadsText(s, w) => Held(s, w, losing) /\ \E c \in Contexts : Reads(s, c, w)
  BY <1>1 DEF ReadsText, BoundTo, Reads
<1>4. ASSUME WantsCapture(s)
      PROVE  \E w \in Windows : Held(s, w, losing) /\ \E c \in Contexts : Reads(s, c, w) /\ s.ctx[c].wantsCapture
  <2>1. PICK c \in Contexts : s.ctx[c].live /\ s.ctx[c].enabled /\ s.ctx[c].wantsCapture /\ Active(s, s.ctx[c].target)
    BY <1>4 DEF WantsCapture
  <2>2. s.ctx[c].target \in Windows
    BY <2>1, AdapterFields
  <2> QED BY <1>1, <2>1, <2>2 DEF Reads
<1> QED BY <1>2, <1>3, <1>4

LEMMA OutsideStays ==
  ASSUME NEW s \in Adapter, NEW t \in Adapter, NEW ws, NEW losing, NEW left, Changes(s, t, ws),
         \A w \in Windows : w \in losing /\ Alive(s, w) /\ w \notin ws => w \in left,
         NEW w \in Windows, Alive(s, w), w \notin ws
  PROVE  /\ Held(s, w, losing) => Held(t, w, left)
         /\ \A c \in Contexts : Reads(s, c, w) => Reads(t, c, w) /\ t.ctx[c] = s.ctx[c]
BY DEF Changes, Held, Alive, Active, Reads

LEMMA ModesFollow ==
  ASSUME NEW s \in Adapter, NEW t \in Adapter, NEW u \in Adapter, NEW ws, NEW losing, NEW left,
         Changes(s, t, ws), SameBut(t, u), ModesOf(t, u, ws),
         \A w \in Windows : w \in losing /\ Alive(s, w) /\ w \notin ws => w \in left,
         RelativeFollows(s, losing), CaptureFollows(s, losing)
  PROVE  RelativeFollows(u, left) /\ CaptureFollows(u, left)
<1>1. /\ \A w \in Windows : Held(t, w, left) => Held(u, w, left)
      /\ \A w \in Windows, c \in Contexts : Reads(t, c, w) => Reads(u, c, w)
      /\ \A c \in Contexts : /\ u.ctx[c].wantsRelative = t.ctx[c].wantsRelative
                             /\ u.ctx[c].wantsCapture = t.ctx[c].wantsCapture
  BY DEF SameBut, Held, Alive, Active, Reads
<1>2. ASSUME NEW w \in u.relative
      PROVE  Held(t, w, left) /\ \E c \in Contexts : Reads(t, c, w) /\ t.ctx[c].wantsRelative
  <2>1. w \in Windows
    BY AdapterFields
  <2>2. CASE WantsRelative(t, w)
    BY <2>1, <2>2, WantsHold
  <2>3. CASE w \in t.relative /\ Outside(t, w, ws)
    <3>1. w \in s.relative /\ Alive(s, w) = Alive(t, w)
      BY <2>1, <2>3 DEF Changes
    <3>2. Held(s, w, losing) /\ \E c \in Contexts : Reads(s, c, w) /\ s.ctx[c].wantsRelative
      BY <3>1 DEF RelativeFollows
    <3>3. Alive(s, w) /\ w \notin ws
      BY <2>3, <3>1, <3>2 DEF Held, Outside
    <3> QED BY <2>1, <3>2, <3>3, OutsideStays
  <2> QED BY <2>2, <2>3 DEF ModesOf
<1>3. ASSUME u.capture
      PROVE  \E w \in Windows : Held(t, w, left) /\ \E c \in Contexts : Reads(t, c, w) /\ t.ctx[c].wantsCapture
  <2>1. CASE WantsCapture(t)
    BY <2>1, WantsHold
  <2>2. CASE t.capture /\ \A w \in ws : ~Alive(t, w)
    <3>1. PICK w \in Windows : Held(s, w, losing) /\ \E c \in Contexts : Reads(s, c, w) /\ s.ctx[c].wantsCapture
      BY <2>2 DEF Changes, CaptureFollows
    <3>2. Alive(s, w) /\ w \notin ws
      BY <2>2, <3>1 DEF Held, Changes
    <3> QED BY <3>1, <3>2, OutsideStays
  <2> QED BY <1>3, <2>1, <2>2 DEF ModesOf
<1> QED BY <1>1, <1>2, <1>3, AdapterFields DEF RelativeFollows, CaptureFollows

LEMMA TextFollow ==
  ASSUME NEW s \in Adapter, NEW t \in Adapter, NEW u \in Adapter, NEW ws, NEW losing, NEW left,
         Changes(s, t, ws), SameBut(t, u), TextOf(t, u, ws),
         \A w \in Windows : w \in losing /\ Alive(s, w) /\ w \notin ws => w \in left,
         TextFollows(s, losing)
  PROVE  TextFollows(u, left)
<1>1. /\ \A w \in Windows : Held(t, w, left) => Held(u, w, left)
      /\ \A w \in Windows, c \in Contexts : Reads(t, c, w) => Reads(u, c, w)
  BY DEF SameBut, Held, Alive, Active, Reads
<1>2. ASSUME NEW w \in u.text
      PROVE  Held(t, w, left) /\ \E c \in Contexts : Reads(t, c, w)
  <2>1. w \in Windows
    BY AdapterFields
  <2>2. CASE ReadsText(t, w)
    BY <2>1, <2>2, WantsHold
  <2>3. CASE w \in t.text /\ Outside(t, w, ws)
    <3>1. w \in s.text /\ Alive(s, w) = Alive(t, w)
      BY <2>1, <2>3 DEF Changes
    <3>2. Held(s, w, losing) /\ \E c \in Contexts : Reads(s, c, w)
      BY <3>1 DEF TextFollows
    <3>3. Alive(s, w) /\ w \notin ws
      BY <2>3, <3>1, <3>2 DEF Held, Outside
    <3> QED BY <2>1, <3>2, <3>3, OutsideStays
  <2> QED BY <2>2, <2>3 DEF TextOf
<1> QED BY <1>1, <1>2, AdapterFields DEF TextFollows

LEMMA RefreshFollows ==
  ASSUME NEW s \in Adapter, NEW t \in Adapter, NEW u \in Adapter, NEW ws, NEW losing, NEW left,
         Changes(s, t, ws), Refreshes(t, u, ws), Follows(s, losing),
         \A w \in Windows : w \in losing /\ Alive(s, w) /\ w \notin ws => w \in left
  PROVE  Follows(u, left)
BY ModesFollow, TextFollow DEF Refreshes, Follows

(* A change that takes nothing away needs no refresh.                        *)
LEMMA FollowsStays ==
  ASSUME NEW s \in Adapter, NEW t \in Adapter, NEW losing, NEW left, Follows(s, losing),
         t.relative \subseteq s.relative, t.text \subseteq s.text, t.capture => s.capture,
         \A w \in Windows : Alive(s, w) => Alive(t, w),
         \A w \in Windows : Held(s, w, losing) => Held(t, w, left),
         \A c \in Contexts, w \in Windows : Reads(s, c, w) /\ Alive(s, w) =>
            /\ Reads(t, c, w)
            /\ t.ctx[c].wantsRelative = s.ctx[c].wantsRelative /\ t.ctx[c].wantsCapture = s.ctx[c].wantsCapture
  PROVE  Follows(t, left)
<1>1. RelativeFollows(t, left)
  <2> SUFFICES ASSUME NEW w \in t.relative
               PROVE  Held(t, w, left) /\ \E c \in Contexts : Reads(t, c, w) /\ t.ctx[c].wantsRelative
    BY DEF RelativeFollows
  <2>1. w \in Windows
    BY AdapterFields
  <2>2. Held(s, w, losing) /\ \E c \in Contexts : Reads(s, c, w) /\ s.ctx[c].wantsRelative
    BY DEF Follows, RelativeFollows
  <2> QED BY <2>1, <2>2 DEF Held
<1>2. TextFollows(t, left)
  <2> SUFFICES ASSUME NEW w \in t.text PROVE Held(t, w, left) /\ \E c \in Contexts : Reads(t, c, w)
    BY DEF TextFollows
  <2>1. w \in Windows
    BY AdapterFields
  <2>2. Held(s, w, losing) /\ \E c \in Contexts : Reads(s, c, w)
    BY DEF Follows, TextFollows
  <2> QED BY <2>1, <2>2 DEF Held
<1>3. CaptureFollows(t, left)
  BY DEF Follows, CaptureFollows, Held
<1> QED BY <1>1, <1>2, <1>3 DEF Follows

(***************************************************************************)
(* What each call of the adapter does to the modes, and to other contexts. *)
(***************************************************************************)
Spares(s, t, d, w) == t.ctx[d] = s.ctx[d] \/ (t.ctx[d].live /\ t.ctx[d].target = w /\ Alive(t, w))

WithContext(s, c, r) == [s EXCEPT !.ctx[c] = r]
WithWindow(s, w, r) == [s EXCEPT !.win[w] = r]

LEMMA ChangedContext ==
  ASSUME NEW s \in Adapter, NEW c \in Contexts, NEW r \in InputContextRecord, r.live => r.target \in Windows
  PROVE  \E t \in Adapter : /\ WithContext(s, c, r) = t
                            /\ t.win = s.win /\ t.relative = s.relative /\ t.text = s.text /\ t.capture = s.capture
                            /\ t.ctx[c] = r /\ \A d \in Contexts \ {c} : t.ctx[d] = s.ctx[d]
<1> DEFINE t == [s EXCEPT !.ctx[c] = r]
<1>1. t \in Adapter
  BY WithContextType
<1>2. /\ t.win = s.win /\ t.relative = s.relative /\ t.text = s.text /\ t.capture = s.capture
      /\ t.ctx[c] = r /\ \A d \in Contexts \ {c} : t.ctx[d] = s.ctx[d]
  BY AdapterFields DEF SDLState
<1>3. WithContext(s, c, r) = t
  BY DEF WithContext
<1> HIDE DEF t
<1> QED BY <1>1, <1>2, <1>3

LEMMA ChangedWindow ==
  ASSUME NEW s \in Adapter, NEW w \in Windows, NEW r \in WindowRecord
  PROVE  \E t \in Adapter : /\ WithWindow(s, w, r) = t
                            /\ t.ctx = s.ctx /\ t.relative = s.relative /\ t.text = s.text /\ t.capture = s.capture
                            /\ t.win[w] = r /\ \A v \in Windows \ {w} : t.win[v] = s.win[v]
<1> DEFINE t == [s EXCEPT !.win[w] = r]
<1>1. /\ t \in SDLState
      /\ t.ctx = s.ctx /\ t.relative = s.relative /\ t.text = s.text /\ t.capture = s.capture
      /\ t.win[w] = r /\ \A v \in Windows \ {w} : t.win[v] = s.win[v]
  BY AdapterFields DEF SDLState
<1>2. WithWindow(s, w, r) = t
  BY DEF WithWindow
<1> HIDE DEF t
<1>3. t \in Adapter
  BY <1>1, AdapterFields DEF Adapter, Bound
<1> QED BY <1>1, <1>2, <1>3

(* A context is changed and its window refreshed.                            *)
LEMMA ContextRefreshed ==
  ASSUME NEW s \in Adapter, NEW c \in Contexts, NEW r \in InputContextRecord, NEW w \in Windows, NEW ok \in BOOLEAN,
         r.live => r.target \in Windows, s.ctx[c].live => s.ctx[c].target = w, NEW ws, ws = {w}
  PROVE  \E t \in Adapter : /\ Refresh(WithContext(s, c, r), ws, ok) = t
                            /\ t.win = s.win
                            /\ \A losing : Follows(s, losing) => Follows(t, losing)
                            /\ \A d \in Contexts \ {c} : Spares(s, t, d, w)
<1>1. PICK u \in Adapter : /\ WithContext(s, c, r) = u
                           /\ u.win = s.win /\ u.relative = s.relative /\ u.text = s.text /\ u.capture = s.capture
                           /\ u.ctx[c] = r /\ \A d \in Contexts \ {c} : u.ctx[d] = s.ctx[d]
  BY ChangedContext
<1>2. PICK t \in Adapter : Refresh(u, ws, ok) = t /\ Refreshes(u, t, ws)
  BY RefreshGives
<1>3. Refresh(WithContext(s, c, r), ws, ok) = t
  BY <1>1, <1>2
<1>4. t.win = s.win
  BY <1>1, <1>2 DEF Refreshes, SameBut
<1>5. Changes(s, u, ws)
  BY <1>1 DEF Changes, Alive
<1>6. ASSUME NEW losing, Follows(s, losing) PROVE Follows(t, losing)
  BY <1>2, <1>5, <1>6, RefreshFollows
<1>7. ASSUME NEW d \in Contexts \ {c} PROVE Spares(s, t, d, w)
  <2>1. t.ctx[d] = u.ctx[d] \/ (u.ctx[d].live /\ u.ctx[d].target \in ws /\ Alive(u, u.ctx[d].target))
    BY <1>2 DEF Refreshes, Reaches
  <2>2. t.ctx[d].live = u.ctx[d].live /\ t.ctx[d].target = u.ctx[d].target /\ t.win = u.win
    BY <1>2 DEF Refreshes, SameBut
  <2> QED BY <1>1, <2>1, <2>2 DEF Spares, Alive
<1> QED BY <1>3, <1>4, <1>6, <1>7

LEMMA CreateGives ==
  ASSUME NEW s \in Adapter, NEW c \in Contexts, NEW w \in Windows, NEW wants, NEW ok \in BOOLEAN, ~s.ctx[c].live
  PROVE  \E t \in Adapter : /\ CreateInputContext(s, c, w, wants, ok) = t
                            /\ t.win = s.win
                            /\ \A losing : Follows(s, losing) => Follows(t, losing)
                            /\ \A d \in Contexts \ {c} : Spares(s, t, d, w)
<1> DEFINE capture == "capture" \in wants
           relative == "relative" \in wants
           r == [NoContext EXCEPT !.live = TRUE, !.target = w, !.enabled = TRUE,
                                  !.wantsCapture = capture, !.wantsRelative = relative]
           ws == {w}
<1>1. r \in InputContextRecord /\ r.target \in Windows
  <2>1. capture \in BOOLEAN /\ relative \in BOOLEAN
    OBVIOUS
  <2> HIDE DEF capture, relative
  <2> QED BY <2>1, NoContextType DEF InputContextRecord
<1>2. CreateInputContext(s, c, w, wants, ok) = Refresh(WithContext(s, c, r), ws, ok)
  BY DEF CreateInputContext, WithContext
<1>3. ws = {w}
  OBVIOUS
<1> HIDE DEF r, ws
<1> QED BY <1>1, <1>2, <1>3, ContextRefreshed

LEMMA DestroyGives ==
  ASSUME NEW s \in Adapter, NEW c \in Contexts, NEW ok \in BOOLEAN
  PROVE  \E t \in Adapter : /\ DestroyInputContext(s, c, ok) = t
                            /\ t.win = s.win
                            /\ \A losing : Follows(s, losing) => Follows(t, losing)
                            /\ \A d \in Contexts \ {c} : Spares(s, t, d, s.ctx[c].target)
<1>1. CASE ~s.ctx[c].live
  BY <1>1 DEF DestroyInputContext, Spares
<1>2. CASE s.ctx[c].live
  <2>1. PICK w \in Windows : w = s.ctx[c].target
    BY <1>2, AdapterFields
  <2>2. PICK ws : ws = {w}
    OBVIOUS
  <2>3. DestroyInputContext(s, c, ok) = Refresh(WithContext(s, c, NoContext), ws, ok)
    BY <1>2, <2>1, <2>2 DEF DestroyInputContext, WithContext
  <2>4. PICK t \in Adapter : /\ Refresh(WithContext(s, c, NoContext), ws, ok) = t
                             /\ t.win = s.win
                             /\ \A losing : Follows(s, losing) => Follows(t, losing)
                             /\ \A d \in Contexts \ {c} : Spares(s, t, d, w)
    BY <2>1, <2>2, NoContextType, ContextRefreshed
  <2>5. /\ DestroyInputContext(s, c, ok) = t
        /\ \A d \in Contexts \ {c} : Spares(s, t, d, s.ctx[c].target)
    BY <2>1, <2>3, <2>4
  <2> QED BY <2>4, <2>5
<1> QED BY <1>1, <1>2

LEMMA DestroyAllGives ==
  ASSUME NEW s \in Adapter, NEW cs \in SUBSET Contexts
  PROVE  \E t \in Adapter : /\ DestroyAll(s, cs) = t
                            /\ t.win = s.win
                            /\ \A losing : Follows(s, losing) => Follows(t, losing)
<1> DEFINE live == {c \in cs : s.ctx[c].live}
           ctx == [c \in Contexts |-> IF c \in live THEN NoContext ELSE s.ctx[c]]
           gone == [s EXCEPT !.ctx = ctx]
           ws == {s.ctx[c].target : c \in live}
<1>0. PICK ok \in BOOLEAN : ok = TRUE
  OBVIOUS
<1>1. DestroyAll(s, cs) = Refresh(gone, ws, ok)
  BY <1>0 DEF DestroyAll
<1>2. /\ ctx \in [Contexts -> InputContextRecord]
      /\ \A c \in Contexts : ctx[c] = s.ctx[c] \/ (~ctx[c].live /\ s.ctx[c].target \in ws)
  BY NoContextType, AdapterFields
<1> HIDE DEF ctx, ws
<1>3. /\ gone \in SDLState /\ gone.win = s.win /\ gone.ctx = ctx
      /\ gone.relative = s.relative /\ gone.text = s.text /\ gone.capture = s.capture
  BY <1>2, AdapterFields DEF SDLState
<1> HIDE DEF gone
<1>4. gone \in Adapter
  BY <1>2, <1>3, AdapterFields DEF Adapter, Bound
<1>5. PICK t \in Adapter : Refresh(gone, ws, ok) = t /\ Refreshes(gone, t, ws)
  BY <1>4, RefreshGives
<1>6. Changes(s, gone, ws)
  BY <1>2, <1>3 DEF Changes, Alive
<1>7. ASSUME NEW losing, Follows(s, losing) PROVE Follows(t, losing)
  BY <1>4, <1>5, <1>6, <1>7, RefreshFollows
<1>8. t.win = s.win
  BY <1>3, <1>5 DEF Refreshes, SameBut
<1> QED BY <1>1, <1>5, <1>7, <1>8

LEMMA EnableGives ==
  ASSUME NEW s \in Adapter, NEW c \in Contexts, NEW b \in BOOLEAN, NEW ok \in BOOLEAN, s.ctx[c].live
  PROVE  \E t \in Adapter : /\ SetContextEnabled(s, c, b, ok) = t
                            /\ t.win = s.win
                            /\ \A losing : Follows(s, losing) => Follows(t, losing)
                            /\ \A d \in Contexts \ {c} : Spares(s, t, d, s.ctx[c].target)
<1> DEFINE r == [s.ctx[c] EXCEPT !.enabled = b]
<1>1. r \in InputContextRecord /\ r.target = s.ctx[c].target
  BY AdapterFields DEF InputContextRecord
<1>2. PICK w \in Windows : w = s.ctx[c].target
  BY AdapterFields
<1>3. PICK ws : ws = {w}
  OBVIOUS
<1>4. SetContextEnabled(s, c, b, ok) = Refresh(WithContext(s, c, r), ws, ok)
  BY <1>2, <1>3, AdapterFields DEF SetContextEnabled, SDLState, WithContext
<1> HIDE DEF r
<1>5. PICK t \in Adapter : /\ Refresh(WithContext(s, c, r), ws, ok) = t
                           /\ t.win = s.win
                           /\ \A losing : Follows(s, losing) => Follows(t, losing)
                           /\ \A d \in Contexts \ {c} : Spares(s, t, d, w)
  BY <1>1, <1>2, <1>3, ContextRefreshed
<1>6. /\ SetContextEnabled(s, c, b, ok) = t
      /\ \A d \in Contexts \ {c} : Spares(s, t, d, s.ctx[c].target)
  BY <1>2, <1>4, <1>5
<1> QED BY <1>5, <1>6

(* A mode is asked for, or given back, by a context that may hold it or not: *)
(* one that may not holds nothing that could be lost.                        *)
LEMMA AsksGives ==
  ASSUME NEW s \in Adapter, NEW c \in Contexts, NEW ok \in BOOLEAN, s.ctx[c].live,
         NEW r \in InputContextRecord, r.live, r.target = s.ctx[c].target, r.enabled = s.ctx[c].enabled,
         NEW q \in InputContextRecord, q.live, q.target = s.ctx[c].target, q.enabled = s.ctx[c].enabled,
         NEW ws, ws = {s.ctx[c].target}, NEW x,
         x = IF CanHoldPointer(s, c) THEN RefreshTargetPointerModes(WithContext(s, c, r), ws, ok)
                                     ELSE WithContext(s, c, q)
  PROVE  /\ x \in Adapter /\ x.win = s.win
         /\ \A losing : Follows(s, losing) => Follows(x, losing)
         /\ CanHoldPointer(s, c) => \A d \in Contexts \ {c} : Spares(s, x, d, s.ctx[c].target)
         /\ ~CanHoldPointer(s, c) => \A d \in Contexts \ {c} : x.ctx[d] = s.ctx[d]
<1>0. PICK w \in Windows : w = s.ctx[c].target /\ r.target = w /\ q.target = w
  BY AdapterFields
<1>1. CASE CanHoldPointer(s, c)
  <2>1. PICK u \in Adapter : /\ WithContext(s, c, r) = u
                             /\ u.win = s.win /\ u.relative = s.relative /\ u.text = s.text /\ u.capture = s.capture
                             /\ u.ctx[c] = r /\ \A d \in Contexts \ {c} : u.ctx[d] = s.ctx[d]
    BY <1>0, ChangedContext
  <2>2. PICK t \in Adapter : /\ RefreshTargetPointerModes(u, ws, ok) = t
                             /\ SameBut(u, t) /\ t.text = u.text
                             /\ ModesOf(u, t, ws) /\ Reaches(u, t, ws)
    BY RefreshModesGives
  <2>3. x = t
    BY <1>1, <2>1, <2>2
  <2>4. t.win = s.win
    BY <2>1, <2>2 DEF SameBut
  <2>5. Changes(s, u, ws)
    BY <1>0, <2>1 DEF Changes, Alive
  <2>6. ASSUME NEW losing, Follows(s, losing) PROVE Follows(t, losing)
    <3>1. RelativeFollows(t, losing) /\ CaptureFollows(t, losing)
      BY <2>2, <2>5, <2>6, ModesFollow DEF Follows
    <3>2. t.text = s.text
      BY <2>1, <2>2
    <3>3. \A v : Held(t, v, losing) = Held(s, v, losing)
      BY <2>4 DEF Held, Alive, Active
    <3>4. ASSUME NEW d \in Contexts PROVE \A v : Reads(s, d, v) => Reads(t, d, v)
      <4>1. u.ctx[d].live = s.ctx[d].live /\ u.ctx[d].target = s.ctx[d].target /\ u.ctx[d].enabled = s.ctx[d].enabled
        <5>1. CASE d = c
          BY <2>1, <5>1
        <5>2. CASE d # c
          BY <2>1, <5>2
        <5> QED BY <5>1, <5>2
      <4> QED BY <2>2, <4>1 DEF SameBut, Reads
    <3>5. TextFollows(t, losing)
      BY <2>6, <3>2, <3>3, <3>4 DEF Follows, TextFollows
    <3> QED BY <3>1, <3>5 DEF Follows
  <2>7. ASSUME NEW d \in Contexts \ {c} PROVE Spares(s, t, d, w)
    <3>1. t.ctx[d] = u.ctx[d] \/ (u.ctx[d].live /\ u.ctx[d].target \in ws /\ Alive(u, u.ctx[d].target))
      BY <2>2 DEF Reaches
    <3>2. t.ctx[d].live = u.ctx[d].live /\ t.ctx[d].target = u.ctx[d].target /\ t.win = u.win
      BY <2>2 DEF SameBut
    <3> QED BY <1>0, <2>1, <3>1, <3>2 DEF Spares, Alive
  <2> QED BY <1>0, <1>1, <2>3, <2>4, <2>6, <2>7
<1>2. CASE ~CanHoldPointer(s, c)
  <2>1. PICK u \in Adapter : /\ WithContext(s, c, q) = u
                             /\ u.win = s.win /\ u.relative = s.relative /\ u.text = s.text /\ u.capture = s.capture
                             /\ u.ctx[c] = q /\ \A d \in Contexts \ {c} : u.ctx[d] = s.ctx[d]
    BY <1>0, ChangedContext
  <2>2. x = u
    BY <1>2, <2>1
  <2>3. ASSUME NEW losing, Follows(s, losing) PROVE Follows(u, losing)
    <3>1. \A v : Alive(u, v) = Alive(s, v)
      BY <2>1 DEF Alive
    <3>2. \A v : Held(s, v, losing) => Held(u, v, losing)
      BY <2>1 DEF Held, Alive, Active
    <3>3. ASSUME NEW d \in Contexts, NEW v \in Windows, Reads(s, d, v), Alive(s, v)
          PROVE  /\ Reads(u, d, v)
                 /\ u.ctx[d].wantsRelative = s.ctx[d].wantsRelative /\ u.ctx[d].wantsCapture = s.ctx[d].wantsCapture
      <4>1. d # c
        BY <1>2, <3>3 DEF CanHoldPointer, Reads, Alive
      <4> QED BY <2>1, <3>3, <4>1 DEF Reads
    <3> QED BY <2>1, <2>3, <3>1, <3>2, <3>3, FollowsStays
  <2> QED BY <1>2, <2>1, <2>2, <2>3
<1> QED BY <1>1, <1>2

LEMMA CaptureGives ==
  ASSUME NEW s \in Adapter, NEW c \in Contexts, NEW b \in BOOLEAN, NEW ok \in BOOLEAN, s.ctx[c].live
  PROVE  \E t \in Adapter : /\ SetContextCapture(s, c, b, ok) = t
                            /\ t.win = s.win
                            /\ \A losing : Follows(s, losing) => Follows(t, losing)
                            /\ CanHoldPointer(s, c) => \A d \in Contexts \ {c} : Spares(s, t, d, s.ctx[c].target)
                            /\ ~CanHoldPointer(s, c) => \A d \in Contexts \ {c} : t.ctx[d] = s.ctx[d]
<1> DEFINE r == [s.ctx[c] EXCEPT !.wantsCapture = b]
           q == [r EXCEPT !.captured = FALSE]
           ws == {s.ctx[c].target}
<1>1. r \in InputContextRecord /\ r.live /\ r.target = s.ctx[c].target /\ r.enabled = s.ctx[c].enabled
  BY AdapterFields DEF InputContextRecord
<1>2. q \in InputContextRecord /\ q.live /\ q.target = s.ctx[c].target /\ q.enabled = s.ctx[c].enabled
  <2> HIDE DEF r
  <2> QED BY <1>1 DEF InputContextRecord
<1>3. SetContextCapture(s, c, b, ok)
        = IF CanHoldPointer(s, c) THEN RefreshTargetPointerModes(WithContext(s, c, r), ws, ok)
          ELSE WithContext(s, c, q)
  BY AdapterFields DEF SetContextCapture, SDLState, InputContextRecord, WithContext
<1>4. ws = {s.ctx[c].target}
  OBVIOUS
<1>5. PICK x : x = SetContextCapture(s, c, b, ok)
  OBVIOUS
<1> HIDE DEF r, q, ws
<1> QED BY <1>1, <1>2, <1>3, <1>4, <1>5, AsksGives

LEMMA RelativeGives ==
  ASSUME NEW s \in Adapter, NEW c \in Contexts, NEW b \in BOOLEAN, NEW ok \in BOOLEAN, s.ctx[c].live
  PROVE  \E t \in Adapter : /\ SetRelativePointerMode(s, c, b, ok) = t
                            /\ t.win = s.win
                            /\ \A losing : Follows(s, losing) => Follows(t, losing)
                            /\ CanHoldPointer(s, c) => \A d \in Contexts \ {c} : Spares(s, t, d, s.ctx[c].target)
                            /\ ~CanHoldPointer(s, c) => \A d \in Contexts \ {c} : t.ctx[d] = s.ctx[d]
<1> DEFINE r == [s.ctx[c] EXCEPT !.wantsRelative = b]
           q == [r EXCEPT !.relative = FALSE]
           ws == {s.ctx[c].target}
<1>1. r \in InputContextRecord /\ r.live /\ r.target = s.ctx[c].target /\ r.enabled = s.ctx[c].enabled
  BY AdapterFields DEF InputContextRecord
<1>2. q \in InputContextRecord /\ q.live /\ q.target = s.ctx[c].target /\ q.enabled = s.ctx[c].enabled
  <2> HIDE DEF r
  <2> QED BY <1>1 DEF InputContextRecord
<1>3. SetRelativePointerMode(s, c, b, ok)
        = IF CanHoldPointer(s, c) THEN RefreshTargetPointerModes(WithContext(s, c, r), ws, ok)
          ELSE WithContext(s, c, q)
  BY AdapterFields DEF SetRelativePointerMode, SDLState, InputContextRecord, WithContext
<1>4. ws = {s.ctx[c].target}
  OBVIOUS
<1>5. PICK x : x = SetRelativePointerMode(s, c, b, ok)
  OBVIOUS
<1> HIDE DEF r, q, ws
<1> QED BY <1>1, <1>2, <1>3, <1>4, <1>5, AsksGives

(* Without contexts no mode is wanted, and the shutdown gives up all of them.*)
LEMMA ShutdownInputGives ==
  ASSUME NEW s \in Adapter
  PROVE  \E t \in Adapter : /\ ShutdownInput(s) = t
                            /\ t.win = s.win
                            /\ \A losing, left : Follows(s, losing) => Follows(t, left)
<1> DEFINE targets == {s.ctx[c].target : c \in {d \in Contexts : s.ctx[d].live}}
                        \cap {w \in Windows : s.win[w].alive}
           ctx == [c \in Contexts |-> NoContext]
           t == [s EXCEPT !.ctx = ctx, !.capture = FALSE, !.relative = @ \ targets, !.text = @ \ targets]
<1>1. ShutdownInput(s) = t
  BY DEF ShutdownInput
<1>2. \A w \in Windows : Alive(s, w) /\ (\E c \in Contexts : Reads(s, c, w)) => w \in targets
  BY DEF Alive, Reads
<1> HIDE DEF ctx, targets
<1>3. /\ t.win = s.win /\ t.capture = FALSE
      /\ t.relative = s.relative \ targets /\ t.text = s.text \ targets
  BY AdapterFields DEF SDLState
<1>4. t \in Adapter
  BY <1>1, ShutdownInputType
<1> HIDE DEF t
<1>5. ASSUME NEW losing, NEW left, Follows(s, losing) PROVE Follows(t, left)
  <2>1. \A w \in s.relative : Alive(s, w) /\ \E c \in Contexts : Reads(s, c, w)
    BY <1>5 DEF Follows, RelativeFollows, Held
  <2>2. \A w \in s.text : Alive(s, w) /\ \E c \in Contexts : Reads(s, c, w)
    BY <1>5 DEF Follows, TextFollows, Held
  <2>3. t.relative = {} /\ t.text = {}
    BY <1>2, <1>3, <2>1, <2>2, AdapterFields
  <2> QED BY <1>3, <2>3 DEF Follows, RelativeFollows, TextFollows, CaptureFollows
<1> QED BY <1>1, <1>3, <1>4, <1>5

(* The window's focus is asked of the system.                                *)
LEMMA QueryGives ==
  ASSUME NEW s \in Adapter, NEW w \in Windows
  PROVE  \E t \in Adapter :
           /\ Query(s, w) = t
           /\ t.ctx = s.ctx
           /\ t.win[w].alive = s.win[w].alive /\ t.win[w].enabled = s.win[w].enabled
           /\ t.win[w].suspended = s.win[w].suspended
           /\ t.win[w].focused <=> os.focus = w
           /\ \A v \in Windows \ {w} : t.win[v] = s.win[v]
           /\ \A losing : Follows(s, losing) /\ (Active(s, w) => os.focus = w \/ w \in losing) => Follows(t, losing)
<1>1. PICK focused \in BOOLEAN : focused <=> os.focus = w
  OBVIOUS
<1>2. PICK r \in WindowRecord : /\ r.alive = s.win[w].alive /\ r.enabled = s.win[w].enabled
                                /\ r.suspended = s.win[w].suspended /\ r.focused = focused
                                /\ r = [s.win[w] EXCEPT !.focused = focused]
  <2> DEFINE r == [s.win[w] EXCEPT !.focused = focused]
  <2>1. s.win[w] \in WindowRecord
    BY AdapterFields
  <2>2. /\ r \in WindowRecord /\ r.alive = s.win[w].alive /\ r.enabled = s.win[w].enabled
        /\ r.suspended = s.win[w].suspended /\ r.focused = focused
    BY <2>1 DEF WindowRecord
  <2> QED BY <2>2
<1>3. Query(s, w) = WithWindow(s, w, r)
  BY <1>1, <1>2, AdapterFields DEF Query, SDLState, WindowRecord, WithWindow
<1>4. PICK t \in Adapter : /\ WithWindow(s, w, r) = t
                           /\ t.ctx = s.ctx /\ t.relative = s.relative /\ t.text = s.text /\ t.capture = s.capture
                           /\ t.win[w] = r /\ \A v \in Windows \ {w} : t.win[v] = s.win[v]
  BY ChangedWindow
<1>5. ASSUME NEW losing, Follows(s, losing), Active(s, w) => os.focus = w \/ w \in losing PROVE Follows(t, losing)
  <2>1. \A v \in Windows : Alive(s, v) => Alive(t, v)
    BY <1>2, <1>4 DEF Alive
  <2>2. ASSUME NEW v \in Windows, Held(s, v, losing) PROVE Held(t, v, losing)
    <3>1. CASE v = w
      BY <1>1, <1>2, <1>4, <1>5, <2>1, <2>2, <3>1 DEF Held, Active, Alive
    <3>2. CASE v # w
      BY <1>4, <2>2, <3>2 DEF Held, Active, Alive
    <3> QED BY <3>1, <3>2
  <2>3. t.relative \subseteq s.relative /\ t.text \subseteq s.text /\ (t.capture => s.capture)
    BY <1>4
  <2>4. \A c \in Contexts, v \in Windows : Reads(s, c, v) /\ Alive(s, v) =>
          /\ Reads(t, c, v)
          /\ t.ctx[c].wantsRelative = s.ctx[c].wantsRelative /\ t.ctx[c].wantsCapture = s.ctx[c].wantsCapture
    BY <1>4 DEF Reads
  <2> QED BY <1>5, <2>1, <2>2, <2>3, <2>4, FollowsStays
<1> QED BY <1>1, <1>2, <1>3, <1>4, <1>5

(* What is on for the windows that lose the focus is carried over, but for w. *)
Carries(s, t, w) ==
  \A losing, left : (Follows(s, losing) /\ (\A v \in Windows : v \in losing /\ Alive(s, v) /\ v # w => v \in left))
                     => Follows(t, left)
(* The window is changed, and refreshed.                                     *)
LEMMA WindowRefreshed ==
  ASSUME NEW s \in Adapter, NEW w \in Windows, NEW r \in WindowRecord, NEW ok \in BOOLEAN,
         r.alive = s.win[w].alive, NEW ws, ws = {w}
  PROVE  \E t \in Adapter :
           /\ Refresh(WithWindow(s, w, r), ws, ok) = t
           /\ t.win[w] = r /\ \A v \in Windows \ {w} : t.win[v] = s.win[v]
           /\ Carries(s, t, w)
           /\ \A d \in Contexts : Spares(s, t, d, w)
<1>1. PICK u \in Adapter : /\ WithWindow(s, w, r) = u
                           /\ u.ctx = s.ctx /\ u.relative = s.relative /\ u.text = s.text /\ u.capture = s.capture
                           /\ u.win[w] = r /\ \A v \in Windows \ {w} : u.win[v] = s.win[v]
  BY ChangedWindow
<1>2. PICK t \in Adapter : Refresh(u, ws, ok) = t /\ Refreshes(u, t, ws)
  BY RefreshGives
<1>3. t.win = u.win
  BY <1>2 DEF Refreshes, SameBut
<1>4. Changes(s, u, ws)
  BY <1>1 DEF Changes, Alive
<1>5. ASSUME NEW losing, NEW left, Follows(s, losing),
             \A v \in Windows : v \in losing /\ Alive(s, v) /\ v # w => v \in left
      PROVE  Follows(t, left)
  BY <1>2, <1>4, <1>5, RefreshFollows
<1>6. ASSUME NEW d \in Contexts PROVE Spares(s, t, d, w)
  <2>1. t.ctx[d] = u.ctx[d] \/ (u.ctx[d].live /\ u.ctx[d].target \in ws /\ Alive(u, u.ctx[d].target))
    BY <1>2 DEF Refreshes, Reaches
  <2>2. t.ctx[d].live = u.ctx[d].live /\ t.ctx[d].target = u.ctx[d].target
    BY <1>2 DEF Refreshes, SameBut
  <2> QED BY <1>1, <1>3, <2>1, <2>2 DEF Spares, Alive
<1>7. Refresh(WithWindow(s, w, r), ws, ok) = t /\ t.win[w] = r /\ \A v \in Windows \ {w} : t.win[v] = s.win[v]
  BY <1>1, <1>2, <1>3
<1>8. Carries(s, t, w)
  BY <1>5 DEF Carries
<1> QED BY <1>6, <1>7, <1>8

LEMMA EnableWindowGives ==
  ASSUME NEW s \in Adapter, NEW w \in Windows, NEW b \in BOOLEAN, NEW ok \in BOOLEAN
  PROVE  \E t \in Adapter :
           /\ SetInputEnabled(s, w, b, ok) = t
           /\ t.win[w].alive = s.win[w].alive /\ t.win[w].enabled = b
           /\ t.win[w].suspended <=> ~b \/ ~s.win[w].focused
           /\ t.win[w].focused <=> os.focus = w
           /\ \A v \in Windows \ {w} : t.win[v] = s.win[v]
           /\ \A losing : Follows(s, losing) /\ (s.win[w].focused => os.focus = w \/ w \in losing) => Follows(t, losing)
           /\ s.win[w].enabled = b => t.ctx = s.ctx
           /\ \A d \in Contexts : Spares(s, t, d, w)
<1>1. PICK suspended \in BOOLEAN : suspended <=> ~b \/ ~s.win[w].focused
  OBVIOUS
<1>2. PICK r \in WindowRecord : /\ r.alive = s.win[w].alive /\ r.enabled = b
                                /\ r.suspended = suspended /\ r.focused = s.win[w].focused
                                /\ r = [s.win[w] EXCEPT !.enabled = b, !.suspended = suspended]
  <2> DEFINE r == [s.win[w] EXCEPT !.enabled = b, !.suspended = suspended]
  <2>1. s.win[w] \in WindowRecord
    BY AdapterFields
  <2>2. /\ r \in WindowRecord /\ r.alive = s.win[w].alive /\ r.enabled = b
        /\ r.suspended = suspended /\ r.focused = s.win[w].focused
    BY <2>1 DEF WindowRecord
  <2> QED BY <2>2
<1>3. PICK ws : ws = {w}
  OBVIOUS
<1>4. SetInputEnabled(s, w, b, ok)
        = Query(IF s.win[w].enabled = b THEN WithWindow(s, w, r) ELSE Refresh(WithWindow(s, w, r), ws, ok), w)
  BY <1>1, <1>2, <1>3, AdapterFields DEF SetInputEnabled, SDLState, WindowRecord, WithWindow
<1>5. PICK u \in Adapter : /\ WithWindow(s, w, r) = u
                           /\ u.ctx = s.ctx /\ u.relative = s.relative /\ u.text = s.text /\ u.capture = s.capture
                           /\ u.win[w] = r /\ \A v \in Windows \ {w} : u.win[v] = s.win[v]
  BY ChangedWindow
<1>61. r \in WindowRecord /\ r.alive = s.win[w].alive
  BY <1>2
<1>6. PICK x \in Adapter :
           /\ Refresh(WithWindow(s, w, r), ws, ok) = x
           /\ x.win[w] = r /\ \A v \in Windows \ {w} : x.win[v] = s.win[v]
           /\ Carries(s, x, w)
           /\ \A d \in Contexts : Spares(s, x, d, w)
  BY <1>3, <1>61, WindowRefreshed
<1>7. PICK y \in Adapter : y = IF s.win[w].enabled = b THEN u ELSE x
  OBVIOUS
<1>8. /\ y.win[w] = r /\ \A v \in Windows \ {w} : y.win[v] = s.win[v]
      /\ s.win[w].enabled = b => y.ctx = s.ctx
      /\ \A d \in Contexts : Spares(s, y, d, w)
  BY <1>5, <1>6, <1>7 DEF Spares
<1>9. ASSUME NEW losing, Follows(s, losing) PROVE Follows(y, losing)
  <2>1. CASE s.win[w].enabled = b
    <3>1. ASSUME NEW v \in Windows, Held(s, v, losing) PROVE Held(u, v, losing)
      <4>1. CASE v = w
        BY <1>1, <1>2, <1>5, <2>1, <3>1, <4>1 DEF Held, Active, Alive
      <4>2. CASE v # w
        BY <1>5, <3>1, <4>2 DEF Held, Active, Alive
      <4> QED BY <4>1, <4>2
    <3>2. \A v \in Windows : Alive(s, v) => Alive(u, v)
      BY <1>2, <1>5 DEF Alive
    <3>3. \A c \in Contexts, v \in Windows : Reads(s, c, v) /\ Alive(s, v) =>
            /\ Reads(u, c, v)
            /\ u.ctx[c].wantsRelative = s.ctx[c].wantsRelative /\ u.ctx[c].wantsCapture = s.ctx[c].wantsCapture
      BY <1>5 DEF Reads
    <3>4. u.relative \subseteq s.relative /\ u.text \subseteq s.text /\ (u.capture => s.capture)
      BY <1>5
    <3>5. Follows(u, losing)
      BY <1>9, <3>1, <3>2, <3>3, <3>4, FollowsStays
    <3> QED BY <1>7, <2>1, <3>5
  <2>2. CASE s.win[w].enabled # b
    BY <1>6, <1>7, <1>9, <2>2 DEF Carries
  <2> QED BY <2>1, <2>2
<1>10. PICK t \in Adapter :
           /\ Query(y, w) = t
           /\ t.ctx = y.ctx
           /\ t.win[w].alive = y.win[w].alive /\ t.win[w].enabled = y.win[w].enabled
           /\ t.win[w].suspended = y.win[w].suspended
           /\ t.win[w].focused <=> os.focus = w
           /\ \A v \in Windows \ {w} : t.win[v] = y.win[v]
           /\ \A losing : Follows(y, losing) /\ (Active(y, w) => os.focus = w \/ w \in losing) => Follows(t, losing)
  BY QueryGives
<1>11. SetInputEnabled(s, w, b, ok) = t
  BY <1>4, <1>5, <1>6, <1>7, <1>10
<1>12. ASSUME NEW losing, Follows(s, losing), s.win[w].focused => os.focus = w \/ w \in losing
       PROVE  Follows(t, losing)
  <2>1. Active(y, w) => os.focus = w \/ w \in losing
    BY <1>2, <1>8, <1>12 DEF Active
  <2> QED BY <1>9, <1>10, <1>12, <2>1
<1>13. \A d \in Contexts : Spares(s, t, d, w)
  BY <1>8, <1>10 DEF Spares, Alive
<1>14. /\ t.win[w].alive = s.win[w].alive /\ t.win[w].enabled = b
       /\ t.win[w].suspended <=> ~b \/ ~s.win[w].focused
       /\ \A v \in Windows \ {w} : t.win[v] = s.win[v]
       /\ s.win[w].enabled = b => t.ctx = s.ctx
  BY <1>1, <1>2, <1>8, <1>10
<1> QED BY <1>10, <1>11, <1>12, <1>13, <1>14

LEMMA FocusLostGives ==
  ASSUME NEW s \in Adapter, NEW w \in Windows, NEW ok \in BOOLEAN
  PROVE  \E t \in Adapter :
           /\ FocusLost(s, w, ok) = t
           /\ t.win[w].alive = s.win[w].alive /\ t.win[w].enabled = s.win[w].enabled
           /\ t.win[w].suspended
           /\ t.win[w].focused <=> os.focus = w
           /\ \A v \in Windows \ {w} : t.win[v] = s.win[v]
           /\ Carries(s, t, w)
           /\ \A d \in Contexts : Spares(s, t, d, w)
<1>0. PICK ws : ws = {w}
  OBVIOUS
<1>1. PICK yes \in BOOLEAN : yes = TRUE
  OBVIOUS
<1>2. PICK r \in WindowRecord : /\ r.alive = s.win[w].alive /\ r.enabled = s.win[w].enabled
                                /\ r.suspended = yes
                                /\ r = [s.win[w] EXCEPT !.suspended = yes]
  <2> DEFINE r == [s.win[w] EXCEPT !.suspended = yes]
  <2>1. s.win[w] \in WindowRecord
    BY AdapterFields
  <2>2. r \in WindowRecord /\ r.alive = s.win[w].alive /\ r.enabled = s.win[w].enabled /\ r.suspended = yes
    BY <2>1 DEF WindowRecord
  <2> QED BY <2>2
<1>3. FocusLost(s, w, ok) = Query(Refresh(WithWindow(s, w, r), ws, ok), w)
  BY <1>0, <1>1, <1>2, AdapterFields DEF FocusLost, SDLState, WindowRecord, WithWindow
<1>41. r \in WindowRecord /\ r.alive = s.win[w].alive
  BY <1>2
<1>4. PICK x \in Adapter :
           /\ Refresh(WithWindow(s, w, r), ws, ok) = x
           /\ x.win[w] = r /\ \A v \in Windows \ {w} : x.win[v] = s.win[v]
           /\ Carries(s, x, w)
           /\ \A d \in Contexts : Spares(s, x, d, w)
  BY <1>0, <1>41, WindowRefreshed
<1>5. PICK t \in Adapter :
           /\ Query(x, w) = t
           /\ t.ctx = x.ctx
           /\ t.win[w].alive = x.win[w].alive /\ t.win[w].enabled = x.win[w].enabled
           /\ t.win[w].suspended = x.win[w].suspended
           /\ t.win[w].focused <=> os.focus = w
           /\ \A v \in Windows \ {w} : t.win[v] = x.win[v]
           /\ \A losing : Follows(x, losing) /\ (Active(x, w) => os.focus = w \/ w \in losing) => Follows(t, losing)
  BY QueryGives
<1>6. FocusLost(s, w, ok) = t
  BY <1>3, <1>4, <1>5
<1>7. ~Active(x, w)
  BY <1>1, <1>2, <1>4 DEF Active
<1>8. ASSUME NEW losing, NEW left, Follows(s, losing),
             \A v \in Windows : v \in losing /\ Alive(s, v) /\ v # w => v \in left
      PROVE  Follows(t, left)
  <2>1. Follows(x, left)
    BY <1>4, <1>8 DEF Carries
  <2> QED BY <1>5, <1>7, <2>1
<1>9. \A d \in Contexts : Spares(s, t, d, w)
  BY <1>4, <1>5 DEF Spares, Alive
<1>10. /\ t.win[w].alive = s.win[w].alive /\ t.win[w].enabled = s.win[w].enabled /\ t.win[w].suspended
       /\ \A v \in Windows \ {w} : t.win[v] = s.win[v]
  BY <1>1, <1>2, <1>4, <1>5
<1>11. Carries(s, t, w)
  BY <1>8 DEF Carries
<1> QED BY <1>5, <1>6, <1>9, <1>10, <1>11

LEMMA FocusGainedGives ==
  ASSUME NEW s \in Adapter, NEW w \in Windows, NEW ok \in BOOLEAN
  PROVE  \E t \in Adapter :
           /\ FocusGained(s, w, ok) = t
           /\ t.win[w].alive = s.win[w].alive /\ t.win[w].enabled = s.win[w].enabled
           /\ s.win[w].enabled => ~t.win[w].suspended
           /\ t.win[w].focused <=> os.focus = w
           /\ \A v \in Windows \ {w} : t.win[v] = s.win[v]
           /\ \A losing : Follows(s, losing) /\ (s.win[w].focused => os.focus = w \/ w \in losing) => Follows(t, losing)
           /\ ~s.win[w].enabled => t.ctx = s.ctx
           /\ \A d \in Contexts : Spares(s, t, d, w)
<1>1. PICK read \in Adapter :
           /\ Query(s, w) = read
           /\ read.ctx = s.ctx
           /\ read.win[w].alive = s.win[w].alive /\ read.win[w].enabled = s.win[w].enabled
           /\ read.win[w].suspended = s.win[w].suspended
           /\ read.win[w].focused <=> os.focus = w
           /\ \A v \in Windows \ {w} : read.win[v] = s.win[v]
           /\ \A losing : Follows(s, losing) /\ (Active(s, w) => os.focus = w \/ w \in losing) => Follows(read, losing)
  BY QueryGives
<1>2. PICK no \in BOOLEAN : no = FALSE
  OBVIOUS
<1>22. PICK ws : ws = {w}
  OBVIOUS
<1>3. PICK r \in WindowRecord : /\ r.alive = read.win[w].alive /\ r.enabled = read.win[w].enabled
                                /\ r.suspended = no /\ r.focused = read.win[w].focused
                                /\ r = [read.win[w] EXCEPT !.suspended = no]
  <2> DEFINE r == [read.win[w] EXCEPT !.suspended = no]
  <2>1. read.win[w] \in WindowRecord
    BY AdapterFields
  <2>2. /\ r \in WindowRecord /\ r.alive = read.win[w].alive /\ r.enabled = read.win[w].enabled
        /\ r.suspended = no /\ r.focused = read.win[w].focused
    BY <2>1 DEF WindowRecord
  <2> QED BY <2>2
<1>4. FocusGained(s, w, ok) = IF read.win[w].enabled THEN Refresh(WithWindow(read, w, r), ws, ok) ELSE read
  BY <1>1, <1>2, <1>22, <1>3, AdapterFields DEF FocusGained, SDLState, WindowRecord, WithWindow
<1>51. r \in WindowRecord /\ r.alive = read.win[w].alive
  BY <1>3
<1>5. PICK x \in Adapter :
           /\ Refresh(WithWindow(read, w, r), ws, ok) = x
           /\ x.win[w] = r /\ \A v \in Windows \ {w} : x.win[v] = read.win[v]
           /\ Carries(read, x, w)
           /\ \A d \in Contexts : Spares(read, x, d, w)
  BY <1>22, <1>51, WindowRefreshed
<1>6. PICK t \in Adapter : t = IF read.win[w].enabled THEN x ELSE read
  OBVIOUS
<1>7. FocusGained(s, w, ok) = t
  BY <1>4, <1>5, <1>6
<1>8. ASSUME NEW losing, Follows(s, losing), s.win[w].focused => os.focus = w \/ w \in losing
      PROVE  Follows(t, losing)
  <2>1. Active(s, w) => os.focus = w \/ w \in losing
    BY <1>8 DEF Active
  <2>2. Follows(read, losing)
    BY <1>1, <1>8, <2>1
  <2>3. Follows(x, losing)
    BY <1>5, <2>2 DEF Carries
  <2> QED BY <1>6, <2>2, <2>3
<1>9. \A d \in Contexts : Spares(s, t, d, w)
  BY <1>1, <1>5, <1>6 DEF Spares
<1>10. /\ t.win[w].alive = s.win[w].alive /\ t.win[w].enabled = s.win[w].enabled
       /\ s.win[w].enabled => ~t.win[w].suspended
       /\ t.win[w].focused <=> os.focus = w
       /\ \A v \in Windows \ {w} : t.win[v] = s.win[v]
       /\ ~s.win[w].enabled => t.ctx = s.ctx
  <2>1. CASE read.win[w].enabled
    <3>1. t.win[w] = r /\ \A v \in Windows \ {w} : t.win[v] = read.win[v]
      BY <1>5, <1>6, <2>1
    <3>2. r.focused <=> os.focus = w
      BY <1>1, <1>3
    <3> QED BY <1>1, <1>2, <1>3, <2>1, <3>1, <3>2
  <2>2. CASE ~read.win[w].enabled
    BY <1>1, <1>6, <2>2
  <2> QED BY <2>1, <2>2
<1> QED BY <1>7, <1>8, <1>9, <1>10

(* A window is forgotten: nothing of it is left.                             *)
LEMMA EraseGives ==
  ASSUME NEW s \in Adapter, NEW ws \in SUBSET Windows
  PROVE  \E t \in Adapter :
           /\ Erase(s, ws) = t
           /\ t.ctx = s.ctx /\ t.capture = s.capture
           /\ t.relative = s.relative \ ws /\ t.text = s.text \ ws
           /\ \A w \in Windows : t.win[w] = IF w \in ws THEN NoWindowRecord ELSE s.win[w]
<1> DEFINE win == [w \in Windows |-> IF w \in ws THEN NoWindowRecord ELSE s.win[w]]
           t == [s EXCEPT !.win = win, !.relative = @ \ ws, !.text = @ \ ws]
<1>1. PICK u \in Adapter : Erase(s, ws) = u
  BY EraseType
<1>2. u = t
  BY <1>1 DEF Erase
<1>3. \A w \in Windows : win[w] = IF w \in ws THEN NoWindowRecord ELSE s.win[w]
  OBVIOUS
<1> HIDE DEF win
<1>4. /\ t.win = win /\ t.ctx = s.ctx /\ t.capture = s.capture
      /\ t.relative = s.relative \ ws /\ t.text = s.text \ ws
  BY AdapterFields DEF SDLState
<1> HIDE DEF t
<1> QED BY <1>1, <1>2, <1>3, <1>4

(* Only contexts that were bound to the window are told of its end.          *)
SparesBound(s, t, d, w) == t.ctx[d] = s.ctx[d] \/ (t.ctx[d].live /\ t.ctx[d].target = w)

LEMMA RemovalGives ==
  ASSUME NEW s \in Adapter, NEW w \in Windows, NEW ws, ws = {w}
  PROVE  \E t \in Adapter :
           /\ PrepareWindowRemoval(s, ws) = t
           /\ ~Active(t, w) /\ \A v \in Windows \ {w} : t.win[v] = s.win[v]
           /\ Carries(s, t, w)
           /\ \A d \in Contexts : SparesBound(s, t, d, w)
<1>1. PICK no \in BOOLEAN : no = FALSE
  OBVIOUS
<1>2. PICK yes \in BOOLEAN : yes = TRUE
  OBVIOUS
<1>3. PICK r \in WindowRecord : /\ r.alive = s.win[w].alive /\ r.enabled = no
                                /\ r = [s.win[w] EXCEPT !.enabled = no, !.suspended = yes]
  <2> DEFINE r == [s.win[w] EXCEPT !.enabled = no, !.suspended = yes]
  <2>1. s.win[w] \in WindowRecord
    BY AdapterFields
  <2>2. r \in WindowRecord /\ r.alive = s.win[w].alive /\ r.enabled = no
    BY <2>1 DEF WindowRecord
  <2> QED BY <2>2
<1>4. PrepareWindowRemoval(s, ws) = Refresh(WithWindow(s, w, r), ws, yes)
  <2> DEFINE win == [v \in Windows |-> IF v \in ws THEN [s.win[v] EXCEPT !.enabled = FALSE, !.suspended = TRUE]
                                                   ELSE s.win[v]]
             set == [s EXCEPT !.win = win]
  <2>1. PrepareWindowRemoval(s, ws) = Refresh(set, ws, yes)
    BY <1>2 DEF PrepareWindowRemoval
  <2>2. win = [s.win EXCEPT ![w] = r]
    BY <1>1, <1>2, <1>3, AdapterFields
  <2> HIDE DEF win
  <2>3. set = WithWindow(s, w, r)
    BY <2>2 DEF WithWindow
  <2> QED BY <2>1, <2>3
<1>5. r \in WindowRecord /\ r.alive = s.win[w].alive
  BY <1>3
<1>6. PICK t \in Adapter :
           /\ Refresh(WithWindow(s, w, r), ws, yes) = t
           /\ t.win[w] = r /\ \A v \in Windows \ {w} : t.win[v] = s.win[v]
           /\ Carries(s, t, w)
           /\ \A d \in Contexts : Spares(s, t, d, w)
  BY <1>5, WindowRefreshed
<1>7. ~Active(t, w)
  BY <1>1, <1>3, <1>6 DEF Active
<1>8. \A d \in Contexts : SparesBound(s, t, d, w)
  BY <1>6 DEF Spares, SparesBound
<1> QED BY <1>4, <1>6, <1>7, <1>8

LEMMA PreparedGives ==
  ASSUME NEW s \in Adapter, NEW w \in Windows, NEW ws \in SUBSET Windows, ws = {w}
  PROVE  \E last \in Adapter, t \in Adapter :
           /\ PrepareWindowRemoval(s, ws) = last /\ Erase(last, ws) = t
           /\ t.ctx = last.ctx
           /\ t.win[w] = NoWindowRecord /\ \A v \in Windows \ {w} : t.win[v] = s.win[v]
           /\ Carries(s, t, w)
           /\ \A d \in Contexts : SparesBound(s, last, d, w)
<1>1. PICK last \in Adapter :
           /\ PrepareWindowRemoval(s, ws) = last
           /\ ~Active(last, w) /\ \A v \in Windows \ {w} : last.win[v] = s.win[v]
           /\ Carries(s, last, w)
           /\ \A d \in Contexts : SparesBound(s, last, d, w)
  BY RemovalGives
<1>2. PICK t \in Adapter :
           /\ Erase(last, ws) = t
           /\ t.ctx = last.ctx /\ t.capture = last.capture
           /\ t.relative = last.relative \ ws /\ t.text = last.text \ ws
           /\ \A v \in Windows : t.win[v] = IF v \in ws THEN NoWindowRecord ELSE last.win[v]
  BY EraseGives
<1>3. t.win[w] = NoWindowRecord /\ \A v \in Windows \ {w} : t.win[v] = last.win[v]
  BY <1>2
<1>4. ASSUME NEW losing, NEW left, Follows(s, losing),
             \A v \in Windows : v \in losing /\ Alive(s, v) /\ v # w => v \in left
      PROVE  Follows(t, left)
  <2>1. PICK others : others = left \ {w}
    OBVIOUS
  <2>2. Follows(last, others)
    BY <1>1, <1>4, <2>1 DEF Carries
  <2>3. \A v \in Windows : Held(last, v, others) => v # w /\ Held(t, v, left)
    BY <1>1, <1>3, <2>1 DEF Held, Alive, Active
  <2>4. \A v \in Windows, c \in Contexts : /\ Reads(t, c, v) = Reads(last, c, v)
                                           /\ t.ctx[c] = last.ctx[c]
    BY <1>2 DEF Reads
  <2>5. RelativeFollows(t, left)
    <3>1. \A v \in t.relative : v \in last.relative /\ v \in Windows
      BY <1>2, AdapterFields
    <3> QED BY <2>2, <2>3, <2>4, <3>1 DEF Follows, RelativeFollows
  <2>6. TextFollows(t, left)
    <3>1. \A v \in t.text : v \in last.text /\ v \in Windows
      BY <1>2, AdapterFields
    <3> QED BY <2>2, <2>3, <2>4, <3>1 DEF Follows, TextFollows
  <2>7. CaptureFollows(t, left)
    BY <1>2, <2>2, <2>3, <2>4 DEF Follows, CaptureFollows
  <2> QED BY <2>5, <2>6, <2>7 DEF Follows
<1>5. Carries(s, t, w)
  BY <1>4 DEF Carries
<1>6. \A v \in Windows \ {w} : t.win[v] = s.win[v]
  BY <1>1, <1>3
<1> QED BY <1>1, <1>2, <1>3, <1>5, <1>6

LEMMA TakenGives ==
  ASSUME NEW s \in Adapter, NEW w \in Windows, NEW ok \in BOOLEAN, NEW ws \in SUBSET Windows, ws = {w}
  PROVE  \E last \in Adapter, t \in Adapter :
           /\ InvalidateRemovedInputTarget(s, w, ok) = last /\ Erase(last, ws) = t
           /\ t.ctx = last.ctx
           /\ t.win[w] = NoWindowRecord /\ \A v \in Windows \ {w} : t.win[v] = s.win[v]
           /\ Carries(s, t, w)
           /\ \A d \in Contexts : SparesBound(s, last, d, w)
<1> DEFINE bound == BoundTo(s, w)
<1>1. PICK gone \in Adapter :
           /\ Erase(s, ws) = gone
           /\ gone.ctx = s.ctx /\ gone.capture = s.capture
           /\ gone.relative = s.relative \ ws /\ gone.text = s.text \ ws
           /\ \A v \in Windows : gone.win[v] = IF v \in ws THEN NoWindowRecord ELSE s.win[v]
  BY EraseGives
<1> DEFINE capture == WantsCapture(gone) /\ (ok \/ gone.capture)
           ctx == [c \in Contexts |-> IF c \in bound
                                      THEN [gone.ctx[c] EXCEPT !.captured = FALSE, !.relative = FALSE]
                                      ELSE gone.ctx[c]]
           x == [gone EXCEPT !.capture = capture, !.ctx = ctx]
<1>2. PICK last \in Adapter : InvalidateRemovedInputTarget(s, w, ok) = last
  BY InvalidateRemovedInputTargetType
<1>3. last = x
  BY <1>1, <1>2 DEF InvalidateRemovedInputTarget
<1>4. capture => WantsCapture(gone)
  OBVIOUS
<1>5. \A c \in Contexts : gone.ctx[c] \in InputContextRecord
  BY AdapterFields
<1>6. \A c \in Contexts : /\ ctx[c].live = s.ctx[c].live /\ ctx[c].target = s.ctx[c].target
                          /\ ctx[c].enabled = s.ctx[c].enabled
                          /\ ctx[c].wantsCapture = s.ctx[c].wantsCapture
                          /\ ctx[c].wantsRelative = s.ctx[c].wantsRelative
  BY <1>1, <1>5 DEF InputContextRecord
<1>7. \A c \in Contexts : ctx[c] = s.ctx[c] \/ (ctx[c].live /\ ctx[c].target = w)
  BY <1>1, <1>6 DEF BoundTo
<1> HIDE DEF capture, ctx
<1>8. /\ last.win = gone.win /\ last.ctx = ctx /\ last.capture = capture
      /\ last.relative = gone.relative /\ last.text = gone.text
  BY <1>3, AdapterFields DEF SDLState
<1> HIDE DEF x
<1>9. PICK t \in Adapter :
           /\ Erase(last, ws) = t
           /\ t.ctx = last.ctx /\ t.capture = last.capture
           /\ t.relative = last.relative \ ws /\ t.text = last.text \ ws
           /\ \A v \in Windows : t.win[v] = IF v \in ws THEN NoWindowRecord ELSE last.win[v]
  BY EraseGives
<1>10. t.win[w] = NoWindowRecord /\ \A v \in Windows \ {w} : t.win[v] = s.win[v]
  BY <1>1, <1>8, <1>9
<1>11. ASSUME NEW losing, NEW left, Follows(s, losing),
              \A v \in Windows : v \in losing /\ Alive(s, v) /\ v # w => v \in left
       PROVE  Follows(t, left)
  <2>1. \A v \in Windows, c \in Contexts : /\ Reads(t, c, v) = Reads(s, c, v)
                                           /\ t.ctx[c].wantsRelative = s.ctx[c].wantsRelative
                                           /\ t.ctx[c].wantsCapture = s.ctx[c].wantsCapture
    BY <1>6, <1>8, <1>9 DEF Reads
  <2>2. \A v \in Windows \ {w} : Alive(t, v) = Alive(s, v) /\ (Held(s, v, losing) => Held(t, v, left))
    BY <1>10, <1>11 DEF Held, Alive, Active
  <2>3. RelativeFollows(t, left)
    <3>1. \A v \in t.relative : v \in s.relative /\ v \in Windows /\ v # w
      BY <1>1, <1>8, <1>9, AdapterFields
    <3> QED BY <1>11, <2>1, <2>2, <3>1 DEF Follows, RelativeFollows
  <2>4. TextFollows(t, left)
    <3>1. \A v \in t.text : v \in s.text /\ v \in Windows /\ v # w
      BY <1>1, <1>8, <1>9, AdapterFields
    <3> QED BY <1>11, <2>1, <2>2, <3>1 DEF Follows, TextFollows
  <2>5. CaptureFollows(t, left)
    <3>1. t.capture => WantsCapture(gone)
      BY <1>4, <1>8, <1>9
    <3>2. \A v \in Windows : Active(gone, v) => Active(t, v)
      BY <1>1, <1>8, <1>9 DEF Active
    <3>3. ASSUME WantsCapture(gone) PROVE WantsCapture(t)
      <4>1. PICK c \in Contexts : /\ gone.ctx[c].live /\ gone.ctx[c].enabled /\ gone.ctx[c].wantsCapture
                                  /\ Active(gone, gone.ctx[c].target)
        BY <3>3 DEF WantsCapture
      <4>2. gone.ctx[c].target \in Windows
        BY <4>1, AdapterFields
      <4>3. /\ t.ctx[c].live /\ t.ctx[c].enabled /\ t.ctx[c].wantsCapture
            /\ t.ctx[c].target = gone.ctx[c].target
        BY <1>1, <1>6, <1>8, <1>9, <4>1
      <4> QED BY <3>2, <4>1, <4>2, <4>3 DEF WantsCapture
    <3> QED BY <3>1, <3>3, WantsHold DEF CaptureFollows
  <2> QED BY <2>3, <2>4, <2>5 DEF Follows
<1>12. Carries(s, t, w)
  BY <1>11 DEF Carries
<1>13. \A d \in Contexts : SparesBound(s, last, d, w)
  BY <1>7, <1>8 DEF SparesBound
<1> QED BY <1>2, <1>9, <1>10, <1>12, <1>13

(* The pump ends: no window is left, and nothing is on.                      *)
LEMMA ShutdownGives ==
  ASSUME NEW s \in Adapter
  PROVE  \E t \in Adapter : /\ ShutdownWindows(ShutdownInput(s)) = t
                            /\ \A w \in Windows : ~Alive(t, w)
                            /\ \A losing, left : Follows(s, losing) => Follows(t, left)
<1>1. PICK u \in Adapter : /\ ShutdownInput(s) = u
                           /\ u.win = s.win
                           /\ \A losing, left : Follows(s, losing) => Follows(u, left)
  BY ShutdownInputGives
<1>2. \A c \in Contexts : ~u.ctx[c].live
  <2>1. ShutdownInput(s).ctx = [c \in Contexts |-> NoContext]
    BY AdapterFields DEF ShutdownInput, SDLState
  <2> QED BY <1>1, <2>1, NoContextType
<1> DEFINE gone == {w \in Windows : u.win[w].alive}
           win == [w \in Windows |-> IF w \in gone THEN [u.win[w] EXCEPT !.enabled = FALSE, !.suspended = TRUE]
                                                   ELSE u.win[w]]
           set == [u EXCEPT !.win = win]
<1>3. gone \in SUBSET Windows /\ \A w \in Windows : w \in gone <=> u.win[w].alive
  OBVIOUS
<1>4. ShutdownWindows(u) = Erase(PrepareWindowRemoval(u, gone), gone)
  BY DEF ShutdownWindows
<1>5. PICK yes \in BOOLEAN : yes = TRUE
  OBVIOUS
<1>6. PrepareWindowRemoval(u, gone) = Refresh(set, gone, yes)
  BY <1>5 DEF PrepareWindowRemoval
<1>7. \A w \in Windows : u.win[w] \in WindowRecord
  BY AdapterFields
<1>8. /\ win \in [Windows -> WindowRecord]
      /\ \A w \in Windows : win[w].alive = u.win[w].alive /\ (w \notin gone => win[w] = u.win[w])
  BY <1>7, WindowRecordType
<1> HIDE DEF gone, win
<1>9. set \in Adapter
  <2>1. PICK y \in Adapter : set = y
    BY <1>8, WithWindowsType
  <2> QED BY <2>1
<1>10. /\ set.win = win /\ set.ctx = u.ctx /\ set.capture = u.capture
       /\ set.relative = u.relative /\ set.text = u.text
  BY AdapterFields DEF SDLState
<1> HIDE DEF set
<1>11. PICK p \in Adapter : Refresh(set, gone, yes) = p /\ Refreshes(set, p, gone)
  BY <1>9, RefreshGives
<1>12. PICK t \in Adapter :
           /\ Erase(p, gone) = t
           /\ t.ctx = p.ctx /\ t.capture = p.capture
           /\ t.relative = p.relative \ gone /\ t.text = p.text \ gone
           /\ \A w \in Windows : t.win[w] = IF w \in gone THEN NoWindowRecord ELSE p.win[w]
  BY <1>3, EraseGives
<1>13. ShutdownWindows(ShutdownInput(s)) = t
  BY <1>1, <1>4, <1>6, <1>11, <1>12
<1>14. p.win = set.win /\ \A c \in Contexts : ~p.ctx[c].live
  BY <1>2, <1>10, <1>11 DEF Refreshes, SameBut
<1>15. ASSUME NEW w \in Windows PROVE ~Alive(t, w)
  <2>1. CASE w \in gone
    BY <1>12, <2>1 DEF Alive, NoWindowRecord
  <2>2. CASE w \notin gone
    BY <1>3, <1>8, <1>10, <1>12, <1>14, <2>2 DEF Alive
  <2> QED BY <2>1, <2>2
<1>16. ASSUME NEW losing, NEW left, Follows(s, losing) PROVE Follows(t, left)
  <2>1. Follows(u, left)
    BY <1>1, <1>16
  <2>2. Changes(u, set, gone)
    BY <1>8, <1>10 DEF Changes, Alive
  <2>3. Follows(p, left)
    BY <1>9, <1>11, <2>1, <2>2, RefreshFollows
  <2>4. p.relative = {} /\ p.text = {} /\ ~p.capture
    BY <1>14, <2>3, AdapterFields DEF Follows, RelativeFollows, TextFollows, CaptureFollows, Reads
  <2>5. t.relative = {} /\ t.text = {} /\ ~t.capture
    BY <1>12, <2>4
  <2> QED BY <2>5 DEF Follows, RelativeFollows, TextFollows, CaptureFollows
<1> QED BY <1>13, <1>15, <1>16

(* The focus events e that are still to be delivered, and what the adapter   *)
(* saw of the focus f: a window that has it unseen will be told so, and one  *)
(* that lost it since will be told that.                                     *)
Losers(e) == {w \in Windows : \E i \in 1..Len(e) : e[i] = Loses(w)}
GainIn(e, w) == \E i \in 1..Len(e) : e[i] = Gains(w)
Regained(e, w) == \A i \in 1..Len(e) : e[i] = Loses(w) => \E j \in 1..Len(e) : j > i /\ e[j] = Gains(w)
Seen(s, f, e, w) ==
  /\ Alive(s, w) /\ s.win[w].focused => f = w \/ w \in Losers(e)
  /\ Alive(s, w) /\ s.win[w].enabled /\ f = w => Active(s, w) \/ GainIn(e, w)
  /\ Alive(s, w) /\ f = w => s.win[w].focused \/ GainIn(e, w)
  /\ f = w => Regained(e, w)
ModesHold(s, f, e) == Follows(s, Losers(e)) /\ \A w \in Windows : Seen(s, f, e, w)
ModesInv == ModesHold(sdl, os.focus, os.events)

LEMMA ModesInit == Init => ModesInv
<1> SUFFICES ASSUME Init PROVE ModesHold(sdl, os.focus, os.events)
  BY DEF ModesInv
<1>1. /\ os.events = <<>>
      /\ sdl.capture = FALSE /\ sdl.relative = {} /\ sdl.text = {}
      /\ sdl.win = [w \in Windows |-> [alive |-> TRUE, enabled |-> TRUE,
                                       focused |-> w = os.focus, suspended |-> w # os.focus]]
  BY DEF Init, SDLInit
<1>2. Follows(sdl, Losers(os.events))
  BY <1>1 DEF Follows, RelativeFollows, TextFollows, CaptureFollows
<1>3. ASSUME NEW w \in Windows PROVE Seen(sdl, os.focus, os.events, w)
  <2>1. /\ sdl.win[w].alive /\ sdl.win[w].enabled
        /\ sdl.win[w].focused <=> w = os.focus
        /\ sdl.win[w].suspended <=> w # os.focus
    <3>1. sdl.win[w] = [alive |-> TRUE, enabled |-> TRUE, focused |-> w = os.focus, suspended |-> w # os.focus]
      BY <1>1, Zenon
    <3>2. PICK a, b : a = (w = os.focus) /\ b = (w # os.focus)
      OBVIOUS
    <3>3. sdl.win[w] = [alive |-> TRUE, enabled |-> TRUE, focused |-> a, suspended |-> b]
      BY <3>1, <3>2, Zenon
    <3>4. sdl.win[w].alive = TRUE /\ sdl.win[w].enabled = TRUE /\ sdl.win[w].focused = a /\ sdl.win[w].suspended = b
      BY <3>3
    <3> QED BY <3>2, <3>4, Zenon
  <2>2. Len(os.events) = 0
    BY <1>1
  <2>3. Regained(os.events, w)
    BY <2>2 DEF Regained
  <2> QED BY <2>1, <2>3 DEF Seen, Active, Alive
<1> QED BY <1>2, <1>3 DEF ModesHold

LEMMA ModesImply == InputTypeInv /\ ModesInv => PointerModesFollowTarget
<1> SUFFICES ASSUME InputTypeInv, ModesHold(sdl, os.focus, os.events),
                    \A w \in Windows : \A i \in DOMAIN os.events :
                       os.events[i].t \in {"lost", "gained"} => os.events[i].w # w
             PROVE  /\ sdl.capture => WantsCapture(sdl)
                    /\ \A w \in Windows :
                         /\ w \in sdl.relative => WantsRelative(sdl, w)
                         /\ w \in sdl.text => ReadsText(sdl, w)
                         /\ (os.focus = w /\ sdl.win[w].alive /\ sdl.win[w].enabled) => Active(sdl, w)
  BY DEF PointerModesFollowTarget, ModesInv
<1>1. os.events \in Seq(FocusEvents)
  BY DEF InputTypeInv
<1>2. ASSUME NEW i \in 1..Len(os.events) PROVE FALSE
  <2>1. os.events[i] \in FocusEvents /\ i \in DOMAIN os.events
    BY <1>1, <1>2, ElementOfSeq
  <2>2. os.events[i].t \in {"lost", "gained"} /\ os.events[i].w \in Windows
    BY <2>1 DEF FocusEvents
  <2> QED BY <2>1, <2>2
<1>3. PICK none : none = Losers(os.events) /\ none = {}
  BY <1>2 DEF Losers
<1>4. Follows(sdl, none)
  BY <1>3 DEF ModesHold
<1>5. \A w \in Windows : Held(sdl, w, none) => Active(sdl, w)
  BY <1>3 DEF Held
<1>6. sdl.capture => WantsCapture(sdl)
  BY <1>4, <1>5 DEF Follows, CaptureFollows, WantsCapture, Reads
<1>7. ASSUME NEW w \in Windows, w \in sdl.relative PROVE WantsRelative(sdl, w)
  BY <1>4, <1>5, <1>7 DEF Follows, RelativeFollows, WantsRelative, BoundTo, Reads
<1>8. ASSUME NEW w \in Windows, w \in sdl.text PROVE ReadsText(sdl, w)
  BY <1>4, <1>5, <1>8 DEF Follows, TextFollows, ReadsText, BoundTo, Reads
<1>9. ASSUME NEW w \in Windows, os.focus = w, sdl.win[w].alive, sdl.win[w].enabled PROVE Active(sdl, w)
  <2>1. ~GainIn(os.events, w)
    BY <1>2 DEF GainIn
  <2> QED BY <1>9, <2>1 DEF ModesHold, Seen, Alive
<1> QED BY <1>6, <1>7, <1>8, <1>9

(* Where the windows do not change.                                          *)
LEMMA ModesKept ==
  ASSUME NEW s \in Adapter, NEW t \in Adapter, NEW f, NEW e, ModesHold(s, f, e), t.win = s.win,
         \A losing : Follows(s, losing) => Follows(t, losing)
  PROVE  ModesHold(t, f, e)
<1>1. Follows(t, Losers(e))
  BY DEF ModesHold
<1>2. \A w \in Windows : Seen(t, f, e, w)
  BY DEF ModesHold, Seen, Alive, Active
<1> QED BY <1>1, <1>2 DEF ModesHold

LEMMA FollowsMore ==
  ASSUME NEW s, NEW losing, NEW left, Follows(s, losing),
         \A w \in Windows : Alive(s, w) /\ w \in losing => w \in left,
         s.relative \in SUBSET Windows, s.text \in SUBSET Windows
  PROVE  Follows(s, left)
<1>1. \A w \in Windows : Held(s, w, losing) => Held(s, w, left)
  BY DEF Held
<1>2. RelativeFollows(s, left)
  BY <1>1 DEF Follows, RelativeFollows
<1>3. CaptureFollows(s, left)
  BY <1>1 DEF Follows, CaptureFollows
<1>4. TextFollows(s, left)
  BY <1>1 DEF Follows, TextFollows
<1> QED BY <1>2, <1>3, <1>4 DEF Follows

(* The focus moves: the events that tell so are added.                       *)
LEMMA ModesMoved ==
  ASSUME InputTypeInv, ModesInv, NEW w \in Windows \cup {NoWindow}, FocusMoves(w)
  PROVE  ModesInv'
<1>0. sdl' = sdl /\ sdl \in Adapter
  BY DEF FocusMoves, InputTypeInv
<1>1. PICK more \in Seq(FocusEvents) :
        /\ os' = [focus |-> w, events |-> os.events \o more]
        /\ \/ /\ os.focus = NoWindow /\ Len(more) = 1 /\ more[1] = Gains(w)
           \/ /\ w = NoWindow /\ Len(more) = 1 /\ more[1] = Loses(os.focus)
           \/ /\ os.focus # NoWindow /\ w # NoWindow
              /\ Len(more) = 2 /\ more[1] = Loses(os.focus) /\ more[2] = Gains(w)
  BY FocusMoved
<1>2. os.events \in Seq(FocusEvents) /\ Len(os.events) \in Nat /\ Len(more) \in Nat
  BY DEF InputTypeInv
<1>3. PICK q : q = os.events \o more
  OBVIOUS
<1>4. /\ q \in Seq(FocusEvents) /\ Len(q) = Len(os.events) + Len(more)
      /\ \A i \in 1..Len(os.events) : q[i] = os.events[i]
      /\ \A i \in 1..Len(more) : q[Len(os.events) + i] = more[i]
  BY <1>2, <1>3, ConcatProperties
<1>5. os'.focus = w /\ os'.events = q
  BY <1>1, <1>3
<1>6. \A v \in Windows : v \in Losers(os.events) => v \in Losers(q)
  BY <1>2, <1>4 DEF Losers
<1>7. Follows(sdl, Losers(q))
  BY <1>0, <1>6, FollowsMore, AdapterFields DEF ModesInv, ModesHold
<1>8. ASSUME NEW v \in Windows PROVE Seen(sdl, w, q, v)
  <2>1. Seen(sdl, os.focus, os.events, v)
    BY DEF ModesInv, ModesHold
  <2>2. v \in Losers(os.events) \/ os.focus = v => v \in Losers(q) \/ w = v
    <3>1. LossComes(v) \/ os.focus = v => LossComes(v)' \/ os'.focus = v
      BY MovesKeep
    <3> QED BY <1>5, <3>1 DEF LossComes, Losers, Loses
  <2>3. ASSUME w = v PROVE Len(q) \in 1..Len(q) /\ q[Len(q)] = Gains(v)
    <3>1. w # NoWindow
      BY <2>3, WindowsAssumption
    <3>2. (Len(more) = 1 /\ more[1] = Gains(w)) \/ (Len(more) = 2 /\ more[2] = Gains(w))
      BY <1>1, <3>1
    <3>3. Len(more) \in 1..Len(more) /\ more[Len(more)] = Gains(v)
      BY <2>3, <3>2
    <3> QED BY <1>2, <1>4, <3>3
  <2>4. w = v => GainIn(q, v)
    BY <2>3 DEF GainIn
  <2>5. w = v => Regained(q, v)
    <3> SUFFICES ASSUME w = v, NEW i \in 1..Len(q), q[i] = Loses(v)
                 PROVE  \E j \in 1..Len(q) : j > i /\ q[j] = Gains(v)
      BY DEF Regained
    <3>1. i # Len(q)
      BY <2>3 DEF Loses, Gains
    <3> QED BY <1>4, <2>3, <3>1
  <2> QED BY <2>1, <2>2, <2>4, <2>5 DEF Seen
<1> QED BY <1>0, <1>5, <1>7, <1>8 DEF ModesInv, ModesHold

(* An event is told: what is left is still to be told.                       *)
LEMMA EventsLeft ==
  ASSUME InputTypeInv, NEW w \in Windows, NEW gained \in BOOLEAN, NEW ok \in BOOLEAN, DispatchFocus(w, gained, ok)
  PROVE  \E t \in Seq(FocusEvents) :
           /\ os'.focus = os.focus /\ os'.events = t
           /\ \A v \in Windows : v \in Losers(os.events) /\ (gained \/ v # w) => v \in Losers(t)
           /\ \A v \in Windows : GainIn(os.events, v) /\ (~gained \/ v # w) => GainIn(t, v)
           /\ \A v \in Windows : Regained(os.events, v) => Regained(t, v) /\ (~gained /\ v = w => GainIn(t, v))
<1>1. os.events \in Seq(FocusEvents) /\ os.events # <<>> /\ os' = [os EXCEPT !.events = Tail(@)]
  BY DEF InputTypeInv, DispatchFocus
<1>2. PICK t \in Seq(FocusEvents) : /\ t = Tail(os.events) /\ Len(t) = Len(os.events) - 1
                                    /\ \A i \in 1..Len(t) : t[i] = os.events[i + 1]
  BY <1>1, HeadTailProperties
<1>3. os'.events = t /\ os'.focus = os.focus
  BY <1>1, <1>2 DEF InputTypeInv
<1>4. Head(os.events).t = (IF gained THEN "gained" ELSE "lost") /\ Head(os.events).w = w
  BY DEF DispatchFocus
<1>5. PICK e \in Seq(FocusEvents) : e = os.events
  BY <1>1
<1>6. Len(e) \in Nat /\ Len(t) \in Nat /\ Len(t) = Len(e) - 1 /\ 1 \in 1..Len(e) /\ e[1] = Head(e)
  BY <1>1, <1>2, <1>5
<1>7. \A i \in 1..Len(e) : i # 1 => \E j \in 1..Len(t) : j + 1 = i /\ t[j] = e[i]
  <2> SUFFICES ASSUME NEW i \in 1..Len(e), i # 1 PROVE \E j \in 1..Len(t) : j + 1 = i /\ t[j] = e[i]
    OBVIOUS
  <2>1. i - 1 \in 1..Len(t) /\ (i - 1) + 1 = i
    BY <1>6
  <2> QED BY <1>2, <1>5, <2>1
<1>8. \A v \in Windows : /\ e[1] = Loses(v) => ~gained /\ v = w
                         /\ e[1] = Gains(v) => gained /\ v = w
  BY <1>4, <1>5, <1>6 DEF Loses, Gains
<1>9. \A v \in Windows : v \in Losers(e) /\ (gained \/ v # w) => v \in Losers(t)
  BY <1>7, <1>8 DEF Losers
<1>10. \A v \in Windows : GainIn(e, v) /\ (~gained \/ v # w) => GainIn(t, v)
  BY <1>7, <1>8 DEF GainIn
<1>11. ASSUME NEW v \in Windows, Regained(e, v) PROVE Regained(t, v)
  <2> SUFFICES ASSUME NEW i \in 1..Len(t), t[i] = Loses(v) PROVE \E j \in 1..Len(t) : j > i /\ t[j] = Gains(v)
    BY DEF Regained
  <2>1. i + 1 \in 1..Len(e) /\ e[i + 1] = Loses(v)
    BY <1>2, <1>5, <1>6
  <2>2. PICK k \in 1..Len(e) : k > i + 1 /\ e[k] = Gains(v)
    BY <1>11, <2>1 DEF Regained
  <2>3. k # 1
    BY <2>2
  <2>4. PICK j \in 1..Len(t) : j + 1 = k /\ t[j] = e[k]
    BY <1>7, <2>3
  <2> QED BY <2>2, <2>4
<1>12. ASSUME Regained(e, w), ~gained PROVE GainIn(t, w)
  <2>1. e[1] = Loses(w)
    <3>1. e[1] \in FocusEvents
      BY <1>6, ElementOfSeq
    <3> QED BY <1>4, <1>5, <1>6, <1>12, <3>1 DEF FocusEvents, Loses
  <2>2. PICK k \in 1..Len(e) : k > 1 /\ e[k] = Gains(w)
    BY <1>6, <1>12, <2>1 DEF Regained
  <2>3. k # 1
    BY <2>2
  <2> QED BY <1>7, <2>2, <2>3 DEF GainIn
<1> QED BY <1>3, <1>5, <1>9, <1>10, <1>11, <1>12

LEMMA ModesTold ==
  ASSUME InputTypeInv, ModesInv, NEW w \in Windows, NEW gained \in BOOLEAN, NEW ok \in BOOLEAN,
         DispatchFocus(w, gained, ok)
  PROVE  ModesInv'
<1>0. sdl \in Adapter
  BY DEF InputTypeInv
<1>1. PICK e \in Seq(FocusEvents) :
        /\ os'.focus = os.focus /\ os'.events = e
        /\ \A v \in Windows : v \in Losers(os.events) /\ (gained \/ v # w) => v \in Losers(e)
        /\ \A v \in Windows : GainIn(os.events, v) /\ (~gained \/ v # w) => GainIn(e, v)
        /\ \A v \in Windows : Regained(os.events, v) => Regained(e, v) /\ (~gained /\ v = w => GainIn(e, v))
  BY EventsLeft
<1>2. Follows(sdl, Losers(os.events)) /\ \A v \in Windows : Seen(sdl, os.focus, os.events, v)
  BY DEF ModesInv, ModesHold
<1>3. SUFFICES ASSUME NEW t \in Adapter, t = sdl' PROVE ModesHold(t, os.focus, e)
  <2>1. sdl' \in Adapter
    BY InputTypeNext DEF InputTypeInv, Next, Delivery
  <2> QED BY <1>1, <1>3, <2>1 DEF ModesInv
<1>4. ASSUME NEW v \in Windows, v # w, t.win[v] = sdl.win[v] PROVE Seen(t, os.focus, e, v)
  BY <1>1, <1>2, <1>4 DEF Seen, Alive, Active
<1>5. CASE ~sdl.win[w].alive
  <2>1. t = sdl
    BY <1>3, <1>5 DEF DispatchFocus
  <2>2. Follows(t, Losers(e))
    BY <1>0, <1>1, <1>2, <1>5, <2>1, FollowsMore, AdapterFields DEF Alive
  <2>3. Seen(t, os.focus, e, w)
    BY <1>1, <1>2, <1>5, <2>1 DEF Seen, Alive
  <2> QED BY <1>4, <2>1, <2>2, <2>3 DEF ModesHold
<1>6. CASE sdl.win[w].alive /\ ~gained
  <2>1. PICK u \in Adapter : /\ FocusLost(sdl, w, ok) = u
                             /\ u.win[w].focused <=> os.focus = w
                             /\ \A v \in Windows \ {w} : u.win[v] = sdl.win[v]
                             /\ Carries(sdl, u, w)
    BY <1>0, FocusLostGives
  <2>2. t = u
    BY <1>3, <1>6, <2>1 DEF DispatchFocus
  <2>3. Follows(t, Losers(e))
    BY <1>1, <1>2, <2>1, <2>2 DEF Carries
  <2>4. Seen(t, os.focus, e, w)
    BY <1>1, <1>2, <1>6, <2>1, <2>2 DEF Seen
  <2> QED BY <1>4, <2>1, <2>2, <2>3, <2>4 DEF ModesHold
<1>7. CASE sdl.win[w].alive /\ gained
  <2>1. PICK u \in Adapter : /\ FocusGained(sdl, w, ok) = u
                             /\ u.win[w].alive = sdl.win[w].alive /\ u.win[w].enabled = sdl.win[w].enabled
                             /\ sdl.win[w].enabled => ~u.win[w].suspended
                             /\ u.win[w].focused <=> os.focus = w
                             /\ \A v \in Windows \ {w} : u.win[v] = sdl.win[v]
                             /\ \A losing : Follows(sdl, losing) /\ (sdl.win[w].focused => os.focus = w \/ w \in losing)
                                               => Follows(u, losing)
    BY <1>0, FocusGainedGives
  <2>2. t = u
    BY <1>3, <1>7, <2>1 DEF DispatchFocus
  <2>3. sdl.win[w].focused => os.focus = w \/ w \in Losers(os.events)
    BY <1>2, <1>7 DEF Seen, Alive
  <2>4. Follows(t, Losers(os.events))
    BY <1>2, <2>1, <2>2, <2>3
  <2>5. Follows(t, Losers(e))
    BY <1>1, <1>7, <2>4, FollowsMore, AdapterFields
  <2>6. Seen(t, os.focus, e, w)
    BY <1>1, <1>2, <1>7, <2>1, <2>2 DEF Seen, Alive, Active
  <2> QED BY <1>4, <2>1, <2>2, <2>5, <2>6 DEF ModesHold
<1> QED BY <1>5, <1>6, <1>7

LEMMA ModesClosed ==
  ASSUME InputTypeInv, ModesInv, NEW w \in Windows, NEW taken \in BOOLEAN, NEW ok \in BOOLEAN,
         DispatchClosed(w, taken, ok)
  PROVE  ModesInv'
<1>0. sdl \in Adapter
  BY DEF InputTypeInv
<1>1. PICK ws \in SUBSET Windows : ws = {w}
  OBVIOUS
<1>2. PICK t \in Adapter : /\ sdl' = t
                           /\ t.win[w] = NoWindowRecord /\ \A v \in Windows \ {w} : t.win[v] = sdl.win[v]
                           /\ Carries(sdl, t, w)
  <2>1. CASE taken
    <3>1. PICK last \in Adapter, t \in Adapter :
            /\ InvalidateRemovedInputTarget(sdl, w, ok) = last /\ Erase(last, ws) = t
            /\ t.win[w] = NoWindowRecord /\ \A v \in Windows \ {w} : t.win[v] = sdl.win[v]
            /\ Carries(sdl, t, w)
      BY <1>0, <1>1, TakenGives
    <3>2. sdl' = t
      BY <1>1, <2>1, <3>1 DEF DispatchClosed
    <3> QED BY <3>1, <3>2
  <2>2. CASE ~taken
    <3>1. PICK last \in Adapter, t \in Adapter :
            /\ PrepareWindowRemoval(sdl, ws) = last /\ Erase(last, ws) = t
            /\ t.win[w] = NoWindowRecord /\ \A v \in Windows \ {w} : t.win[v] = sdl.win[v]
            /\ Carries(sdl, t, w)
      BY <1>0, <1>1, PreparedGives
    <3>2. sdl' = t
      BY <1>1, <2>2, <3>1 DEF DispatchClosed
    <3> QED BY <3>1, <3>2
  <2> QED BY <2>1, <2>2
<1>3. /\ os'.events = os.events
      /\ os.focus # w => os'.focus = os.focus
  BY ClosedFocus
<1>4. os'.focus # w
  <2>1. os' = [os EXCEPT !.focus = IF @ = w THEN NoWindow ELSE @]
    BY DEF DispatchClosed
  <2> QED BY <2>1, WindowsAssumption DEF InputTypeInv
<1>5. Follows(t, Losers(os.events))
  BY <1>2 DEF Carries, ModesInv, ModesHold
<1>6. Seen(t, os'.focus, os.events, w)
  BY <1>2, <1>4 DEF Seen, Alive, NoWindowRecord
<1>7. ASSUME NEW v \in Windows, v # w PROVE Seen(t, os'.focus, os.events, v)
  <2>1. Seen(sdl, os.focus, os.events, v)
    BY DEF ModesInv, ModesHold
  <2>2. os'.focus = v <=> os.focus = v
    <3>1. os' = [os EXCEPT !.focus = IF @ = w THEN NoWindow ELSE @]
      BY DEF DispatchClosed
    <3> QED BY <1>7, <3>1, WindowsAssumption DEF InputTypeInv
  <2> QED BY <1>2, <1>7, <2>1, <2>2 DEF Seen, Alive, Active
<1> QED BY <1>2, <1>3, <1>5, <1>6, <1>7 DEF ModesInv, ModesHold

LEMMA ModesWindow ==
  ASSUME InputTypeInv, ModesInv, NEW w \in Windows,
         WindowMutation(w) \/ \E b, ok \in BOOLEAN : WindowInput(w, b, ok)
  PROVE  ModesInv'
<1>0. sdl \in Adapter
  BY DEF InputTypeInv
<1>1. os' = os
  BY DEF WindowMutation, WindowInput, adapter
<1>2. Follows(sdl, Losers(os.events)) /\ \A v \in Windows : Seen(sdl, os.focus, os.events, v)
  BY DEF ModesInv, ModesHold
<1>3. CASE sdl' = sdl
  BY <1>1, <1>3 DEF ModesInv
<1>4. ASSUME sdl.win[w].alive, NEW t \in Adapter, sdl' = t, \A v \in Windows \ {w} : t.win[v] = sdl.win[v],
             t.win[w].focused <=> os.focus = w,
             \A losing : Follows(sdl, losing) /\ (sdl.win[w].focused => os.focus = w \/ w \in losing)
                            => Follows(t, losing),
             os.focus = w /\ t.win[w].enabled => Active(t, w) \/ GainIn(os.events, w)
      PROVE  ModesInv'
  <2>1. Follows(t, Losers(os.events))
    BY <1>2, <1>4 DEF Seen, Alive
  <2>2. Seen(t, os.focus, os.events, w)
    BY <1>2, <1>4 DEF Seen
  <2>3. ASSUME NEW v \in Windows, v # w PROVE Seen(t, os.focus, os.events, v)
    BY <1>2, <1>4, <2>3 DEF Seen, Alive, Active
  <2> QED BY <1>1, <1>4, <2>1, <2>2, <2>3 DEF ModesInv, ModesHold
<1>5. CASE WindowMutation(w) /\ sdl.win[w].alive
  <2>1. PICK t \in Adapter :
          /\ Query(sdl, w) = t
          /\ t.win[w].alive = sdl.win[w].alive /\ t.win[w].enabled = sdl.win[w].enabled
          /\ t.win[w].suspended = sdl.win[w].suspended
          /\ t.win[w].focused <=> os.focus = w
          /\ \A v \in Windows \ {w} : t.win[v] = sdl.win[v]
          /\ \A losing : Follows(sdl, losing) /\ (Active(sdl, w) => os.focus = w \/ w \in losing) => Follows(t, losing)
    BY <1>0, QueryGives
  <2>2. sdl' = t
    BY <1>5, <2>1 DEF WindowMutation
  <2>3. \A losing : Follows(sdl, losing) /\ (sdl.win[w].focused => os.focus = w \/ w \in losing)
                       => Follows(t, losing)
    BY <2>1 DEF Active
  <2>4. os.focus = w /\ t.win[w].enabled => Active(t, w) \/ GainIn(os.events, w)
    BY <1>2, <1>5, <2>1 DEF Seen, Alive, Active
  <2> QED BY <1>4, <1>5, <2>1, <2>2, <2>3, <2>4
<1>6. ASSUME NEW b \in BOOLEAN, NEW ok \in BOOLEAN, WindowInput(w, b, ok), sdl.win[w].alive PROVE ModesInv'
  <2>1. PICK t \in Adapter :
          /\ SetInputEnabled(sdl, w, b, ok) = t
          /\ t.win[w].alive = sdl.win[w].alive /\ t.win[w].enabled = b
          /\ t.win[w].suspended <=> ~b \/ ~sdl.win[w].focused
          /\ t.win[w].focused <=> os.focus = w
          /\ \A v \in Windows \ {w} : t.win[v] = sdl.win[v]
          /\ \A losing : Follows(sdl, losing) /\ (sdl.win[w].focused => os.focus = w \/ w \in losing)
                            => Follows(t, losing)
    BY <1>0, EnableWindowGives
  <2>2. sdl' = t
    BY <1>6, <2>1 DEF WindowInput
  <2>3. os.focus = w /\ t.win[w].enabled => Active(t, w) \/ GainIn(os.events, w)
    BY <1>2, <1>6, <2>1 DEF Seen, Alive, Active
  <2> QED BY <1>4, <1>6, <2>1, <2>2, <2>3
<1> QED BY <1>3, <1>5, <1>6 DEF WindowMutation, WindowInput

LEMMA ModesStopped == ASSUME InputTypeInv, ModesInv, StopPump PROVE ModesInv'
<1>1. sdl \in Adapter
  BY DEF InputTypeInv
<1>2. PICK t \in Adapter : /\ ShutdownWindows(ShutdownInput(sdl)) = t
                           /\ \A w \in Windows : ~Alive(t, w)
                           /\ \A losing, left : Follows(sdl, losing) => Follows(t, left)
  BY <1>1, ShutdownGives
<1>3. sdl' = t /\ os' = os
  BY <1>2 DEF StopPump
<1>4. Follows(t, Losers(os.events))
  BY <1>2 DEF ModesInv, ModesHold
<1>5. \A w \in Windows : Seen(t, os.focus, os.events, w)
  BY <1>2 DEF ModesInv, ModesHold, Seen
<1> QED BY <1>3, <1>4, <1>5 DEF ModesInv, ModesHold

(* A command of the manager: the windows and the focus are left alone.       *)
LEMMA CommandsFollow ==
  ASSUME InputTypeInv, Queued,
         Executes \/ CreateContextOnRuntime \/ DestroyContextOnRuntime \/ \E cs \in SUBSET Contexts : Cleanup(cs)
  PROVE  \E t \in Adapter : /\ sdl' = t /\ t.win = sdl.win /\ os' = os
                            /\ \A losing : Follows(sdl, losing) => Follows(t, losing)
<1>0. sdl \in Adapter /\ os' = os
  BY DEF InputTypeInv, Executes, Execute, CreateContext, MutateOnRuntime, DestroyContext, CleanupOnRuntime,
     CreateContextOnRuntime, DestroyContextOnRuntime, Cleanup, adapter
<1>1. CASE sdl' = sdl
  BY <1>0, <1>1
<1>2. ASSUME NEW cmd \in Commands, NEW ok \in BOOLEAN, cmd.op = "create", CreateContext(cmd, ok), sdl' # sdl
      PROVE  \E t \in Adapter : /\ sdl' = t /\ t.win = sdl.win
                                /\ \A losing : Follows(sdl, losing) => Follows(t, losing)
  <2>1. Runs(cmd)
    BY <1>2 DEF CreateContext
  <2>2. cmd.c \in Contexts /\ cmd.w \in Windows /\ ~sdl.ctx[cmd.c].live
    BY <1>2, <2>1, CreateTakes, CommandFields DEF Unmade
  <2>3. PICK c \in Contexts, w \in Windows : c = cmd.c /\ w = cmd.w
    BY <2>2
  <2> DEFINE wants == cmd.wants
  <2>4. PICK t \in Adapter : /\ CreateInputContext(sdl, c, w, wants, ok) = t /\ t.win = sdl.win
                             /\ \A losing : Follows(sdl, losing) => Follows(t, losing)
    BY <1>0, <2>2, <2>3, CreateGives
  <2>5. sdl' = t
    BY <1>2, <2>3, <2>4 DEF CreateContext
  <2> QED BY <2>4, <2>5
<1>3. ASSUME NEW cmd \in Commands, NEW ok \in BOOLEAN, cmd.op \in {"enable", "capture", "relative"},
             MutateOnRuntime(cmd, ok), sdl' # sdl
      PROVE  \E t \in Adapter : /\ sdl' = t /\ t.win = sdl.win
                                /\ \A losing : Follows(sdl, losing) => Follows(t, losing)
  <2>1. PICK c \in Contexts, b \in BOOLEAN : c = cmd.c /\ b = cmd.b
    BY <1>3, CommandFields
  <2>2. sdl.ctx[c].live /\ sdl' = Mutated(cmd, ok)
    BY <1>3, <2>1 DEF MutateOnRuntime
  <2>3. PICK t1 \in Adapter : /\ SetContextEnabled(sdl, c, b, ok) = t1 /\ t1.win = sdl.win
                              /\ \A losing : Follows(sdl, losing) => Follows(t1, losing)
    BY <1>0, <2>2, EnableGives
  <2>4. PICK t2 \in Adapter : /\ SetContextCapture(sdl, c, b, ok) = t2 /\ t2.win = sdl.win
                              /\ \A losing : Follows(sdl, losing) => Follows(t2, losing)
    BY <1>0, <2>2, CaptureGives
  <2>5. PICK t3 \in Adapter : /\ SetRelativePointerMode(sdl, c, b, ok) = t3 /\ t3.win = sdl.win
                              /\ \A losing : Follows(sdl, losing) => Follows(t3, losing)
    BY <1>0, <2>2, RelativeGives
  <2>6. sdl' = t1 \/ sdl' = t2 \/ sdl' = t3
    BY <2>1, <2>2, <2>3, <2>4, <2>5 DEF Mutated
  <2> QED BY <2>3, <2>4, <2>5, <2>6
<1>4. ASSUME NEW cmd \in Commands, CleanupOnRuntime(cmd), sdl' # sdl
      PROVE  \E t \in Adapter : /\ sdl' = t /\ t.win = sdl.win
                                /\ \A losing : Follows(sdl, losing) => Follows(t, losing)
  <2>1. contexts \in SUBSET Contexts
    BY DEF InputTypeInv
  <2>2. PICK t \in Adapter : /\ DestroyAll(sdl, contexts) = t /\ t.win = sdl.win
                             /\ \A losing : Follows(sdl, losing) => Follows(t, losing)
    BY <1>0, <2>1, DestroyAllGives
  <2>3. PICK u \in Adapter : /\ ShutdownInput(t) = u /\ u.win = t.win
                             /\ \A losing, left : Follows(t, losing) => Follows(u, left)
    BY ShutdownInputGives
  <2>4. sdl' = u
    BY <1>4, <2>2, <2>3 DEF CleanupOnRuntime
  <2> QED BY <2>2, <2>3, <2>4
<1>5. ASSUME NEW cs \in SUBSET Contexts, Cleanup(cs)
      PROVE  \E t \in Adapter : /\ sdl' = t /\ t.win = sdl.win
                                /\ \A losing : Follows(sdl, losing) => Follows(t, losing)
  <2>2. PICK t \in Adapter : /\ DestroyAll(sdl, cs) = t /\ t.win = sdl.win
                             /\ \A losing : Follows(sdl, losing) => Follows(t, losing)
    BY <1>0, DestroyAllGives
  <2>3. PICK u \in Adapter : /\ ShutdownInput(t) = u /\ u.win = t.win
                             /\ \A losing, left : Follows(t, losing) => Follows(u, left)
    BY ShutdownInputGives
  <2>4. sdl' = u
    BY <1>5, <2>2, <2>3 DEF Cleanup
  <2> QED BY <2>2, <2>3, <2>4
<1>6. ASSUME CreateContextOnRuntime \/ DestroyContextOnRuntime, sdl' # sdl
      PROVE  \E t \in Adapter : /\ sdl' = t /\ t.win = sdl.win
                                /\ \A losing : Follows(sdl, losing) => Follows(t, losing)
  <2>1. PICK c \in Contexts, yes \in BOOLEAN : c = step.c /\ yes = TRUE
    BY <1>6, StepFields DEF CreateContextOnRuntime, DestroyContextOnRuntime, InputTypeInv
  <2>2. PICK t \in Adapter : /\ DestroyInputContext(sdl, c, yes) = t /\ t.win = sdl.win
                             /\ \A losing : Follows(sdl, losing) => Follows(t, losing)
    BY <1>0, DestroyGives
  <2>3. sdl' = t
    BY <1>6, <2>1, <2>2 DEF CreateContextOnRuntime, DestroyContextOnRuntime
  <2> QED BY <2>2, <2>3
<1>7. CASE Executes /\ sdl' # sdl
  <2>1. PICK cmd \in Commands : Execute(cmd)
    BY <1>7 DEF Executes
  <2>2. ~DestroyContext(cmd)
    BY <1>7 DEF DestroyContext, adapter
  <2> QED BY <1>0, <1>2, <1>3, <1>4, <1>7, <2>1, <2>2 DEF Execute
<1> QED BY <1>0, <1>1, <1>5, <1>6, <1>7

(* What else changes the adapter.                                            *)
LEMMA AdapterNext ==
  ASSUME [Next]_vars
  PROVE  \/ sdl' = sdl /\ os' = os
         \/ \/ Executes \/ CreateContextOnRuntime \/ DestroyContextOnRuntime
            \/ \E cs \in SUBSET Contexts : Cleanup(cs)
         \/ DestroyContextUnderLock
         \/ \E w \in Windows : WindowMutation(w) \/ \E b, ok \in BOOLEAN : WindowInput(w, b, ok)
         \/ StopPump
         \/ \E w \in Windows \cup {NoWindow} : FocusMoves(w)
         \/ \E w \in Windows, gained, ok \in BOOLEAN : DispatchFocus(w, gained, ok)
         \/ \E w \in Windows, taken, ok \in BOOLEAN : DispatchClosed(w, taken, ok)
<1>1. CASE EventThread
  <2>1. CASE \/ PublishDeviceChanged \/ Invoke \/ CallbackReturns \/ Woken \/ TakeDeviceEvent
             \/ DiscoverConnectedDevicesOnRuntime
    BY <2>1 DEF PublishDeviceChanged, Invoke, CallbackReturns, Woken, TakeDeviceEvent,
       DiscoverConnectedDevicesOnRuntime, adapter
  <2>2. ASSUME NEW c \in Contexts, NEW kind \in Kinds, NEW down \in BOOLEAN, Publish(c, kind, down)
        PROVE  sdl' = sdl /\ os' = os
    BY <2>2 DEF Publish, adapter
  <2> QED BY <1>1, <2>1, <2>2 DEF EventThread
<1>2. CASE Teardown
  BY <1>2 DEF Teardown, DetachAllContexts, MarkRecordDestroyed, Fence, DeactivateManagerSubscriptions, PostCleanup,
     adapter
<1>3. CASE Delivery
  BY <1>3 DEF Delivery, DispatchInput, DispatchTouchEvent, DispatchDeviceEvent, adapter
<1>4. CASE OtherThreads
  BY <1>4 DEF OtherThreads, Submit, SubmitWindow, Subscribe, Reset, BeginTeardown, RequestStop, adapter
<1>5. CASE \/ \E s \in Subs : ResetInCallback(s)
           \/ \E connected \in SUBSET Devices : StartPump(connected)
           \/ Wait \/ UNCHANGED vars
  BY <1>5 DEF ResetInCallback, StartPump, Wait, vars, adapter
<1> QED BY <1>1, <1>2, <1>3, <1>4, <1>5 DEF Next

(* An event thread that waits for itself has left the modes in between.      *)
ModesOrStuck == step.op = "deadlocked" \/ ModesInv

LEMMA ModesNext == InputTypeInv /\ Turns /\ StuckInv /\ Queued /\ ModesOrStuck /\ [Next]_vars => ModesOrStuck'
<1> SUFFICES ASSUME InputTypeInv, Turns, StuckInv, Queued, ModesOrStuck, [Next]_vars PROVE ModesOrStuck'
  OBVIOUS
<1>3. CASE step.op = "deadlocked"
  BY <1>3, StuckStays DEF ModesOrStuck
<1>4. CASE DestroyContextUnderLock
  BY <1>4, UnderLockFrame DEF ModesOrStuck
<1> SUFFICES ASSUME ModesInv, ~DestroyContextUnderLock PROVE ModesInv'
  BY <1>3, <1>4 DEF ModesOrStuck
<1>1. CASE \/ Executes \/ CreateContextOnRuntime \/ DestroyContextOnRuntime
           \/ \E cs \in SUBSET Contexts : Cleanup(cs)
  <2>1. PICK t \in Adapter : /\ sdl' = t /\ t.win = sdl.win /\ os' = os
                             /\ \A losing : Follows(sdl, losing) => Follows(t, losing)
    BY <1>1, CommandsFollow
  <2>2. ModesHold(t, os.focus, os.events)
    BY <2>1, ModesKept DEF ModesInv, InputTypeInv
  <2> QED BY <2>1, <2>2 DEF ModesInv
<1>2. CASE sdl' = sdl /\ os' = os
  BY <1>2 DEF ModesInv
<1> QED BY <1>1, <1>2, AdapterNext, ModesWindow, ModesStopped, ModesMoved, ModesTold, ModesClosed

(***************************************************************************)
(* What a facade shows.                                                    *)
(***************************************************************************)
(* Until the manager stops the adapter tells it of changes, and nothing that *)
(* was left by one that stopped is queued.                                   *)
Running == ~stopping => sink /\ ~Left(queue)

LEMMA RunningInit == Init => Running
BY DEF Init, Running, Left

LEMMA StoppingStays ==
  ASSUME InputTypeInv, FencedInv, [Next]_vars, ~stopping'
  PROVE  ~stopping /\ teardown = "none" /\ (sink => sink')
<1>1. teardown # "none" => stopping
  BY DEF FencedInv, TeardownPhases
<1>2. CASE QuietStep
  BY <1>1, <1>2 DEF QuietStep
<1>3. CASE LoudStep
  <2>1. CASE Teardown
    BY <1>1, <2>1 DEF Teardown, DetachAllContexts, MarkRecordDestroyed, Fence, DeactivateManagerSubscriptions,
       PostCleanup, ending
  <2>2. CASE \/ CreateContextOnRuntime \/ DestroyContextOnRuntime
             \/ \E cmd \in Commands : cmd.op = "destroy" /\ DestroyContext(cmd)
    <3>1. UNCHANGED ending
      BY <2>2 DEF CreateContextOnRuntime, DestroyContextOnRuntime, DestroyContext
    <3> QED BY <1>1, <3>1 DEF ending
  <2>3. ASSUME NEW cmd \in Commands, CleanupOnRuntime(cmd) PROVE FALSE
    BY <2>3 DEF CleanupOnRuntime
  <2>4. CASE \/ Invoke \/ BeginTeardown
             \/ \E s \in Subs : ResetInCallback(s) \/ Reset(s)
             \/ \E s \in Subs, topic \in Topics : Subscribe(s, topic)
    BY <1>1, <2>4 DEF Invoke, BeginTeardown, ResetInCallback, Reset, Subscribe, ending
  <2> QED BY <1>3, <2>1, <2>2, <2>3, <2>4 DEF LoudStep
<1> QED BY <1>2, <1>3, QuietOrLoud

LEMMA RunningNext == InputTypeInv /\ FencedInv /\ Running /\ [Next]_vars => Running'
<1> SUFFICES ASSUME InputTypeInv, FencedInv, Running, [Next]_vars, ~stopping' PROVE sink' /\ ~Left(queue')
  BY DEF Running, Left
<1>1. sink /\ ~Left(queue) /\ sink' /\ teardown = "none"
  BY StoppingStays DEF Running
<1>2. queue \in Seq(Items)
  BY DEF InputTypeInv
<1>3. CASE queue' = queue
  BY <1>1, <1>3
<1>4. CASE queue # <<>> /\ queue' = Tail(queue)
  <2>1. PICK t \in Seq(Items) : t = Tail(queue) /\ Len(t) = Len(queue) - 1 /\ \A i \in 1..Len(t) : t[i] = queue[i + 1]
    BY <1>2, <1>4, HeadTailProperties
  <2>2. \A i \in 1..Len(t) : i + 1 \in 1..Len(queue)
    BY <1>2, <2>1
  <2> QED BY <1>1, <1>4, <2>1, <2>2 DEF Left
<1>5. ASSUME NEW events \in Seq(Items), queue' = queue \o events, \A i \in 1..Len(events) : events[i].op # "cleanup"
      PROVE  ~Left(queue')
  <2>1. PICK t : t = queue \o events
    OBVIOUS
  <2>2. /\ t \in Seq(Items) /\ Len(t) = Len(queue) + Len(events)
        /\ \A i \in 1..Len(t) : t[i] = IF i \in 1..Len(queue) THEN queue[i] ELSE events[i - Len(queue)]
    BY <1>2, <2>1, ConcatProperties
  <2>3. ASSUME NEW i \in 1..Len(t), i \notin 1..Len(queue) PROVE i - Len(queue) \in 1..Len(events)
    BY <1>2, <2>2, <2>3
  <2> QED BY <1>1, <1>5, <2>1, <2>2, <2>3 DEF Left
<1>6. ASSUME NEW item \in Items, queue' = Append(queue, item), item.op # "cleanup" PROVE ~Left(queue')
  <2>1. queue' = queue \o <<item>>
    BY <1>2, <1>6, AppendIsConcat
  <2>2. PICK events : events = <<item>>
    OBVIOUS
  <2>3. events \in Seq(Items) /\ \A i \in 1..Len(events) : events[i].op # "cleanup"
    BY <1>6, <2>2
  <2> QED BY <1>5, <2>1, <2>2, <2>3
<1>7. ASSUME NEW events \in Seq(Items), queue' = queue \o events, \A i \in 1..Len(events) : Arrives(events[i])
      PROVE  ~Left(queue')
  BY <1>5, <1>7 DEF Arrives
<1>8. ASSUME NEW cmd \in Commands, queue' = Append(queue, cmd) PROVE ~Left(queue')
  <2>1. cmd \in Items /\ cmd.op # "cleanup"
    BY CommandFields
  <2> QED BY <1>6, <1>8, <2>1
<1>9. ~Left(queue')
  BY <1>1, <1>3, <1>4, <1>6, <1>7, <1>8, QueueNext DEF QueueMoves
<1> QED BY <1>1, <1>9

(* A record shows a context of the adapter.                                  *)
Alike(r, x) == r.enabled = x.enabled /\ r.captured = x.captured /\ r.relative = x.relative
Agrees(c) == /\ c \in contexts <=> sdl.ctx[c].live /\ ~Making(c)
             /\ c \in contexts => Alike(rec[c], sdl.ctx[c])
FacadeInv == ~stopping /\ pump # "stopped" => \A c \in Contexts : Agrees(c)

LEMMA FacadeInit == Init => FacadeInv
BY DEF Init, SDLInit, FacadeInv, Agrees, NoContext

LEMMA FacadeImply ==
  InputTypeInv /\ FencedInv /\ DestroyingGoesOn /\ Named /\ ReleasedInv /\ FacadeInv => FacadeMatchesAdapter
<1> SUFFICES ASSUME InputTypeInv, FencedInv, DestroyingGoesOn, Named, ReleasedInv, FacadeInv,
                    step.op \in {"none", "device"}, teardown = "none", pump # "stopped", NEW c \in Contexts
             PROVE  /\ c \in contexts <=> sdl.ctx[c].live
                    /\ c \in contexts => /\ rec[c].life = "Open"
                                         /\ rec[c].enabled = sdl.ctx[c].enabled
                                         /\ rec[c].captured = sdl.ctx[c].captured
                                         /\ rec[c].relative = sdl.ctx[c].relative
  BY DEF FacadeMatchesAdapter
<1>1. CASE stopping
  BY <1>1 DEF FencedInv, TeardownPhases, ReleasedInv, IsFree
<1>2. CASE ~stopping
  <2>1. Agrees(c)
    BY <1>2 DEF FacadeInv
  <2>2. c \in contexts => rec[c].life = "Open"
    BY DEF Named, DestroyingGoesOn
  <2>3. ~Making(c)
    BY DEF Making
  <2> QED BY <2>1, <2>2, <2>3 DEF Agrees, Alike
<1> QED BY <1>1, <1>2

(* A record that takes over a configuration shows it.                        *)
LEMMA ConfiguredAlike ==
  ASSUME NEW r \in Records, NEW s \in Adapter, NEW c \in Contexts
  PROVE  Alike(Configured(r, s, c)[c], s.ctx[c])
<1> DEFINE q == [r[c] EXCEPT !.enabled = s.ctx[c].enabled, !.captured = s.ctx[c].captured,
                             !.relative = s.ctx[c].relative]
<1>1. r[c] \in RecordType
  BY DEF Records
<1>2. q.enabled = s.ctx[c].enabled /\ q.captured = s.ctx[c].captured /\ q.relative = s.ctx[c].relative
  BY <1>1 DEF RecordType
<1>3. Configured(r, s, c) = [r EXCEPT ![c] = q]
  BY DEF Configured, Records, RecordType
<1> HIDE DEF q
<1> QED BY <1>2, <1>3 DEF Records, Alike

(* After a change of a window's contexts the manager was told of.            *)
LEMMA AppliedAlike ==
  ASSUME rec \in Records, sink, NEW s \in Adapter, NEW w, NEW invalidated,
         NEW c \in Contexts, c \in contexts, rec[c].life = "Open", Alike(rec[c], sdl.ctx[c]), SparesBound(sdl, s, c, w)
  PROVE  Alike(ApplyTargetConfiguration(rec, s, w, invalidated)[c], s.ctx[c])
<1> DEFINE told(d) == [Configured(rec, s, d)[d] EXCEPT !.pressed = IF invalidated THEN {} ELSE @]
           kept(d) == ~sink \/ d \notin BoundTo(s, w) \/ d \notin contexts \/ rec[d].life # "Open"
           q == [d \in Contexts |-> IF kept(d) THEN rec[d] ELSE told(d)]
<1>1. ApplyTargetConfiguration(rec, s, w, invalidated) = q
  BY DEF ApplyTargetConfiguration
<1>2. q[c] = IF kept(c) THEN rec[c] ELSE told(c)
  OBVIOUS
<1>3. CASE kept(c)
  <2>1. c \notin BoundTo(s, w)
    BY <1>3
  <2>2. s.ctx[c] = sdl.ctx[c]
    BY <2>1 DEF BoundTo, SparesBound
  <2> HIDE DEF q, kept, told
  <2> QED BY <1>1, <1>2, <1>3, <2>2
<1>4. CASE ~kept(c)
  <2>1. PICK x : x = Configured(rec, s, c)[c]
    OBVIOUS
  <2>2. x \in RecordType /\ Alike(x, s.ctx[c])
    BY <2>1, ConfiguredType, ConfiguredAlike DEF Records
  <2>3. PICK pressed : pressed = IF invalidated THEN {} ELSE x.pressed
    OBVIOUS
  <2>4. told(c) = [x EXCEPT !.pressed = pressed]
    BY <2>1, <2>3
  <2> HIDE DEF q, kept, told
  <2>5. told(c).enabled = x.enabled /\ told(c).captured = x.captured /\ told(c).relative = x.relative
    BY <2>2, <2>4 DEF RecordType
  <2> QED BY <1>1, <1>2, <1>4, <2>2, <2>5 DEF Alike
<1> QED BY <1>3, <1>4

LEMMA RefreshedAlike ==
  ASSUME rec \in Records, sink, NEW s \in Adapter, NEW w, NEW invalidated, Refreshed(s, w, invalidated),
         NEW c \in Contexts, c \in contexts, rec[c].life = "Open", Alike(rec[c], sdl.ctx[c]), Spares(sdl, s, c, w)
  PROVE  Alike(rec'[c], s.ctx[c])
<1>1. SparesBound(sdl, s, c, w)
  BY DEF Spares, SparesBound
<1>2. CASE s.win[w].alive
  <2>1. rec' = ApplyTargetConfiguration(rec, s, w, invalidated)
    BY <1>2 DEF Refreshed
  <2> QED BY <1>1, <2>1, AppliedAlike
<1>3. CASE ~s.win[w].alive
  BY <1>3 DEF Refreshed, Spares, Alive
<1> QED BY <1>2, <1>3

(* What a step must not disturb, if no context comes or goes.                *)
LEMMA FacadeKept ==
  ASSUME NEW s \in Adapter, sdl' = s, contexts' = contexts, \A c \in Contexts : Agrees(c),
         \A c \in Contexts : Making(c)' <=> Making(c),
         \A c \in Contexts : s.ctx[c].live = sdl.ctx[c].live,
         \A c \in Contexts : c \in contexts => Alike(rec'[c], s.ctx[c])
  PROVE  \A c \in Contexts : Agrees(c)'
BY DEF Agrees

(* Between two commands every context that is found is open.                 *)
LEMMA OpenNow ==
  ASSUME DestroyingGoesOn, Named, step.op # "destroy", NEW c \in Contexts, c \in contexts
  PROVE  rec[c].life = "Open"
BY DEF DestroyingGoesOn, Named

LEMMA FacadeMakes ==
  ASSUME InputTypeInv, DestroyingGoesOn, Named, Queued, sink, \A c \in Contexts : Agrees(c), Makes
  PROVE  \A c \in Contexts : Agrees(c)'
<1>0. sdl \in Adapter /\ rec \in Records
  BY DEF InputTypeInv
<1>1. PICK cmd \in Commands, ok \in BOOLEAN : cmd.op = "create" /\ CreateContext(cmd, ok)
  BY DEF Makes
<1>2. Runs(cmd) /\ contexts' = contexts
  BY <1>1 DEF CreateContext
<1>3. cmd.c \in Contexts /\ cmd.w \in Windows /\ ~sdl.ctx[cmd.c].live
  BY <1>1, <1>2, CreateTakes, CommandFields DEF Unmade
<1>4. PICK c \in Contexts, w \in Windows : c = cmd.c /\ w = cmd.w
  BY <1>3
<1>5. /\ step = NoStep
      /\ UNCHANGED <<sdl, step>> \/ step' = [op |-> "create", c |-> c]
  BY <1>1, <1>4, MadeContexts
<1>6. step.op # "destroy" /\ \A d \in Contexts : ~Making(d)
  BY <1>5 DEF NoStep, Making
<1>7. CASE stopping \/ ~sdl.win[cmd.w].alive
  <2>1. UNCHANGED <<sdl, rec, step>>
    BY <1>1, <1>7 DEF CreateContext
  <2> QED BY <1>2, <2>1 DEF Agrees, Making
<1>8. CASE ~(stopping \/ ~sdl.win[cmd.w].alive)
  <2> DEFINE wants == cmd.wants
  <2>1. PICK no \in BOOLEAN : no = FALSE
    OBVIOUS
  <2>2. /\ sdl' = CreateInputContext(sdl, c, w, wants, ok)
        /\ Refreshed(sdl', w, no)
        /\ step' = [op |-> "create", c |-> c]
    BY <1>1, <1>4, <1>8, <2>1 DEF CreateContext
  <2>3. PICK t \in Adapter : /\ CreateInputContext(sdl, c, w, wants, ok) = t
                             /\ \A d \in Contexts \ {c} : Spares(sdl, t, d, w)
    BY <1>0, <1>3, <1>4, CreateGives
  <2> HIDE DEF wants
  <2>4. /\ t.ctx[c].live
        /\ \A d \in Contexts \ {c} : t.ctx[d].live = sdl.ctx[d].live
    BY <1>0, <2>3, CreateInputContextType
  <2>5. sdl' = t /\ Refreshed(t, w, no)
    BY <2>2, <2>3
  <2>6. c \notin contexts
    BY <1>3, <1>4 DEF Agrees
  <2>7. Agrees(c)'
    BY <1>2, <2>2, <2>4, <2>5, <2>6 DEF Agrees, Making
  <2>8. ASSUME NEW d \in Contexts, d # c PROVE Agrees(d)'
    <3>1. d \in contexts => Alike(rec'[d], t.ctx[d])
      BY <1>0, <1>6, <2>3, <2>5, <2>8, OpenNow, RefreshedAlike DEF Agrees
    <3>2. ~Making(d)'
      BY <2>2, <2>8 DEF Making
    <3> QED BY <1>2, <1>6, <2>4, <2>5, <2>8, <3>1, <3>2 DEF Agrees
  <2> QED BY <2>7, <2>8
<1> QED BY <1>7, <1>8

LEMMA FacadeCreated ==
  ASSUME InputTypeInv, FencedInv, Named, ~stopping, \A c \in Contexts : Agrees(c), CreateContextOnRuntime
  PROVE  \A c \in Contexts : Agrees(c)'
<1>0. sdl \in Adapter /\ rec \in Records
  BY DEF InputTypeInv
<1>1. PICK c \in Contexts : c = step.c
  BY StepFields DEF CreateContextOnRuntime, InputTypeInv
<1>2. /\ step.op = "create" /\ step' = NoStep
      /\ rec' = Configured([rec EXCEPT ![c].life = "Open"], sdl, c)
      /\ contexts' = contexts \cup {c}
      /\ sdl' = sdl
  BY <1>1 DEF CreateContextOnRuntime, StoppedMeanwhile
<1>3. PICK life \in Lives : life = "Open"
  BY DEF Lives
<1>4. PICK q \in Records : /\ [rec EXCEPT ![c].life = life] = q
                           /\ \A d \in Contexts \ {c} : q[d] = rec[d]
  BY <1>0, LifeSet
<1>5. PICK r : r = Configured(q, sdl, c)
  OBVIOUS
<1>6. rec' = r
  BY <1>2, <1>3, <1>4, <1>5
<1>7. Alike(r[c], sdl.ctx[c]) /\ \A d \in Contexts \ {c} : r[d] = rec[d]
  BY <1>0, <1>4, <1>5, ConfiguredAlike, ConfiguredType
<1>8. Making(c) /\ \A d \in Contexts \ {c} : ~Making(d)
  BY <1>1, <1>2 DEF Making
<1>9. \A d \in Contexts : ~Making(d)'
  BY <1>2 DEF Making, NoStep
<1>10. sdl.ctx[c].live
  BY <1>8 DEF Named
<1> QED BY <1>2, <1>6, <1>7, <1>8, <1>9, <1>10 DEF Agrees

(* A mutation tells the manager of the window's other contexts exactly when  *)
(* it refreshes them.                                                        *)
LEMMA MutationSpares ==
  ASSUME InputTypeInv, NEW cmd \in Commands, NEW ok \in BOOLEAN, cmd.op \in {"enable", "capture", "relative"},
         sdl.ctx[cmd.c].live
  PROVE  \E t \in Adapter :
           /\ Mutated(cmd, ok) = t /\ SameRoutes(sdl, t)
           /\ \A d \in Contexts \ {cmd.c} :
                /\ Reports(cmd) => SparesBound(sdl, t, d, t.ctx[cmd.c].target)
                /\ ~Reports(cmd) => t.ctx[d] = sdl.ctx[d]
<1>0. sdl \in Adapter
  BY DEF InputTypeInv
<1>1. PICK c \in Contexts, b \in BOOLEAN : c = cmd.c /\ b = cmd.b
  BY CommandFields
<1>2. PICK t \in Adapter : Mutated(cmd, ok) = t /\ t.win = sdl.win /\ SameRoutes(sdl, t)
  BY MutatedType
<1>3. t.ctx[c].target = sdl.ctx[c].target
  BY <1>1, <1>2 DEF SameRoutes
<1>4. CASE cmd.op = "enable"
  <2>1. PICK u \in Adapter : /\ SetContextEnabled(sdl, c, b, ok) = u
                             /\ \A d \in Contexts \ {c} : Spares(sdl, u, d, sdl.ctx[c].target)
    BY <1>0, <1>1, EnableGives
  <2>2. t = u
    BY <1>1, <1>2, <1>4, <2>1 DEF Mutated
  <2>3. Reports(cmd) <=> Alive(t, sdl.ctx[c].target)
    BY <1>1, <1>2, <1>4 DEF Reports, Alive
  <2> QED BY <1>1, <1>2, <1>3, <2>1, <2>2, <2>3 DEF Spares, SparesBound, SameRoutes
<1>5. CASE cmd.op \in {"capture", "relative"}
  <2>1. PICK u \in Adapter : /\ SetContextCapture(sdl, c, b, ok) = u
                             /\ CanHoldPointer(sdl, c) => \A d \in Contexts \ {c} : Spares(sdl, u, d, sdl.ctx[c].target)
                             /\ ~CanHoldPointer(sdl, c) => \A d \in Contexts \ {c} : u.ctx[d] = sdl.ctx[d]
    BY <1>0, <1>1, CaptureGives
  <2>2. PICK v \in Adapter : /\ SetRelativePointerMode(sdl, c, b, ok) = v
                             /\ CanHoldPointer(sdl, c) => \A d \in Contexts \ {c} : Spares(sdl, v, d, sdl.ctx[c].target)
                             /\ ~CanHoldPointer(sdl, c) => \A d \in Contexts \ {c} : v.ctx[d] = sdl.ctx[d]
    BY <1>0, <1>1, RelativeGives
  <2>3. t = u \/ t = v
    BY <1>1, <1>2, <1>5, <2>1, <2>2 DEF Mutated
  <2>4. Reports(cmd) <=> CanHoldPointer(sdl, c)
    BY <1>1, <1>5 DEF Reports, CanHoldPointer
  <2> QED BY <1>1, <1>2, <1>3, <2>1, <2>2, <2>3, <2>4 DEF Spares, SparesBound, SameRoutes
<1> QED BY <1>4, <1>5

LEMMA TakenAlike ==
  ASSUME InputTypeInv, NEW cmd \in Commands, cmd.op \in {"enable", "capture", "relative"}, NEW s \in Adapter
  PROVE  \E r \in Records, x \in Records :
           /\ Told(cmd, s) = r
           /\ Taken(cmd, r, s) = x
           /\ Alike(x[cmd.c], s.ctx[cmd.c])
           /\ \A d \in Contexts \ {cmd.c} : x[d] = r[d]
<1>1. PICK c \in Contexts : c = cmd.c
  BY CommandFields
<1>2. PICK r \in Records : Told(cmd, s) = r
  BY ToldRecordsType DEF InputTypeInv
<1> DEFINE q == IF r[c].enabled /\ ~s.ctx[c].enabled THEN [r EXCEPT ![c].pressed = {}] ELSE r
<1>3. q \in Records /\ \A d \in Contexts \ {c} : q[d] = r[d]
  BY DEF Records, RecordType
<1>4. Taken(cmd, r, s) = Configured(q, s, c)
  BY <1>1 DEF Taken
<1> HIDE DEF q
<1>5. PICK x : x = Configured(q, s, c)
  OBVIOUS
<1>6. x \in Records /\ Alike(x[c], s.ctx[c]) /\ \A d \in Contexts \ {c} : x[d] = q[d]
  BY <1>3, <1>5, ConfiguredType, ConfiguredAlike
<1> QED BY <1>1, <1>2, <1>3, <1>4, <1>5, <1>6

LEMMA FacadeMutates ==
  ASSUME InputTypeInv, DestroyingGoesOn, Named, sink, \A c \in Contexts : Agrees(c),
         NEW cmd \in Commands, NEW ok \in BOOLEAN, cmd.op \in {"enable", "capture", "relative"},
         MutateOnRuntime(cmd, ok)
  PROVE  \A c \in Contexts : Agrees(c)'
<1>0. sdl \in Adapter /\ rec \in Records
  BY DEF InputTypeInv
<1>1. contexts' = contexts /\ step' = step /\ Runs(cmd)
  BY DEF MutateOnRuntime
<1>2. \A c \in Contexts : Making(c)' <=> Making(c)
  BY <1>1 DEF Making
<1>3. CASE UNCHANGED <<sdl, rec>>
  BY <1>1, <1>2, <1>3 DEF Agrees
<1>4. CASE sdl.ctx[cmd.c].live /\ sdl' = Mutated(cmd, ok) /\ rec' = Taken(cmd, Told(cmd, sdl'), sdl')
  <2>1. PICK t \in Adapter :
          /\ Mutated(cmd, ok) = t /\ SameRoutes(sdl, t)
          /\ \A d \in Contexts \ {cmd.c} :
               /\ Reports(cmd) => SparesBound(sdl, t, d, t.ctx[cmd.c].target)
               /\ ~Reports(cmd) => t.ctx[d] = sdl.ctx[d]
    BY <1>4, MutationSpares
  <2>2. PICK r \in Records, x \in Records :
          /\ Told(cmd, t) = r
          /\ Taken(cmd, r, t) = x
          /\ Alike(x[cmd.c], t.ctx[cmd.c])
          /\ \A d \in Contexts \ {cmd.c} : x[d] = r[d]
    BY TakenAlike
  <2>3. sdl' = t
    BY <1>4, <2>1
  <2>4. rec' = x
    BY <1>4, <2>2, <2>3
  <2>5. step.op # "destroy"
    BY <1>1, RunsType DEF NoStep
  <2>6. ASSUME NEW d \in Contexts, d \in contexts, d # cmd.c PROVE Alike(x[d], t.ctx[d])
    <3>1. rec[d].life = "Open" /\ Alike(rec[d], sdl.ctx[d])
      BY <2>5, <2>6, OpenNow DEF Agrees
    <3>2. CASE Reports(cmd)
      <4>0. PICK no \in BOOLEAN : no = FALSE
        OBVIOUS
      <4>1. PICK w : w = t.ctx[cmd.c].target
        OBVIOUS
      <4>2. r = ApplyTargetConfiguration(rec, t, w, no)
        BY <2>2, <3>2, <4>0, <4>1 DEF Told
      <4>3. SparesBound(sdl, t, d, w)
        BY <2>1, <2>6, <3>2, <4>1
      <4> QED BY <1>0, <2>2, <2>6, <3>1, <4>2, <4>3, AppliedAlike
    <3>3. CASE ~Reports(cmd)
      <4>1. r = rec
        BY <2>2, <3>3 DEF Told
      <4> QED BY <2>1, <2>2, <2>6, <3>1, <3>3, <4>1
    <3> QED BY <3>2, <3>3
  <2>7. \A d \in Contexts : d \in contexts => Alike(x[d], t.ctx[d])
    BY <2>2, <2>6
  <2> QED BY <1>1, <1>2, <2>1, <2>3, <2>4, <2>7, FacadeKept DEF SameRoutes
<1> QED BY <1>3, <1>4 DEF MutateOnRuntime

LEMMA FacadeDestroys ==
  ASSUME InputTypeInv, \A c \in Contexts : Agrees(c), NEW cmd \in Commands, cmd.op = "destroy", DestroyContext(cmd)
  PROVE  \A c \in Contexts : Agrees(c)'
<1>0. sdl \in Adapter /\ rec \in Records
  BY DEF InputTypeInv
<1>1. contexts' = contexts /\ sdl' = sdl /\ step = NoStep
  BY RunsType DEF DestroyContext, adapter
<1>2. PICK c \in Contexts : c = cmd.c
  BY CommandFields
<1>3. \A d \in Contexts : ~Making(d) /\ ~Making(d)'
  BY <1>1 DEF DestroyContext, Making, NoStep
<1>4. rec' = rec \/ rec' = [rec EXCEPT ![c].life = "Destroying"]
  BY <1>2 DEF DestroyContext
<1>5. \A d \in Contexts : /\ rec'[d].enabled = rec[d].enabled /\ rec'[d].captured = rec[d].captured
                          /\ rec'[d].relative = rec[d].relative
  BY <1>0, <1>4 DEF Records, RecordType
<1>6. \A d \in Contexts : d \in contexts => Alike(rec'[d], sdl.ctx[d])
  BY <1>5 DEF Agrees, Alike
<1> QED BY <1>0, <1>1, <1>3, <1>6, FacadeKept

LEMMA FacadeDestroyed ==
  ASSUME InputTypeInv, DestroyingGoesOn, Named, sink, \A c \in Contexts : Agrees(c), DestroyContextOnRuntime
  PROVE  \A c \in Contexts : Agrees(c)'
<1>0. sdl \in Adapter /\ rec \in Records
  BY DEF InputTypeInv
<1>1. PICK c \in Contexts, yes \in BOOLEAN, no \in BOOLEAN : c = step.c /\ yes = TRUE /\ no = FALSE
  BY StepFields DEF DestroyContextOnRuntime, InputTypeInv
<1>2. PICK w : w = sdl.ctx[c].target
  OBVIOUS
<1>3. PICK t \in Adapter : /\ DestroyInputContext(sdl, c, yes) = t
                           /\ \A d \in Contexts \ {c} : Spares(sdl, t, d, w)
  BY <1>0, <1>2, DestroyGives
<1>4. /\ ~t.ctx[c].live
      /\ \A d \in Contexts \ {c} : t.ctx[d].live = sdl.ctx[d].live
  BY <1>0, <1>3, DestroyInputContextType
<1>5. /\ step.op = "destroy" /\ step' = NoStep /\ sdl' = t /\ contexts' = contexts \ {c}
  BY <1>1, <1>3 DEF DestroyContextOnRuntime
<1>6. PICK told \in Records : told = ApplyTargetConfiguration(rec, t, w, no)
  BY <1>0, <1>1, ToldType
<1>7. rec' = [told EXCEPT ![c].life = "Destroyed", ![c].pressed = {}]
  BY <1>1, <1>2, <1>5, <1>6 DEF DestroyContextOnRuntime
<1>8. \A d \in Contexts \ {c} : rec'[d] = told[d]
  BY <1>7 DEF Records
<1>9. \A d \in Contexts : ~Making(d) /\ ~Making(d)'
  BY <1>5 DEF Making, NoStep
<1>10. ASSUME NEW d \in Contexts, d \in contexts, d # c PROVE Alike(rec'[d], t.ctx[d])
  <2>1. rec[d].life = "Open" /\ Alike(rec[d], sdl.ctx[d])
    BY <1>1, <1>10 DEF DestroyingGoesOn, Named, Agrees
  <2>2. SparesBound(sdl, t, d, w)
    BY <1>3, <1>10 DEF Spares, SparesBound
  <2> QED BY <1>0, <1>6, <1>8, <1>10, <2>1, <2>2, AppliedAlike
<1>11. Agrees(c)'
  BY <1>4, <1>5 DEF Agrees
<1>12. ASSUME NEW d \in Contexts, d # c PROVE Agrees(d)'
  BY <1>4, <1>5, <1>9, <1>10, <1>12 DEF Agrees
<1> QED BY <1>11, <1>12

LEMMA PumpStays == ASSUME [Next]_vars, pump = "stopped" PROVE pump' = "stopped"
<1>1. CASE EventThread
  <2>1. CASE Executes
    BY <2>1 DEF Executes, Execute, CreateContext, MutateOnRuntime, DestroyContext, CleanupOnRuntime
  <2>2. CASE \/ CreateContextOnRuntime \/ DestroyContextOnRuntime \/ PublishDeviceChanged \/ Invoke
             \/ CallbackReturns \/ Woken \/ StopPump \/ TakeDeviceEvent \/ DiscoverConnectedDevicesOnRuntime
    BY <2>2 DEF CreateContextOnRuntime, DestroyContextOnRuntime, PublishDeviceChanged, Invoke, CallbackReturns,
       Woken, StopPump, TakeDeviceEvent, DiscoverConnectedDevicesOnRuntime, runtime
  <2>3. CASE DestroyContextUnderLock
    BY <2>3 DEF DestroyContextUnderLock, runtime
  <2> QED BY <1>1, <2>1, <2>2, <2>3 DEF EventThread, Cleanup, Publish, WindowInput, WindowMutation
<1>2. CASE Teardown
  BY <1>2 DEF Teardown, DetachAllContexts, MarkRecordDestroyed, Fence, DeactivateManagerSubscriptions, PostCleanup,
     runtime
<1>3. CASE Delivery
  BY <1>3 DEF Delivery, DispatchFocus, DispatchClosed, DispatchInput, DispatchTouchEvent, DispatchDeviceEvent,
     Occurs, Delivered
<1>4. CASE OtherThreads
  BY <1>4 DEF OtherThreads, Submit, SubmitWindow, Subscribe, Reset, BeginTeardown, RequestStop, runtime
<1>5. CASE \/ \E s \in Subs : ResetInCallback(s)
           \/ \E connected \in SUBSET Devices : StartPump(connected)
           \/ \E w \in Windows \cup {NoWindow} : FocusMoves(w)
           \/ Wait \/ UNCHANGED vars
  BY <1>5 DEF ResetInCallback, StartPump, FocusMoves, Wait, vars, runtime
<1> QED BY <1>1, <1>2, <1>3, <1>4, <1>5 DEF Next

LEMMA FacadeWindow ==
  ASSUME InputTypeInv, DestroyingGoesOn, Named, sink, \A c \in Contexts : Agrees(c), NEW w \in Windows,
         WindowMutation(w) \/ \E b, ok \in BOOLEAN : WindowInput(w, b, ok)
  PROVE  \A c \in Contexts : Agrees(c)'
<1>0. sdl \in Adapter /\ rec \in Records
  BY DEF InputTypeInv
<1>1. contexts' = contexts /\ step' = step /\ step = NoStep
  BY DEF WindowMutation, WindowInput, tables, Idle
<1>2. step.op # "destroy" /\ \A c \in Contexts : Making(c)' <=> Making(c)
  BY <1>1 DEF Making, NoStep
<1>3. CASE UNCHANGED <<sdl, rec>>
  BY <1>1, <1>2, <1>3 DEF Agrees
<1>4. ASSUME NEW s \in Adapter, sdl' = s, s.ctx = sdl.ctx, rec' = rec PROVE \A c \in Contexts : Agrees(c)'
  BY <1>1, <1>2, <1>4 DEF Agrees
<1>5. CASE WindowMutation(w) /\ sdl.win[w].alive
  <2>1. PICK t \in Adapter : Query(sdl, w) = t /\ t.ctx = sdl.ctx
    BY <1>0, QueryGives
  <2> QED BY <1>4, <1>5, <2>1 DEF WindowMutation, tables
<1>6. ASSUME NEW b \in BOOLEAN, NEW ok \in BOOLEAN, WindowInput(w, b, ok), sdl.win[w].alive
      PROVE  \A c \in Contexts : Agrees(c)'
  <2>1. PICK t \in Adapter : /\ SetInputEnabled(sdl, w, b, ok) = t
                             /\ sdl.win[w].enabled = b => t.ctx = sdl.ctx
                             /\ \A d \in Contexts : Spares(sdl, t, d, w)
    BY <1>0, EnableWindowGives
  <2>2. SameRoutes(sdl, t)
    BY <1>0, <2>1, SetInputEnabledType
  <2>3. sdl' = t /\ (IF sdl.win[w].enabled = b THEN UNCHANGED rec ELSE Refreshed(t, w, ~b))
    BY <1>6, <2>1 DEF WindowInput
  <2>4. CASE sdl.win[w].enabled = b
    BY <1>4, <2>1, <2>3, <2>4
  <2>5. CASE Refreshed(t, w, ~b)
    <3>1. PICK invalidated : invalidated = ~b
      OBVIOUS
    <3>2. Refreshed(t, w, invalidated)
      BY <2>5, <3>1
    <3>3. \A d \in Contexts : d \in contexts => Alike(rec'[d], t.ctx[d])
      BY <1>0, <1>2, <2>1, <3>2, OpenNow, RefreshedAlike DEF Agrees
    <3> QED BY <1>1, <1>2, <2>2, <2>3, <3>3, FacadeKept DEF SameRoutes
  <2> QED BY <2>3, <2>4, <2>5
<1> QED BY <1>3, <1>5, <1>6 DEF WindowMutation, WindowInput, tables

LEMMA FacadeTold ==
  ASSUME InputTypeInv, Turns, DestroyingGoesOn, Named, sink, \A c \in Contexts : Agrees(c),
         NEW w \in Windows, NEW gained \in BOOLEAN, NEW ok \in BOOLEAN, DispatchFocus(w, gained, ok)
  PROVE  \A c \in Contexts : Agrees(c)'
<1>0. sdl \in Adapter /\ rec \in Records
  BY DEF InputTypeInv
<1>1. contexts' = contexts /\ step' = step /\ step = NoStep
  BY DEF DispatchFocus, Delivered, Turns, Idle
<1>2. step.op # "destroy" /\ \A c \in Contexts : Making(c)' <=> Making(c)
  BY <1>1 DEF Making, NoStep
<1>3. PICK t \in Adapter : /\ FocusGained(sdl, w, ok) = t
                           /\ ~sdl.win[w].enabled => t.ctx = sdl.ctx
                           /\ \A d \in Contexts : Spares(sdl, t, d, w)
  BY <1>0, FocusGainedGives
<1>4. PICK u \in Adapter : /\ FocusLost(sdl, w, ok) = u
                           /\ \A d \in Contexts : Spares(sdl, u, d, w)
  BY <1>0, FocusLostGives
<1>5. SameRoutes(sdl, t) /\ SameRoutes(sdl, u)
  BY <1>0, <1>3, <1>4, FocusGainedType, FocusLostType
<1>6. PICK invalidated : invalidated = ~gained
  OBVIOUS
<1>7. \/ UNCHANGED <<sdl, rec>>
      \/ sdl' = t /\ rec' = rec /\ ~sdl.win[w].enabled
      \/ sdl' = t /\ Refreshed(t, w, invalidated)
      \/ sdl' = u /\ Refreshed(u, w, invalidated)
  BY <1>3, <1>4, <1>6 DEF DispatchFocus
<1>8. ASSUME NEW s \in Adapter, sdl' = s, Refreshed(s, w, invalidated), \A d \in Contexts : Spares(sdl, s, d, w),
             SameRoutes(sdl, s)
      PROVE  \A c \in Contexts : Agrees(c)'
  <2>1. \A d \in Contexts : d \in contexts => Alike(rec'[d], s.ctx[d])
    BY <1>0, <1>2, <1>8, OpenNow, RefreshedAlike DEF Agrees
  <2> QED BY <1>1, <1>2, <1>8, <2>1, FacadeKept DEF SameRoutes
<1>9. CASE UNCHANGED <<sdl, rec>>
  BY <1>1, <1>2, <1>9 DEF Agrees
<1>10. CASE sdl' = t /\ rec' = rec /\ ~sdl.win[w].enabled
  BY <1>1, <1>2, <1>3, <1>10 DEF Agrees
<1>11. CASE sdl' = t /\ Refreshed(t, w, invalidated)
  BY <1>3, <1>5, <1>8, <1>11
<1>12. CASE sdl' = u /\ Refreshed(u, w, invalidated)
  BY <1>4, <1>5, <1>8, <1>12
<1> QED BY <1>7, <1>9, <1>10, <1>11, <1>12

LEMMA FacadeClosed ==
  ASSUME InputTypeInv, Turns, DestroyingGoesOn, Named, sink, \A c \in Contexts : Agrees(c),
         NEW w \in Windows, NEW taken \in BOOLEAN, NEW ok \in BOOLEAN, DispatchClosed(w, taken, ok)
  PROVE  \A c \in Contexts : Agrees(c)'
<1>0. sdl \in Adapter /\ rec \in Records
  BY DEF InputTypeInv
<1>1. contexts' = contexts /\ step' = step /\ step = NoStep
  BY DEF DispatchClosed, Occurs, Delivered, Turns, Idle
<1>2. step.op # "destroy" /\ \A c \in Contexts : Making(c)' <=> Making(c)
  BY <1>1 DEF Making, NoStep
<1>3. PICK ws \in SUBSET Windows : ws = {w}
  OBVIOUS
<1>4. PICK yes \in BOOLEAN : yes = TRUE
  OBVIOUS
<1>5. PICK last \in Adapter, t \in Adapter :
        /\ (IF taken THEN InvalidateRemovedInputTarget(sdl, w, ok) ELSE PrepareWindowRemoval(sdl, {w})) = last
        /\ Erase(last, ws) = t /\ t.ctx = last.ctx
        /\ \A d \in Contexts : SparesBound(sdl, last, d, w)
  <2>1. PICK l1 \in Adapter, t1 \in Adapter : /\ InvalidateRemovedInputTarget(sdl, w, ok) = l1
                                              /\ Erase(l1, ws) = t1 /\ t1.ctx = l1.ctx
                                              /\ \A d \in Contexts : SparesBound(sdl, l1, d, w)
    BY <1>0, <1>3, TakenGives
  <2>2. PICK l2 \in Adapter, t2 \in Adapter : /\ PrepareWindowRemoval(sdl, ws) = l2
                                              /\ Erase(l2, ws) = t2 /\ t2.ctx = l2.ctx
                                              /\ \A d \in Contexts : SparesBound(sdl, l2, d, w)
    BY <1>0, <1>3, PreparedGives
  <2>3. CASE taken
    BY <2>1, <2>3
  <2>4. CASE ~taken
    BY <1>3, <2>2, <2>4
  <2> QED BY <2>3, <2>4
<1>6. SameRoutes(sdl, last)
  BY <1>5, LastType
<1>7. rec' = ApplyTargetConfiguration(rec, last, w, yes) /\ sdl' = t
  BY <1>3, <1>4, <1>5 DEF DispatchClosed
<1>8. \A d \in Contexts : d \in contexts => Alike(rec'[d], t.ctx[d])
  BY <1>0, <1>2, <1>5, <1>7, OpenNow, AppliedAlike DEF Agrees
<1> QED BY <1>1, <1>2, <1>5, <1>6, <1>7, <1>8, FacadeKept DEF SameRoutes

(* The other steps.                                                          *)
FacadeCalm ==
  /\ UNCHANGED <<sdl, contexts>>
  /\ \A c \in Contexts : Making(c)' <=> Making(c)
  /\ \A c \in Contexts : /\ rec'[c].enabled = rec[c].enabled /\ rec'[c].captured = rec[c].captured
                         /\ rec'[c].relative = rec[c].relative

LEMMA FacadeUndisturbed ==
  ASSUME \A c \in Contexts : Agrees(c), FacadeCalm
  PROVE  \A c \in Contexts : Agrees(c)'
BY DEF FacadeCalm, Agrees, Alike

LEMMA PublishCalm ==
  ASSUME InputTypeInv, NEW c \in Contexts, NEW kind \in Kinds, NEW down \in BOOLEAN, Publish(c, kind, down)
  PROVE  FacadeCalm
<1>1. rec \in Records
  BY DEF InputTypeInv
<1>2. UNCHANGED <<sdl, contexts, step>>
  BY DEF Publish, adapter
<1>3. CASE UNCHANGED rec
  BY <1>2, <1>3 DEF FacadeCalm, Making
<1>4. CASE rec' = [rec EXCEPT ![c].pressed = After(@, kind, down)]
  <2>1. PICK p : p = After(rec[c].pressed, kind, down)
    OBVIOUS
  <2>2. rec' = [rec EXCEPT ![c].pressed = p]
    BY <1>1, <1>4, <2>1 DEF Records, RecordType
  <2>3. \A d \in Contexts : /\ rec'[d].enabled = rec[d].enabled /\ rec'[d].captured = rec[d].captured
                            /\ rec'[d].relative = rec[d].relative
    BY <1>1, <2>2 DEF Records, RecordType
  <2> QED BY <1>2, <2>3 DEF FacadeCalm, Making
<1> QED BY <1>3, <1>4 DEF Publish

LEMMA StepCalm ==
  ASSUME UNCHANGED <<sdl, contexts, rec>>, step' = step \/ (step.op # "create" /\ step'.op # "create")
  PROVE  FacadeCalm
BY DEF FacadeCalm, Making

LEMMA FacadeEvent ==
  ASSUME InputTypeInv, EventThread, ~Executes, ~CreateContextOnRuntime, ~DestroyContextOnRuntime, ~StopPump,
         \A cs \in SUBSET Contexts : ~Cleanup(cs),
         \A w \in Windows : ~WindowMutation(w), \A w \in Windows, b, ok \in BOOLEAN : ~WindowInput(w, b, ok),
         ~stopping
  PROVE  FacadeCalm
<1>1. CASE Invoke \/ CallbackReturns \/ Woken \/ DiscoverConnectedDevicesOnRuntime
  <2>1. UNCHANGED <<sdl, contexts, rec, step>>
    BY <1>1 DEF Invoke, CallbackReturns, Woken, DiscoverConnectedDevicesOnRuntime, adapter, tables
  <2> QED BY <2>1, StepCalm
<1>2. CASE TakeDeviceEvent
  <2>1. UNCHANGED <<sdl, contexts, rec>> /\ step = NoStep
    BY <1>2 DEF TakeDeviceEvent, adapter, tables, Idle
  <2>2. step' = NoStep \/ step'.op = "device"
    BY <1>2 DEF TakeDeviceEvent
  <2> QED BY <2>1, <2>2, StepCalm DEF NoStep
<1>3. CASE PublishDeviceChanged
  <2>1. UNCHANGED <<sdl, contexts, rec>> /\ step' = NoStep /\ step.op = "device"
    BY <1>3 DEF PublishDeviceChanged, adapter
  <2> QED BY <2>1, StepCalm DEF NoStep
<1>4. ~DestroyContextUnderLock
  BY DEF DestroyContextUnderLock, StoppedMeanwhile
<1> QED BY <1>1, <1>2, <1>3, <1>4, PublishCalm DEF EventThread

LEMMA FacadeNext ==
  InputTypeInv /\ FencedInv /\ Turns /\ DestroyingGoesOn /\ Named /\ Queued /\ Running /\ FacadeInv /\ [Next]_vars
    => FacadeInv'
<1> SUFFICES ASSUME InputTypeInv, FencedInv, Turns, DestroyingGoesOn, Named, Queued, Running, FacadeInv,
                    [Next]_vars, ~stopping', pump' # "stopped"
             PROVE  \A c \in Contexts : Agrees(c)'
  BY DEF FacadeInv
<1>1. ~stopping /\ teardown = "none" /\ sink /\ ~Left(queue)
  BY StoppingStays DEF Running
<1>2. pump # "stopped"
  BY PumpStays
<1>3. \A c \in Contexts : Agrees(c)
  BY <1>1, <1>2 DEF FacadeInv
<1>4. CASE Executes
  <2>1. PICK cmd \in Commands : Execute(cmd)
    BY <1>4 DEF Executes
  <2>2. CASE Makes
    BY <1>1, <1>3, <2>2, FacadeMakes
  <2>3. ASSUME CleanupOnRuntime(cmd) PROVE FALSE
    BY <1>1, <2>3 DEF CleanupOnRuntime
  <2> QED BY <1>1, <1>3, <2>1, <2>2, <2>3, FacadeMutates, FacadeDestroys DEF Execute, Makes
<1>5. ASSUME NEW cs \in SUBSET Contexts, Cleanup(cs) PROVE FALSE
  <2>1. queue # <<>> /\ Head(queue).op = "cleanup"
    BY <1>5 DEF Cleanup
  <2>2. 1 \in 1..Len(queue) /\ queue[1].op = "cleanup"
    BY <2>1 DEF InputTypeInv
  <2> QED BY <1>1, <2>2 DEF Left
<1>6. CASE EventThread
  <2>1. ~StopPump
    BY DEF StopPump
  <2> QED BY <1>1, <1>3, <1>4, <1>5, <1>6, <2>1, FacadeCreated, FacadeDestroyed, FacadeWindow, FacadeEvent,
             FacadeUndisturbed
<1>7. ~Teardown
  BY <1>1 DEF Teardown, DetachAllContexts, MarkRecordDestroyed, Fence, DeactivateManagerSubscriptions, PostCleanup
<1>8. CASE Delivery
  <2>1. CASE \/ \E w \in Windows, kind \in Kinds \ {"touch"}, down \in BOOLEAN : DispatchInput(w, kind, down)
             \/ \E w \in Windows, d \in Devices, down \in BOOLEAN : DispatchTouchEvent(w, d, down)
             \/ \E d \in Devices, v \in Versions : DispatchDeviceEvent(d, v)
    <3>1. UNCHANGED <<sdl, contexts, rec, step>>
      BY <2>1 DEF DispatchInput, DispatchTouchEvent, DispatchDeviceEvent, adapter, tables
    <3> QED BY <1>3, <3>1, StepCalm, FacadeUndisturbed
  <2> QED BY <1>1, <1>3, <1>8, <2>1, FacadeTold, FacadeClosed DEF Delivery
<1>9. CASE OtherThreads
  <2>1. UNCHANGED <<sdl, contexts, rec, step>>
    BY <1>9 DEF OtherThreads, Submit, SubmitWindow, Subscribe, Reset, BeginTeardown, RequestStop, adapter, tables
  <2> QED BY <1>3, <2>1, StepCalm, FacadeUndisturbed
<1>10. CASE \/ \E s \in Subs : ResetInCallback(s)
            \/ \E connected \in SUBSET Devices : StartPump(connected)
            \/ \E w \in Windows \cup {NoWindow} : FocusMoves(w)
            \/ Wait \/ UNCHANGED vars
  <2>1. UNCHANGED <<sdl, contexts, rec, step>>
    BY <1>10 DEF ResetInCallback, StartPump, FocusMoves, Wait, vars, adapter, tables
  <2> QED BY <1>3, <2>1, StepCalm, FacadeUndisturbed
<1> QED BY <1>6, <1>7, <1>8, <1>9, <1>10 DEF Next

(* Manager, adapter and system agree: what a facade shows of a context is    *)
(* what the adapter does with it, and the pointer and text modes the adapter *)
(* asked of the system are those that a window that takes input still wants, *)
(* however commands, the focus, closing windows and creations that are under *)
(* way are interleaved (OnTargetInputChanged, RefreshTargetPointerModes):    *)
(* for any number of windows, contexts and events.                           *)
THEOREM LayersAgreeHolds == Spec => []LayersAgree
<1>1. Spec => []InputTypeInv
  BY InputTypeInit, InputTypeNext, PTL DEF Spec
<1>2. Spec => []FencedInv
  BY <1>1, FencedInit, FencedNext, PTL DEF Spec
<1>3. Spec => []Turns
  BY <1>1, ReleasedInit, TurnsNext, PTL DEF Spec
<1>4. Spec => []DestroyingGoesOn
  BY <1>1, <1>3, ReleasedInit, DestroyingNext, PTL DEF Spec
<1>5. Spec => []ReleasedInv
  BY <1>1, <1>2, <1>3, ReleasedInit, ReleasedNext, PTL DEF Spec
<1>6. Spec => [](Named /\ Ending /\ Queued)
  <2>1. Init => Named /\ Ending /\ Queued
    BY NamedInit, EndingInit
  <2>2. InputTypeInv /\ FencedInv /\ Turns /\ (Named /\ Ending /\ Queued) /\ [Next]_vars
          => (Named /\ Ending /\ Queued)'
    BY NamedNext, EndingNext, QueuedNext
  <2> QED BY <1>1, <1>2, <1>3, <2>1, <2>2, PTL DEF Spec
<1>7. Spec => []SinkInv
  BY <1>1, ReleasedInit, SinkNext, PTL DEF Spec
<1>11. Spec => []StuckInv
  BY <1>1, <1>2, <1>3, <1>7, ReleasedInit, StuckNext, PTL DEF Spec
<1>12. Spec => []ModesOrStuck
  <2>1. Init => ModesOrStuck
    BY ModesInit DEF ModesOrStuck
  <2> QED BY <1>1, <1>3, <1>6, <1>11, <2>1, ModesNext, PTL DEF Spec
<1>8. Spec => []Running
  BY <1>1, <1>2, RunningInit, RunningNext, PTL DEF Spec
<1>9. Spec => []FacadeInv
  BY <1>1, <1>2, <1>3, <1>4, <1>6, <1>8, FacadeInit, FacadeNext, PTL DEF Spec
<1>10. InputTypeInv /\ FencedInv /\ DestroyingGoesOn /\ Named /\ ReleasedInv /\ FacadeInv /\ ModesOrStuck => LayersAgree
  BY FacadeImply, ModesImply DEF LayersAgree, ModesOrStuck
<1> QED BY <1>1, <1>2, <1>4, <1>5, <1>6, <1>9, <1>10, <1>12, PTL
===============================================================================
