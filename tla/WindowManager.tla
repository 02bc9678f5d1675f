---------------------------- MODULE WindowManager ----------------------------
(* The window manager on the desktop event thread, over the window table of  *)
(* the SDL backend: creation, destruction, close requests, mutations and     *)
(* native events, with the modal layers that take input away from windows.   *)
(*                                                                           *)
(* Everything here happens on the event thread, one command or native event  *)
(* after the other; what interleaves is the code that subscribers run, which *)
(* may call the manager again from the middle of an operation.  A frame of   *)
(* stack is an operation that has begun and not returned, and one step runs  *)
(* the topmost frame up to its next callback or iteration.                   *)
(*                                                                           *)
(* Titles, geometry, state, focus and the reason of a closing are left out:  *)
(* they follow the configuration they are part of.  So are the presenter and *)
(* failing creations, which are rolled back before anyone sees the window.   *)
EXTENDS Integers, Sequences, FiniteSets, Functions

CONSTANTS
  MaxWindows,        (* how many windows are ever created                    *)
  Controlled,        (* bound: the windows whose input is ever switched      *)
  MaxStack,          (* depth up to which subscribers call back              *)
  ReentrantKinds,    (* the calls that subscribers make                      *)
  ReentrantFrames,   (* the callbacks that they make them from               *)
  NoConfiguration

ASSUME BoundsAssumption ==
  /\ MaxWindows \in Nat \ {0}
  /\ MaxStack \in Nat
  /\ Controlled \subseteq 1 .. MaxWindows
  /\ ReentrantKinds \subseteq {"create", "destroy", "requestClose", "mutate", "setInput"}
  /\ ReentrantFrames \subseteq {"notify", "asking", "closed"}

(* A window's number is its place in the order of creation.                  *)
Windows == 1 .. MaxWindows
NoWindow == 0

Modalities == {"Modeless", "DisableParent", "DisableParentTree", "ApplicationModal"}

NeedsParent(modality) == modality \in {"DisableParent", "DisableParentTree"}

Configuration ==
  {c \in [parent : Windows \cup {NoWindow}, modality : Modalities, input : BOOLEAN] :
     NeedsParent(c.modality) => c.parent # NoWindow}

ASSUME NoConfigurationAssumption == NoConfiguration \notin Configuration

Commands ==
  [kind : {"create"}, parent : Windows \cup {NoWindow}, modality : Modalities]
    \cup [kind : {"destroy", "requestClose", "mutate"}, window : Windows]
    \cup [kind : {"setInput"}, window : Controlled, enabled : BOOLEAN]

VARIABLES
  managed,           (* State::order, the windows that are managed           *)
  lifecycle, configuration, requested, sources,        (* struct Record      *)
  pending,           (* pendingConfigurations                                *)
  native,            (* the backend's window table                           *)
  sink,              (* the backend reports events                           *)
  stopping,
  posts,             (* the flushes queued in the DesktopEventRuntime        *)
  accepting,         (* it takes posts and commands: no stop is requested    *)
  stack,             (* what the event thread is in the middle of            *)
  overtaken          (* history: a reconciliation began within another one,  *)
                     (* which goes on with what it computed before           *)

record == <<lifecycle, configuration, requested, sources>>
vars == <<managed, record, pending, native, sink, stopping, posts, accepting, stack, overtaken>>

Init == /\ managed = {}
        /\ lifecycle = [w \in Windows |-> "none"]
        /\ configuration = [w \in Windows |-> NoConfiguration]
        /\ requested = [w \in Windows |-> TRUE]
        /\ sources = [w \in Windows |-> {}]
        /\ pending = [w \in Windows |-> NoConfiguration]
        /\ native = [w \in Windows |-> NoConfiguration]
        /\ sink = TRUE /\ stopping = FALSE
        /\ posts = <<>> /\ accepting = TRUE
        /\ stack = <<>>
        /\ overtaken = FALSE

IsOpen(w) == lifecycle[w] = "Open"
Exists(w) == native[w] # NoConfiguration

Pop == SubSeq(stack, 1, Len(stack) - 1)
Top == stack[Len(stack)]
InFrame(op) == stack # <<>> /\ Top.op = op
Idle == stack = <<>>
Begun == Range(stack)

(* The window of a set that comes first in the order, and the last one.      *)
Oldest(w, windows) == w \in windows /\ \A v \in windows : w <= v
Newest(w, windows) == w \in windows /\ \A v \in windows : v <= w

------------------------------------------------------------------------------
(* ApplyConfiguration, reached in an operation whose outer frames are rest:  *)
(* the record takes the new configuration, subscribers are told, and a       *)
(* change of parent or modality rebuilds the suppression afterwards.         *)

AsReported(next, by) == next

Suppressed(next, by) == IF by = {} THEN next ELSE [next EXCEPT !.input = FALSE]

ChangesPolicy(old, new) == old.parent # new.parent \/ old.modality # new.modality

Apply(w, next, by, rest) ==
  LET new == Suppressed(next, by)
  IN IF lifecycle[w] = "Destroyed" \/ new = configuration[w]
     THEN UNCHANGED configuration /\ stack' = rest
     ELSE /\ configuration' = [configuration EXCEPT ![w] = new]
          /\ stack' = Append(rest, [op |-> "notify",
                                    policy |-> ChangesPolicy(configuration[w], new)])

(* The backend switches input for w and the record follows.  When the        *)
(* backend no longer has the window, only a suppression is recorded.         *)
SwitchInput(w, enabled, by, rest) ==
  IF Exists(w)
  THEN LET switched == [native[w] EXCEPT !.input = enabled]
       IN /\ native' = [native EXCEPT ![w] = switched]
          /\ Apply(w, switched, by, rest)
  ELSE /\ UNCHANGED native
       /\ IF enabled THEN UNCHANGED configuration /\ stack' = rest
          ELSE Apply(w, [configuration[w] EXCEPT !.input = FALSE], by, rest)

------------------------------------------------------------------------------
(* Which modal window suppresses which target.                               *)

(* Whom the walk up from w meets, the smallest such set: its parent and the    *)
(* parent of each of them that is managed.                                   *)
ReachesUp(w, above) ==
  \A v \in {w} \cup (above \cap managed) : configuration[v].parent \in above \cup {NoWindow}

Ancestors(w) == {p \in Windows : \A above \in SUBSET Windows : ReachesUp(w, above) => p \in above}

ShouldSuppress(modal, target) ==
  /\ IsOpen(modal)
  /\ LET policy == configuration[modal]
     IN \/ policy.modality = "ApplicationModal" /\ modal # target
        \/ policy.modality = "DisableParent" /\ policy.parent = target
        \/ policy.modality = "DisableParentTree" /\ target \in Ancestors(modal)

(* The layers as ReconcileModalSuppression replays them in creation order: a *)
(* newer modal covers what is older, and a window is covered by an older     *)
(* modal only if it is modeless itself.                                      *)
Older(v, w) == v < w

DesiredSources(target) ==
  {modal \in managed \ {target} :
     /\ ShouldSuppress(modal, target)
     /\ Older(modal, target) => configuration[target].modality = "Modeless"}

(* RefreshModalSuppressionForNewWindow: a modeless window may be covered by  *)
(* those that are there, and covers them if it is modal itself.              *)
CoveredAnyway(created, modality) == managed

CoveredBy(created, modality) == IF modality = "Modeless" THEN managed ELSE {}

AddSuppression(modal, target, rest) ==
  IF IsOpen(target) /\ modal \notin sources[target]
  THEN LET by == sources[target] \cup {modal}
       IN /\ sources' = [sources EXCEPT ![target] = by]
          /\ IF configuration[target].input
             THEN SwitchInput(target, FALSE, by, rest)
             ELSE UNCHANGED <<native, configuration>> /\ stack' = rest
  ELSE UNCHANGED <<sources, native, configuration>> /\ stack' = rest

Refreshing(rest, created, above, below) ==
  IF above \cup below = {} THEN rest
  ELSE Append(rest, [op |-> "refresh", window |-> created, above |-> above, below |-> below])

Considers(modal, target, rest) ==
  IF ShouldSuppress(modal, target)
  THEN AddSuppression(modal, target, rest)
  ELSE UNCHANGED <<sources, native, configuration>> /\ stack' = rest

RefreshNext ==
  /\ InFrame("refresh")
  /\ \/ \E modal \in Top.above :
          /\ Oldest(modal, Top.above)
          /\ Considers(modal, Top.window,
                       Refreshing(Pop, Top.window, Top.above \ {modal}, Top.below))
     \/ /\ Top.above = {}
        /\ \E target \in Top.below :
             /\ Oldest(target, Top.below)
             /\ Considers(Top.window, target, Refreshing(Pop, Top.window, {}, Top.below \ {target}))
  /\ UNCHANGED <<managed, lifecycle, requested, pending, sink, stopping, posts, accepting, overtaken>>

(* ReleaseModalSuppression: the targets are visited in no particular order,    *)
(* and nothing happens to those that the window does not cover; none can     *)
(* become one while the window is going.                                     *)
CoveredTargets(w) == {t \in managed \ {w} : w \in sources[t]}

ReleaseNext ==
  /\ InFrame("release") /\ Top.targets # {}
  /\ \E t \in Top.targets :
       LET rest == Append(Pop, [Top EXCEPT !.targets = @ \ {t}])
           by == sources[t] \ {Top.window}
       IN IF lifecycle[t] = "Destroyed" \/ Top.window \notin sources[t]
          THEN UNCHANGED <<sources, native, configuration>> /\ stack' = rest
          ELSE /\ sources' = [sources EXCEPT ![t] = by]
               /\ IF by = {} /\ requested[t] /\ ~configuration[t].input
                  THEN SwitchInput(t, TRUE, by, rest)
                  ELSE UNCHANGED <<native, configuration>> /\ stack' = rest
  /\ UNCHANGED <<managed, lifecycle, requested, pending, sink, stopping, posts, accepting, overtaken>>

(* ReconcileModalSuppression: the desired sources are computed once and then *)
(* written to the records one by one.                                        *)
Reconciled == [w \in Windows |-> IF w \in managed THEN DesiredSources(w) ELSE {}]

Reconciling(rest, targets, desired) ==
  IF targets = {} THEN rest
  ELSE Append(rest, [op |-> "reconcile", targets |-> targets, desired |-> desired])

ReconcileNext ==
  /\ InFrame("reconcile")
  /\ \E t \in Top.targets :
       LET rest == Reconciling(Pop, Top.targets \ {t}, Top.desired)
           by == Top.desired[t]
           enabled == requested[t] /\ by = {}
       IN /\ Oldest(t, Top.targets)
          /\ IF IsOpen(t)
             THEN /\ sources' = [sources EXCEPT ![t] = by]
                  /\ IF enabled # configuration[t].input
                     THEN SwitchInput(t, enabled, by, rest)
                     ELSE UNCHANGED <<native, configuration>> /\ stack' = rest
             ELSE UNCHANGED <<sources, native, configuration>> /\ stack' = rest
  /\ UNCHANGED <<managed, lifecycle, requested, pending, sink, stopping, posts, accepting, overtaken>>

(* The subscribers of a configuration change have returned. *)
Notified ==
  /\ InFrame("notify")
  /\ IF Top.policy
     THEN /\ stack' = Reconciling(Pop, {w \in managed : IsOpen(w)}, Reconciled)
          /\ overtaken' = \E f \in Begun : f.op = "reconcile"
     ELSE stack' = Pop /\ UNCHANGED overtaken
  /\ UNCHANGED <<managed, record, pending, native, sink, stopping, posts, accepting>>

------------------------------------------------------------------------------
(* OnPlatformConfigurationChanged, reached in an operation whose outer       *)
(* frames are rest: the latest configuration is kept, and the first of a     *)
(* burst posts a flush, or flushes on the spot when the runtime refuses.     *)
ContinuesBurst(w) == pending[w] # NoConfiguration

StartsBurst(w) == pending[w] = NoConfiguration

Flush(w) == [op |-> "flush", window |-> w]

DropsFlush(w, rest) ==
  stack' = rest /\ posts' = IF accepting THEN Append(posts, w) ELSE posts

PostsFlush(w, rest) ==
  IF accepting
  THEN posts' = Append(posts, w) /\ stack' = rest
  ELSE stack' = Append(rest, Flush(w)) /\ UNCHANGED posts

Report(w, reported, rest) ==
  IF sink
  THEN /\ pending' = [pending EXCEPT ![w] = reported]
       /\ IF StartsBurst(w) THEN PostsFlush(w, rest) ELSE stack' = rest /\ UNCHANGED posts
  ELSE stack' = rest /\ UNCHANGED <<pending, posts>>

------------------------------------------------------------------------------
(* The backend: a window goes, and its children become windows of their own, *)
(* each reported by itself before the window leaves the table.  That the     *)
(* window is kept from taking input first is not seen by anyone.             *)

Detached(c) ==
  [c EXCEPT !.parent = NoWindow, !.modality = IF NeedsParent(@) THEN "Modeless" ELSE @]

Children(w) == {c \in Windows \ {w} : Exists(c) /\ native[c].parent = w}

(* DestroyNativeWindow, which reports the closing if it was told to notify.  *)
Removing(rest, w, notify) ==
  Append(rest, [op |-> "remove", window |-> w, children |-> Children(w), notify |-> notify])

(* OnPlatformClosed and what RequestClose asks before.  A flush that finds   *)
(* nothing buffered does nothing.                                            *)
FlushFirst(w) == IF pending[w] = NoConfiguration THEN <<>> ELSE << Flush(w) >>

ReportClosed(w) == << [op |-> "finalize", window |-> w] >> \o FlushFirst(w)
AskToClose(w) == << [op |-> "ask", window |-> w] >> \o FlushFirst(w)

(* DetachChildren, in the order of an unordered map.                         *)
DetachNext ==
  /\ InFrame("remove")
  /\ \E c \in Top.children :
       LET rest == Append(Pop, [Top EXCEPT !.children = @ \ {c}])
       IN IF Exists(c)
          THEN /\ native' = [native EXCEPT ![c] = Detached(@)]
               /\ Report(c, Detached(native[c]), rest)
          ELSE UNCHANGED <<native, pending, posts>> /\ stack' = rest
  /\ UNCHANGED <<managed, record, sink, stopping, accepting, overtaken>>

(* The manager finalizes what nobody has told it is closed.                  *)
Remove ==
  /\ InFrame("remove") /\ Top.children = {}
  /\ native' = [native EXCEPT ![Top.window] = NoConfiguration]
  /\ stack' = IF Top.notify THEN Pop \o ReportClosed(Top.window)
              ELSE Append(Pop, [op |-> "finalize", window |-> Top.window])
  /\ UNCHANGED <<managed, record, pending, sink, stopping, posts, accepting, overtaken>>

------------------------------------------------------------------------------
(* FlushPendingConfiguration.  A stale event must not undo a suppression.    *)
FlushPending ==
  /\ InFrame("flush")
  /\ LET w == Top.window
         buffered == pending[w]
         covered == sources[w] # {} /\ buffered.input
     IN IF buffered = NoConfiguration \/ w \notin managed
        THEN UNCHANGED <<native, configuration>> /\ stack' = Pop
        ELSE IF covered
             THEN IF Exists(w)
                  THEN SwitchInput(w, FALSE, sources[w], Pop)
                  ELSE UNCHANGED native /\ Apply(w, buffered, sources[w], Pop)
             ELSE UNCHANGED native /\ Apply(w, buffered, sources[w], Pop)
  /\ pending' = [pending EXCEPT ![Top.window] = NoConfiguration]
  /\ UNCHANGED <<managed, lifecycle, requested, sources, sink, stopping, posts, accepting, overtaken>>

(* DispatchCloseRequested: refused when the window is not open ...           *)
Ask ==
  /\ InFrame("ask")
  /\ stack' = IF Top.window \in managed /\ IsOpen(Top.window)
              THEN Append(Pop, [op |-> "asking", window |-> Top.window])
              ELSE Pop
  /\ UNCHANGED <<managed, record, pending, native, sink, stopping, posts, accepting, overtaken>>

(* ... or when a subscriber cancels; otherwise the backend destroys what is  *)
(* left of the window and reports it.                                        *)
Cancelled ==
  /\ InFrame("asking")
  /\ stack' = Pop
  /\ UNCHANGED <<managed, record, pending, native, sink, stopping, posts, accepting, overtaken>>

Closes ==
  /\ InFrame("asking")
  /\ Exists(Top.window)
  /\ stack' = Removing(Pop, Top.window, TRUE)
  /\ UNCHANGED <<managed, record, pending, native, sink, stopping, posts, accepting, overtaken>>

(* FinalizeClosed at its end: the window leaves the tables and the           *)
(* subscribers of Closed are called.  What a facade can still read of the    *)
(* record plays no part any more.                                            *)
Forget(w) ==
  /\ managed' = managed \ {w}
  /\ configuration' = [configuration EXCEPT ![w] = NoConfiguration]
  /\ requested' = [requested EXCEPT ![w] = TRUE]
  /\ sources' = [sources EXCEPT ![w] = {}]
  /\ stack' = Append(Pop, [op |-> "closed"])

(* Before that, FinalizeClosed releases what the window suppressed.          *)
Finalize ==
  /\ InFrame("finalize")
  /\ LET w == Top.window
     IN IF w \notin managed \/ lifecycle[w] = "Destroyed"
        THEN UNCHANGED <<managed, record>> /\ stack' = Pop
        ELSE /\ lifecycle' = [lifecycle EXCEPT ![w] = "Destroyed"]
             /\ IF CoveredTargets(w) = {} THEN Forget(w)
                ELSE /\ stack' = Append(Pop, [op |-> "release", window |-> w,
                                              targets |-> CoveredTargets(w)])
                     /\ UNCHANGED <<managed, configuration, requested, sources>>
  /\ UNCHANGED <<pending, native, sink, stopping, posts, accepting, overtaken>>

Erase ==
  /\ InFrame("release") /\ Top.targets = {}
  /\ Forget(Top.window)
  /\ UNCHANGED <<lifecycle, pending, native, sink, stopping, posts, accepting, overtaken>>

ClosedReported ==
  /\ InFrame("closed")
  /\ stack' = Pop
  /\ UNCHANGED <<managed, record, pending, native, sink, stopping, posts, accepting, overtaken>>

------------------------------------------------------------------------------
(* The commands: what is checked before a command has any effect, and the    *)
(* effect.  The work that a command begins is left on the stack.             *)

Unused == {w \in Windows : lifecycle[w] = "none"}

CanCreate(c) ==
  /\ Unused # {} /\ ~stopping
  /\ NeedsParent(c.modality) => c.parent # NoWindow
  /\ c.parent # NoWindow => c.parent \in managed /\ IsOpen(c.parent) /\ Exists(c.parent)

CreateWindow(c) ==
  \E w \in Unused : LET initial == [parent |-> c.parent, modality |-> c.modality, input |-> TRUE]
  IN /\ Oldest(w, Unused)
     /\ native' = [native EXCEPT ![w] = initial]
     /\ configuration' = [configuration EXCEPT ![w] = initial]
     /\ lifecycle' = [lifecycle EXCEPT ![w] = "Open"]
     /\ managed' = managed \cup {w}
     /\ stack' = Refreshing(stack, w, CoveredBy(w, c.modality), managed)
     /\ UNCHANGED <<requested, sources, pending, posts>>

(* A window the backend no longer has stays open: the destruction fails, and *)
(* whoever is about to report the window closed finishes it.                 *)
CanDestroy(w) == w \in managed /\ IsOpen(w) /\ Exists(w)

DestroyWindow(w) ==
  /\ lifecycle' = [lifecycle EXCEPT ![w] = "Destroying"]
  /\ stack' = Removing(stack, w, FALSE)
  /\ UNCHANGED <<managed, configuration, requested, sources, pending, native, posts>>

CanChange(w) == IsOpen(w) /\ Exists(w) /\ ~stopping

MutateConfiguration(w) ==
  /\ Apply(w, native[w], sources[w], stack)
  /\ UNCHANGED <<managed, lifecycle, requested, sources, pending, native, posts>>

(* The request is remembered even if the backend cannot follow it.           *)
SetInputEnabled(w, enabled) ==
  LET effective == enabled /\ sources[w] = {}
  IN /\ requested' = [requested EXCEPT ![w] = enabled]
     /\ IF effective # configuration[w].input /\ Exists(w)
        THEN SwitchInput(w, effective, sources[w], stack)
        ELSE UNCHANGED <<native, configuration, stack>>
     /\ UNCHANGED <<managed, lifecycle, sources, pending, posts>>

RequestClose(w) ==
  /\ stack' = stack \o AskToClose(w)
  /\ UNCHANGED <<managed, record, pending, native, posts>>

Run(c) ==
  /\ \/ c.kind = "create" /\ CanCreate(c) /\ CreateWindow(c)
     \/ c.kind = "destroy" /\ CanDestroy(c.window) /\ DestroyWindow(c.window)
     \/ c.kind = "mutate" /\ CanChange(c.window) /\ MutateConfiguration(c.window)
     \/ c.kind = "setInput" /\ IsOpen(c.window) /\ ~stopping /\ SetInputEnabled(c.window, c.enabled)
     \/ c.kind = "requestClose" /\ CanChange(c.window) /\ RequestClose(c.window)
  /\ UNCHANGED <<sink, stopping, accepting, overtaken>>

(* A command of another thread.  The queue is first in, first out, but a     *)
(* command may have been submitted at any earlier time, so that it can run   *)
(* between any two operations, before or after a flush that is queued.  One  *)
(* that is rejected changes nothing.                                         *)
Command(c) == Idle /\ Run(c)

(* A subscriber that calls the facade runs the command on the spot, unless   *)
(* the runtime refuses it.                                                   *)
InCallback == stack # <<>> /\ Top.op \in ReentrantFrames

Reenter(c) ==
  /\ InCallback /\ Len(stack) < MaxStack
  /\ c.kind \in ReentrantKinds
  /\ accepting /\ ~stopping
  /\ Run(c)

RunFlush ==
  /\ Idle /\ posts # <<>>
  /\ stack' = << Flush(Head(posts)) >>
  /\ posts' = Tail(posts)
  /\ UNCHANGED <<managed, record, pending, native, sink, stopping, accepting, overtaken>>

(* DesktopEventRuntime::RequestStop, by any thread and in the middle of      *)
(* whatever the event thread does.  What was queued before is still run, and *)
(* the pump may be about to deliver an event.                                *)
RequestStop ==
  /\ accepting
  /\ accepting' = FALSE
  /\ UNCHANGED <<managed, record, pending, native, sink, stopping, posts, stack, overtaken>>

(* ShutdownTask and what it has the event thread do: destroy every window,   *)
(* newest first and whatever the backend says, and then the backend itself.  *)
(* Facades refuse from an earlier moment on; until the destruction that is   *)
(* like facades nobody calls, so both are one step.                          *)
DestroyAll ==
  /\ Idle /\ ~stopping
  /\ stopping' = TRUE
  /\ stack' = << [op |-> "destroyAll", todo |-> managed] >>
  /\ UNCHANGED <<managed, record, pending, native, sink, posts, accepting, overtaken>>

DestroyNext ==
  /\ InFrame("destroyAll")
  /\ \E w \in Top.todo :
       LET rest == Append(Pop, [Top EXCEPT !.todo = @ \ {w}])
       IN /\ Newest(w, Top.todo)
          /\ IF w \in managed /\ IsOpen(w)
             THEN /\ lifecycle' = [lifecycle EXCEPT ![w] = "Destroying"]
                  /\ stack' = IF Exists(w) THEN Removing(rest, w, FALSE)
                              ELSE Append(rest, [op |-> "finalize", window |-> w])
             ELSE UNCHANGED lifecycle /\ stack' = rest
  /\ UNCHANGED <<managed, configuration, requested, sources, pending, native, sink, stopping,
                 posts, accepting, overtaken>>

ShutdownBackend ==
  /\ InFrame("destroyAll") /\ Top.todo = {}
  /\ sink' = FALSE
  /\ native' = [w \in Windows |-> NoConfiguration]
  /\ stack' = Pop
  /\ UNCHANGED <<managed, record, pending, stopping, posts, accepting, overtaken>>

------------------------------------------------------------------------------
(* Native events.  The pump runs only when the queue was found empty, so the *)
(* flushes that an event or a command posted have been run by then.          *)
Pumping == Idle /\ sink /\ posts = <<>>

ConfigurationEvent(w) ==
  /\ Pumping /\ Exists(w)
  /\ Report(w, native[w], stack)
  /\ UNCHANGED <<managed, record, native, sink, stopping, accepting, overtaken>>

CloseEvent(w) ==
  /\ Pumping /\ Exists(w)
  /\ stack' = AskToClose(w)
  /\ UNCHANGED <<managed, record, pending, native, sink, stopping, posts, accepting, overtaken>>

DestroyedEvent(w) ==
  /\ Pumping /\ Exists(w)
  /\ stack' = Removing(stack, w, TRUE)
  /\ UNCHANGED <<managed, record, pending, native, sink, stopping, posts, accepting, overtaken>>

------------------------------------------------------------------------------
Continue == \/ RefreshNext \/ ReleaseNext \/ ReconcileNext
            \/ Notified \/ FlushPending \/ DetachNext \/ Remove \/ Ask \/ Cancelled \/ Closes
            \/ Finalize \/ Erase \/ ClosedReported
            \/ DestroyNext \/ ShutdownBackend

Next == \/ \E c \in Commands : Command(c) \/ Reenter(c)
        \/ Continue
        \/ RunFlush \/ RequestStop \/ DestroyAll
        \/ \E w \in Windows : ConfigurationEvent(w) \/ CloseEvent(w) \/ DestroyedEvent(w)

Spec == Init /\ [][Next]_vars

------------------------------------------------------------------------------
Frame ==
  [op : {"flush", "ask", "asking", "finalize"}, window : Windows]
    \cup [op : {"notify"}, policy : BOOLEAN]
    \cup [op : {"closed"}]
    \cup [op : {"refresh"}, window : Windows, above : SUBSET Windows, below : SUBSET Windows]
    \cup [op : {"reconcile"}, targets : SUBSET Windows, desired : [Windows -> SUBSET Windows]]
    \cup [op : {"release"}, window : Windows, targets : SUBSET Windows]
    \cup [op : {"remove"}, window : Windows, children : SUBSET Windows, notify : BOOLEAN]
    \cup [op : {"destroyAll"}, todo : SUBSET Windows]

(* Every variable has its type.                                              *)
TypeOK == /\ managed \subseteq Windows
          /\ lifecycle \in [Windows -> {"none", "Open", "Destroying", "Destroyed"}]
          /\ configuration \in [Windows -> Configuration \cup {NoConfiguration}]
          /\ requested \in [Windows -> BOOLEAN]
          /\ sources \in [Windows -> SUBSET Windows]
          /\ pending \in [Windows -> Configuration \cup {NoConfiguration}]
          /\ native \in [Windows -> Configuration \cup {NoConfiguration}]
          /\ {sink, stopping, accepting, overtaken} \subseteq BOOLEAN
          /\ posts \in Seq(Windows)
          /\ stack \in Seq(Frame)

(* A window under a modal one takes no input, whatever stale event of the    *)
(* backend arrives late and whatever subscribers ask for meanwhile.          *)
SuppressedIsDisabled ==
  \A w \in Windows : sources[w] # {} => ~configuration[w].input

(* A configuration that is buffered is applied or replaced: a flush for it   *)
(* is queued, although only the event that starts a burst posts one.         *)
BufferedIsFlushed ==
  \A w \in Windows : pending[w] # NoConfiguration =>
    \/ \E i \in DOMAIN posts : posts[i] = w
    \/ \E i \in DOMAIN stack : stack[i] = Flush(w)

(* Between operations the manager and the backend know the same windows,     *)
(* whichever of the two began to close one, and all managed ones are open.   *)
TablesAgree ==
  Idle => /\ managed = {w \in Windows : Exists(w)}
          /\ \A w \in managed : IsOpen(w)

(* What the manager believes of the windows is complete: nothing reported is *)
(* left in a buffer, and no window is left in one table alone                *)
(* (OnPlatformConfigurationChanged, FinalizeClosed).                         *)
NothingLeftBehind == TypeOK /\ TablesAgree /\ BufferedIsFlushed

(* Between operations every window is covered by exactly the modal windows   *)
(* that a replay of the creation order gives, although creation and closing  *)
(* change the sources one by one; what is buffered may still change it.      *)
Settled == Idle /\ \A w \in Windows : pending[w] = NoConfiguration

SuppressionIsReplayed ==
  Settled /\ ~overtaken => \A w \in managed : sources[w] = DesiredSources(w)

(* Whatever happened, no window stays covered by one that is gone.           *)
CoversWhileItLives ==
  Idle => \A w \in managed : sources[w] \subseteq managed \ {w}

SuppressionIsCurrent == SuppressionIsReplayed /\ CoversWhileItLives

(* Between operations the configuration that a facade shows is the one the   *)
(* platform actually applied, as WindowConfiguration.hpp has it, although a  *)
(* configuration of an event is applied after commands that ran meanwhile.   *)
EffectiveIsApplied ==
  Settled => \A w \in managed : configuration[w] = native[w]
===============================================================================
