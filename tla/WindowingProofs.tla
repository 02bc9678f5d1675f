--------------------------- MODULE WindowingProofs ---------------------------
(* The window manager: a suppressed window takes no input, nothing that the  *)
(* backend reports is left behind, and the windows that modal ones cover are *)
(* those that a replay of the creation order gives, for any number of        *)
(* windows, subscribers and depth of calls back into the manager; the last   *)
(* one if no subscriber calls back from a configuration change.              *)
(*                                                                           *)
(* The Vulkan presenter: objects live as long as they are used and no        *)
(* longer, and each call finds its fences and semaphores as Vulkan requires, *)
(* for swapchains of any number of images, any sizes and any failing calls.  *)
EXTENDS WindowManager, VulkanWindowPresenter, SequenceTheorems, FiniteSetTheorems, TLAPS

------------------------------------------------------------------------------
(* What holds of the window manager between any two steps.                   *)
Table == [Windows -> Configuration \cup {NoConfiguration}]

Finalizing(w) == \E f \in Begun : f.op = "finalize" /\ f.window = w
Releasing(w) == \E f \in Begun : f.op = "release" /\ f.window = w
Flushing(w) == \E f \in Begun : f.op = "flush" /\ f.window = w
Leaving(w) == \E f \in Begun : f.op = "remove" /\ f.window = w

(* A window that is not forgotten, although its destruction may have begun.  *)
Lives(w) == lifecycle[w] \in {"Open", "Destroying"}

(* What the tables say of a window agrees with its lifecycle.                *)
Records ==
  \A w \in Windows :
    /\ lifecycle[w] = "none" => w \notin managed /\ ~Exists(w) /\ sources[w] = {}
    /\ Lives(w) => w \in managed /\ configuration[w] \in Configuration
    /\ Exists(w) => Lives(w)

(* A managed window that the backend has lost is about to be forgotten, and  *)
(* one whose destruction has begun is about to be lost.                      *)
Duties ==
  \A w \in Windows :
    /\ Finalizing(w) => ~Exists(w) /\ lifecycle[w] # "none"
    /\ Releasing(w) => lifecycle[w] = "Destroyed"
    /\ Leaving(w) => lifecycle[w] # "none"
    /\ w \in managed /\ ~Exists(w) => (Finalizing(w) /\ Lives(w)) \/ Releasing(w)
    /\ lifecycle[w] = "Destroying" => Leaving(w) \/ Finalizing(w)

(* The shutdown forgets no window.                                           *)
ShutdownDuty ==
  \A f \in Begun : f.op = "destroyAll" =>
    /\ stopping
    /\ \A w \in managed : w \in f.todo \/ Leaving(w) \/ Finalizing(w) \/ Releasing(w)

OnlyAtBottom(s) == \A i \in DOMAIN s : s[i].op = "destroyAll" => i = 1

Buffered ==
  \A w \in Windows : pending[w] # NoConfiguration => w \in Range(posts) \/ Flushing(w)

WindowInv == /\ TypeOK
             /\ Records
             /\ Duties
             /\ ShutdownDuty
             /\ OnlyAtBottom(stack)
             /\ Buffered
             /\ SuppressedIsDisabled

------------------------------------------------------------------------------
LEMMA FrameFields ==
  ASSUME NEW f \in Frame
  PROVE  /\ f.op \in {"flush", "ask", "asking", "finalize", "notify", "closed", "refresh",
                      "reconcile", "release", "remove", "destroyAll"}
         /\ f.op \in {"flush", "ask", "asking", "finalize", "refresh", "release", "remove"} => f.window \in Windows
         /\ f.op = "remove" => f.children \subseteq Windows /\ f.notify \in BOOLEAN
         /\ f.op = "notify" => f.policy \in BOOLEAN
         /\ f.op = "refresh" => f.above \subseteq Windows /\ f.below \subseteq Windows
         /\ f.op = "reconcile" => f.targets \subseteq Windows /\ f.desired \in [Windows -> SUBSET Windows]
         /\ f.op = "release" => f.targets \subseteq Windows
         /\ f.op = "destroyAll" => f.todo \subseteq Windows
BY DEF Frame

LEMMA WindowFrames ==
  /\ \A w \in Windows : \A o \in {"flush", "ask", "asking", "finalize"} :
       [op |-> o, window |-> w] \in Frame
  /\ \A w \in Windows, a, b \in SUBSET Windows :
       [op |-> "refresh", window |-> w, above |-> a, below |-> b] \in Frame
  /\ \A w \in Windows, a \in SUBSET Windows :
       [op |-> "release", window |-> w, targets |-> a] \in Frame
  /\ \A w \in Windows, a \in SUBSET Windows, b \in BOOLEAN :
       [op |-> "remove", window |-> w, children |-> a, notify |-> b] \in Frame
  /\ \A w \in Windows : Flush(w) \in Frame /\ Flush(w).op = "flush" /\ Flush(w).window = w
<1>1. \A w \in Windows : \A o \in {"flush", "ask", "asking", "finalize"} :
        [op |-> o, window |-> w] \in [op : {"flush", "ask", "asking", "finalize"}, window : Windows]
  OBVIOUS
<1>2. \A w \in Windows, a, b \in SUBSET Windows :
        [op |-> "refresh", window |-> w, above |-> a, below |-> b]
          \in [op : {"refresh"}, window : Windows, above : SUBSET Windows, below : SUBSET Windows]
  OBVIOUS
<1>3. \A w \in Windows, a \in SUBSET Windows :
        [op |-> "release", window |-> w, targets |-> a]
          \in [op : {"release"}, window : Windows, targets : SUBSET Windows]
  OBVIOUS
<1>4. \A w \in Windows, a \in SUBSET Windows, b \in BOOLEAN :
        [op |-> "remove", window |-> w, children |-> a, notify |-> b]
          \in [op : {"remove"}, window : Windows, children : SUBSET Windows, notify : BOOLEAN]
  OBVIOUS
<1>5. \A w \in Windows : /\ Flush(w) \in [op : {"flush", "ask", "asking", "finalize"}, window : Windows]
                          /\ Flush(w).op = "flush" /\ Flush(w).window = w
  BY DEF Flush
<1>6. \A w \in Windows, a \in SUBSET Windows, b \in BOOLEAN :
        [op |-> "remove", window |-> w, children |-> a, notify |-> b] \in Frame
  BY <1>4 DEF Frame
<1>7. \A w \in Windows : Flush(w) \in Frame /\ Flush(w).op = "flush" /\ Flush(w).window = w
  BY <1>5 DEF Frame
<1> QED BY <1>1, <1>2, <1>3, <1>6, <1>7 DEF Frame

LEMMA OtherFrames ==
  /\ \A a \in SUBSET Windows, d \in [Windows -> SUBSET Windows] :
       [op |-> "reconcile", targets |-> a, desired |-> d] \in Frame
  /\ [op |-> "closed"] \in Frame
  /\ \A a \in SUBSET Windows : [op |-> "destroyAll", todo |-> a] \in Frame
<1>1. \A a \in SUBSET Windows, d \in [Windows -> SUBSET Windows] :
        [op |-> "reconcile", targets |-> a, desired |-> d]
          \in [op : {"reconcile"}, targets : SUBSET Windows, desired : [Windows -> SUBSET Windows]]
  OBVIOUS
<1>2. [op |-> "closed"] \in Frame
  BY DEF Frame
<1>3. \A a \in SUBSET Windows :
        [op |-> "destroyAll", todo |-> a] \in [op : {"destroyAll"}, todo : SUBSET Windows]
  OBVIOUS
<1>4. \A a \in SUBSET Windows, d \in [Windows -> SUBSET Windows] :
        [op |-> "reconcile", targets |-> a, desired |-> d] \in Frame
  BY <1>1 DEF Frame
<1>5. \A a \in SUBSET Windows : [op |-> "destroyAll", todo |-> a] \in Frame
  BY <1>3 DEF Frame
<1> QED BY <1>2, <1>4, <1>5

Notification == [op : {"notify"}, policy : BOOLEAN]

LEMMA NotificationIsFrame ==
  /\ Notification \subseteq Frame
  /\ \A f \in Notification : f.op = "notify"
  /\ \A b \in BOOLEAN : [op |-> "notify", policy |-> b] \in Notification
<1>1. Notification \subseteq Frame /\ \A f \in Notification : f.op = "notify"
  BY DEF Notification, Frame
<1>2. \A b \in BOOLEAN : [op |-> "notify", policy |-> b] \in Notification
  BY DEF Notification
<1> QED BY <1>1, <1>2

LEMMA StackTop ==
  ASSUME stack \in Seq(Frame), stack # <<>>
  PROVE  /\ Top \in Frame /\ Top \in Begun
         /\ Pop \in Seq(Frame)
         /\ Begun = Range(Pop) \cup {Top}
         /\ Len(Pop) = Len(stack) - 1
         /\ \A i \in 1 .. Len(Pop) : Pop[i] = stack[i]
         /\ OnlyAtBottom(stack) => OnlyAtBottom(Pop)
<1>1. Len(stack) \in Nat \ {0} /\ Len(stack) \in DOMAIN stack
  OBVIOUS
<1> DEFINE n == Len(stack) - 1
<1>2. n \in Int /\ (\A i \in 1 .. n : stack[i] \in Frame) /\ n - 1 + 1 = n
  BY <1>1
<1>3. Pop \in Seq(Frame) /\ Len(Pop) = n /\ \A i \in 1 .. Len(Pop) : Pop[i] = stack[i]
  BY <1>1, <1>2, SubSeqProperties DEF Pop
<1>4. Top \in Frame
  BY <1>1 DEF Top
<1>5. DOMAIN stack = DOMAIN Pop \cup {Len(stack)}
  BY <1>1, <1>3
<1>6. Range(stack) = Range(Pop) \cup {Top}
  BY <1>3, <1>5 DEF Range, Top
<1> QED BY <1>1, <1>3, <1>4, <1>5, <1>6 DEF Begun, OnlyAtBottom

LEMMA RangePushed ==
  ASSUME NEW S, NEW s \in Seq(S), NEW e \in S
  PROVE  Append(s, e) \in Seq(S) /\ Range(Append(s, e)) = Range(s) \cup {e}
<1> DEFINE q == Append(s, e)
<1>1. q \in Seq(S) /\ Len(q) = Len(s) + 1 /\ DOMAIN q = DOMAIN s \cup {Len(q)}
  OBVIOUS
<1>2. q[Len(q)] = e /\ \A i \in DOMAIN s : q[i] = s[i]
  OBVIOUS
<1> QED BY <1>1, <1>2 DEF Range

LEMMA Pushed ==
  ASSUME NEW s \in Seq(Frame), NEW e \in Frame
  PROVE  /\ Append(s, e) \in Seq(Frame)
         /\ Range(Append(s, e)) = Range(s) \cup {e}
         /\ OnlyAtBottom(s) /\ (e.op = "destroyAll" => s = <<>>) => OnlyAtBottom(Append(s, e))
<1> DEFINE q == Append(s, e)
<1>1. q \in Seq(Frame) /\ Len(q) = Len(s) + 1 /\ DOMAIN q = DOMAIN s \cup {Len(q)}
  OBVIOUS
<1>2. q[Len(q)] = e /\ \A i \in DOMAIN s : q[i] = s[i]
  OBVIOUS
<1>3. Range(q) = Range(s) \cup {e}
  BY <1>1, <1>2 DEF Range
<1>4. ASSUME OnlyAtBottom(s), e.op = "destroyAll" => s = <<>> PROVE OnlyAtBottom(q)
  <2> SUFFICES ASSUME NEW i \in DOMAIN q, q[i].op = "destroyAll" PROVE i = 1
    BY DEF OnlyAtBottom
  <2>1. CASE i \in DOMAIN s
    BY <1>2, <1>4, <2>1 DEF OnlyAtBottom
  <2>2. CASE i = Len(q)
    BY <1>1, <1>2, <1>4, <2>2
  <2> QED BY <1>1, <2>1, <2>2
<1> QED BY <1>1, <1>3, <1>4

LEMMA Concatenated ==
  ASSUME NEW S, NEW s \in Seq(S), NEW t \in Seq(S)
  PROVE  /\ s \o t \in Seq(S)
         /\ Range(s \o t) = Range(s) \cup Range(t)
         /\ \A i \in DOMAIN (s \o t) : \/ i \in DOMAIN s /\ (s \o t)[i] = s[i]
                                       \/ (s \o t)[i] \in Range(t)
<1> DEFINE q == s \o t
<1>1. q \in Seq(S) /\ Len(q) = Len(s) + Len(t)
  OBVIOUS
<1>2. \A i \in DOMAIN s : q[i] = s[i] /\ i \in DOMAIN q
  OBVIOUS
<1>3. \A i \in DOMAIN t : q[Len(s) + i] = t[i] /\ Len(s) + i \in DOMAIN q
  OBVIOUS
<1>4. \A i \in DOMAIN q : i \in DOMAIN s \/ (i - Len(s) \in DOMAIN t /\ q[i] = t[i - Len(s)])
  OBVIOUS
<1>5. Range(q) = Range(s) \cup Range(t)
  <2>1. \A f \in Range(q) : f \in Range(s) \cup Range(t)
    BY <1>2, <1>4 DEF Range
  <2>2. \A f \in Range(s) : f \in Range(q)
    BY <1>2 DEF Range
  <2>3. \A f \in Range(t) : f \in Range(q)
    BY <1>3 DEF Range
  <2> QED BY <2>1, <2>2, <2>3
<1>6. \A i \in DOMAIN q : (i \in DOMAIN s /\ q[i] = s[i]) \/ q[i] \in Range(t)
  BY <1>2, <1>4 DEF Range
<1> QED BY <1>1, <1>5, <1>6

LEMMA Joined ==
  ASSUME NEW s \in Seq(Frame), NEW t \in Seq(Frame)
  PROVE  /\ s \o t \in Seq(Frame)
         /\ Range(s \o t) = Range(s) \cup Range(t)
         /\ OnlyAtBottom(s) /\ (\A f \in Range(t) : f.op # "destroyAll") => OnlyAtBottom(s \o t)
<1> DEFINE q == s \o t
<1>1. /\ q \in Seq(Frame) /\ Range(q) = Range(s) \cup Range(t)
      /\ \A i \in DOMAIN q : (i \in DOMAIN s /\ q[i] = s[i]) \/ q[i] \in Range(t)
  BY Concatenated
<1> HIDE DEF q
<1>2. OnlyAtBottom(s) /\ (\A f \in Range(t) : f.op # "destroyAll") => OnlyAtBottom(q)
  BY <1>1 DEF OnlyAtBottom
<1> QED BY <1>1, <1>2 DEF q

LEMMA Short ==
  /\ \A e \in Frame : <<e>> \in Seq(Frame) /\ Range(<<e>>) = {e} /\ OnlyAtBottom(<<e>>)
  /\ Range(<<>>) = {} /\ <<>> \in Seq(Frame) /\ OnlyAtBottom(<<>>)
<1>1. Range(<<>>) = {} /\ <<>> \in Seq(Frame) /\ OnlyAtBottom(<<>>)
  BY DEF Range, OnlyAtBottom
<1>2. ASSUME NEW e \in Frame PROVE <<e>> \in Seq(Frame) /\ Range(<<e>>) = {e} /\ OnlyAtBottom(<<e>>)
  <2>1. DOMAIN <<e>> = {1} /\ <<e>>[1] = e /\ <<e>> \in Seq(Frame)
    OBVIOUS
  <2> QED BY <2>1 DEF Range, OnlyAtBottom
<1> QED BY <1>1, <1>2

------------------------------------------------------------------------------
(* ApplyConfiguration and what leads to it.                                  *)
Told(rest) == stack' = rest \/ \E f \in Notification : stack' = Append(rest, f)

LEMMA ToldFrames ==
  ASSUME NEW rest \in Seq(Frame), Told(rest)
  PROVE  /\ stack' \in Seq(Frame)
         /\ OnlyAtBottom(rest) => OnlyAtBottom(stack')
         /\ \E told \in SUBSET Notification : Begun' = Range(rest) \cup told
<1>1. CASE stack' = rest
  <2>1. Begun' = Range(rest) \cup {}
    BY <1>1 DEF Begun
  <2> QED BY <1>1, <2>1
<1>2. ASSUME NEW f \in Notification, stack' = Append(rest, f)
      PROVE  /\ stack' \in Seq(Frame)
             /\ OnlyAtBottom(rest) => OnlyAtBottom(stack')
             /\ \E told \in SUBSET Notification : Begun' = Range(rest) \cup told
  <2>1. f \in Frame /\ f.op # "destroyAll"
    BY <1>2, NotificationIsFrame
  <2>2. Begun' = Range(rest) \cup {f}
    BY <1>2, <2>1, Pushed DEF Begun
  <2> QED BY <1>2, <2>1, <2>2, Pushed
<1> QED BY <1>1, <1>2 DEF Told

LEMMA ConfigurationFields ==
  ASSUME NEW c \in Configuration
  PROVE  /\ c.parent \in Windows \cup {NoWindow} /\ c.modality \in Modalities /\ c.input \in BOOLEAN
         /\ NeedsParent(c.modality) => c.parent # NoWindow
         /\ \A b \in BOOLEAN : /\ [c EXCEPT !.input = b] \in Configuration
                               /\ [c EXCEPT !.input = b].input = b
         /\ Detached(c) \in Configuration
<1>1. /\ c \in [parent : Windows \cup {NoWindow}, modality : Modalities, input : BOOLEAN]
      /\ NeedsParent(c.modality) => c.parent # NoWindow
  BY DEF Configuration
<1>2. ASSUME NEW b \in BOOLEAN
      PROVE  [c EXCEPT !.input = b] \in Configuration /\ [c EXCEPT !.input = b].input = b
  BY <1>1 DEF Configuration
<1>3. Detached(c) \in Configuration
  <2>1. CASE NeedsParent(c.modality)
    BY <1>1, <2>1 DEF Configuration, Detached, NeedsParent, Modalities
  <2>2. CASE ~NeedsParent(c.modality)
    BY <1>1, <2>2 DEF Configuration, Detached
  <2> QED BY <2>1, <2>2
<1> QED BY <1>1, <1>2, <1>3

LEMMA SuppressedFields ==
  ASSUME NEW next \in Configuration, NEW by
  PROVE  /\ Suppressed(next, by) \in Configuration
         /\ by # {} \/ ~next.input => ~Suppressed(next, by).input
BY ConfigurationFields DEF Suppressed

(* What a change of the configuration of w leaves behind.                    *)
Changed(w, disabled, rest) ==
  /\ configuration' \in Table
  /\ \A v \in Windows : v # w \/ ~Lives(v) => configuration'[v] = configuration[v]
  /\ Lives(w) => configuration'[w] \in Configuration
  /\ Lives(w) /\ disabled => ~configuration'[w].input
  /\ Told(rest)

LEMMA ApplyEffect ==
  ASSUME TypeOK, NEW w \in Windows, lifecycle[w] # "none",
         NEW next \in Configuration, NEW by, NEW rest,
         Apply(w, next, by, rest)
  PROVE  Changed(w, by # {} \/ ~next.input, rest)
<1> DEFINE new == Suppressed(next, by)
<1>1. new \in Configuration /\ (by # {} \/ ~next.input => ~new.input)
  BY SuppressedFields
<1>2. configuration \in Table /\ lifecycle[w] \in {"Open", "Destroying", "Destroyed"}
  BY DEF TypeOK, Table
<1> HIDE DEF new
<1>3. CASE lifecycle[w] = "Destroyed"
  BY <1>2, <1>3 DEF Apply, Changed, Told, Lives
<1>4. CASE lifecycle[w] # "Destroyed" /\ new = configuration[w]
  BY <1>1, <1>2, <1>4 DEF Apply, Changed, Told, Lives, new
<1>5. CASE lifecycle[w] # "Destroyed" /\ new # configuration[w]
  <2>1. PICK policy \in BOOLEAN : policy = ChangesPolicy(configuration[w], new)
    BY DEF ChangesPolicy
  <2>2. stack' = Append(rest, [op |-> "notify", policy |-> policy])
    BY <1>5, <2>1 DEF Apply, new
  <2>3. Told(rest)
    BY <2>2, NotificationIsFrame DEF Told
  <2>4. configuration' = [configuration EXCEPT ![w] = new]
    BY <1>5 DEF Apply, new
  <2> QED BY <1>1, <1>2, <1>5, <2>3, <2>4 DEF Changed, Table, Lives
<1> QED BY <1>3, <1>4, <1>5

SameExistence ==
  native' \in Table /\ \A v \in Windows : native'[v] # NoConfiguration <=> Exists(v)

LEMMA SwitchEffect ==
  ASSUME TypeOK, Records, NEW w \in Windows, lifecycle[w] # "none",
         Exists(w) \/ Lives(w),
         NEW enabled \in BOOLEAN, NEW by, NEW rest,
         SwitchInput(w, enabled, by, rest)
  PROVE  SameExistence /\ Changed(w, ~enabled, rest)
<1>1. native \in Table /\ configuration \in Table
  BY DEF TypeOK, Table
<1>2. CASE Exists(w)
  <2> DEFINE switched == [native[w] EXCEPT !.input = enabled]
  <2>1. native[w] \in Configuration
    BY <1>1, <1>2 DEF Exists, Table
  <2>2. switched \in Configuration /\ switched.input = enabled
    BY <2>1, ConfigurationFields
  <2>3. native' = [native EXCEPT ![w] = switched] /\ Apply(w, switched, by, rest)
    BY <1>2 DEF SwitchInput
  <2> HIDE DEF switched
  <2>4. SameExistence
    BY <1>1, <1>2, <2>2, <2>3, NoConfigurationAssumption DEF SameExistence, Table, Exists
  <2>5. Changed(w, by # {} \/ ~switched.input, rest)
    BY <2>2, <2>3, ApplyEffect
  <2> QED BY <2>2, <2>4, <2>5 DEF Changed
<1>3. CASE ~Exists(w) /\ enabled
  <2>1. UNCHANGED <<native, configuration>> /\ stack' = rest
    BY <1>3 DEF SwitchInput
  <2>2. SameExistence
    BY <1>1, <2>1 DEF SameExistence, Exists
  <2>3. Told(rest)
    BY <2>1 DEF Told
  <2> QED BY <1>1, <1>3, <2>1, <2>2, <2>3 DEF Changed, Records
<1>4. CASE ~Exists(w) /\ ~enabled
  <2> DEFINE next == [configuration[w] EXCEPT !.input = FALSE]
  <2>1. configuration[w] \in Configuration
    BY <1>4 DEF Records
  <2>2. next \in Configuration /\ ~next.input
    BY <2>1, ConfigurationFields
  <2>3. UNCHANGED native /\ Apply(w, next, by, rest)
    BY <1>4 DEF SwitchInput
  <2> HIDE DEF next
  <2>4. Changed(w, by # {} \/ ~next.input, rest)
    BY <2>2, <2>3, ApplyEffect
  <2> QED BY <1>1, <2>2, <2>3, <2>4 DEF Changed, SameExistence, Exists
<1> QED BY <1>2, <1>3, <1>4

------------------------------------------------------------------------------
(* The frames that the invariants are about, and steps that leave them alone.*)
WatchedOps == {"flush", "finalize", "release", "remove", "destroyAll"}
Watched(s) == {f \in Range(s) : f.op \in WatchedOps}

Sound(s) == s \in Seq(Frame) /\ OnlyAtBottom(s)

LEMMA ToldKeeps ==
  ASSUME NEW rest, Sound(rest), Told(rest)
  PROVE  Sound(stack') /\ Watched(stack') = Watched(rest)
<1>1. PICK told \in SUBSET Notification : Begun' = Range(rest) \cup told
  BY ToldFrames DEF Sound
<1>2. Range(stack') = Range(rest) \cup told
  BY <1>1 DEF Begun
<1> QED BY <1>2, ToldFrames, NotificationIsFrame DEF Watched, WatchedOps, Sound

LEMMA PushedKeeps ==
  ASSUME NEW s, Sound(s), NEW e \in Frame,
         e.op \notin WatchedOps
  PROVE  Sound(Append(s, e)) /\ Watched(Append(s, e)) = Watched(s)
BY Pushed DEF Watched, WatchedOps, Sound

LEMMA PoppedKeeps ==
  ASSUME Sound(stack), stack # <<>>
  PROVE  /\ Sound(Pop) /\ Watched(Pop) \subseteq Watched(stack)
         /\ Watched(stack) \subseteq Watched(Pop) \cup {Top}
         /\ Top \in Frame
         /\ Top.op \notin WatchedOps => Watched(Pop) = Watched(stack)
BY StackTop DEF Watched, Sound, Begun

LEMMA RefreshingKeeps ==
  ASSUME NEW s, Sound(s), NEW w \in Windows, NEW above \in SUBSET Windows, NEW below \in SUBSET Windows
  PROVE  Sound(Refreshing(s, w, above, below)) /\ Watched(Refreshing(s, w, above, below)) = Watched(s)
<1> DEFINE e == [op |-> "refresh", window |-> w, above |-> above, below |-> below]
<1>1. e \in Frame /\ e.op = "refresh"
  BY WindowFrames
<1>2. Refreshing(s, w, above, below) = s \/ Refreshing(s, w, above, below) = Append(s, e)
  BY DEF Refreshing
<1> QED BY <1>1, <1>2, PushedKeeps DEF WatchedOps

LEMMA ReconcilingKeeps ==
  ASSUME NEW s, Sound(s), NEW targets \in SUBSET Windows, NEW desired \in [Windows -> SUBSET Windows]
  PROVE  Sound(Reconciling(s, targets, desired)) /\ Watched(Reconciling(s, targets, desired)) = Watched(s)
<1> DEFINE e == [op |-> "reconcile", targets |-> targets, desired |-> desired]
<1>1. e \in Frame /\ e.op = "reconcile"
  BY OtherFrames
<1>2. Reconciling(s, targets, desired) = s \/ Reconciling(s, targets, desired) = Append(s, e)
  BY DEF Reconciling
<1> QED BY <1>1, <1>2, PushedKeeps DEF WatchedOps

------------------------------------------------------------------------------
(* Steps that adjust configurations and sources and nothing else.            *)
Adjusts ==
  /\ SameExistence
  /\ configuration' \in Table
  /\ sources' \in [Windows -> SUBSET Windows]
  /\ \A v \in Windows : /\ Lives(v) => configuration'[v] \in Configuration
                        /\ lifecycle[v] = "none" => sources'[v] = {}
                        /\ sources'[v] # {} => ~configuration'[v].input

LEMMA NothingAdjusted ==
  ASSUME WindowInv, UNCHANGED <<sources, native, configuration>>
  PROVE  Adjusts
BY DEF WindowInv, TypeOK, Records, SuppressedIsDisabled, Adjusts, SameExistence, Exists, Table

LEMMA CoveringAdjusts ==
  ASSUME WindowInv, NEW w \in Windows, Lives(w), NEW by \in SUBSET Windows,
         sources' = [sources EXCEPT ![w] = by],
         SameExistence, NEW disabled \in BOOLEAN, NEW rest, Changed(w, disabled, rest),
         by # {} => disabled
  PROVE  Adjusts
BY DEF WindowInv, TypeOK, Records, SuppressedIsDisabled, Adjusts, Changed, Lives

LEMMA OnlyCovering ==
  ASSUME WindowInv, NEW w \in Windows, NEW by \in SUBSET Windows,
         lifecycle[w] # "none", by # {} => ~configuration[w].input,
         sources' = [sources EXCEPT ![w] = by], UNCHANGED <<native, configuration>>
  PROVE  Adjusts
BY DEF WindowInv, TypeOK, Records, SuppressedIsDisabled, Adjusts, SameExistence, Exists, Table

LEMMA OnlyChanging ==
  ASSUME WindowInv, NEW w \in Windows, UNCHANGED sources,
         SameExistence, NEW disabled \in BOOLEAN, NEW rest, Changed(w, disabled, rest),
         sources[w] # {} => disabled
  PROVE  Adjusts
BY DEF WindowInv, TypeOK, Records, SuppressedIsDisabled, Adjusts, Changed, Lives

LEMMA AddSuppressionEffect ==
  ASSUME WindowInv, NEW modal \in Windows, NEW target \in Windows, NEW rest,
         AddSuppression(modal, target, rest)
  PROVE  Adjusts /\ Told(rest)
<1> DEFINE by == sources[target] \cup {modal}
<1>0. TypeOK /\ Records /\ by \in SUBSET Windows /\ by # {}
  BY DEF WindowInv, TypeOK
<1> HIDE DEF by
<1>1. CASE IsOpen(target) /\ modal \notin sources[target] /\ configuration[target].input
  <2>1. sources' = [sources EXCEPT ![target] = by] /\ SwitchInput(target, FALSE, by, rest)
    BY <1>1 DEF AddSuppression, by
  <2>2. PICK no \in BOOLEAN : no = FALSE
    OBVIOUS
  <2>3. SameExistence /\ Changed(target, ~no, rest)
    BY <1>0, <1>1, <2>1, <2>2, SwitchEffect DEF IsOpen, Lives
  <2> QED BY <1>0, <1>1, <2>1, <2>2, <2>3, CoveringAdjusts DEF Changed, IsOpen, Lives
<1>2. CASE IsOpen(target) /\ modal \notin sources[target] /\ ~configuration[target].input
  <2>1. sources' = [sources EXCEPT ![target] = by] /\ UNCHANGED <<native, configuration>> /\ stack' = rest
    BY <1>2 DEF AddSuppression, by
  <2> QED BY <1>0, <1>2, <2>1, OnlyCovering DEF Told, IsOpen
<1>3. CASE ~(IsOpen(target) /\ modal \notin sources[target])
  BY <1>3, NothingAdjusted DEF AddSuppression, Told
<1> QED BY <1>1, <1>2, <1>3

LEMMA ConsidersEffect ==
  ASSUME WindowInv, NEW modal \in Windows, NEW target \in Windows, NEW rest,
         Considers(modal, target, rest)
  PROVE  Adjusts /\ Told(rest)
BY AddSuppressionEffect, NothingAdjusted DEF Considers, Told

Keeps == Sound(stack') /\ Watched(stack') = Watched(stack)

LEMMA SoundNow == WindowInv => Sound(stack)
BY DEF WindowInv, TypeOK, Sound

LEMMA RefreshEffect == WindowInv /\ RefreshNext => Adjusts /\ Keeps
<1> SUFFICES ASSUME WindowInv, RefreshNext PROVE Adjusts /\ Keeps
  OBVIOUS
<1>1. stack # <<>> /\ Top.op = "refresh"
  BY DEF RefreshNext, InFrame
<1>2. /\ Sound(Pop) /\ Watched(Pop) = Watched(stack)
      /\ Top.window \in Windows /\ Top.above \subseteq Windows /\ Top.below \subseteq Windows
  BY <1>1, SoundNow, PoppedKeeps, FrameFields DEF WatchedOps
<1>3. PICK modal \in Windows, target \in Windows, above \in SUBSET Windows, below \in SUBSET Windows :
        Considers(modal, target, Refreshing(Pop, Top.window, above, below))
  BY <1>2 DEF RefreshNext
<1> DEFINE rest == Refreshing(Pop, Top.window, above, below)
<1>4. Sound(rest) /\ Watched(rest) = Watched(stack)
  BY <1>2, RefreshingKeeps
<1>5. Adjusts /\ Told(rest)
  BY <1>3, ConsidersEffect
<1> HIDE DEF rest
<1> QED BY <1>4, <1>5, ToldKeeps DEF Keeps

LEMMA ReconcileEffect == WindowInv /\ ReconcileNext => Adjusts /\ Keeps
<1> SUFFICES ASSUME WindowInv, ReconcileNext PROVE Adjusts /\ Keeps
  OBVIOUS
<1>1. stack # <<>> /\ Top.op = "reconcile"
  BY DEF ReconcileNext, InFrame
<1>2. /\ Sound(Pop) /\ Watched(Pop) = Watched(stack)
      /\ Top.targets \subseteq Windows /\ Top.desired \in [Windows -> SUBSET Windows]
  BY <1>1, SoundNow, PoppedKeeps, FrameFields DEF WatchedOps
<1>3. PICK t \in Windows :
        LET rest == Reconciling(Pop, Top.targets \ {t}, Top.desired)
            by == Top.desired[t]
            enabled == requested[t] /\ by = {}
        IN IF IsOpen(t)
           THEN /\ sources' = [sources EXCEPT ![t] = by]
                /\ IF enabled # configuration[t].input
                   THEN SwitchInput(t, enabled, by, rest)
                   ELSE UNCHANGED <<native, configuration>> /\ stack' = rest
           ELSE UNCHANGED <<sources, native, configuration>> /\ stack' = rest
  BY <1>2 DEF ReconcileNext
<1> DEFINE rest == Reconciling(Pop, Top.targets \ {t}, Top.desired)
           by == Top.desired[t]
<1>4. Sound(rest) /\ Watched(rest) = Watched(stack)
  BY <1>2, ReconcilingKeeps
<1>5. by \in SUBSET Windows
  BY <1>2
<1>6. TypeOK /\ Records
  BY DEF WindowInv
<1>7. PICK enabled \in BOOLEAN : enabled = (requested[t] /\ by = {})
  OBVIOUS
<1>8. IF IsOpen(t)
      THEN /\ sources' = [sources EXCEPT ![t] = by]
           /\ IF enabled # configuration[t].input
              THEN SwitchInput(t, enabled, by, rest)
              ELSE UNCHANGED <<native, configuration>> /\ stack' = rest
      ELSE UNCHANGED <<sources, native, configuration>> /\ stack' = rest
  BY <1>3, <1>7
<1> HIDE DEF rest, by
<1>9. Adjusts /\ Told(rest)
  <2>1. CASE ~IsOpen(t)
    BY <1>8, <2>1, NothingAdjusted DEF Told
  <2>2. CASE IsOpen(t) /\ enabled # configuration[t].input
    <3>1. SameExistence /\ Changed(t, ~enabled, rest)
      BY <1>6, <1>8, <2>2, SwitchEffect DEF IsOpen, Lives
    <3> QED BY <1>5, <1>7, <1>8, <2>2, <3>1, CoveringAdjusts DEF Changed, IsOpen, Lives
  <2>3. CASE IsOpen(t) /\ enabled = configuration[t].input
    <3>1. by # {} => ~configuration[t].input
      BY <1>7, <2>3
    <3> QED BY <1>5, <1>8, <2>3, <3>1, OnlyCovering DEF Told, IsOpen
  <2> QED BY <2>1, <2>2, <2>3
<1> QED BY <1>4, <1>9, ToldKeeps DEF Keeps

(* The frame of a release goes on with one target less.                      *)
Released(t) == [Top EXCEPT !.targets = @ \ {t}]

LEMMA ReleasedFields ==
  ASSUME Top \in Frame, Top.op = "release", NEW t
  PROVE  /\ Released(t) \in Frame /\ Released(t).op = "release"
         /\ Released(t).window = Top.window /\ Released(t).targets = Top.targets \ {t}
<1>1. Top \in [op : {"release"}, window : Windows, targets : SUBSET Windows]
  BY DEF Frame
<1>2. Released(t) = [op |-> "release", window |-> Top.window, targets |-> Top.targets \ {t}]
  BY <1>1 DEF Released
<1>3. Top.window \in Windows /\ Top.targets \ {t} \in SUBSET Windows
  BY <1>1
<1> QED BY <1>2, <1>3, WindowFrames

LEMMA ReleaseEffect ==
  ASSUME WindowInv, ReleaseNext
  PROVE  /\ Adjusts /\ Sound(stack') /\ Top.op = "release" /\ stack # <<>>
         /\ \E t \in Top.targets : /\ Told(Append(Pop, Released(t)))
                                   /\ Watched(stack') = Watched(Pop) \cup {Released(t)}
                                   /\ \A s \in Windows : s # t => sources'[s] = sources[s]
                                   /\ Lives(t) => sources'[t] = sources[t] \ {Top.window}
<1>1. stack # <<>> /\ Top.op = "release"
  BY DEF ReleaseNext, InFrame
<1>2. /\ Sound(Pop) /\ Top \in Frame /\ Top.window \in Windows /\ Top.targets \subseteq Windows
  BY <1>1, SoundNow, PoppedKeeps, FrameFields
<1>3. PICK t \in Top.targets :
        LET rest == Append(Pop, Released(t))
            by == sources[t] \ {Top.window}
        IN IF lifecycle[t] = "Destroyed" \/ Top.window \notin sources[t]
           THEN UNCHANGED <<sources, native, configuration>> /\ stack' = rest
           ELSE /\ sources' = [sources EXCEPT ![t] = by]
                /\ IF by = {} /\ requested[t] /\ ~configuration[t].input
                   THEN SwitchInput(t, TRUE, by, rest)
                   ELSE UNCHANGED <<native, configuration>> /\ stack' = rest
  BY DEF ReleaseNext, Released
<1> DEFINE rest == Append(Pop, Released(t))
           by == sources[t] \ {Top.window}
<1>4. t \in Windows /\ TypeOK /\ Records /\ SuppressedIsDisabled
  BY <1>2 DEF WindowInv
<1>5. Released(t) \in Frame /\ Released(t).op = "release"
  BY <1>1, <1>2, ReleasedFields
<1>6. Sound(rest) /\ Watched(rest) = Watched(Pop) \cup {Released(t)}
  BY <1>2, <1>5, Pushed DEF Sound, Watched, WatchedOps
<1>7. by \in SUBSET Windows /\ sources \in [Windows -> SUBSET Windows]
  BY <1>4 DEF TypeOK
<1> HIDE DEF rest
<1>8. CASE lifecycle[t] = "Destroyed" \/ Top.window \notin sources[t]
  <2>1. UNCHANGED <<sources, native, configuration>> /\ stack' = rest
    BY <1>3, <1>8 DEF rest
  <2>2. Lives(t) => sources'[t] = sources[t] \ {Top.window}
    BY <1>8, <2>1 DEF Lives
  <2>3. Sound(stack') /\ Watched(stack') = Watched(Pop) \cup {Released(t)}
    BY <1>6, <2>1
  <2>4. Told(rest)
    BY <2>1 DEF Told
  <2> QED BY <1>1, <2>1, <2>2, <2>3, <2>4, NothingAdjusted DEF rest
<1>9. CASE lifecycle[t] # "Destroyed" /\ Top.window \in sources[t]
  <2>1. Lives(t)
    BY <1>4, <1>9 DEF Records, TypeOK, Lives
  <2>2. /\ sources' = [sources EXCEPT ![t] = by]
        /\ IF by = {} /\ requested[t] /\ ~configuration[t].input
           THEN SwitchInput(t, TRUE, by, rest)
           ELSE UNCHANGED <<native, configuration>> /\ stack' = rest
    BY <1>3, <1>9 DEF rest
  <2>3. Adjusts /\ Told(rest)
    <3>1. CASE by = {} /\ requested[t] /\ ~configuration[t].input
      <4>1. PICK yes \in BOOLEAN : yes = TRUE
        OBVIOUS
      <4>2. SameExistence /\ Changed(t, ~yes, rest)
        BY <1>4, <2>1, <2>2, <3>1, <4>1, SwitchEffect DEF Lives
      <4> QED BY <1>4, <1>7, <2>1, <2>2, <3>1, <4>2, CoveringAdjusts DEF Changed
    <3>2. CASE ~(by = {} /\ requested[t] /\ ~configuration[t].input)
      <4>1. ~configuration[t].input
        BY <1>4, <1>9 DEF SuppressedIsDisabled
      <4> QED BY <1>4, <1>7, <2>1, <2>2, <3>2, <4>1, OnlyCovering DEF Told, Lives
    <3> QED BY <3>1, <3>2
  <2>4. Sound(stack') /\ Watched(stack') = Watched(Pop) \cup {Released(t)}
    BY <1>6, <2>3, ToldKeeps
  <2>5. /\ \A s \in Windows : s # t => sources'[s] = sources[s]
        /\ sources'[t] = sources[t] \ {Top.window}
    BY <1>4, <1>7, <2>2
  <2> QED BY <1>1, <2>3, <2>4, <2>5 DEF rest
<1> QED BY <1>8, <1>9

(* A configuration that the code applies as the suppression demands.         *)
LEMMA AppliedEffect ==
  ASSUME WindowInv, NEW w \in Windows, lifecycle[w] # "none", NEW next \in Configuration,
         NEW rest, Apply(w, next, sources[w], rest), UNCHANGED <<sources, native>>
  PROVE  Adjusts /\ Told(rest)
<1>1. TypeOK
  BY DEF WindowInv
<1>2. PICK disabled \in BOOLEAN : disabled = (sources[w] # {} \/ ~next.input)
  OBVIOUS
<1>3. Changed(w, disabled, rest)
  BY <1>1, <1>2, ApplyEffect
<1>4. SameExistence
  BY <1>1 DEF TypeOK, SameExistence, Exists, Table
<1> QED BY <1>2, <1>3, <1>4, OnlyChanging DEF Changed

LEMMA SwitchedEffect ==
  ASSUME WindowInv, NEW w \in Windows, lifecycle[w] # "none", Exists(w) \/ Lives(w),
         NEW enabled \in BOOLEAN, enabled => sources[w] = {},
         NEW rest, SwitchInput(w, enabled, sources[w], rest), UNCHANGED sources
  PROVE  Adjusts /\ Told(rest)
<1>1. TypeOK /\ Records
  BY DEF WindowInv
<1>2. SameExistence /\ Changed(w, ~enabled, rest)
  BY <1>1, SwitchEffect
<1> QED BY <1>2, OnlyChanging DEF Changed

LEMMA FlushEffect ==
  ASSUME WindowInv, FlushPending
  PROVE  /\ Adjusts /\ Sound(stack') /\ Watched(stack') = Watched(Pop)
         /\ stack # <<>> /\ Top.op = "flush" /\ Told(Pop)
<1>1. stack # <<>> /\ Top.op = "flush"
  BY DEF FlushPending, InFrame
<1>2. Sound(Pop) /\ Top.window \in Windows
  BY <1>1, SoundNow, PoppedKeeps, FrameFields
<1> DEFINE w == Top.window
           buffered == pending[w]
<1>3. TypeOK /\ Records
  BY DEF WindowInv
<1>4. UNCHANGED sources
  BY DEF FlushPending
<1>5. Adjusts /\ Told(Pop)
  <2>1. CASE buffered = NoConfiguration \/ w \notin managed
    <3>1. UNCHANGED <<native, configuration>> /\ stack' = Pop
      BY <2>1 DEF FlushPending
    <3> QED BY <1>4, <3>1, NothingAdjusted DEF Told
  <2>2. CASE buffered # NoConfiguration /\ w \in managed
    <3>1. buffered \in Configuration /\ lifecycle[w] # "none"
      BY <1>2, <1>3, <2>2 DEF TypeOK, Records
    <3>2. CASE sources[w] # {} /\ buffered.input /\ Exists(w)
      <4>1. PICK no \in BOOLEAN : no = FALSE
        OBVIOUS
      <4>2. SwitchInput(w, no, sources[w], Pop)
        BY <2>2, <3>2, <4>1 DEF FlushPending
      <4> QED BY <1>2, <1>4, <3>1, <3>2, <4>1, <4>2, SwitchedEffect
    <3>3. CASE ~(sources[w] # {} /\ buffered.input /\ Exists(w))
      <4>1. UNCHANGED native /\ Apply(w, buffered, sources[w], Pop)
        BY <2>2, <3>3 DEF FlushPending
      <4> QED BY <1>2, <1>4, <3>1, <4>1, AppliedEffect
    <3> QED BY <3>2, <3>3
  <2> QED BY <2>1, <2>2
<1> QED BY <1>1, <1>2, <1>5, ToldKeeps

LEMMA MutateEffect ==
  ASSUME WindowInv, NEW w \in Windows, CanChange(w), MutateConfiguration(w)
  PROVE  Adjusts /\ Keeps /\ Told(stack)
<1>1. native[w] \in Configuration /\ lifecycle[w] # "none"
  BY DEF CanChange, WindowInv, TypeOK, Exists, IsOpen
<1>2. Adjusts /\ Told(stack)
  BY <1>1, AppliedEffect DEF MutateConfiguration
<1> QED BY <1>2, SoundNow, ToldKeeps DEF Keeps

LEMMA SetInputEffect ==
  ASSUME WindowInv, NEW w \in Windows, NEW enabled \in BOOLEAN, IsOpen(w), SetInputEnabled(w, enabled)
  PROVE  Adjusts /\ Keeps /\ Told(stack)
<1> DEFINE now == enabled /\ sources[w] = {}
<1>1. PICK effective \in BOOLEAN : effective = now
  OBVIOUS
<1>2. UNCHANGED sources
  BY DEF SetInputEnabled
<1>3. Adjusts /\ Told(stack)
  <2>1. CASE effective # configuration[w].input /\ Exists(w)
    <3>1. SwitchInput(w, effective, sources[w], stack)
      BY <1>1, <2>1 DEF SetInputEnabled
    <3> QED BY <1>1, <1>2, <2>1, <3>1, SwitchedEffect DEF IsOpen
  <2>2. CASE ~(effective # configuration[w].input /\ Exists(w))
    <3>1. UNCHANGED <<native, configuration, stack>>
      BY <1>1, <2>2 DEF SetInputEnabled
    <3> QED BY <1>2, <3>1, NothingAdjusted DEF Told
  <2> QED BY <2>1, <2>2
<1> QED BY <1>3, SoundNow, ToldKeeps DEF Keeps

------------------------------------------------------------------------------
(* What such a step keeps of the invariant, by the frames that it leaves.    *)
LEMMA WatchedFrames ==
  ASSUME NEW w
  PROVE  /\ Finalizing(w) <=> \E f \in Watched(stack) : f.op = "finalize" /\ f.window = w
         /\ Releasing(w) <=> \E f \in Watched(stack) : f.op = "release" /\ f.window = w
         /\ Flushing(w) <=> \E f \in Watched(stack) : f.op = "flush" /\ f.window = w
         /\ Leaving(w) <=> \E f \in Watched(stack) : f.op = "remove" /\ f.window = w
         /\ Finalizing(w)' <=> \E f \in Watched(stack') : f.op = "finalize" /\ f.window = w
         /\ Releasing(w)' <=> \E f \in Watched(stack') : f.op = "release" /\ f.window = w
         /\ Flushing(w)' <=> \E f \in Watched(stack') : f.op = "flush" /\ f.window = w
         /\ Leaving(w)' <=> \E f \in Watched(stack') : f.op = "remove" /\ f.window = w
         /\ Watched(stack) \subseteq Begun /\ Watched(stack') \subseteq Begun'
         /\ \A f \in Begun : f.op = "destroyAll" => f \in Watched(stack)
         /\ \A f \in Begun' : f.op = "destroyAll" => f \in Watched(stack')
BY DEF Finalizing, Releasing, Flushing, Leaving, Watched, WatchedOps, Begun

LEMMA RecordsKept ==
  ASSUME WindowInv, Adjusts, UNCHANGED <<managed, lifecycle>>
  PROVE  Records' /\ SuppressedIsDisabled'
BY DEF WindowInv, TypeOK, Adjusts, Records, SuppressedIsDisabled, SameExistence, Exists, Lives

LEMMA TypesKept ==
  ASSUME WindowInv, Adjusts, Sound(stack'), UNCHANGED <<managed, lifecycle, sink, stopping>>,
         requested' \in [Windows -> BOOLEAN], pending' \in Table, overtaken' \in BOOLEAN,
         posts' \in Seq(Windows), accepting' \in BOOLEAN
  PROVE  TypeOK' /\ OnlyAtBottom(stack')
BY DEF WindowInv, TypeOK, Adjusts, SameExistence, Sound, Table

(* The same windows are lost, and the same frames take care of them.         *)
LEMMA DutiesKept ==
  ASSUME WindowInv, UNCHANGED <<managed, lifecycle, stopping>>, SameExistence,
         \A w \in Windows : Finalizing(w) <=> Finalizing(w)',
         \A w \in Windows : Releasing(w) <=> Releasing(w)',
         \A w \in Windows : Leaving(w) <=> Leaving(w)',
         \A f \in Begun' : f.op = "destroyAll" => f \in Begun
  PROVE  Duties' /\ ShutdownDuty'
<1>1. Duties'
  BY DEF WindowInv, Duties, SameExistence, Exists, Lives
<1>2. ShutdownDuty'
  <2> SUFFICES ASSUME NEW f \in Begun', f.op = "destroyAll"
               PROVE  stopping /\ \A w \in managed : w \in f.todo \/ Leaving(w)' \/ Finalizing(w)' \/ Releasing(w)'
    BY DEF ShutdownDuty
  <2>1. managed \subseteq Windows
    BY DEF WindowInv, TypeOK
  <2> QED BY <2>1 DEF WindowInv, ShutdownDuty
<1> QED BY <1>1, <1>2

LEMMA QuietStep ==
  ASSUME WindowInv, Adjusts, Keeps,
         UNCHANGED <<managed, lifecycle, pending, sink, stopping, posts>>,
         requested' \in [Windows -> BOOLEAN], overtaken' \in BOOLEAN, accepting' \in BOOLEAN
  PROVE  WindowInv'
<1>1. pending' \in Table /\ posts' \in Seq(Windows)
  BY DEF WindowInv, TypeOK, Table
<1>2. Records' /\ SuppressedIsDisabled' /\ TypeOK' /\ OnlyAtBottom(stack')
  BY <1>1, RecordsKept, TypesKept DEF Keeps
<1>3. /\ \A w \in Windows : /\ Finalizing(w) <=> Finalizing(w)'
                            /\ Releasing(w) <=> Releasing(w)'
                            /\ Leaving(w) <=> Leaving(w)'
                            /\ Flushing(w) <=> Flushing(w)'
      /\ \A f \in Begun' : f.op = "destroyAll" => f \in Begun
  BY WatchedFrames DEF Keeps
<1>4. Duties' /\ ShutdownDuty'
  BY <1>3, DutiesKept DEF Adjusts
<1>5. Buffered'
  BY <1>3 DEF WindowInv, Buffered
<1> QED BY <1>2, <1>4, <1>5 DEF WindowInv

LEMMA FlushesAdded ==
  ASSUME WindowInv, UNCHANGED <<managed, record, pending, native, sink, stopping, posts, overtaken>>,
         accepting' \in BOOLEAN, Sound(stack'), Watched(stack) \subseteq Watched(stack'),
         \A f \in Watched(stack') : f \in Watched(stack) \/ f.op = "flush"
  PROVE  WindowInv'
<1>1. Adjusts /\ UNCHANGED <<lifecycle, requested>>
  BY NothingAdjusted DEF record
<1>2. /\ pending' \in Table /\ requested' \in [Windows -> BOOLEAN] /\ overtaken' \in BOOLEAN
      /\ posts' \in Seq(Windows)
  BY <1>1 DEF WindowInv, TypeOK, Table
<1>3. Records' /\ SuppressedIsDisabled' /\ TypeOK' /\ OnlyAtBottom(stack')
  BY <1>1, <1>2, RecordsKept, TypesKept
<1>4. /\ \A w \in Windows : /\ Finalizing(w) <=> Finalizing(w)'
                            /\ Releasing(w) <=> Releasing(w)'
                            /\ Leaving(w) <=> Leaving(w)'
                            /\ Flushing(w) => Flushing(w)'
      /\ \A f \in Begun' : f.op = "destroyAll" => f \in Begun
  BY WatchedFrames
<1>5. Duties' /\ ShutdownDuty'
  BY <1>1, <1>4, DutiesKept DEF Adjusts
<1>6. Buffered'
  BY <1>4 DEF WindowInv, Buffered
<1> QED BY <1>3, <1>5, <1>6 DEF WindowInv

LEMMA NotifiedStep == WindowInv /\ Notified => WindowInv'
<1> SUFFICES ASSUME WindowInv, Notified PROVE WindowInv'
  OBVIOUS
<1>1. stack # <<>> /\ Top.op = "notify"
  BY DEF Notified, InFrame
<1>2. Sound(Pop) /\ Watched(Pop) = Watched(stack)
  BY <1>1, SoundNow, PoppedKeeps DEF WatchedOps
<1>3. managed \subseteq Windows
  BY DEF WindowInv, TypeOK
<1>4. Reconciled \in [Windows -> SUBSET Windows]
  BY <1>3 DEF Reconciled, DesiredSources
<1>5. Keeps
  <2>1. Sound(Reconciling(Pop, {w \in managed : IsOpen(w)}, Reconciled))
          /\ Watched(Reconciling(Pop, {w \in managed : IsOpen(w)}, Reconciled)) = Watched(Pop)
    BY <1>2, <1>3, <1>4, ReconcilingKeeps
  <2> QED BY <1>2, <2>1 DEF Notified, Keeps
<1>6. Adjusts /\ requested' \in [Windows -> BOOLEAN]
  BY NothingAdjusted DEF Notified, record, WindowInv, TypeOK
<1>7. overtaken' \in BOOLEAN /\ accepting' \in BOOLEAN
  BY DEF Notified, WindowInv, TypeOK
<1> QED BY <1>5, <1>6, <1>7, QuietStep DEF Notified, record

LEMMA ConfiguringStep ==
  WindowInv /\ (RefreshNext \/ ReconcileNext \/ ReleaseNext \/ FlushPending) => WindowInv'
<1>1. ASSUME WindowInv, RefreshNext PROVE WindowInv'
  BY <1>1, RefreshEffect, QuietStep DEF RefreshNext, WindowInv, TypeOK
<1>2. ASSUME WindowInv, ReconcileNext PROVE WindowInv'
  BY <1>2, ReconcileEffect, QuietStep DEF ReconcileNext, WindowInv, TypeOK
<1>3. ASSUME WindowInv, ReleaseNext PROVE WindowInv'
  <2>1. /\ Adjusts /\ Sound(stack') /\ Top.op = "release" /\ stack # <<>>
        /\ \E t : Watched(stack') = Watched(Pop) \cup {Released(t)}
    BY <1>3, ReleaseEffect
  <2>2. PICK t : Watched(stack') = Watched(Pop) \cup {Released(t)}
    BY <2>1
  <2>3. /\ Watched(Pop) \subseteq Watched(stack) /\ Watched(stack) \subseteq Watched(Pop) \cup {Top}
        /\ Top \in Frame /\ Top \in Watched(stack)
    BY <1>3, <2>1, SoundNow, PoppedKeeps, StackTop DEF Watched, WatchedOps, Begun, Sound
  <2>4. Released(t).op = "release" /\ Released(t).window = Top.window
    BY <2>1, <2>3, ReleasedFields
  <2>5. UNCHANGED <<managed, lifecycle, requested, pending, sink, stopping, posts, accepting, overtaken>>
    BY <1>3 DEF ReleaseNext
  <2>6. /\ pending' \in Table /\ requested' \in [Windows -> BOOLEAN] /\ overtaken' \in BOOLEAN
        /\ posts' \in Seq(Windows) /\ accepting' \in BOOLEAN
    BY <1>3, <2>5 DEF WindowInv, TypeOK, Table
  <2>7. Records' /\ SuppressedIsDisabled' /\ TypeOK' /\ OnlyAtBottom(stack')
    BY <1>3, <2>1, <2>5, <2>6, RecordsKept, TypesKept
  <2>8. /\ \A w \in Windows : /\ Finalizing(w) <=> Finalizing(w)'
                              /\ Releasing(w) <=> Releasing(w)'
                              /\ Leaving(w) <=> Leaving(w)'
                              /\ Flushing(w) <=> Flushing(w)'
        /\ \A f \in Begun' : f.op = "destroyAll" => f \in Begun
    BY <2>1, <2>2, <2>3, <2>4, WatchedFrames
  <2>9. Duties' /\ ShutdownDuty'
    BY <1>3, <2>1, <2>5, <2>8, DutiesKept DEF Adjusts
  <2>10. Buffered'
    BY <1>3, <2>5, <2>8 DEF WindowInv, Buffered
  <2> QED BY <2>7, <2>9, <2>10 DEF WindowInv
<1>4. ASSUME WindowInv, FlushPending PROVE WindowInv'
  <2>1. /\ Adjusts /\ Sound(stack') /\ Watched(stack') = Watched(Pop)
        /\ stack # <<>> /\ Top.op = "flush"
    BY <1>4, FlushEffect
  <2>2. /\ Watched(Pop) \subseteq Watched(stack) /\ Watched(stack) \subseteq Watched(Pop) \cup {Top}
        /\ Top.window \in Windows
    BY <1>4, <2>1, SoundNow, PoppedKeeps, FrameFields
  <2>3. /\ UNCHANGED <<managed, lifecycle, requested, sink, stopping, posts, accepting, overtaken>>
        /\ pending' = [pending EXCEPT ![Top.window] = NoConfiguration]
    BY <1>4 DEF FlushPending
  <2>4. /\ pending' \in Table /\ requested' \in [Windows -> BOOLEAN] /\ overtaken' \in BOOLEAN
        /\ posts' \in Seq(Windows) /\ accepting' \in BOOLEAN
    BY <1>4, <2>2, <2>3 DEF WindowInv, TypeOK, Table
  <2>5. Records' /\ SuppressedIsDisabled' /\ TypeOK' /\ OnlyAtBottom(stack')
    BY <1>4, <2>1, <2>3, <2>4, RecordsKept, TypesKept
  <2>6. /\ \A w \in Windows : /\ Finalizing(w) <=> Finalizing(w)'
                              /\ Releasing(w) <=> Releasing(w)'
                              /\ Leaving(w) <=> Leaving(w)'
                              /\ Flushing(w) => Flushing(w)' \/ w = Top.window
        /\ \A f \in Begun' : f.op = "destroyAll" => f \in Begun
    BY <2>1, <2>2, WatchedFrames
  <2>7. Duties' /\ ShutdownDuty'
    BY <1>4, <2>1, <2>3, <2>6, DutiesKept DEF Adjusts
  <2>8. Buffered'
    BY <1>4, <2>2, <2>3, <2>6 DEF WindowInv, Buffered, TypeOK
  <2> QED BY <2>5, <2>7, <2>8 DEF WindowInv
<1> QED BY <1>1, <1>2, <1>3, <1>4

------------------------------------------------------------------------------
(* Requests to close.                                                        *)
LEMMA FlushFirstFrames ==
  ASSUME NEW w \in Windows
  PROVE  FlushFirst(w) \in Seq(Frame) /\ \A f \in Range(FlushFirst(w)) : f.op = "flush"
<1>1. Flush(w) \in Frame /\ Flush(w).op = "flush"
  BY WindowFrames
<1>2. FlushFirst(w) = <<>> \/ FlushFirst(w) = << Flush(w) >>
  BY DEF FlushFirst
<1> QED BY <1>1, <1>2, Short

LEMMA AskFrames ==
  ASSUME NEW w \in Windows, NEW s, Sound(s)
  PROVE  /\ Sound(s \o AskToClose(w)) /\ Watched(s) \subseteq Watched(s \o AskToClose(w))
         /\ \A f \in Watched(s \o AskToClose(w)) : f \in Watched(s) \/ f.op = "flush"
         /\ Sound(AskToClose(w)) /\ \A f \in Watched(AskToClose(w)) : f.op = "flush"
<1> DEFINE e == [op |-> "ask", window |-> w]
<1>1. e \in Frame /\ e.op = "ask"
  BY WindowFrames
<1>2. <<e>> \in Seq(Frame) /\ Range(<<e>>) = {e} /\ OnlyAtBottom(<<e>>)
  BY <1>1, Short
<1>3. FlushFirst(w) \in Seq(Frame) /\ \A f \in Range(FlushFirst(w)) : f.op = "flush"
  BY FlushFirstFrames
<1>4. AskToClose(w) = <<e>> \o FlushFirst(w)
  BY DEF AskToClose
<1> HIDE DEF e
<1>5. /\ AskToClose(w) \in Seq(Frame) /\ OnlyAtBottom(AskToClose(w))
      /\ Range(AskToClose(w)) = {e} \cup Range(FlushFirst(w))
  BY <1>2, <1>3, <1>4, Joined
<1>6. /\ s \o AskToClose(w) \in Seq(Frame)
      /\ Range(s \o AskToClose(w)) = Range(s) \cup Range(AskToClose(w))
      /\ OnlyAtBottom(s \o AskToClose(w))
  BY <1>1, <1>3, <1>5, Joined DEF Sound
<1> QED BY <1>1, <1>3, <1>5, <1>6 DEF Sound, Watched, WatchedOps

LEMMA AskingStep ==
  ASSUME WindowInv,
         \/ Ask \/ Cancelled \/ ClosedReported
         \/ \E w \in Windows : \/ CloseEvent(w)
                               \/ RequestClose(w) /\ UNCHANGED <<sink, stopping, accepting, overtaken>>
  PROVE  WindowInv'
<1>0. Sound(stack) /\ accepting \in BOOLEAN
  BY SoundNow DEF WindowInv, TypeOK
<1>1. CASE Ask
  <2>1. stack # <<>> /\ Top.op = "ask"
    BY <1>1 DEF Ask, InFrame
  <2>2. Sound(Pop) /\ Watched(Pop) = Watched(stack) /\ Top.window \in Windows
    BY <1>0, <2>1, PoppedKeeps, FrameFields DEF WatchedOps
  <2> DEFINE e == [op |-> "asking", window |-> Top.window]
  <2>3. e \in Frame /\ e.op = "asking"
    BY <2>2, WindowFrames
  <2>4. stack' = Pop \/ stack' = Append(Pop, e)
    BY <1>1 DEF Ask
  <2> HIDE DEF e
  <2>5. Sound(stack') /\ Watched(stack') = Watched(stack)
    BY <2>2, <2>3, <2>4, PushedKeeps DEF WatchedOps
  <2> QED BY <1>0, <1>1, <2>5, FlushesAdded DEF Ask
<1>2. CASE Cancelled \/ ClosedReported
  <2>1. stack # <<>> /\ Top.op \in {"asking", "closed"} /\ stack' = Pop
    BY <1>2 DEF Cancelled, ClosedReported, InFrame
  <2>2. Sound(stack') /\ Watched(stack') = Watched(stack)
    BY <1>0, <2>1, PoppedKeeps DEF WatchedOps
  <2> QED BY <1>0, <1>2, <2>2, FlushesAdded DEF Cancelled, ClosedReported
<1>3. ASSUME NEW w \in Windows, CloseEvent(w) PROVE WindowInv'
  <2>1. stack = <<>> /\ stack' = AskToClose(w)
    BY <1>3 DEF CloseEvent, Pumping, Idle
  <2>2. Watched(stack) = {}
    BY <2>1, Short DEF Watched
  <2>3. Sound(stack') /\ \A f \in Watched(stack') : f.op = "flush"
    BY <1>0, <2>1, AskFrames
  <2> QED BY <1>0, <1>3, <2>2, <2>3, FlushesAdded DEF CloseEvent
<1>4. ASSUME NEW w \in Windows, RequestClose(w), UNCHANGED <<sink, stopping, accepting, overtaken>>
      PROVE  WindowInv'
  <2>1. stack' = stack \o AskToClose(w)
    BY <1>4 DEF RequestClose
  <2>2. /\ Sound(stack') /\ Watched(stack) \subseteq Watched(stack')
        /\ \A f \in Watched(stack') : f \in Watched(stack) \/ f.op = "flush"
    BY <1>0, <2>1, AskFrames
  <2> QED BY <1>0, <1>4, <2>2, FlushesAdded DEF RequestClose
<1> QED BY <1>1, <1>2, <1>3, <1>4

------------------------------------------------------------------------------
(* The events of the backend.                                                *)
(* The same windows are awaited by the frames of s as by those of stack.     *)
SameDuties(s) ==
  /\ \A v \in Windows : \A o \in {"finalize", "release", "flush", "remove"} :
       (\E f \in Watched(stack) : f.op = o /\ f.window = v) <=>
       (\E f \in Watched(s) : f.op = o /\ f.window = v)
  /\ \A f \in Watched(s) : f.op = "destroyAll" => f \in Watched(stack)

LEMMA DutiesShared ==
  ASSUME WindowInv, NEW s, SameDuties(s), Sound(stack'), Watched(s) \subseteq Watched(stack'),
         \A f \in Watched(stack') : f \in Watched(s) \/ f.op = "flush",
         SameExistence, UNCHANGED <<managed, record, sink, stopping, accepting, overtaken>>,
         pending' \in Table, posts' \in Seq(Windows),
         \A v \in Windows : pending'[v] # NoConfiguration => v \in Range(posts') \/ Flushing(v) \/ Flushing(v)'
  PROVE  WindowInv'
<1>1. UNCHANGED <<lifecycle, configuration, requested, sources>>
  BY DEF record
<1>2. ASSUME NEW v \in Windows
      PROVE  /\ Finalizing(v) <=> Finalizing(v)'
             /\ Releasing(v) <=> Releasing(v)'
             /\ Leaving(v) <=> Leaving(v)'
             /\ Flushing(v) => Flushing(v)'
  BY WatchedFrames DEF SameDuties
<1>3. \A f \in Begun' : f.op = "destroyAll" => f \in Begun
  BY WatchedFrames DEF SameDuties
<1>4. Duties' /\ ShutdownDuty'
  BY <1>1, <1>2, <1>3, DutiesKept
<1>5. Buffered'
  BY <1>2 DEF Buffered
<1>6. Records' /\ SuppressedIsDisabled'
  BY <1>1 DEF WindowInv, Records, SuppressedIsDisabled, SameExistence, Exists, Lives
<1>7. TypeOK' /\ OnlyAtBottom(stack')
  BY <1>1 DEF WindowInv, TypeOK, SameExistence, Sound, Table
<1> QED BY <1>4, <1>5, <1>6, <1>7 DEF WindowInv

(* What is buffered has its flush, whether the runtime takes it or not.      *)
LEMMA ReportEffect ==
  ASSUME WindowInv, NEW w \in Windows, NEW reported \in Configuration, NEW rest, Sound(rest),
         Report(w, reported, rest)
  PROVE  /\ pending' \in Table /\ posts' \in Seq(Windows) /\ Sound(stack')
         /\ Watched(rest) \subseteq Watched(stack')
         /\ \A f \in Watched(stack') : f \in Watched(rest) \/ f.op = "flush"
         /\ \A v \in Windows : pending'[v] # NoConfiguration => v \in Range(posts') \/ Flushing(v) \/ Flushing(v)'
<1>1. pending \in Table /\ posts \in Seq(Windows) /\ Buffered
  BY DEF WindowInv, TypeOK, Table
<1>2. CASE ~sink
  BY <1>1, <1>2 DEF Report, Buffered
<1>3. CASE sink /\ ~StartsBurst(w)
  <2>1. pending' = [pending EXCEPT ![w] = reported] /\ stack' = rest /\ UNCHANGED posts
    BY <1>3 DEF Report
  <2>2. pending' \in Table
    BY <1>1, <2>1 DEF Table
  <2>3. \A v \in Windows : pending'[v] # NoConfiguration => v \in Range(posts') \/ Flushing(v)
    BY <1>1, <1>3, <2>1 DEF Buffered, StartsBurst, Table
  <2> QED BY <1>1, <2>1, <2>2, <2>3
<1>4. CASE sink /\ StartsBurst(w) /\ accepting
  <2>1. pending' = [pending EXCEPT ![w] = reported] /\ stack' = rest /\ posts' = Append(posts, w)
    BY <1>4 DEF Report, PostsFlush
  <2>2. pending' \in Table
    BY <1>1, <2>1 DEF Table
  <2>3. posts' \in Seq(Windows) /\ Range(posts') = Range(posts) \cup {w}
    BY <1>1, <2>1, RangePushed
  <2>4. \A v \in Windows : pending'[v] # NoConfiguration => v \in Range(posts') \/ Flushing(v)
    BY <1>1, <2>1, <2>3 DEF Buffered, Table
  <2> QED BY <1>1, <2>1, <2>2, <2>3, <2>4
<1>5. CASE sink /\ StartsBurst(w) /\ ~accepting
  <2>1. pending' = [pending EXCEPT ![w] = reported] /\ stack' = Append(rest, Flush(w)) /\ UNCHANGED posts
    BY <1>5 DEF Report, PostsFlush
  <2>2. pending' \in Table
    BY <1>1, <2>1 DEF Table
  <2>3. Flush(w) \in Frame /\ Flush(w).op = "flush" /\ Flush(w).window = w
    BY WindowFrames
  <2>4. Sound(stack') /\ Watched(stack') = Watched(rest) \cup {Flush(w)}
    BY <2>1, <2>3, Pushed DEF Sound, Watched, WatchedOps
  <2>5. Flushing(w)'
    BY <2>3, <2>4, WatchedFrames
  <2>6. \A v \in Windows : pending'[v] # NoConfiguration => v \in Range(posts') \/ Flushing(v) \/ Flushing(v)'
    BY <1>1, <2>1, <2>5 DEF Buffered, Table
  <2> QED BY <1>1, <2>1, <2>2, <2>3, <2>4, <2>6
<1> QED BY <1>2, <1>3, <1>4, <1>5

LEMMA ConfigurationEventStep ==
  ASSUME WindowInv, NEW w \in Windows, ConfigurationEvent(w)
  PROVE  WindowInv'
<1>1. Report(w, native[w], stack) /\ UNCHANGED <<managed, record, native, sink, stopping, accepting, overtaken>>
  BY DEF ConfigurationEvent
<1>2. native[w] \in Configuration
  BY DEF ConfigurationEvent, WindowInv, TypeOK, Exists
<1>3. SameExistence /\ SameDuties(stack)
  BY <1>1 DEF SameDuties, SameExistence, Exists, WindowInv, TypeOK, Table
<1> QED BY <1>1, <1>2, <1>3, SoundNow, ReportEffect, DutiesShared

------------------------------------------------------------------------------
(* A window goes: its children first, each of which may be flushed.          *)
Detaching(c) == [Top EXCEPT !.children = @ \ {c}]

LEMMA DetachingFields ==
  ASSUME Top \in Frame, Top.op = "remove", NEW c
  PROVE  /\ Detaching(c) \in Frame /\ Detaching(c).op = "remove" /\ Detaching(c).window = Top.window
         /\ Detaching(c).children = Top.children \ {c} /\ Detaching(c).notify = Top.notify
<1>1. Top \in [op : {"remove"}, window : Windows, children : SUBSET Windows, notify : BOOLEAN]
  BY DEF Frame
<1>2. Detaching(c) = [op |-> "remove", window |-> Top.window, children |-> Top.children \ {c},
                      notify |-> Top.notify]
  BY <1>1 DEF Detaching
<1>3. Top.window \in Windows /\ Top.children \ {c} \in SUBSET Windows /\ Top.notify \in BOOLEAN
  BY <1>1
<1> QED BY <1>2, <1>3, WindowFrames

LEMMA DetachEffect ==
  ASSUME WindowInv, DetachNext
  PROVE  /\ stack # <<>> /\ Top.op = "remove" /\ Top \in Frame
         /\ Top.window \in Windows /\ Top.children \subseteq Windows
         /\ \E c \in Top.children :
              /\ Sound(Append(Pop, Detaching(c)))
              /\ Watched(Append(Pop, Detaching(c))) = Watched(Pop) \cup {Detaching(c)}
              /\ Detaching(c).op = "remove" /\ Detaching(c).window = Top.window
              /\ \/ /\ Exists(c) /\ native' = [native EXCEPT ![c] = Detached(@)]
                    /\ native[c] \in Configuration /\ Detached(native[c]) \in Configuration
                    /\ Report(c, Detached(native[c]), Append(Pop, Detaching(c)))
                 \/ UNCHANGED <<native, pending, posts>> /\ stack' = Append(Pop, Detaching(c))
         /\ UNCHANGED <<managed, record, sink, stopping, accepting, overtaken>>
<1>1. stack # <<>> /\ Top.op = "remove"
  BY DEF DetachNext, InFrame
<1>2. Sound(Pop) /\ Top \in Frame /\ Top.window \in Windows /\ Top.children \subseteq Windows
  BY <1>1, SoundNow, PoppedKeeps, FrameFields
<1>3. PICK c \in Top.children :
        IF Exists(c)
        THEN /\ native' = [native EXCEPT ![c] = Detached(@)]
             /\ Report(c, Detached(native[c]), Append(Pop, Detaching(c)))
        ELSE UNCHANGED <<native, pending, posts>> /\ stack' = Append(Pop, Detaching(c))
  BY DEF DetachNext, Detaching
<1>4. Detaching(c) \in Frame /\ Detaching(c).op = "remove" /\ Detaching(c).window = Top.window
  BY <1>1, <1>2, DetachingFields
<1>5. /\ Sound(Append(Pop, Detaching(c)))
      /\ Watched(Append(Pop, Detaching(c))) = Watched(Pop) \cup {Detaching(c)}
  BY <1>2, <1>4, Pushed DEF Sound, Watched, WatchedOps
<1>6. Exists(c) => native[c] \in Configuration
  BY <1>2 DEF WindowInv, TypeOK, Exists
<1>7. Exists(c) => Detached(native[c]) \in Configuration
  BY <1>6, ConfigurationFields
<1>8. UNCHANGED <<managed, record, sink, stopping, accepting, overtaken>>
  BY DEF DetachNext
<1> QED BY <1>1, <1>2, <1>3, <1>4, <1>5, <1>6, <1>7, <1>8

LEMMA DetachStep ==
  ASSUME WindowInv, DetachNext
  PROVE  WindowInv'
<1>1. /\ stack # <<>> /\ Top.op = "remove"
      /\ Top.window \in Windows /\ Top.children \subseteq Windows
      /\ UNCHANGED <<managed, record, sink, stopping, accepting, overtaken>>
  BY DetachEffect
<1>2. PICK c \in Top.children :
        /\ Sound(Append(Pop, Detaching(c)))
        /\ Watched(Append(Pop, Detaching(c))) = Watched(Pop) \cup {Detaching(c)}
        /\ Detaching(c).op = "remove" /\ Detaching(c).window = Top.window
        /\ \/ /\ Exists(c) /\ native' = [native EXCEPT ![c] = Detached(@)]
              /\ native[c] \in Configuration /\ Detached(native[c]) \in Configuration
              /\ Report(c, Detached(native[c]), Append(Pop, Detaching(c)))
           \/ UNCHANGED <<native, pending, posts>> /\ stack' = Append(Pop, Detaching(c))
  BY DetachEffect
<1> DEFINE rest == Append(Pop, Detaching(c))
<1>3. /\ Watched(Pop) \subseteq Watched(stack) /\ Watched(stack) \subseteq Watched(Pop) \cup {Top}
      /\ Top \in Watched(stack)
  BY <1>1, SoundNow, PoppedKeeps, StackTop DEF Watched, WatchedOps, Sound, Begun
<1>4. SameDuties(rest)
  BY <1>1, <1>2, <1>3 DEF SameDuties
<1>5. native \in Table
  BY DEF WindowInv, TypeOK, Table
<1>6. SameExistence
  BY <1>1, <1>2, <1>5, NoConfigurationAssumption DEF SameExistence, Exists, Table
<1> HIDE DEF rest
<1>7. CASE Report(c, Detached(native[c]), rest) /\ Detached(native[c]) \in Configuration
  BY <1>1, <1>2, <1>4, <1>6, <1>7, ReportEffect, DutiesShared DEF rest
<1>8. CASE UNCHANGED <<native, pending, posts>> /\ stack' = rest
  <2>1. pending' \in Table /\ posts' \in Seq(Windows) /\ Sound(stack')
    BY <1>2, <1>8 DEF WindowInv, TypeOK, Table, rest
  <2>2. \A v \in Windows : pending'[v] # NoConfiguration => v \in Range(posts') \/ Flushing(v)
    BY <1>8 DEF WindowInv, Buffered
  <2> QED BY <1>1, <1>4, <1>6, <1>8, <2>1, <2>2, DutiesShared
<1> QED BY <1>2, <1>7, <1>8 DEF rest

------------------------------------------------------------------------------
(* The destruction of a window begins: the window leaves or, when the        *)
(* backend has lost it already, is finalized.                                *)
LEMMA GoingStep ==
  ASSUME WindowInv, NEW w \in Windows, lifecycle[w] # "none",
         NEW gone \in BOOLEAN, gone => ~Exists(w),
         \/ lifecycle' = lifecycle
         \/ IsOpen(w) /\ lifecycle' = [lifecycle EXCEPT ![w] = "Destroying"],
         UNCHANGED <<managed, configuration, requested, sources, pending, native, sink, stopping,
                     posts, accepting, overtaken>>,
         Sound(stack'),
         \A v \in Windows : /\ Finalizing(v)' <=> Finalizing(v) \/ (gone /\ v = w)
                            /\ Leaving(v)' <=> Leaving(v) \/ (~gone /\ v = w)
                            /\ Releasing(v)' <=> Releasing(v)
                            /\ Flushing(v) => Flushing(v)',
         \A f \in Begun' : f.op = "destroyAll" =>
           \E g \in Begun : g.op = "destroyAll" /\ g.todo \subseteq f.todo \cup {w}
  PROVE  WindowInv'
<1>1. TypeOK /\ Records /\ Duties /\ ShutdownDuty /\ Buffered /\ SuppressedIsDisabled
  BY DEF WindowInv
<1>2. \A v \in Windows : /\ Exists(v)' <=> Exists(v)
                         /\ Lives(v)' <=> Lives(v)
                         /\ lifecycle'[v] = "none" <=> lifecycle[v] = "none"
                         /\ lifecycle'[v] = "Destroyed" <=> lifecycle[v] = "Destroyed"
                         /\ lifecycle'[v] = "Destroying" => lifecycle[v] = "Destroying" \/ v = w
                         /\ lifecycle'[v] \in {"none", "Open", "Destroying", "Destroyed"}
  BY <1>1 DEF TypeOK, Exists, Lives, IsOpen
<1>3. Records' /\ SuppressedIsDisabled'
  BY <1>1, <1>2 DEF Records, SuppressedIsDisabled
<1>4. TypeOK' /\ OnlyAtBottom(stack')
  BY <1>1, <1>2 DEF TypeOK, Sound
<1>5. Duties'
  BY <1>1, <1>2 DEF Duties
<1>6. ShutdownDuty'
  <2> SUFFICES ASSUME NEW f \in Begun', f.op = "destroyAll"
               PROVE  stopping /\ \A v \in managed : v \in f.todo \/ Leaving(v)' \/ Finalizing(v)' \/ Releasing(v)'
    BY DEF ShutdownDuty
  <2>1. PICK g \in Begun : g.op = "destroyAll" /\ g.todo \subseteq f.todo \cup {w}
    OBVIOUS
  <2>2. managed \subseteq Windows
    BY <1>1 DEF TypeOK
  <2> QED BY <1>1, <2>1, <2>2 DEF ShutdownDuty
<1>7. Buffered'
  BY <1>1 DEF Buffered
<1> QED BY <1>3, <1>4, <1>5, <1>6, <1>7 DEF WindowInv

LEMMA RemovingFrames ==
  ASSUME NEW w \in Windows, NEW s, Sound(s), NEW notify \in BOOLEAN
  PROVE  \E e \in Frame : /\ e.op = "remove" /\ e.window = w
                          /\ Removing(s, w, notify) = Append(s, e)
                          /\ Sound(Removing(s, w, notify))
                          /\ Watched(Removing(s, w, notify)) = Watched(s) \cup {e}
<1> DEFINE e == [op |-> "remove", window |-> w, children |-> Children(w), notify |-> notify]
<1>1. Children(w) \in SUBSET Windows
  BY DEF Children
<1>2. e \in Frame /\ e.op = "remove" /\ e.window = w
  BY <1>1, WindowFrames
<1>3. Removing(s, w, notify) = Append(s, e)
  BY DEF Removing
<1> HIDE DEF e
<1>4. Sound(Append(s, e)) /\ Watched(Append(s, e)) = Watched(s) \cup {e}
  BY <1>2, Pushed DEF Sound, Watched, WatchedOps
<1> QED BY <1>2, <1>3, <1>4

LEMMA LeavingStep ==
  ASSUME WindowInv,
         \/ Closes
         \/ \E w \in Windows : \/ DestroyedEvent(w)
                               \/ /\ CanDestroy(w) /\ DestroyWindow(w)
                                  /\ UNCHANGED <<sink, stopping, accepting, overtaken>>
  PROVE  WindowInv'
<1>1. PICK w \in Windows, s \in Seq(Frame), notify \in BOOLEAN :
        /\ Exists(w) /\ Sound(s) /\ Watched(s) = Watched(stack) /\ stack' = Removing(s, w, notify)
        /\ \/ lifecycle' = lifecycle
           \/ IsOpen(w) /\ lifecycle' = [lifecycle EXCEPT ![w] = "Destroying"]
        /\ UNCHANGED <<managed, configuration, requested, sources, pending, native, sink, stopping,
                       posts, accepting, overtaken>>
  <2>1. CASE Closes
    <3>1. stack # <<>> /\ Top.op = "asking"
      BY <2>1 DEF Closes, InFrame
    <3>2. Sound(Pop) /\ Watched(Pop) = Watched(stack) /\ Top.window \in Windows
      BY <3>1, SoundNow, PoppedKeeps, FrameFields DEF WatchedOps
    <3>3. Exists(Top.window) /\ stack' = Removing(Pop, Top.window, TRUE)
      BY <2>1 DEF Closes
    <3> QED BY <2>1, <3>2, <3>3 DEF Closes, record, Sound
  <2>2. ASSUME NEW w \in Windows, DestroyedEvent(w)
        PROVE  /\ Exists(w) /\ stack' = Removing(stack, w, TRUE) /\ lifecycle' = lifecycle
               /\ UNCHANGED <<managed, configuration, requested, sources, pending, native, sink, stopping,
                              posts, accepting, overtaken>>
    BY <2>2 DEF DestroyedEvent, record
  <2>3. ASSUME NEW w \in Windows, CanDestroy(w), DestroyWindow(w),
               UNCHANGED <<sink, stopping, accepting, overtaken>>
        PROVE  /\ Exists(w) /\ stack' = Removing(stack, w, FALSE)
               /\ IsOpen(w) /\ lifecycle' = [lifecycle EXCEPT ![w] = "Destroying"]
               /\ UNCHANGED <<managed, configuration, requested, sources, pending, native, sink, stopping,
                              posts, accepting, overtaken>>
    BY <2>3 DEF DestroyWindow, CanDestroy
  <2>4. Sound(stack) /\ stack \in Seq(Frame)
    BY SoundNow DEF Sound
  <2> QED BY <2>1, <2>2, <2>3, <2>4
<1>2. PICK e \in Frame : /\ e.op = "remove" /\ e.window = w /\ Sound(stack')
                         /\ Watched(stack') = Watched(stack) \cup {e}
  BY <1>1, RemovingFrames
<1>3. /\ \A v \in Windows : /\ Finalizing(v)' <=> Finalizing(v)
                            /\ Leaving(v)' <=> Leaving(v) \/ v = w
                            /\ Releasing(v)' <=> Releasing(v)
                            /\ Flushing(v) => Flushing(v)'
      /\ \A f \in Begun' : f.op = "destroyAll" => f \in Begun
  BY <1>2, WatchedFrames
<1>4. lifecycle[w] # "none"
  BY <1>1 DEF WindowInv, Records
<1>5. PICK gone \in BOOLEAN : gone = FALSE
  OBVIOUS
<1>6. \A f \in Begun' : f.op = "destroyAll" =>
        \E g \in Begun : g.op = "destroyAll" /\ g.todo \subseteq f.todo \cup {w}
  BY <1>3
<1> QED BY <1>1, <1>2, <1>3, <1>4, <1>5, <1>6, GoingStep

------------------------------------------------------------------------------
(* A window that the backend loses: somebody is about to forget it.          *)
LEMMA LostStep ==
  ASSUME WindowInv, NEW w \in Windows, lifecycle[w] # "none",
         native' \in Table,
         \A v \in Windows : native'[v] # NoConfiguration <=> Exists(v) /\ v # w,
         UNCHANGED <<managed, record, pending, sink, stopping, posts, accepting, overtaken>>,
         Sound(stack'),
         \A v \in Windows : /\ Finalizing(v)' <=> Finalizing(v) \/ v = w
                            /\ Leaving(v)' => Leaving(v)
                            /\ Leaving(v) => Leaving(v)' \/ v = w
                            /\ Releasing(v)' <=> Releasing(v)
                            /\ Flushing(v) => Flushing(v)',
         \A f \in Begun' : f.op = "destroyAll" => f \in Begun
  PROVE  WindowInv'
<1>1. UNCHANGED <<lifecycle, configuration, requested, sources>>
  BY DEF record
<1>2. TypeOK /\ Records /\ Duties /\ ShutdownDuty /\ Buffered /\ SuppressedIsDisabled
  BY DEF WindowInv
<1>3. Records'
  BY <1>1, <1>2 DEF Records, Exists, Lives
<1>4. SuppressedIsDisabled'
  BY <1>1, <1>2 DEF SuppressedIsDisabled
<1>5. TypeOK' /\ OnlyAtBottom(stack')
  BY <1>1, <1>2 DEF TypeOK, Sound, Table
<1>6. Duties'
  <2> SUFFICES ASSUME NEW v \in Windows
               PROVE  /\ Finalizing(v)' => ~Exists(v)' /\ lifecycle'[v] # "none"
                      /\ Releasing(v)' => lifecycle'[v] = "Destroyed"
                      /\ Leaving(v)' => lifecycle'[v] # "none"
                      /\ v \in managed' /\ ~Exists(v)' =>
                           (Finalizing(v)' /\ Lives(v)') \/ Releasing(v)'
                      /\ lifecycle'[v] = "Destroying" => Leaving(v)' \/ Finalizing(v)'
    BY DEF Duties
  <2>1. Exists(v)' <=> Exists(v) /\ v # w
    BY DEF Exists
  <2>2. Lives(v)' <=> Lives(v)
    BY <1>1 DEF Lives
  <2>3. v = w /\ v \in managed => Lives(v) \/ Releasing(v)
    <3>1. Lives(v) \/ ~Exists(v)
      BY <1>2 DEF Records
    <3> QED BY <1>2, <3>1 DEF Duties
  <2> QED BY <1>1, <1>2, <2>1, <2>2, <2>3 DEF Duties
<1>7. ShutdownDuty'
  <2> SUFFICES ASSUME NEW f \in Begun', f.op = "destroyAll"
               PROVE  stopping /\ \A v \in managed : v \in f.todo \/ Leaving(v)' \/ Finalizing(v)' \/ Releasing(v)'
    BY DEF ShutdownDuty
  <2>1. managed \subseteq Windows
    BY <1>2 DEF TypeOK
  <2> QED BY <1>2, <2>1 DEF ShutdownDuty
<1>8. Buffered'
  BY <1>2 DEF Buffered
<1> QED BY <1>3, <1>4, <1>5, <1>6, <1>7, <1>8 DEF WindowInv

Finalization(w) == [op |-> "finalize", window |-> w]

LEMMA ReportFrames ==
  ASSUME NEW w \in Windows, NEW s, Sound(s)
  PROVE  /\ Finalization(w).op = "finalize" /\ Finalization(w).window = w
         /\ Sound(s \o ReportClosed(w)) /\ Sound(ReportClosed(w)) /\ Sound(Append(s, Finalization(w)))
         /\ Watched(s) \cup {Finalization(w)} \subseteq Watched(s \o ReportClosed(w))
         /\ \A f \in Watched(s \o ReportClosed(w)) :
              f \in Watched(s) \/ f = Finalization(w) \/ f.op = "flush"
         /\ Finalization(w) \in Watched(ReportClosed(w))
         /\ \A f \in Watched(ReportClosed(w)) : f = Finalization(w) \/ f.op = "flush"
         /\ Watched(Append(s, Finalization(w))) = Watched(s) \cup {Finalization(w)}
<1> DEFINE e == Finalization(w)
<1>1. e \in Frame /\ e.op = "finalize" /\ e.window = w
  BY WindowFrames DEF Finalization
<1>2. <<e>> \in Seq(Frame) /\ Range(<<e>>) = {e} /\ OnlyAtBottom(<<e>>)
  BY <1>1, Short
<1>3. FlushFirst(w) \in Seq(Frame) /\ \A f \in Range(FlushFirst(w)) : f.op = "flush"
  BY FlushFirstFrames
<1>4. ReportClosed(w) = <<e>> \o FlushFirst(w)
  BY DEF ReportClosed, Finalization
<1>5. /\ Append(s, e) \in Seq(Frame) /\ OnlyAtBottom(Append(s, e))
      /\ Range(Append(s, e)) = Range(s) \cup {e}
  BY <1>1, Pushed DEF Sound
<1> HIDE DEF e
<1>6. /\ ReportClosed(w) \in Seq(Frame) /\ OnlyAtBottom(ReportClosed(w))
      /\ Range(ReportClosed(w)) = {e} \cup Range(FlushFirst(w))
  BY <1>2, <1>3, <1>4, Joined
<1>7. /\ s \o ReportClosed(w) \in Seq(Frame)
      /\ Range(s \o ReportClosed(w)) = Range(s) \cup Range(ReportClosed(w))
      /\ OnlyAtBottom(s \o ReportClosed(w))
  BY <1>1, <1>3, <1>6, Joined DEF Sound
<1>8. /\ Sound(s \o ReportClosed(w)) /\ Sound(ReportClosed(w)) /\ Sound(Append(s, e))
      /\ Watched(s) \cup {e} \subseteq Watched(s \o ReportClosed(w))
      /\ \A f \in Watched(s \o ReportClosed(w)) : f \in Watched(s) \/ f = e \/ f.op = "flush"
      /\ e \in Watched(ReportClosed(w))
      /\ \A f \in Watched(ReportClosed(w)) : f = e \/ f.op = "flush"
      /\ Watched(Append(s, e)) = Watched(s) \cup {e}
  BY <1>1, <1>3, <1>5, <1>6, <1>7 DEF Sound, Watched, WatchedOps
<1> QED BY <1>1, <1>8 DEF e

LEMMA RemoveEffect ==
  ASSUME WindowInv, Remove
  PROVE  /\ stack # <<>> /\ Top.op = "remove" /\ Top.window \in Windows
         /\ native' = [native EXCEPT ![Top.window] = NoConfiguration]
         /\ \/ Top.notify /\ stack' = Pop \o ReportClosed(Top.window)
            \/ ~Top.notify /\ stack' = Append(Pop, Finalization(Top.window))
         /\ Sound(stack') /\ Watched(Pop) \cup {Finalization(Top.window)} \subseteq Watched(stack')
         /\ \A f \in Watched(stack') :
              f \in Watched(Pop) \/ f = Finalization(Top.window) \/ f.op = "flush"
         /\ UNCHANGED <<managed, record, pending, sink, stopping, posts, accepting, overtaken>>
<1>1. stack # <<>> /\ Top.op = "remove"
  BY DEF Remove, InFrame
<1>2. Sound(Pop) /\ Top \in Frame /\ Top.window \in Windows /\ Top.notify \in BOOLEAN
  BY <1>1, SoundNow, PoppedKeeps, FrameFields
<1>3. /\ native' = [native EXCEPT ![Top.window] = NoConfiguration]
      /\ \/ Top.notify /\ stack' = Pop \o ReportClosed(Top.window)
         \/ ~Top.notify /\ stack' = Append(Pop, Finalization(Top.window))
      /\ UNCHANGED <<managed, record, pending, sink, stopping, posts, accepting, overtaken>>
  BY <1>2 DEF Remove, Finalization
<1>4. /\ Sound(stack') /\ Watched(Pop) \cup {Finalization(Top.window)} \subseteq Watched(stack')
      /\ \A f \in Watched(stack') :
           f \in Watched(Pop) \/ f = Finalization(Top.window) \/ f.op = "flush"
  <2>1. CASE stack' = Pop \o ReportClosed(Top.window)
    BY <1>2, <2>1, ReportFrames
  <2>2. CASE stack' = Append(Pop, Finalization(Top.window))
    BY <1>2, <2>2, ReportFrames
  <2> QED BY <1>3, <2>1, <2>2
<1> QED BY <1>1, <1>2, <1>3, <1>4

LEMMA RemoveStep ==
  ASSUME WindowInv, Remove
  PROVE  WindowInv'
<1> DEFINE w == Top.window
<1>1. /\ stack # <<>> /\ Top.op = "remove" /\ w \in Windows
      /\ native' = [native EXCEPT ![w] = NoConfiguration]
      /\ Sound(stack') /\ Watched(Pop) \cup {Finalization(w)} \subseteq Watched(stack')
      /\ \A f \in Watched(stack') : f \in Watched(Pop) \/ f = Finalization(w) \/ f.op = "flush"
      /\ UNCHANGED <<managed, record, pending, sink, stopping, posts, accepting, overtaken>>
  BY RemoveEffect
<1>2. /\ Watched(Pop) \subseteq Watched(stack) /\ Watched(stack) \subseteq Watched(Pop) \cup {Top}
      /\ Top \in Watched(stack) /\ Top.window = w
  BY <1>1, SoundNow, PoppedKeeps, StackTop DEF Watched, WatchedOps, Sound, Begun
<1>3. Finalization(w).op = "finalize" /\ Finalization(w).window = w
  BY <1>1, ReportFrames, SoundNow
<1> HIDE DEF w
<1>4. /\ \A v \in Windows : /\ Finalizing(v)' <=> Finalizing(v) \/ v = w
                            /\ Leaving(v)' => Leaving(v)
                            /\ Leaving(v) => Leaving(v)' \/ v = w
                            /\ Releasing(v)' <=> Releasing(v)
                            /\ Flushing(v) => Flushing(v)'
      /\ \A f \in Begun' : f.op = "destroyAll" => f \in Begun
  BY <1>1, <1>2, <1>3, WatchedFrames
<1>5. Leaving(w)
  BY <1>1, <1>2, WatchedFrames
<1>6. lifecycle[w] # "none"
  BY <1>1, <1>5 DEF WindowInv, Duties
<1>7. native' \in Table /\ \A v \in Windows : native'[v] # NoConfiguration <=> Exists(v) /\ v # w
  BY <1>1 DEF WindowInv, TypeOK, Table, Exists
<1> QED BY <1>1, <1>4, <1>6, <1>7, LostStep

(* The shutdown is at the bottom of the stack and goes on with one window    *)
(* less.                                                                     *)
Remaining(w) == [Top EXCEPT !.todo = @ \ {w}]

LEMMA DestroyAllFrames ==
  ASSUME WindowInv, stack # <<>>, Top.op = "destroyAll", NEW w
  PROVE  /\ Pop = <<>> /\ Begun = {Top} /\ Watched(stack) = {Top}
         /\ Remaining(w).op = "destroyAll" /\ Remaining(w).todo = Top.todo \ {w}
         /\ Sound(Append(Pop, Remaining(w))) /\ Watched(Append(Pop, Remaining(w))) = {Remaining(w)}
<1>1. stack \in Seq(Frame) /\ OnlyAtBottom(stack)
  BY DEF WindowInv, TypeOK
<1>2. Len(stack) = 1
  <2>1. Len(stack) \in DOMAIN stack
    BY <1>1
  <2>2. stack[Len(stack)].op = "destroyAll"
    BY DEF Top
  <2> QED BY <1>1, <2>1, <2>2 DEF OnlyAtBottom
<1>3. Top \in Frame /\ Pop \in Seq(Frame) /\ Len(Pop) = 0 /\ Begun = Range(Pop) \cup {Top}
  BY <1>1, <1>2, StackTop
<1>4. Pop = <<>>
  BY <1>3
<1>5. Begun = {Top}
  BY <1>3, <1>4, Short
<1>6. Watched(stack) = {Top}
  BY <1>1, <1>5 DEF Watched, WatchedOps, Begun
<1>7. Top \in [op : {"destroyAll"}, todo : SUBSET Windows]
  BY <1>3 DEF Frame
<1>8. Remaining(w) = [op |-> "destroyAll", todo |-> Top.todo \ {w}] /\ Top.todo \ {w} \in SUBSET Windows
  <2>1. PICK todo \in SUBSET Windows : Top = [op |-> "destroyAll", todo |-> todo]
    BY <1>7
  <2>2. todo \ {w} \in SUBSET Windows /\ Top.todo = todo
    BY <2>1
  <2>3. [Top EXCEPT !.todo = @ \ {w}] = [op |-> "destroyAll", todo |-> todo \ {w}]
    <3>1. \A more, less : [[op |-> "destroyAll", todo |-> more] EXCEPT !.todo = less]
                         = [op |-> "destroyAll", todo |-> less]
      OBVIOUS
    <3>2. [Top EXCEPT !.todo = @ \ {w}] = [Top EXCEPT !.todo = Top.todo \ {w}]
      OBVIOUS
    <3>3. [Top EXCEPT !.todo = Top.todo \ {w}]
            = [[op |-> "destroyAll", todo |-> todo] EXCEPT !.todo = todo \ {w}]
      BY <2>1, <2>2, Zenon
    <3> QED BY <3>1, <3>2, <3>3, Zenon
  <2> QED BY <2>2, <2>3 DEF Remaining
<1>9. Remaining(w) \in Frame /\ Remaining(w).op = "destroyAll" /\ Remaining(w).todo = Top.todo \ {w}
  BY <1>8, OtherFrames
<1>10. /\ Append(Pop, Remaining(w)) \in Seq(Frame) /\ OnlyAtBottom(Append(Pop, Remaining(w)))
       /\ Range(Append(Pop, Remaining(w))) = {Remaining(w)}
  BY <1>3, <1>4, <1>9, Pushed, Short
<1> QED BY <1>4, <1>5, <1>6, <1>9, <1>10 DEF Sound, Watched, WatchedOps

LEMMA DestroyNextStep ==
  ASSUME WindowInv, DestroyNext
  PROVE  WindowInv'
<1>1. stack # <<>> /\ Top.op = "destroyAll"
  BY DEF DestroyNext, InFrame
<1>2. stack \in Seq(Frame) /\ Top \in Frame /\ Top \in Begun
  BY <1>1, StackTop DEF WindowInv, TypeOK
<1>3. PICK w \in Windows :
        IF w \in managed /\ IsOpen(w)
        THEN /\ lifecycle' = [lifecycle EXCEPT ![w] = "Destroying"]
             /\ stack' = IF Exists(w) THEN Removing(Append(Pop, Remaining(w)), w, FALSE)
                         ELSE Append(Append(Pop, Remaining(w)), Finalization(w))
        ELSE UNCHANGED lifecycle /\ stack' = Append(Pop, Remaining(w))
  <2>1. Top.todo \subseteq Windows
    BY <1>1, <1>2, FrameFields
  <2>2. PICK w \in Top.todo :
          IF w \in managed /\ IsOpen(w)
          THEN /\ lifecycle' = [lifecycle EXCEPT ![w] = "Destroying"]
               /\ stack' = IF Exists(w) THEN Removing(Append(Pop, Remaining(w)), w, FALSE)
                           ELSE Append(Append(Pop, Remaining(w)), Finalization(w))
          ELSE UNCHANGED lifecycle /\ stack' = Append(Pop, Remaining(w))
    BY DEF DestroyNext, Remaining, Finalization
  <2> QED BY <2>1, <2>2
<1>4. UNCHANGED <<managed, configuration, requested, sources, pending, native, sink, stopping,
                  posts, accepting, overtaken>>
  BY DEF DestroyNext
<1> DEFINE rest == Append(Pop, Remaining(w))
<1>5. /\ Watched(stack) = {Top} /\ Sound(rest) /\ Watched(rest) = {Remaining(w)}
      /\ Remaining(w).op = "destroyAll" /\ Remaining(w).todo = Top.todo \ {w}
  BY <1>1, DestroyAllFrames
<1> HIDE DEF rest
<1>6. TypeOK /\ Records /\ Duties /\ ShutdownDuty /\ Buffered
  BY DEF WindowInv
<1>7. CASE w \in managed /\ IsOpen(w)
  <2>1. PICK gone \in BOOLEAN : gone = ~Exists(w)
    OBVIOUS
  <2>2. PICK e : /\ e.op = (IF gone THEN "finalize" ELSE "remove") /\ e.window = w
                 /\ Sound(stack') /\ Watched(stack') = {Remaining(w), e}
    <3>1. CASE Exists(w)
      <4>0. PICK no \in BOOLEAN : no = FALSE
        OBVIOUS
      <4>1. stack' = Removing(rest, w, no)
        BY <1>3, <1>7, <3>1, <4>0 DEF rest
      <4>2. PICK e \in Frame : /\ e.op = "remove" /\ e.window = w /\ Sound(stack')
                               /\ Watched(stack') = Watched(rest) \cup {e}
        BY <1>5, <4>0, <4>1, RemovingFrames
      <4> QED BY <1>5, <2>1, <3>1, <4>2
    <3>2. CASE ~Exists(w)
      <4>1. stack' = Append(rest, Finalization(w))
        BY <1>3, <1>7, <3>2 DEF rest
      <4>2. /\ Finalization(w).op = "finalize" /\ Finalization(w).window = w
            /\ Sound(stack') /\ Watched(stack') = Watched(rest) \cup {Finalization(w)}
        BY <1>5, <4>1, ReportFrames
      <4> QED BY <1>5, <2>1, <3>2, <4>2
    <3> QED BY <3>1, <3>2
  <2>3. \A v \in Windows : /\ Finalizing(v)' <=> Finalizing(v) \/ (gone /\ v = w)
                           /\ Leaving(v)' <=> Leaving(v) \/ (~gone /\ v = w)
                           /\ Releasing(v)' <=> Releasing(v)
                           /\ Flushing(v) => Flushing(v)'
    BY <1>1, <1>5, <2>2, WatchedFrames
  <2>4. \A f \in Begun' : f.op = "destroyAll" =>
          \E g \in Begun : g.op = "destroyAll" /\ g.todo \subseteq f.todo \cup {w}
    <3>1. \A f \in Begun' : f.op = "destroyAll" => f = Remaining(w)
      BY <2>2, WatchedFrames
    <3> QED BY <1>1, <1>2, <1>5, <3>1
  <2>5. lifecycle[w] # "none"
    BY <1>7 DEF IsOpen
  <2>6. lifecycle' = [lifecycle EXCEPT ![w] = "Destroying"] /\ IsOpen(w)
    BY <1>3, <1>7
  <2> QED BY <1>4, <2>1, <2>2, <2>3, <2>4, <2>5, <2>6, GoingStep
<1>8. CASE ~(w \in managed /\ IsOpen(w))
  <2>1. UNCHANGED lifecycle /\ stack' = rest
    BY <1>3, <1>8 DEF rest
  <2>2. Adjusts
    BY <1>4, <2>1, NothingAdjusted
  <2>3. Records' /\ SuppressedIsDisabled' /\ TypeOK' /\ OnlyAtBottom(stack')
    BY <1>4, <1>5, <1>6, <2>1, <2>2, RecordsKept, TypesKept DEF TypeOK, Table
  <2>4. \A v \in Windows : /\ ~Finalizing(v) /\ ~Releasing(v) /\ ~Leaving(v) /\ ~Flushing(v)
                           /\ ~Finalizing(v)' /\ ~Releasing(v)' /\ ~Leaving(v)'
    BY <1>1, <1>5, <2>1, WatchedFrames
  <2>5. Duties'
    BY <1>4, <1>6, <2>1, <2>4 DEF Duties, Exists, Lives
  <2>6. w \notin managed
    <3>1. w \in managed => lifecycle[w] # "Destroyed"
      BY <1>6, <2>4 DEF Duties, Records, Lives
    <3>2. lifecycle[w] # "Destroying"
      BY <1>6, <2>4 DEF Duties
    <3> QED BY <1>6, <1>8, <3>1, <3>2 DEF TypeOK, Records, IsOpen
  <2>7. ShutdownDuty'
    <3> SUFFICES ASSUME NEW f \in Begun', f.op = "destroyAll"
                 PROVE  stopping /\ \A v \in managed : v \in f.todo
      BY <1>4 DEF ShutdownDuty
    <3>1. f = Remaining(w)
      BY <1>5, <2>1, WatchedFrames
    <3>2. managed \subseteq Windows
      BY <1>6 DEF TypeOK
    <3> QED BY <1>1, <1>2, <1>5, <1>6, <2>4, <2>6, <3>1, <3>2 DEF ShutdownDuty
  <2>8. Buffered'
    BY <1>4, <1>6, <2>4 DEF Buffered
  <2> QED BY <2>3, <2>5, <2>7, <2>8 DEF WindowInv
<1> QED BY <1>7, <1>8

LEMMA ShutdownSteps ==
  ASSUME WindowInv, DestroyAll \/ ShutdownBackend \/ RunFlush
  PROVE  WindowInv'
<1>1. TypeOK /\ Records /\ Duties /\ ShutdownDuty /\ Buffered /\ SuppressedIsDisabled
  BY DEF WindowInv
<1>2. CASE DestroyAll
  <2> DEFINE e == [op |-> "destroyAll", todo |-> managed]
  <2>1. stack = <<>> /\ stack' = <<e>> /\ stopping'
        /\ UNCHANGED <<managed, record, pending, native, sink, posts, accepting, overtaken>>
    BY <1>2 DEF DestroyAll, Idle
  <2>2. e \in Frame /\ e.op = "destroyAll" /\ e.todo = managed
    BY <1>1, OtherFrames DEF TypeOK
  <2> HIDE DEF e
  <2>3. Begun = {} /\ Begun' = {e} /\ stack' \in Seq(Frame) /\ OnlyAtBottom(stack')
    BY <2>1, <2>2, Short DEF Begun
  <2>4. TypeOK'
    BY <1>1, <1>2, <2>1, <2>3 DEF TypeOK, record, DestroyAll
  <2>5. Records' /\ SuppressedIsDisabled'
    BY <1>1, <2>1 DEF Records, SuppressedIsDisabled, record, Exists, Lives
  <2>6. \A w \in Windows : /\ ~Finalizing(w) /\ ~Releasing(w) /\ ~Leaving(w) /\ ~Flushing(w)
                           /\ ~Finalizing(w)' /\ ~Releasing(w)' /\ ~Leaving(w)'
    BY <2>2, <2>3 DEF Finalizing, Releasing, Leaving, Flushing
  <2>7. Duties'
    BY <1>1, <2>1, <2>6 DEF Duties, record, Exists, Lives
  <2>8. ShutdownDuty'
    BY <2>1, <2>2, <2>3 DEF ShutdownDuty
  <2>9. Buffered'
    BY <1>1, <2>1, <2>6 DEF Buffered
  <2> QED BY <2>3, <2>4, <2>5, <2>7, <2>8, <2>9 DEF WindowInv
<1>3. CASE ShutdownBackend
  <2>1. stack # <<>> /\ Top.op = "destroyAll" /\ Top.todo = {} /\ sink' = FALSE
        /\ native' = [w \in Windows |-> NoConfiguration] /\ stack' = Pop
        /\ UNCHANGED <<managed, record, pending, stopping, posts, accepting, overtaken>>
    BY <1>3 DEF ShutdownBackend, InFrame
  <2>2. Begun = {Top} /\ stack' = <<>>
    BY <2>1, DestroyAllFrames
  <2>3. Begun' = {} /\ stack' \in Seq(Frame) /\ OnlyAtBottom(stack')
    BY <2>2, Short DEF Begun
  <2>4. \A w \in Windows : /\ ~Finalizing(w) /\ ~Releasing(w) /\ ~Leaving(w) /\ ~Flushing(w)
                           /\ ~Finalizing(w)' /\ ~Releasing(w)' /\ ~Leaving(w)'
    BY <2>1, <2>2, <2>3 DEF Finalizing, Releasing, Leaving, Flushing
  <2>5. managed = {}
    BY <1>1, <2>1, <2>2, <2>4 DEF ShutdownDuty, TypeOK
  <2>6. TypeOK'
    BY <1>1, <2>1, <2>3 DEF TypeOK, record
  <2>7. Records'
    BY <1>1, <2>1, <2>5 DEF Records, record, Exists, Lives
  <2>8. Duties' /\ ShutdownDuty' /\ SuppressedIsDisabled'
    BY <1>1, <2>1, <2>3, <2>4, <2>5 DEF Duties, ShutdownDuty, SuppressedIsDisabled, record
  <2>9. Buffered'
    BY <1>1, <2>1, <2>4 DEF Buffered
  <2> QED BY <2>3, <2>6, <2>7, <2>8, <2>9 DEF WindowInv
<1>4. CASE RunFlush
  <2> DEFINE e == Flush(Head(posts))
  <2>1. stack = <<>> /\ posts # <<>> /\ stack' = <<e>> /\ posts' = Tail(posts)
        /\ UNCHANGED <<managed, record, pending, native, sink, stopping, accepting, overtaken>>
    BY <1>4 DEF RunFlush, Idle
  <2>2. /\ Head(posts) \in Windows /\ Tail(posts) \in Seq(Windows)
        /\ \A w \in Range(posts) : w = Head(posts) \/ w \in Range(Tail(posts))
    <3>1. posts \in Seq(Windows)
      BY <1>1 DEF TypeOK
    <3>2. /\ Head(posts) \in Windows /\ Tail(posts) \in Seq(Windows) /\ Len(Tail(posts)) = Len(posts) - 1
          /\ \A i \in 1 .. Len(Tail(posts)) : Tail(posts)[i] = posts[i + 1]
      BY <2>1, <3>1, HeadTailProperties
    <3>3. ASSUME NEW i \in DOMAIN posts PROVE posts[i] = Head(posts) \/ posts[i] \in Range(Tail(posts))
      <4>1. CASE i = 1
        BY <2>1, <3>1, <4>1
      <4>2. CASE i # 1
        <5>1. i - 1 \in 1 .. Len(Tail(posts)) /\ DOMAIN Tail(posts) = 1 .. Len(Tail(posts)) /\ (i - 1) + 1 = i
          BY <3>1, <3>2, <4>2
        <5>2. Tail(posts)[i - 1] = posts[i]
          BY <3>2, <5>1
        <5> QED BY <5>1, <5>2 DEF Range
      <4> QED BY <4>1, <4>2
    <3> QED BY <3>2, <3>3 DEF Range
  <2>3. e \in Frame /\ e.op = "flush" /\ e.window = Head(posts)
    BY <2>2, WindowFrames
  <2> HIDE DEF e
  <2>4. Begun = {} /\ Begun' = {e} /\ stack' \in Seq(Frame) /\ OnlyAtBottom(stack')
    BY <2>1, <2>3, Short DEF Begun
  <2>5. TypeOK'
    BY <1>1, <2>1, <2>2, <2>4 DEF TypeOK, record
  <2>6. Records' /\ SuppressedIsDisabled'
    BY <1>1, <2>1 DEF Records, SuppressedIsDisabled, record, Exists, Lives
  <2>7. \A w \in Windows : /\ ~Finalizing(w) /\ ~Releasing(w) /\ ~Leaving(w) /\ ~Flushing(w)
                           /\ ~Finalizing(w)' /\ ~Releasing(w)' /\ ~Leaving(w)' /\ (w = Head(posts) => Flushing(w)')
    BY <2>3, <2>4 DEF Finalizing, Releasing, Leaving, Flushing
  <2>8. Duties' /\ ShutdownDuty'
    BY <1>1, <2>1, <2>3, <2>4, <2>7 DEF Duties, ShutdownDuty, record, Exists, Lives
  <2>9. Buffered'
    BY <1>1, <2>1, <2>2, <2>7 DEF Buffered
  <2> QED BY <2>4, <2>5, <2>6, <2>8, <2>9 DEF WindowInv
<1> QED BY <1>2, <1>3, <1>4

------------------------------------------------------------------------------
(* A window that is forgotten.                                               *)
LEMMA ForgottenStep ==
  ASSUME WindowInv, NEW w \in Windows, ~Exists(w),
         lifecycle' = [lifecycle EXCEPT ![w] = "Destroyed"], Forget(w), stack # <<>>,
         Top.op \in {"finalize", "release"}, Top.window = w,
         UNCHANGED <<pending, native, sink, stopping, posts, accepting, overtaken>>
  PROVE  WindowInv'
<1>1. TypeOK /\ Records /\ Duties /\ ShutdownDuty /\ Buffered /\ SuppressedIsDisabled
  BY DEF WindowInv
<1>2. /\ Sound(Pop) /\ Watched(Pop) \subseteq Watched(stack) /\ Watched(stack) \subseteq Watched(Pop) \cup {Top}
  BY SoundNow, PoppedKeeps
<1>3. [op |-> "closed"] \in Frame /\ [op |-> "closed"].op = "closed"
  BY OtherFrames
<1>4. Sound(stack') /\ Watched(stack') = Watched(Pop)
  BY <1>2, <1>3, PushedKeeps DEF Forget, WatchedOps
<1>5. /\ managed' = managed \ {w}
      /\ configuration' = [configuration EXCEPT ![w] = NoConfiguration]
      /\ requested' = [requested EXCEPT ![w] = TRUE]
      /\ sources' = [sources EXCEPT ![w] = {}]
  BY DEF Forget
<1>6. \A v \in Windows : /\ Finalizing(v)' => Finalizing(v)
                         /\ Releasing(v)' => Releasing(v)
                         /\ Leaving(v) <=> Leaving(v)'
                         /\ v # w /\ Finalizing(v) => Finalizing(v)'
                         /\ v # w /\ Releasing(v) => Releasing(v)'
                         /\ Flushing(v) <=> Flushing(v)'
  BY <1>2, <1>4, WatchedFrames
<1>7. \A f \in Begun' : f.op = "destroyAll" => f \in Begun
  BY <1>2, <1>4, WatchedFrames
<1>8. TypeOK' /\ OnlyAtBottom(stack')
  BY <1>1, <1>4, <1>5 DEF TypeOK, Sound
<1>9. Records'
  BY <1>1, <1>5 DEF Records, TypeOK, Exists, Lives
<1>10. SuppressedIsDisabled'
  BY <1>1, <1>5 DEF SuppressedIsDisabled, TypeOK
<1>11. Duties'
  BY <1>1, <1>5, <1>6 DEF Duties, TypeOK, Exists, Lives
<1>12. ShutdownDuty'
  <2> SUFFICES ASSUME NEW f \in Begun', f.op = "destroyAll"
               PROVE  stopping /\ \A v \in managed' : v \in f.todo \/ Leaving(v)' \/ Finalizing(v)' \/ Releasing(v)'
    BY DEF ShutdownDuty
  <2> QED BY <1>1, <1>5, <1>6, <1>7 DEF ShutdownDuty, TypeOK
<1>13. Buffered'
  BY <1>1, <1>6 DEF Buffered
<1> QED BY <1>8, <1>9, <1>10, <1>11, <1>12, <1>13 DEF WindowInv

LEMMA EraseStep == WindowInv /\ Erase => WindowInv'
<1> SUFFICES ASSUME WindowInv, Erase PROVE WindowInv'
  OBVIOUS
<1>1. stack # <<>> /\ Top.op = "release" /\ Top \in Begun /\ Top.window \in Windows
  BY StackTop, FrameFields DEF Erase, InFrame, WindowInv, TypeOK
<1>2. Releasing(Top.window)
  BY <1>1 DEF Releasing
<1>3. lifecycle[Top.window] = "Destroyed" /\ ~Exists(Top.window)
  BY <1>1, <1>2 DEF WindowInv, Duties, Records, Lives
<1>4. lifecycle' = [lifecycle EXCEPT ![Top.window] = "Destroyed"]
  BY <1>1, <1>3 DEF Erase, WindowInv, TypeOK
<1> QED BY <1>1, <1>3, <1>4, ForgottenStep DEF Erase

LEMMA FinalizeStep == WindowInv /\ Finalize => WindowInv'
<1> SUFFICES ASSUME WindowInv, Finalize PROVE WindowInv'
  OBVIOUS
<1> DEFINE w == Top.window
<1>1. stack # <<>> /\ Top.op = "finalize" /\ Top \in Begun /\ w \in Windows
  BY StackTop, FrameFields DEF Finalize, InFrame, WindowInv, TypeOK
<1>2. Finalizing(w)
  BY <1>1 DEF Finalizing
<1>3. TypeOK /\ Records /\ Duties /\ ShutdownDuty /\ Buffered /\ SuppressedIsDisabled
  BY DEF WindowInv
<1>4. ~Exists(w) /\ lifecycle[w] # "none"
  BY <1>1, <1>2, <1>3 DEF Duties
<1>5. UNCHANGED <<pending, native, sink, stopping, posts, accepting, overtaken>>
  BY DEF Finalize
<1>6. /\ Sound(Pop) /\ Watched(Pop) \subseteq Watched(stack) /\ Watched(stack) \subseteq Watched(Pop) \cup {Top}
  BY <1>1, SoundNow, PoppedKeeps
<1>7. CASE w \notin managed \/ lifecycle[w] = "Destroyed"
  <2>1. UNCHANGED <<managed, record>> /\ stack' = Pop
    BY <1>7 DEF Finalize
  <2>2. UNCHANGED <<lifecycle, configuration, requested, sources>>
    BY <2>1 DEF record
  <2>3. Adjusts
    BY <1>5, <2>2, NothingAdjusted
  <2>4. Records' /\ SuppressedIsDisabled' /\ TypeOK' /\ OnlyAtBottom(stack')
    BY <1>3, <1>5, <1>6, <2>1, <2>2, <2>3, RecordsKept, TypesKept DEF TypeOK, Table
  <2>5. /\ \A v \in Windows : /\ Finalizing(v)' => Finalizing(v)
                              /\ v # w /\ Finalizing(v) => Finalizing(v)'
                              /\ Releasing(v) <=> Releasing(v)'
                              /\ Leaving(v) <=> Leaving(v)'
                              /\ Flushing(v) <=> Flushing(v)'
        /\ \A f \in Begun' : f.op = "destroyAll" => f \in Begun
    BY <1>1, <1>6, <2>1, WatchedFrames
  <2>6. w \in managed => Releasing(w)
    BY <1>1, <1>3, <1>4, <1>7 DEF Duties, Lives
  <2>7. Duties'
    BY <1>3, <1>5, <2>1, <2>2, <2>5, <2>6 DEF Records, Duties, Exists, Lives
  <2>8. ShutdownDuty'
    <3> SUFFICES ASSUME NEW f \in Begun', f.op = "destroyAll"
                 PROVE  stopping /\ \A v \in managed : v \in f.todo \/ Leaving(v)' \/ Finalizing(v)' \/ Releasing(v)'
      BY <1>5, <2>1 DEF ShutdownDuty
    <3>1. managed \subseteq Windows
      BY <1>3 DEF TypeOK
    <3> QED BY <1>3, <2>5, <2>6, <3>1 DEF ShutdownDuty
  <2>9. Buffered'
    BY <1>3, <1>5, <2>5 DEF Buffered
  <2> QED BY <2>4, <2>7, <2>8, <2>9 DEF WindowInv
<1>8. CASE w \in managed /\ lifecycle[w] # "Destroyed" /\ CoveredTargets(w) = {}
  <2>1. lifecycle' = [lifecycle EXCEPT ![w] = "Destroyed"] /\ Forget(w)
    BY <1>8 DEF Finalize
  <2> QED BY <1>1, <1>4, <1>5, <2>1, ForgottenStep
<1>9. CASE w \in managed /\ lifecycle[w] # "Destroyed" /\ CoveredTargets(w) # {}
  <2> DEFINE e == [op |-> "release", window |-> w, targets |-> CoveredTargets(w)]
  <2>1. /\ lifecycle' = [lifecycle EXCEPT ![w] = "Destroyed"]
        /\ stack' = Append(Pop, e)
        /\ UNCHANGED <<managed, configuration, requested, sources>>
    BY <1>9 DEF Finalize
  <2>2. CoveredTargets(w) \subseteq Windows
    BY <1>3 DEF CoveredTargets, TypeOK
  <2>3. e \in Frame /\ e.op = "release" /\ e.window = w
    BY <1>1, <2>2, WindowFrames
  <2> HIDE DEF e
  <2>4. Sound(stack') /\ Watched(stack') = Watched(Pop) \cup {e}
    BY <1>6, <2>1, <2>3, Pushed DEF Sound, Watched, WatchedOps
  <2>5. /\ \A v \in Windows : /\ Finalizing(v)' => Finalizing(v)
                              /\ v # w /\ Finalizing(v) => Finalizing(v)'
                              /\ Releasing(v)' <=> Releasing(v) \/ v = w
                              /\ Leaving(v) <=> Leaving(v)'
                              /\ Flushing(v) <=> Flushing(v)'
        /\ \A f \in Begun' : f.op = "destroyAll" => f \in Begun
    BY <1>1, <1>6, <2>3, <2>4, WatchedFrames
  <2>6. TypeOK' /\ OnlyAtBottom(stack')
    BY <1>3, <1>5, <2>1, <2>4 DEF TypeOK, Sound
  <2>7. Records' /\ SuppressedIsDisabled'
    BY <1>3, <1>4, <1>5, <2>1 DEF Records, SuppressedIsDisabled, TypeOK, Exists, Lives
  <2>8. Duties'
    BY <1>3, <1>4, <1>5, <2>1, <2>5 DEF Duties, TypeOK, Exists, Lives
  <2>9. ShutdownDuty'
    <3> SUFFICES ASSUME NEW f \in Begun', f.op = "destroyAll"
                 PROVE  stopping /\ \A v \in managed : v \in f.todo \/ Leaving(v)' \/ Finalizing(v)' \/ Releasing(v)'
      BY <1>5, <2>1 DEF ShutdownDuty
    <3>1. managed \subseteq Windows
      BY <1>3 DEF TypeOK
    <3> QED BY <1>3, <2>5, <3>1 DEF ShutdownDuty
  <2>10. Buffered'
    BY <1>3, <1>5, <2>5 DEF Buffered
  <2> QED BY <2>6, <2>7, <2>8, <2>9, <2>10 DEF WindowInv
<1> QED BY <1>7, <1>8, <1>9

------------------------------------------------------------------------------
(* Commands.                                                                 *)
LEMMA CommandFields ==
  ASSUME NEW c \in Commands
  PROVE  /\ c.kind = "create" => c.parent \in Windows \cup {NoWindow} /\ c.modality \in Modalities
         /\ c.kind \in {"destroy", "requestClose", "mutate", "setInput"} => c.window \in Windows
         /\ c.kind = "setInput" => c.enabled \in BOOLEAN
         /\ c.kind \in {"create", "destroy", "requestClose", "mutate", "setInput"}
BY BoundsAssumption DEF Commands, Windows

LEMMA CreateStep ==
  ASSUME WindowInv, NEW c \in Commands, c.kind = "create", CanCreate(c), CreateWindow(c),
         UNCHANGED <<sink, stopping, accepting, overtaken>>
  PROVE  WindowInv'
<1> DEFINE initial == [parent |-> c.parent, modality |-> c.modality, input |-> TRUE]
<1>1. TypeOK /\ Records /\ Duties /\ ShutdownDuty /\ Buffered /\ SuppressedIsDisabled
  BY DEF WindowInv
<1>2. initial \in Configuration /\ initial # NoConfiguration
  <2>1. c.parent \in Windows \cup {NoWindow} /\ c.modality \in Modalities
    BY CommandFields
  <2>2. NeedsParent(initial.modality) => initial.parent # NoWindow
    BY DEF CanCreate
  <2>3. initial \in [parent : Windows \cup {NoWindow}, modality : Modalities, input : BOOLEAN]
    BY <2>1
  <2>4. initial \in Configuration
    BY <2>2, <2>3 DEF Configuration
  <2> QED BY <2>4, NoConfigurationAssumption
<1>3. PICK w \in Unused :
        /\ native' = [native EXCEPT ![w] = initial]
        /\ configuration' = [configuration EXCEPT ![w] = initial]
        /\ lifecycle' = [lifecycle EXCEPT ![w] = "Open"]
        /\ managed' = managed \cup {w}
        /\ stack' = Refreshing(stack, w, CoveredBy(w, c.modality), managed)
        /\ UNCHANGED <<requested, sources, pending, posts>>
  BY DEF CreateWindow
<1> HIDE DEF initial
<1>4. w \in Windows /\ lifecycle[w] = "none"
  BY DEF Unused
<1>5. w \notin managed /\ ~Exists(w) /\ sources[w] = {} /\ ~Finalizing(w) /\ ~Releasing(w) /\ ~Leaving(w)
  BY <1>1, <1>4 DEF Records, Duties
<1>6. managed \subseteq Windows /\ CoveredBy(w, c.modality) \subseteq Windows
  BY <1>1 DEF TypeOK, CoveredBy
<1>7. Sound(stack') /\ Watched(stack') = Watched(stack)
  BY <1>3, <1>4, <1>6, SoundNow, RefreshingKeeps
<1>8. /\ \A v \in Windows : /\ Finalizing(v) <=> Finalizing(v)'
                            /\ Releasing(v) <=> Releasing(v)'
                            /\ Leaving(v) <=> Leaving(v)'
                            /\ Flushing(v) <=> Flushing(v)'
      /\ \A f \in Begun' : f.op = "destroyAll" => f \in Begun
  BY <1>7, WatchedFrames
<1>9. TypeOK' /\ OnlyAtBottom(stack')
  BY <1>1, <1>2, <1>3, <1>4, <1>7 DEF TypeOK, Sound
<1>10. Records'
  BY <1>1, <1>2, <1>3, <1>4 DEF Records, TypeOK, Exists, Lives
<1>11. SuppressedIsDisabled'
  BY <1>1, <1>3, <1>5 DEF SuppressedIsDisabled, TypeOK
<1>12. Duties'
  BY <1>1, <1>2, <1>3, <1>4, <1>5, <1>8 DEF Duties, TypeOK, Exists, Lives
<1>13. ShutdownDuty'
  BY <1>1, <1>8 DEF ShutdownDuty, CanCreate
<1>14. Buffered'
  BY <1>1, <1>3, <1>8 DEF Buffered
<1> QED BY <1>9, <1>10, <1>11, <1>12, <1>13, <1>14 DEF WindowInv

LEMMA RunStep ==
  ASSUME WindowInv, NEW c \in Commands, Run(c)
  PROVE  WindowInv'
<1>0. UNCHANGED <<sink, stopping, accepting, overtaken>> /\ overtaken' \in BOOLEAN /\ accepting' \in BOOLEAN
  BY DEF Run, WindowInv, TypeOK
<1>1. CASE c.kind = "create" /\ CanCreate(c) /\ CreateWindow(c)
  BY <1>0, <1>1, CreateStep
<1>2. CASE c.kind = "destroy" /\ CanDestroy(c.window) /\ DestroyWindow(c.window)
  BY <1>0, <1>2, CommandFields, LeavingStep
<1>3. CASE c.kind = "mutate" /\ CanChange(c.window) /\ MutateConfiguration(c.window)
  <2>1. c.window \in Windows
    BY <1>3, CommandFields
  <2>2. UNCHANGED <<managed, lifecycle, requested, pending, posts>>
    BY <1>3 DEF MutateConfiguration
  <2>3. requested' \in [Windows -> BOOLEAN]
    BY <2>2 DEF WindowInv, TypeOK
  <2>4. Adjusts /\ Keeps
    BY <1>3, <2>1, MutateEffect
  <2> QED BY <1>0, <2>2, <2>3, <2>4, QuietStep
<1>4. CASE c.kind = "setInput" /\ IsOpen(c.window) /\ ~stopping /\ SetInputEnabled(c.window, c.enabled)
  <2>1. c.window \in Windows /\ c.enabled \in BOOLEAN
    BY <1>4, CommandFields
  <2>2. /\ UNCHANGED <<managed, lifecycle, pending, posts>>
        /\ requested' = [requested EXCEPT ![c.window] = c.enabled]
    BY <1>4 DEF SetInputEnabled
  <2>3. requested' \in [Windows -> BOOLEAN]
    BY <2>1, <2>2 DEF WindowInv, TypeOK
  <2>4. Adjusts /\ Keeps
    BY <1>4, <2>1, SetInputEffect
  <2> QED BY <1>0, <2>2, <2>3, <2>4, QuietStep
<1>5. CASE c.kind = "requestClose" /\ CanChange(c.window) /\ RequestClose(c.window)
  BY <1>0, <1>5, CommandFields, AskingStep
<1> QED BY <1>1, <1>2, <1>3, <1>4, <1>5 DEF Run

------------------------------------------------------------------------------
LEMMA WindowInvInit == Init => WindowInv
<1> SUFFICES ASSUME Init PROVE WindowInv
  OBVIOUS
<1>1. Begun = {} /\ stack \in Seq(Frame) /\ OnlyAtBottom(stack) /\ posts \in Seq(Windows)
  BY Short DEF Init, Begun
<1>2. TypeOK
  BY <1>1 DEF Init, TypeOK
<1>3. Records /\ Duties /\ ShutdownDuty /\ Buffered /\ SuppressedIsDisabled
  BY <1>1 DEF Init, Records, Duties, ShutdownDuty, Buffered, SuppressedIsDisabled, Exists, Lives,
              Finalizing, Releasing, Leaving
<1> QED BY <1>1, <1>2, <1>3 DEF WindowInv

LEMMA WindowInvStep == WindowInv /\ [Next]_vars => WindowInv'
<1> SUFFICES ASSUME WindowInv, [Next]_vars PROVE WindowInv'
  OBVIOUS
<1>1. CASE \E c \in Commands : Command(c) \/ Reenter(c)
  BY <1>1, RunStep DEF Command, Reenter
<1>2. CASE Continue
  <2>1. CASE RefreshNext \/ ReconcileNext \/ ReleaseNext \/ FlushPending
    BY <2>1, ConfiguringStep
  <2>2. CASE Notified
    BY <2>2, NotifiedStep
  <2>3. CASE Ask \/ Cancelled \/ ClosedReported
    BY <2>3, AskingStep
  <2>4. CASE Closes \/ DetachNext \/ Remove
    BY <2>4, LeavingStep, DetachStep, RemoveStep
  <2>5. CASE Finalize \/ Erase
    BY <2>5, FinalizeStep, EraseStep
  <2>6. CASE DestroyNext \/ ShutdownBackend
    BY <2>6, DestroyNextStep, ShutdownSteps
  <2> QED BY <1>2, <2>1, <2>2, <2>3, <2>4, <2>5, <2>6 DEF Continue
<1>3. CASE RunFlush \/ DestroyAll \/ RequestStop
  <2>1. CASE RunFlush \/ DestroyAll
    BY <2>1, ShutdownSteps
  <2>2. CASE RequestStop
    <3>1. /\ UNCHANGED <<managed, record, pending, native, sink, stopping, posts, overtaken>>
          /\ accepting' \in BOOLEAN /\ stack' = stack
      BY <2>2 DEF RequestStop
    <3>2. Sound(stack') /\ Watched(stack') = Watched(stack)
      BY <3>1, SoundNow
    <3> QED BY <3>1, <3>2, FlushesAdded
  <2> QED BY <1>3, <2>1, <2>2
<1>4. CASE \E w \in Windows : ConfigurationEvent(w) \/ CloseEvent(w) \/ DestroyedEvent(w)
  BY <1>4, ConfigurationEventStep, AskingStep, LeavingStep
<1>5. CASE UNCHANGED vars
  <2>1. /\ UNCHANGED <<managed, record, pending, native, sink, stopping, posts, accepting, overtaken>>
        /\ Sound(stack') /\ Watched(stack') = Watched(stack) /\ accepting' \in BOOLEAN
    BY <1>5, SoundNow DEF vars, Watched, Sound, WindowInv, TypeOK
  <2> QED BY <2>1, FlushesAdded
<1> QED BY <1>1, <1>2, <1>3, <1>4, <1>5 DEF Next

LEMMA WindowInvHolds == Spec => []WindowInv
<1> QED BY WindowInvInit, WindowInvStep, PTL DEF Spec

(* A window under a modal one takes no input: whatever stale configuration   *)
(* FlushPendingConfiguration applies late, and whatever subscribers and      *)
(* commands ask for between two steps of a reconciliation.                   *)
THEOREM SuppressedIsDisabledHolds == Spec => []SuppressedIsDisabled
<1>1. WindowInv => SuppressedIsDisabled
  BY DEF WindowInv
<1> QED BY <1>1, WindowInvHolds, PTL

(* Whenever the event thread is idle the manager and the backend know the    *)
(* same windows, all of them open, and whatever OnPlatformConfigurationChanged*)
(* has buffered has a flush that will apply it.                              *)
THEOREM NothingLeftBehindHolds == Spec => []NothingLeftBehind
<1>1. WindowInv => NothingLeftBehind
  <2> SUFFICES ASSUME WindowInv PROVE NothingLeftBehind
    OBVIOUS
  <2>1. TypeOK /\ Records /\ Duties /\ Buffered
    BY DEF WindowInv
  <2>2. TablesAgree
    <3> SUFFICES ASSUME stack = <<>>
                 PROVE  /\ managed = {w \in Windows : Exists(w)}
                        /\ \A w \in managed : IsOpen(w)
      BY DEF TablesAgree, Idle
    <3>1. \A w \in Windows : ~Finalizing(w) /\ ~Releasing(w) /\ ~Leaving(w)
      BY Short DEF Finalizing, Releasing, Leaving, Begun
    <3>2. managed \subseteq Windows
      BY <2>1 DEF TypeOK
    <3>3. \A w \in Windows : w \in managed <=> Exists(w)
      BY <2>1, <3>1 DEF Duties, Records
    <3> QED BY <2>1, <3>1, <3>2, <3>3 DEF Records, Duties, Lives, IsOpen
  <2>3. BufferedIsFlushed
    <3> SUFFICES ASSUME NEW w \in Windows, pending[w] # NoConfiguration
                 PROVE  \/ \E i \in DOMAIN posts : posts[i] = w
                        \/ \E i \in DOMAIN stack : stack[i] = Flush(w)
      BY DEF BufferedIsFlushed
    <3>1. CASE w \in Range(posts)
      BY <3>1 DEF Range
    <3>2. CASE Flushing(w)
      <4>1. PICK i \in DOMAIN stack : stack[i].op = "flush" /\ stack[i].window = w
        BY <3>2 DEF Flushing, Begun, Range
      <4>2. stack[i] \in Frame
        BY <2>1, <4>1 DEF TypeOK
      <4>3. stack[i] \in [op : {"flush", "ask", "asking", "finalize"}, window : Windows]
        BY <4>1, <4>2 DEF Frame
      <4>4. stack[i] = Flush(w)
        BY <4>1, <4>3 DEF Flush
      <4> QED BY <4>4
    <3> QED BY <2>1, <3>1, <3>2 DEF Buffered
  <2> QED BY <2>1, <2>2, <2>3 DEF NothingLeftBehind
<1> QED BY <1>1, WindowInvHolds, PTL

------------------------------------------------------------------------------
------------------------------------------------------------------------------
(* Who covers whom.  Subscribers of a configuration change do not call back, *)
(* so that above a reconciliation there are only notifications and the       *)
(* reconciliations that they lead to.                                        *)
Calm == {"notify", "reconcile"}

Still(s) == \A f \in Range(s) : f.op \notin Calm

CalmAbove(s) == \A i, j \in DOMAIN s : i < j /\ s[i].op \in Calm => s[j].op \in Calm

ReleasedFrom(s, w) == \E f \in Begun : f.op = "release" /\ f.window = s /\ w \in f.targets

WellFormed(f) ==
  /\ f.op = "refresh" => f.window \notin f.above \cup f.below
  /\ f.op = "reconcile" => \A t, s \in Windows : s \in f.desired[t] => s # t /\ Lives(s)

CoverInv ==
  /\ CalmAbove(stack)
  /\ \A f \in Begun : WellFormed(f)
  /\ \A w, s \in Windows : IsOpen(w) /\ s \in sources[w] =>
       s # w /\ (Lives(s) \/ ReleasedFrom(s, w))

LEMMA StillIsCalm ==
  ASSUME NEW s, Still(s)
  PROVE  CalmAbove(s)
BY DEF Still, CalmAbove, Range

LEMMA CalmPushed ==
  ASSUME NEW s \in Seq(Frame), NEW e \in Frame, CalmAbove(s), e.op \in Calm \/ Still(s)
  PROVE  CalmAbove(Append(s, e))
<1> DEFINE q == Append(s, e)
<1> SUFFICES ASSUME NEW i \in DOMAIN q, NEW j \in DOMAIN q, i < j, q[i].op \in Calm
             PROVE  q[j].op \in Calm
  BY DEF CalmAbove
<1>1. DOMAIN q = DOMAIN s \cup {Len(q)} /\ q[Len(q)] = e /\ \A k \in DOMAIN s : q[k] = s[k]
  OBVIOUS
<1>2. Len(q) = Len(s) + 1 /\ i \in DOMAIN s
  OBVIOUS
<1>3. CASE j \in DOMAIN s
  BY <1>1, <1>2, <1>3 DEF CalmAbove
<1>4. CASE j = Len(q)
  BY <1>1, <1>2, <1>4 DEF Still, Range
<1> QED BY <1>1, <1>3, <1>4

LEMMA CalmPopped ==
  ASSUME stack \in Seq(Frame), stack # <<>>, CalmAbove(stack)
  PROVE  /\ CalmAbove(Pop)
         /\ Top.op \notin Calm => Still(stack) /\ Still(Pop)
<1>1. /\ Pop \in Seq(Frame) /\ Len(Pop) = Len(stack) - 1
      /\ \A i \in 1 .. Len(Pop) : Pop[i] = stack[i]
      /\ Begun = Range(Pop) \cup {Top}
  BY StackTop
<1>2. CalmAbove(Pop)
  BY <1>1 DEF CalmAbove
<1>3. ASSUME Top.op \notin Calm, NEW f \in Range(Pop) PROVE f.op \notin Calm
  <2>1. PICK i \in 1 .. Len(Pop) : f = stack[i]
    BY <1>1 DEF Range
  <2>2. i \in DOMAIN stack /\ Len(stack) \in DOMAIN stack /\ i < Len(stack)
    BY <1>1
  <2> QED BY <1>3, <2>1, <2>2 DEF CalmAbove, Top
<1> QED BY <1>1, <1>2, <1>3 DEF Still, Begun

LEMMA CalmTold ==
  ASSUME NEW rest \in Seq(Frame), CalmAbove(rest), Told(rest)
  PROVE  CalmAbove(stack')
<1>1. ASSUME NEW f \in Notification PROVE CalmAbove(Append(rest, f))
  BY NotificationIsFrame, CalmPushed DEF Calm
<1> QED BY <1>1 DEF Told

(* A window may begin to go, but is not forgotten.                           *)
SameLives == \A v \in Windows : (IsOpen(v)' => IsOpen(v)) /\ (Lives(v)' <=> Lives(v))

LEMMA LivesKept == UNCHANGED lifecycle => SameLives
BY DEF SameLives, IsOpen, Lives

LEMMA LivesGoing ==
  ASSUME TypeOK, NEW w \in Windows, IsOpen(w), lifecycle' = [lifecycle EXCEPT ![w] = "Destroying"]
  PROVE  SameLives
BY DEF SameLives, IsOpen, Lives, TypeOK

(* What is left of the covers when the frames of releases go on.             *)
LEMMA CoverKept ==
  ASSUME WindowInv, CoverInv, SameLives, CalmAbove(stack'),
         \A f \in Begun' : WellFormed(f),
         \A f \in Begun : f.op = "release" => f \in Begun' \/ f.targets = {},
         \A w, s \in Windows : IsOpen(w) /\ s \in sources'[w] =>
           s \in sources[w] \/ (s # w /\ Lives(s))
  PROVE  CoverInv'
<1>1. ASSUME NEW f \in Begun' PROVE WellFormed(f)'
  BY DEF WellFormed, SameLives
<1>2. \A s, w : ReleasedFrom(s, w) => ReleasedFrom(s, w)'
  BY DEF ReleasedFrom
<1> QED BY <1>1, <1>2 DEF CoverInv, SameLives

LEMMA ToldCovers ==
  ASSUME WindowInv, CoverInv, UNCHANGED lifecycle,
         NEW rest \in Seq(Frame), Told(rest), CalmAbove(rest),
         \A f \in Range(rest) : WellFormed(f),
         \A f \in Begun : f.op = "release" => f \in Range(rest),
         \A w, s \in Windows : IsOpen(w) /\ s \in sources'[w] =>
           s \in sources[w] \/ (s # w /\ Lives(s))
  PROVE  CoverInv'
<1>1. PICK told \in SUBSET Notification : Begun' = Range(rest) \cup told
  BY ToldFrames
<1>2. \A f \in told : WellFormed(f)
  BY NotificationIsFrame DEF WellFormed
<1>3. CalmAbove(stack')
  BY CalmTold
<1> QED BY <1>1, <1>2, <1>3, CoverKept, LivesKept

LEMMA RefreshCovers == WindowInv /\ CoverInv /\ RefreshNext => CoverInv'
<1> SUFFICES ASSUME WindowInv, CoverInv, RefreshNext PROVE CoverInv'
  OBVIOUS
<1> DEFINE w == Top.window
<1>1. stack # <<>> /\ Top.op = "refresh" /\ stack \in Seq(Frame) /\ CalmAbove(stack)
  BY DEF RefreshNext, InFrame, WindowInv, TypeOK, CoverInv
<1>2. /\ Top \in Begun /\ Pop \in Seq(Frame) /\ Begun = Range(Pop) \cup {Top}
      /\ w \in Windows /\ Top.above \subseteq Windows /\ Top.below \subseteq Windows
  BY <1>1, StackTop, FrameFields
<1>3. w \notin Top.above \cup Top.below
  BY <1>1, <1>2 DEF CoverInv, WellFormed
<1>4. Still(Pop)
  BY <1>1, CalmPopped DEF Calm
<1>5. PICK modal \in Windows, target \in Windows,
           above \in SUBSET Top.above, below \in SUBSET Top.below :
        modal # target /\ Considers(modal, target, Refreshing(Pop, w, above, below))
  <2>1. CASE \E modal \in Top.above :
               Considers(modal, w, Refreshing(Pop, w, Top.above \ {modal}, Top.below))
    BY <1>2, <1>3, <2>1
  <2>2. CASE \E target \in Top.below :
               Considers(w, target, Refreshing(Pop, w, {}, Top.below \ {target}))
    BY <1>2, <1>3, <2>2
  <2> QED BY <2>1, <2>2 DEF RefreshNext
<1> DEFINE rest == Refreshing(Pop, w, above, below)
           e == [op |-> "refresh", window |-> w, above |-> above, below |-> below]
<1>6. above \in SUBSET Windows /\ below \in SUBSET Windows
  BY <1>2
<1>7. e \in Frame /\ WellFormed(e) /\ e.op = "refresh"
  <2>1. e \in Frame
    BY <1>2, <1>6, WindowFrames
  <2>2. e.op = "refresh" /\ e.window = w /\ e.above = above /\ e.below = below
    OBVIOUS
  <2> QED BY <1>3, <2>1, <2>2 DEF WellFormed
<1>8. rest = Pop \/ rest = Append(Pop, e)
  BY DEF Refreshing
<1> HIDE DEF e
<1>9. /\ rest \in Seq(Frame) /\ CalmAbove(rest) /\ Range(Pop) \subseteq Range(rest)
      /\ \A f \in Range(rest) : f \in Range(Pop) \/ f = e
  BY <1>2, <1>4, <1>7, <1>8, Pushed, CalmPushed, StillIsCalm
<1>10. Told(rest)
  BY <1>5, ConsidersEffect
<1> HIDE DEF rest
<1>11. \A v, s \in Windows : IsOpen(v) /\ s \in sources'[v] =>
         s \in sources[v] \/ (s # v /\ Lives(s))
  <2>1. sources \in [Windows -> SUBSET Windows]
    BY DEF WindowInv, TypeOK
  <2>2. CASE ~ShouldSuppress(modal, target)
    BY <1>5, <2>2 DEF Considers
  <2>3. CASE ShouldSuppress(modal, target)
    <3>1. Lives(modal)
      BY <2>3 DEF ShouldSuppress, IsOpen, Lives
    <3>2. sources' = sources \/ sources' = [sources EXCEPT ![target] = sources[target] \cup {modal}]
      BY <1>5, <2>3 DEF Considers, AddSuppression
    <3> QED BY <1>5, <2>1, <3>1, <3>2
  <2> QED BY <2>2, <2>3
<1>12. \A f \in Range(rest) : WellFormed(f)
  BY <1>2, <1>7, <1>9 DEF CoverInv
<1>13. \A f \in Begun : f.op = "release" => f \in Range(rest)
  BY <1>1, <1>2, <1>9
<1> QED BY <1>9, <1>10, <1>11, <1>12, <1>13, ToldCovers DEF RefreshNext

LEMMA ReconcileCovers == WindowInv /\ CoverInv /\ ReconcileNext => CoverInv'
<1> SUFFICES ASSUME WindowInv, CoverInv, ReconcileNext PROVE CoverInv'
  OBVIOUS
<1>1. stack # <<>> /\ Top.op = "reconcile" /\ stack \in Seq(Frame) /\ CalmAbove(stack)
  BY DEF ReconcileNext, InFrame, WindowInv, TypeOK, CoverInv
<1>2. /\ Top \in Begun /\ Pop \in Seq(Frame) /\ Begun = Range(Pop) \cup {Top}
      /\ Top.targets \subseteq Windows /\ Top.desired \in [Windows -> SUBSET Windows]
  BY <1>1, StackTop, FrameFields
<1>3. \A t, s \in Windows : s \in Top.desired[t] => s # t /\ Lives(s)
  BY <1>1, <1>2 DEF CoverInv, WellFormed
<1>4. PICK t \in Windows :
        LET rest == Reconciling(Pop, Top.targets \ {t}, Top.desired)
            by == Top.desired[t]
            enabled == requested[t] /\ by = {}
        IN IF IsOpen(t)
           THEN /\ sources' = [sources EXCEPT ![t] = by]
                /\ IF enabled # configuration[t].input
                   THEN SwitchInput(t, enabled, by, rest)
                   ELSE UNCHANGED <<native, configuration>> /\ stack' = rest
           ELSE UNCHANGED <<sources, native, configuration>> /\ stack' = rest
  BY <1>2 DEF ReconcileNext
<1> DEFINE rest == Reconciling(Pop, Top.targets \ {t}, Top.desired)
           e == [op |-> "reconcile", targets |-> Top.targets \ {t}, desired |-> Top.desired]
<1>5. e \in Frame /\ WellFormed(e) /\ e.op = "reconcile"
  <2>1. e \in Frame
    BY <1>2, OtherFrames
  <2>2. e.op = "reconcile" /\ e.desired = Top.desired
    OBVIOUS
  <2> QED BY <1>3, <2>1, <2>2 DEF WellFormed
<1>6. rest = Pop \/ rest = Append(Pop, e)
  BY DEF Reconciling
<1> HIDE DEF e
<1>7. CalmAbove(Pop)
  BY <1>1, CalmPopped
<1>8. /\ rest \in Seq(Frame) /\ CalmAbove(rest) /\ Range(Pop) \subseteq Range(rest)
      /\ \A f \in Range(rest) : f \in Range(Pop) \/ f = e
  <2>1. CASE rest = Pop
    BY <1>2, <1>7, <2>1
  <2>2. CASE rest = Append(Pop, e)
    <3>1. Append(Pop, e) \in Seq(Frame) /\ Range(Append(Pop, e)) = Range(Pop) \cup {e}
      BY <1>2, <1>5, Pushed
    <3>2. CalmAbove(Append(Pop, e))
      BY <1>2, <1>5, <1>7, CalmPushed DEF Calm
    <3> HIDE DEF rest
    <3> QED BY <2>2, <3>1, <3>2
  <2> QED BY <1>6, <2>1, <2>2
<1>9. Told(rest)
  <2>1. CASE stack' = rest
    BY <2>1 DEF Told
  <2>2. CASE IsOpen(t) /\ stack' # rest
    <3>1. PICK enabled \in BOOLEAN : enabled = (requested[t] /\ Top.desired[t] = {})
      OBVIOUS
    <3>2. SwitchInput(t, enabled, Top.desired[t], rest)
      BY <1>4, <2>2, <3>1
    <3>3. TypeOK /\ Records
      BY DEF WindowInv
    <3>4. Changed(t, ~enabled, rest)
      BY <2>2, <3>2, <3>3, SwitchEffect DEF IsOpen, Lives
    <3> QED BY <3>4 DEF Changed
  <2> QED BY <1>4, <2>1, <2>2
<1>10. \A v, s \in Windows : IsOpen(v) /\ s \in sources'[v] =>
         s \in sources[v] \/ (s # v /\ Lives(s))
  <2>1. sources \in [Windows -> SUBSET Windows]
    BY DEF WindowInv, TypeOK
  <2>2. sources' = sources \/ sources' = [sources EXCEPT ![t] = Top.desired[t]]
    BY <1>4
  <2> QED BY <1>2, <1>3, <2>1, <2>2
<1> HIDE DEF rest
<1>11. \A f \in Range(rest) : WellFormed(f)
  BY <1>2, <1>5, <1>8 DEF CoverInv
<1>12. \A f \in Begun : f.op = "release" => f \in Range(rest)
  BY <1>1, <1>2, <1>8
<1> QED BY <1>8, <1>9, <1>10, <1>11, <1>12, ToldCovers DEF ReconcileNext

LEMMA ReleaseCovers == WindowInv /\ CoverInv /\ ReleaseNext => CoverInv'
<1> SUFFICES ASSUME WindowInv, CoverInv, ReleaseNext PROVE CoverInv'
  OBVIOUS
<1>1. stack # <<>> /\ Top.op = "release" /\ stack \in Seq(Frame) /\ CalmAbove(stack)
  BY DEF ReleaseNext, InFrame, WindowInv, TypeOK, CoverInv
<1>2. /\ Top \in Frame /\ Top \in Begun /\ Pop \in Seq(Frame) /\ Begun = Range(Pop) \cup {Top}
      /\ Top.targets \subseteq Windows
  BY <1>1, StackTop, FrameFields
<1>3. PICK t \in Top.targets : /\ Told(Append(Pop, Released(t)))
                               /\ \A s \in Windows : s # t => sources'[s] = sources[s]
                               /\ Lives(t) => sources'[t] = sources[t] \ {Top.window}
  BY ReleaseEffect
<1> DEFINE e == Released(t)
           rest == Append(Pop, e)
<1>4. /\ e \in Frame /\ e.op = "release" /\ e.window = Top.window /\ e.targets = Top.targets \ {t}
  BY <1>1, <1>2, ReleasedFields
<1> HIDE DEF e
<1>5. Still(Pop)
  BY <1>1, CalmPopped DEF Calm
<1>6. /\ rest \in Seq(Frame) /\ CalmAbove(rest) /\ Range(rest) = Range(Pop) \cup {e}
  BY <1>2, <1>4, <1>5, Pushed, CalmPushed, StillIsCalm
<1>7. Told(rest)
  BY <1>3 DEF e
<1> HIDE DEF rest
<1>8. PICK told \in SUBSET Notification : Begun' = Range(Pop) \cup {e} \cup told
  BY <1>6, <1>7, ToldFrames
<1>9. CalmAbove(stack')
  BY <1>6, <1>7, CalmTold
<1>10. \A v : (IsOpen(v)' <=> IsOpen(v)) /\ (Lives(v)' <=> Lives(v))
  BY DEF ReleaseNext, IsOpen, Lives
<1>11. ASSUME NEW f \in Begun' PROVE WellFormed(f)'
  <2>1. WellFormed(f)
    BY <1>2, <1>4, <1>8, NotificationIsFrame DEF CoverInv, WellFormed
  <2> QED BY <1>10, <2>1 DEF WellFormed
<1>12. ASSUME NEW v \in Windows, NEW s \in Windows, IsOpen(v), s \in sources'[v]
       PROVE  s # v /\ (Lives(s) \/ ReleasedFrom(s, v)')
  <2>1. s \in sources[v] /\ (v = t => s # Top.window)
    BY <1>3, <1>12 DEF IsOpen, Lives
  <2>2. s # v /\ (Lives(s) \/ ReleasedFrom(s, v))
    BY <1>12, <2>1 DEF CoverInv
  <2>3. ASSUME NEW f \in Begun, f.op = "release", f.window = s, v \in f.targets
        PROVE  ReleasedFrom(s, v)'
    <3>1. CASE f \in Range(Pop)
      BY <1>8, <2>3, <3>1 DEF ReleasedFrom
    <3>2. CASE f = Top
      BY <1>4, <1>8, <2>1, <2>3, <3>2 DEF ReleasedFrom
    <3> QED BY <1>2, <3>1, <3>2
  <2> QED BY <2>2, <2>3 DEF ReleasedFrom
<1> QED BY <1>9, <1>10, <1>11, <1>12 DEF CoverInv

LEMMA StillStep ==
  ASSUME WindowInv, CoverInv, SameLives, UNCHANGED sources, Still(stack'),
         \A f \in Begun' : f \in Begun \/ f.op # "refresh",
         \A f \in Begun : f.op = "release" => f \in Begun' \/ f.targets = {}
  PROVE  CoverInv'
<1>1. CalmAbove(stack')
  BY StillIsCalm
<1>2. ASSUME NEW f \in Begun' PROVE WellFormed(f)
  <2>1. f.op \notin Calm
    BY DEF Still, Begun
  <2>2. CASE f \in Begun
    BY <2>2 DEF CoverInv
  <2>3. CASE f \notin Begun
    BY <2>1, <2>3 DEF WellFormed, Calm
  <2> QED BY <2>2, <2>3
<1> QED BY <1>1, <1>2, CoverKept

LEMMA NotifiedCovers == WindowInv /\ CoverInv /\ Notified => CoverInv'
<1> SUFFICES ASSUME WindowInv, CoverInv, Notified PROVE CoverInv'
  OBVIOUS
<1>1. stack # <<>> /\ Top.op = "notify" /\ stack \in Seq(Frame) /\ CalmAbove(stack)
  BY DEF Notified, InFrame, WindowInv, TypeOK, CoverInv
<1>2. /\ Pop \in Seq(Frame) /\ Begun = Range(Pop) \cup {Top} /\ CalmAbove(Pop)
  BY <1>1, StackTop, CalmPopped
<1> DEFINE open == {w \in managed : IsOpen(w)}
           e == [op |-> "reconcile", targets |-> open, desired |-> Reconciled]
<1>3. managed \subseteq Windows
  BY DEF WindowInv, TypeOK
<1>4. /\ Reconciled \in [Windows -> SUBSET Windows]
      /\ \A t, s \in Windows : s \in Reconciled[t] => s # t /\ Lives(s)
  BY <1>3 DEF Reconciled, DesiredSources, ShouldSuppress, IsOpen, Lives
<1>5. e \in Frame /\ e.op = "reconcile" /\ WellFormed(e)
  <2>1. e \in Frame
    BY <1>3, <1>4, OtherFrames
  <2>2. e.op = "reconcile" /\ e.desired = Reconciled
    OBVIOUS
  <2> QED BY <1>4, <2>1, <2>2 DEF WellFormed
<1>6. stack' = Pop \/ stack' = Append(Pop, e)
  BY DEF Notified, Reconciling
<1> HIDE DEF e
<1>7. /\ CalmAbove(stack') /\ Range(Pop) \subseteq Begun'
      /\ \A f \in Begun' : f \in Range(Pop) \/ f = e
  <2>1. CASE stack' = Pop
    BY <1>2, <2>1 DEF Begun
  <2>2. CASE stack' = Append(Pop, e)
    <3>1. Range(Append(Pop, e)) = Range(Pop) \cup {e}
      BY <1>2, <1>5, Pushed
    <3>2. CalmAbove(Append(Pop, e))
      BY <1>2, <1>5, CalmPushed DEF Calm
    <3> QED BY <2>2, <3>1, <3>2 DEF Begun
  <2> QED BY <1>6, <2>1, <2>2
<1>8. UNCHANGED <<lifecycle, sources>>
  BY DEF Notified, record
<1> QED BY <1>1, <1>2, <1>5, <1>7, <1>8, CoverKept, LivesKept DEF CoverInv

LEMMA ClosingFrames ==
  ASSUME NEW w \in Windows
  PROVE  /\ AskToClose(w) \in Seq(Frame) /\ ReportClosed(w) \in Seq(Frame)
         /\ \A f \in Range(AskToClose(w)) \cup Range(ReportClosed(w)) :
              f.op \in {"ask", "finalize", "flush"}
<1> DEFINE a == [op |-> "ask", window |-> w]
<1>1. a \in Frame /\ a.op = "ask" /\ Finalization(w) \in Frame /\ Finalization(w).op = "finalize"
  BY WindowFrames DEF Finalization
<1>2. FlushFirst(w) \in Seq(Frame) /\ \A f \in Range(FlushFirst(w)) : f.op = "flush"
  BY FlushFirstFrames
<1>3. AskToClose(w) = <<a>> \o FlushFirst(w) /\ ReportClosed(w) = <<Finalization(w)>> \o FlushFirst(w)
  BY DEF AskToClose, ReportClosed, Finalization
<1> HIDE DEF a
<1>4. /\ <<a>> \in Seq(Frame) /\ Range(<<a>>) = {a}
      /\ <<Finalization(w)>> \in Seq(Frame) /\ Range(<<Finalization(w)>>) = {Finalization(w)}
  BY <1>1, Short
<1>5. /\ AskToClose(w) \in Seq(Frame) /\ Range(AskToClose(w)) = {a} \cup Range(FlushFirst(w))
  BY <1>2, <1>3, <1>4, Joined
<1>6. /\ ReportClosed(w) \in Seq(Frame)
      /\ Range(ReportClosed(w)) = {Finalization(w)} \cup Range(FlushFirst(w))
  BY <1>2, <1>3, <1>4, Joined
<1> QED BY <1>1, <1>2, <1>5, <1>6

LEMMA QuietCovers ==
  ASSUME WindowInv, CoverInv,
         \/ FlushPending
         \/ \E w \in Windows : \/ CanChange(w) /\ MutateConfiguration(w)
                               \/ \E enabled \in BOOLEAN : IsOpen(w) /\ SetInputEnabled(w, enabled)
  PROVE  CoverInv'
<1>1. stack \in Seq(Frame) /\ CalmAbove(stack)
  BY DEF WindowInv, TypeOK, CoverInv
<1>2. CASE FlushPending
  <2>1. stack # <<>> /\ Top.op = "flush" /\ Told(Pop)
    BY <1>2, FlushEffect
  <2>2. Pop \in Seq(Frame) /\ Begun = Range(Pop) \cup {Top} /\ CalmAbove(Pop)
    BY <1>1, <2>1, StackTop, CalmPopped
  <2>3. UNCHANGED <<lifecycle, sources>>
    BY <1>2 DEF FlushPending
  <2> QED BY <2>1, <2>2, <2>3, ToldCovers DEF CoverInv
<1>3. ASSUME UNCHANGED <<lifecycle, sources>>, Told(stack) PROVE CoverInv'
  BY <1>1, <1>3, ToldCovers DEF CoverInv, Begun
<1>4. ASSUME NEW w \in Windows, CanChange(w), MutateConfiguration(w) PROVE CoverInv'
  BY <1>3, <1>4, MutateEffect DEF MutateConfiguration
<1>5. ASSUME NEW w \in Windows, NEW enabled \in BOOLEAN, IsOpen(w), SetInputEnabled(w, enabled)
      PROVE  CoverInv'
  BY <1>3, <1>5, SetInputEffect DEF SetInputEnabled
<1> QED BY <1>2, <1>4, <1>5

LEMMA StillNow ==
  ASSUME WindowInv, CoverInv, stack = <<>> \/ Top.op \notin Calm
  PROVE  /\ Still(stack) /\ stack \in Seq(Frame)
         /\ stack # <<>> => Still(Pop) /\ Pop \in Seq(Frame) /\ Begun = Range(Pop) \cup {Top}
         /\ stack = <<>> => Begun = {}
<1>1. stack \in Seq(Frame) /\ CalmAbove(stack)
  BY DEF WindowInv, TypeOK, CoverInv
<1>2. CASE stack = <<>>
  BY <1>1, <1>2, Short DEF Still, Begun
<1>3. CASE stack # <<>>
  BY <1>1, <1>3, StackTop, CalmPopped
<1> QED BY <1>2, <1>3

LEMMA PoppedCovers ==
  ASSUME WindowInv, CoverInv, SameLives, UNCHANGED sources, stack # <<>>,
         Top.op \notin Calm, Top.op = "release" => Top.targets = {},
         NEW t \in Seq(Frame), \A f \in Range(t) : f.op \notin Calm \cup {"refresh"},
         stack' = Pop \o t
  PROVE  CoverInv'
<1>1. /\ Still(Pop) /\ Pop \in Seq(Frame) /\ Begun = Range(Pop) \cup {Top}
  BY StillNow
<1>2. Begun' = Range(Pop) \cup Range(t)
  BY <1>1, Joined DEF Begun
<1>3. Still(stack')
  BY <1>1, <1>2 DEF Still, Begun
<1> QED BY <1>1, <1>2, <1>3, StillStep

LEMMA CalledCovers ==
  ASSUME WindowInv, CoverInv, SameLives, UNCHANGED sources, Still(stack),
         NEW t \in Seq(Frame), \A f \in Range(t) : f.op \notin Calm \cup {"refresh"},
         stack' = stack \o t
  PROVE  CoverInv'
<1>1. stack \in Seq(Frame)
  BY DEF WindowInv, TypeOK
<1>2. Begun' = Begun \cup Range(t)
  BY <1>1, Joined DEF Begun
<1>3. Still(stack')
  BY <1>2 DEF Still, Begun
<1> QED BY <1>2, <1>3, StillStep

(* Pushing one frame, or none, is a concatenation too.                       *)
LEMMA AppendIsConcatenation ==
  ASSUME NEW s \in Seq(Frame), NEW e \in Frame
  PROVE  Append(s, e) = s \o <<e>> /\ s = s \o <<>> /\ <<e>> = <<>> \o <<e>>
OBVIOUS

LEMMA AskingCovers ==
  ASSUME WindowInv, CoverInv,
         \/ Ask \/ Cancelled \/ ClosedReported
         \/ \E w \in Windows : CloseEvent(w) \/ (RequestClose(w) /\ Still(stack))
  PROVE  CoverInv'
<1>0. <<>> \in Seq(Frame) /\ Range(<<>>) = {} /\ stack \in Seq(Frame)
  BY Short DEF WindowInv, TypeOK
<1>1. CASE Ask
  <2>1. stack # <<>> /\ Top.op = "ask" /\ UNCHANGED <<lifecycle, sources>>
    BY <1>1 DEF Ask, InFrame, record
  <2>2. Top.window \in Windows /\ Pop \in Seq(Frame)
    BY <1>0, <2>1, StackTop, FrameFields
  <2> DEFINE e == [op |-> "asking", window |-> Top.window]
  <2>3. e \in Frame /\ e.op = "asking"
    BY <2>2, WindowFrames
  <2>4. stack' = Pop \/ stack' = Append(Pop, e)
    BY <1>1 DEF Ask
  <2> HIDE DEF e
  <2>5. stack' = Pop \o <<>> \/ stack' = Pop \o <<e>>
    BY <2>2, <2>3, <2>4, AppendIsConcatenation
  <2>6. <<e>> \in Seq(Frame) /\ Range(<<e>>) = {e}
    BY <2>3, Short
  <2> QED BY <1>0, <2>1, <2>3, <2>5, <2>6, PoppedCovers, LivesKept DEF Calm
<1>2. CASE Cancelled \/ ClosedReported
  <2>1. /\ stack # <<>> /\ Top.op \in {"asking", "closed"} /\ stack' = Pop
        /\ UNCHANGED <<lifecycle, sources>>
    BY <1>2 DEF Cancelled, ClosedReported, InFrame, record
  <2>2. Pop \in Seq(Frame)
    BY <1>0, <2>1, StackTop
  <2>3. stack' = Pop \o <<>>
    BY <2>1, <2>2
  <2> QED BY <1>0, <2>1, <2>3, PoppedCovers, LivesKept DEF Calm
<1>3. ASSUME NEW w \in Windows, CloseEvent(w) \/ (RequestClose(w) /\ Still(stack)) PROVE CoverInv'
  <2>1. /\ AskToClose(w) \in Seq(Frame)
        /\ \A f \in Range(AskToClose(w)) : f.op \in {"ask", "finalize", "flush"}
    BY ClosingFrames
  <2>2. Still(stack) /\ UNCHANGED <<lifecycle, sources>> /\ stack' = stack \o AskToClose(w)
    <3>1. CASE CloseEvent(w)
      <4>1. stack = <<>> /\ stack' = AskToClose(w) /\ UNCHANGED <<lifecycle, sources>>
        BY <3>1 DEF CloseEvent, Pumping, Idle, record
      <4>2. stack' = stack \o AskToClose(w)
        BY <2>1, <4>1
      <4> QED BY <4>1, <4>2, StillNow
    <3>2. CASE RequestClose(w) /\ Still(stack)
      BY <3>2 DEF RequestClose, record
    <3> QED BY <1>3, <3>1, <3>2
  <2> QED BY <2>1, <2>2, CalledCovers, LivesKept DEF Calm
<1> QED BY <1>1, <1>2, <1>3

LEMMA LeavingCovers ==
  ASSUME WindowInv, CoverInv,
         \/ Closes
         \/ \E w \in Windows : DestroyedEvent(w) \/ (CanDestroy(w) /\ DestroyWindow(w) /\ Still(stack))
  PROVE  CoverInv'
<1>0. stack \in Seq(Frame) /\ Sound(stack) /\ TypeOK
  BY SoundNow DEF WindowInv, TypeOK
<1>1. PICK s \in Seq(Frame), w \in Windows, notify \in BOOLEAN :
        /\ Still(s) /\ Sound(s) /\ Range(s) \subseteq Begun /\ stack' = Removing(s, w, notify)
        /\ \A f \in Begun : f.op = "release" => f \in Range(s)
        /\ SameLives /\ UNCHANGED sources
  <2>1. CASE Closes
    <3>1. stack # <<>> /\ Top.op = "asking" /\ UNCHANGED <<lifecycle, sources>>
          /\ stack' = Removing(Pop, Top.window, TRUE)
      BY <2>1 DEF Closes, InFrame, record
    <3>2. Sound(Pop) /\ Top.window \in Windows
      BY <1>0, <3>1, PoppedKeeps, FrameFields
    <3>3. Still(Pop) /\ Pop \in Seq(Frame) /\ Begun = Range(Pop) \cup {Top}
      BY <3>1, StillNow DEF Calm
    <3> QED BY <3>1, <3>2, <3>3, LivesKept
  <2>2. ASSUME NEW w \in Windows, NEW notify \in BOOLEAN,
               Still(stack), stack' = Removing(stack, w, notify), SameLives, UNCHANGED sources
        PROVE  \E n \in BOOLEAN :
                 /\ Still(stack) /\ Sound(stack) /\ Range(stack) \subseteq Begun /\ stack' = Removing(stack, w, n)
                 /\ \A f \in Begun : f.op = "release" => f \in Range(stack)
                 /\ SameLives /\ UNCHANGED sources
    BY <1>0, <2>2 DEF Begun
  <2>3. ASSUME NEW w \in Windows, DestroyedEvent(w)
        PROVE  Still(stack) /\ SameLives /\ UNCHANGED sources /\ stack' = Removing(stack, w, TRUE)
    BY <2>3, StillNow, LivesKept DEF DestroyedEvent, Pumping, Idle, record
  <2>4. ASSUME NEW w \in Windows, CanDestroy(w), DestroyWindow(w), Still(stack)
        PROVE  Still(stack) /\ SameLives /\ UNCHANGED sources /\ stack' = Removing(stack, w, FALSE)
    BY <1>0, <2>4, LivesGoing DEF CanDestroy, DestroyWindow
  <2>5. PICK yes \in BOOLEAN, no \in BOOLEAN : yes = TRUE /\ no = FALSE
    OBVIOUS
  <2> QED BY <1>0, <2>1, <2>2, <2>3, <2>4, <2>5
<1>2. PICK e \in Frame : e.op = "remove" /\ stack' = Append(s, e)
  BY <1>1, RemovingFrames
<1>3. Begun' = Range(s) \cup {e}
  BY <1>2, Pushed DEF Begun
<1>4. Still(stack')
  BY <1>1, <1>2, <1>3 DEF Still, Begun, Calm
<1> QED BY <1>1, <1>2, <1>3, <1>4, StillStep

(* What a report puts on the stack.                                          *)
LEMMA ReportStack ==
  ASSUME NEW w, NEW reported, NEW rest, Report(w, reported, rest)
  PROVE  stack' = rest \/ (~accepting /\ stack' = Append(rest, Flush(w)))
BY DEF Report, PostsFlush

LEMMA GoingCovers ==
  ASSUME WindowInv, CoverInv,
         DetachNext \/ Remove \/ \E w \in Windows : ConfigurationEvent(w)
  PROVE  CoverInv'
<1>0. stack \in Seq(Frame) /\ Sound(stack)
  BY SoundNow DEF WindowInv, TypeOK
<1>1. CASE DetachNext
  <2>1. /\ stack # <<>> /\ Top.op = "remove" /\ Top \in Frame /\ Top.children \subseteq Windows
        /\ UNCHANGED <<lifecycle, sources>>
    BY <1>1, DetachEffect DEF record
  <2>2. PICK c \in Top.children :
          \/ Report(c, Detached(native[c]), Append(Pop, Detaching(c)))
          \/ stack' = Append(Pop, Detaching(c))
    BY <1>1, DetachEffect
  <2>3. Still(Pop) /\ Pop \in Seq(Frame) /\ Begun = Range(Pop) \cup {Top}
    BY <2>1, StillNow DEF Calm
  <2>4. Detaching(c) \in Frame /\ Detaching(c).op = "remove"
    BY <2>1, DetachingFields
  <2>5. Flush(c) \in Frame /\ Flush(c).op = "flush"
    BY <2>1, WindowFrames
  <2> DEFINE rest == Append(Pop, Detaching(c))
  <2>6. rest \in Seq(Frame) /\ Range(rest) = Range(Pop) \cup {Detaching(c)}
    BY <2>3, <2>4, Pushed
  <2> HIDE DEF rest
  <2>7. stack' = rest \/ stack' = Append(rest, Flush(c))
    BY <2>2, ReportStack DEF rest
  <2>8. Range(Append(rest, Flush(c))) = Range(rest) \cup {Flush(c)}
    BY <2>5, <2>6, Pushed
  <2>9. /\ Range(Pop) \subseteq Begun'
        /\ \A f \in Begun' : f \in Range(Pop) \/ f = Detaching(c) \/ f = Flush(c)
    BY <2>6, <2>7, <2>8 DEF Begun
  <2>10. Still(stack')
    BY <2>3, <2>4, <2>5, <2>9 DEF Still, Begun, Calm
  <2> QED BY <2>1, <2>3, <2>4, <2>5, <2>9, <2>10, StillStep, LivesKept
<1>2. CASE Remove
  <2>1. /\ stack # <<>> /\ Top.op = "remove" /\ Top.window \in Windows
        /\ UNCHANGED <<lifecycle, sources>>
        /\ \/ stack' = Pop \o ReportClosed(Top.window)
           \/ stack' = Append(Pop, Finalization(Top.window))
    BY <1>2, RemoveEffect DEF record
  <2>2. /\ ReportClosed(Top.window) \in Seq(Frame)
        /\ \A f \in Range(ReportClosed(Top.window)) : f.op \in {"ask", "finalize", "flush"}
    BY <2>1, ClosingFrames
  <2>3. Finalization(Top.window) \in Frame /\ Finalization(Top.window).op = "finalize"
    BY <2>1, WindowFrames DEF Finalization
  <2>4. /\ <<Finalization(Top.window)>> \in Seq(Frame)
        /\ Range(<<Finalization(Top.window)>>) = {Finalization(Top.window)}
    BY <2>3, Short
  <2>5. Pop \in Seq(Frame)
    BY <1>0, <2>1, StackTop
  <2>6. CASE stack' = Pop \o ReportClosed(Top.window)
    BY <2>1, <2>2, <2>6, PoppedCovers, LivesKept DEF Calm
  <2>7. CASE stack' = Append(Pop, Finalization(Top.window))
    <3>1. stack' = Pop \o <<Finalization(Top.window)>>
      BY <2>3, <2>5, <2>7, AppendIsConcatenation
    <3> QED BY <2>1, <2>3, <2>4, <3>1, PoppedCovers, LivesKept DEF Calm
  <2> QED BY <2>1, <2>6, <2>7
<1>3. ASSUME NEW w \in Windows, ConfigurationEvent(w) PROVE CoverInv'
  <2>1. stack = <<>> /\ UNCHANGED <<lifecycle, sources>> /\ Report(w, native[w], stack)
    BY <1>3 DEF ConfigurationEvent, Pumping, Idle, record
  <2>2. stack' = stack \/ stack' = Append(stack, Flush(w))
    BY <2>1, ReportStack
  <2>3. Flush(w) \in Frame /\ Flush(w).op = "flush" /\ <<Flush(w)>> \in Seq(Frame) /\ Range(<<Flush(w)>>) = {Flush(w)}
    BY WindowFrames, Short
  <2>4. stack' = stack \o <<>> \/ stack' = stack \o <<Flush(w)>>
    BY <1>0, <2>2, <2>3, AppendIsConcatenation
  <2>5. <<>> \in Seq(Frame) /\ Range(<<>>) = {}
    BY Short
  <2> QED BY <2>1, <2>3, <2>4, <2>5, StillNow, CalledCovers, LivesKept DEF Calm
<1> QED BY <1>1, <1>2, <1>3

LEMMA DestroyAllRest ==
  ASSUME WindowInv, stack # <<>>, Top.op = "destroyAll", NEW w
  PROVE  Append(Pop, Remaining(w)) \in Seq(Frame) /\ Range(Append(Pop, Remaining(w))) = {Remaining(w)}
<1>1. /\ Pop = <<>> /\ Sound(Append(Pop, Remaining(w))) /\ Remaining(w).op = "destroyAll"
      /\ Remaining(w).todo = Top.todo \ {w}
  BY DestroyAllFrames
<1>2. Pop \in Seq(Frame) /\ Append(Pop, Remaining(w)) \in Seq(Frame) /\ Range(Pop) = {}
  BY <1>1, Short DEF Sound
<1>3. Len(Pop) = 0 /\ Append(Pop, Remaining(w))[1] = Remaining(w) /\ 1 \in DOMAIN Append(Pop, Remaining(w))
  BY <1>1
<1>4. Remaining(w) \in Frame
  BY <1>2, <1>3
<1> QED BY <1>2, <1>4, Pushed

LEMMA ShutdownCovers ==
  ASSUME WindowInv, CoverInv, DestroyAll \/ DestroyNext \/ ShutdownBackend \/ RunFlush
  PROVE  CoverInv'
<1>0. <<>> \in Seq(Frame) /\ Range(<<>>) = {} /\ stack \in Seq(Frame) /\ managed \subseteq Windows
  BY Short DEF WindowInv, TypeOK
<1>1. ASSUME NEW e \in Frame, e.op \notin Calm \cup {"refresh"}, Idle, stack' = <<e>>,
             UNCHANGED <<lifecycle, sources>>
      PROVE  CoverInv'
  <2>1. stack = <<>> /\ Still(stack)
    BY <1>1, StillNow DEF Idle
  <2>2. stack' = stack \o <<e>>
    BY <1>0, <1>1, <2>1, AppendIsConcatenation
  <2>3. <<e>> \in Seq(Frame) /\ Range(<<e>>) = {e}
    BY Short
  <2> QED BY <1>1, <2>1, <2>2, <2>3, CalledCovers, LivesKept
<1>2. CASE DestroyAll
  <2> DEFINE e == [op |-> "destroyAll", todo |-> managed]
  <2>1. e \in Frame /\ e.op = "destroyAll"
    BY <1>0, OtherFrames
  <2>2. stack' = <<e>> /\ Idle /\ UNCHANGED <<lifecycle, sources>>
    BY <1>2 DEF DestroyAll, record
  <2> HIDE DEF e
  <2> QED BY <1>1, <2>1, <2>2 DEF Calm
<1>3. CASE RunFlush
  <2> DEFINE e == Flush(Head(posts))
  <2>1. Head(posts) \in Windows
    BY <1>3 DEF RunFlush, WindowInv, TypeOK
  <2>2. e \in Frame /\ e.op = "flush"
    BY <2>1, WindowFrames
  <2>3. stack' = <<e>> /\ Idle /\ UNCHANGED <<lifecycle, sources>>
    BY <1>3 DEF RunFlush, record
  <2> HIDE DEF e
  <2> QED BY <1>1, <2>2, <2>3 DEF Calm
<1>4. CASE ShutdownBackend
  <2>1. stack # <<>> /\ Top.op = "destroyAll" /\ stack' = Pop /\ UNCHANGED <<lifecycle, sources>>
    BY <1>4 DEF ShutdownBackend, InFrame, record
  <2>2. stack' = Pop \o <<>>
    BY <1>0, <2>1, StackTop
  <2> QED BY <1>0, <2>1, <2>2, PoppedCovers, LivesKept DEF Calm
<1>5. CASE DestroyNext
  <2>1. stack # <<>> /\ Top.op = "destroyAll" /\ UNCHANGED sources
    BY <1>5 DEF DestroyNext, InFrame
  <2>2. Top.todo \subseteq Windows /\ Top \in Frame
    BY <1>0, <2>1, StackTop, FrameFields
  <2>3. PICK w \in Windows :
          \/ /\ IsOpen(w) /\ lifecycle' = [lifecycle EXCEPT ![w] = "Destroying"]
             /\ \/ stack' = Removing(Append(Pop, Remaining(w)), w, FALSE)
                \/ stack' = Append(Append(Pop, Remaining(w)), Finalization(w))
          \/ UNCHANGED lifecycle /\ stack' = Append(Pop, Remaining(w))
    BY <1>5, <2>2 DEF DestroyNext, Remaining, Finalization
  <2>4. SameLives
    BY <2>3, LivesKept, LivesGoing DEF WindowInv
  <2>5. Begun = {Top} /\ Remaining(w).op = "destroyAll" /\ Sound(Append(Pop, Remaining(w)))
        /\ Pop = <<>>
    BY <2>1, DestroyAllFrames
  <2> DEFINE rest == Append(Pop, Remaining(w))
  <2>6. rest \in Seq(Frame) /\ Range(rest) = {Remaining(w)}
    BY <2>1, DestroyAllRest
  <2> HIDE DEF rest
  <2>7. PICK no \in BOOLEAN : no = FALSE
    OBVIOUS
  <2>8. stack' = Removing(rest, w, no) \/ stack' = Append(rest, Finalization(w)) \/ stack' = rest
    BY <2>3, <2>7 DEF rest
  <2>9. Finalization(w) \in Frame /\ Finalization(w).op = "finalize"
    BY WindowFrames DEF Finalization
  <2>10. PICK e \in Frame : e.op \in {"remove", "finalize"} /\ (stack' = rest \/ stack' = Append(rest, e))
    <3>1. Sound(rest)
      BY <2>5 DEF rest
    <3> QED BY <2>8, <2>9, <3>1, RemovingFrames
  <2>11. \A f \in Begun' : f = Remaining(w) \/ f = e
    <3>1. Range(Append(rest, e)) = Range(rest) \cup {e}
      BY <2>6, <2>10, Pushed
    <3>2. CASE stack' = rest
      <4>1. Begun' = Range(rest)
        BY <3>2, Zenon DEF Begun
      <4> QED BY <2>6, <4>1
    <3>3. CASE stack' = Append(rest, e)
      <4>1. Begun' = Range(Append(rest, e))
        BY <3>3, Zenon DEF Begun
      <4> QED BY <2>6, <3>1, <4>1
    <3> QED BY <2>10, <3>2, <3>3
  <2>12. Still(stack')
    BY <2>5, <2>10, <2>11 DEF Still, Begun, Calm
  <2> QED BY <2>1, <2>4, <2>5, <2>10, <2>11, <2>12, StillStep
<1> QED BY <1>2, <1>3, <1>4, <1>5

LEMMA EraseCovers == WindowInv /\ CoverInv /\ Erase => CoverInv'
<1> SUFFICES ASSUME WindowInv, CoverInv, Erase PROVE CoverInv'
  OBVIOUS
<1> DEFINE e == [op |-> "closed"]
<1>1. /\ stack # <<>> /\ Top.op = "release" /\ Top.targets = {} /\ UNCHANGED lifecycle
      /\ sources' = [sources EXCEPT ![Top.window] = {}] /\ stack' = Append(Pop, e)
  BY DEF Erase, InFrame, Forget
<1>2. Still(Pop) /\ Pop \in Seq(Frame) /\ Begun = Range(Pop) \cup {Top}
  BY <1>1, StillNow DEF Calm
<1>3. e \in Frame /\ e.op = "closed" /\ WellFormed(e)
  BY OtherFrames DEF WellFormed
<1> HIDE DEF e
<1>4. Begun' = Range(Pop) \cup {e}
  BY <1>1, <1>2, <1>3, Pushed DEF Begun
<1>5. CalmAbove(stack')
  BY <1>1, <1>2, <1>3, StillIsCalm, CalmPushed
<1>6. \A v \in Windows : sources'[v] \subseteq sources[v]
  BY <1>1 DEF WindowInv, TypeOK
<1>7. \A f \in Begun' : WellFormed(f)
  BY <1>2, <1>3, <1>4 DEF CoverInv
<1>8. \A f \in Begun : f.op = "release" => f \in Begun' \/ f.targets = {}
  BY <1>1, <1>2, <1>4
<1> QED BY <1>1, <1>5, <1>6, <1>7, <1>8, CoverKept, LivesKept

(* A closing window releases everything that it covers.                      *)
LEMMA FinalizeCovers == WindowInv /\ CoverInv /\ Finalize => CoverInv'
<1> SUFFICES ASSUME WindowInv, CoverInv, Finalize PROVE CoverInv'
  OBVIOUS
<1> DEFINE w == Top.window
<1>1. stack # <<>> /\ Top.op = "finalize"
  BY DEF Finalize, InFrame
<1>2. Still(Pop) /\ Pop \in Seq(Frame) /\ Begun = Range(Pop) \cup {Top}
  BY <1>1, StillNow DEF Calm
<1>3. w \in Windows /\ TypeOK /\ Records
  BY <1>1, StackTop, FrameFields DEF WindowInv, TypeOK
<1>4. CASE w \notin managed \/ lifecycle[w] = "Destroyed"
  <2>1. stack' = Pop /\ UNCHANGED <<lifecycle, sources>>
    BY <1>4 DEF Finalize, record
  <2>2. stack' = Pop \o <<>> /\ <<>> \in Seq(Frame) /\ Range(<<>>) = {}
    BY <1>2, <2>1, Short
  <2> QED BY <1>1, <2>1, <2>2, PoppedCovers, LivesKept DEF Calm
<1>5. CASE ~(w \notin managed \/ lifecycle[w] = "Destroyed")
  <2> DEFINE e == [op |-> "release", window |-> w, targets |-> CoveredTargets(w)]
             c == [op |-> "closed"]
  <2>1. /\ lifecycle' = [lifecycle EXCEPT ![w] = "Destroyed"]
        /\ \/ /\ CoveredTargets(w) = {}
              /\ sources' = [sources EXCEPT ![w] = {}] /\ stack' = Append(Pop, c)
           \/ stack' = Append(Pop, e) /\ UNCHANGED sources
    BY <1>5 DEF Finalize, Forget
  <2>2. CoveredTargets(w) \in SUBSET Windows
    BY <1>3 DEF CoveredTargets, TypeOK
  <2>3. /\ e \in Frame /\ e.op = "release" /\ e.window = w /\ e.targets = CoveredTargets(w)
        /\ c \in Frame /\ c.op = "closed"
    BY <1>3, <2>2, WindowFrames, OtherFrames
  <2> HIDE DEF e, c
  <2>4. CalmAbove(stack') /\ Still(stack')
    <3>1. Range(Append(Pop, e)) = Range(Pop) \cup {e} /\ Range(Append(Pop, c)) = Range(Pop) \cup {c}
      BY <1>2, <2>3, Pushed
    <3>2. Still(stack')
      BY <1>2, <2>1, <2>3, <3>1 DEF Still, Calm
    <3> QED BY <3>2, StillIsCalm
  <2>5. /\ Range(Pop) \subseteq Begun'
        /\ \A f \in Begun' : f \in Range(Pop) \/ f = e \/ f = c
        /\ CoveredTargets(w) # {} => e \in Begun'
    <3>1. Range(Append(Pop, e)) = Range(Pop) \cup {e} /\ Range(Append(Pop, c)) = Range(Pop) \cup {c}
      BY <1>2, <2>3, Pushed
    <3> QED BY <2>1, <3>1 DEF Begun
  <2>6. ASSUME NEW f \in Begun' PROVE WellFormed(f)'
    <3>1. f.op \notin Calm
      BY <2>4 DEF Still, Begun
    <3>2. f \in Range(Pop) => WellFormed(f)
      BY <1>2 DEF CoverInv
    <3> QED BY <2>3, <2>5, <3>1, <3>2 DEF WellFormed, Calm
  <2>7. \A v \in Windows : (IsOpen(v)' <=> IsOpen(v) /\ v # w) /\ (Lives(v)' <=> Lives(v) /\ v # w)
    BY <1>3, <2>1 DEF IsOpen, Lives, TypeOK
  <2>8. \A v \in Windows : v # w => sources'[v] = sources[v]
    BY <1>3, <2>1 DEF TypeOK
  <2>9. ASSUME NEW v \in Windows, NEW s \in Windows, IsOpen(v)', s \in sources'[v]
        PROVE  s # v /\ (Lives(s)' \/ ReleasedFrom(s, v)')
    <3>1. v # w /\ IsOpen(v) /\ s \in sources[v] /\ v \in managed
      BY <1>3, <2>7, <2>8, <2>9 DEF Records, IsOpen, Lives
    <3>2. s # v /\ (Lives(s) \/ ReleasedFrom(s, v))
      BY <3>1 DEF CoverInv
    <3>3. CASE s = w
      <4>1. v \in CoveredTargets(w)
        BY <3>1, <3>3 DEF CoveredTargets
      <4>2. e \in Begun'
        BY <2>5, <4>1
      <4> QED BY <2>3, <3>2, <3>3, <4>1, <4>2 DEF ReleasedFrom
    <3>4. CASE s # w /\ Lives(s)
      BY <2>7, <3>2, <3>4
    <3>5. CASE ReleasedFrom(s, v)
      <4>1. PICK f \in Begun : f.op = "release" /\ f.window = s /\ v \in f.targets
        BY <3>5 DEF ReleasedFrom
      <4>2. f \in Begun'
        BY <1>1, <1>2, <2>5, <4>1
      <4> QED BY <3>2, <4>1, <4>2 DEF ReleasedFrom
    <3> QED BY <3>2, <3>3, <3>4, <3>5
  <2> QED BY <2>4, <2>6, <2>9 DEF CoverInv
<1> QED BY <1>4, <1>5

LEMMA CreateCovers ==
  ASSUME WindowInv, CoverInv, Still(stack), NEW c, CreateWindow(c)
  PROVE  CoverInv'
<1>1. PICK w \in Unused :
        /\ lifecycle' = [lifecycle EXCEPT ![w] = "Open"]
        /\ stack' = Refreshing(stack, w, CoveredBy(w, c.modality), managed)
        /\ UNCHANGED sources
  BY DEF CreateWindow
<1>2. TypeOK /\ Records /\ stack \in Seq(Frame) /\ managed \in SUBSET Windows
  BY DEF WindowInv, TypeOK
<1>3. w \in Windows /\ ~IsOpen(w) /\ w \notin managed /\ sources[w] = {}
  BY <1>1, <1>2 DEF Unused, Records, IsOpen
<1>4. PICK above \in SUBSET managed : above = CoveredBy(w, c.modality)
  BY DEF CoveredBy
<1> DEFINE e == [op |-> "refresh", window |-> w, above |-> above, below |-> managed]
<1>5. e \in Frame /\ e.op = "refresh" /\ WellFormed(e)
  <2>1. above \in SUBSET Windows
    BY <1>2
  <2>2. e \in Frame
    BY <1>2, <1>3, <2>1, WindowFrames
  <2>3. e.op = "refresh" /\ e.window = w /\ e.above = above /\ e.below = managed
    OBVIOUS
  <2> QED BY <1>3, <2>2, <2>3 DEF WellFormed
<1>6. stack' = stack \/ stack' = Append(stack, e)
  BY <1>1, <1>4 DEF Refreshing
<1> HIDE DEF e
<1>7. Range(Append(stack, e)) = Begun \cup {e}
  BY <1>2, <1>5, Pushed DEF Begun
<1>8. Begun \subseteq Begun' /\ \A f \in Begun' : f \in Begun \/ f = e
  BY <1>6, <1>7 DEF Begun
<1>9. Still(stack') /\ CalmAbove(stack')
  <2>1. Still(stack')
    BY <1>5, <1>8 DEF Still, Begun, Calm
  <2> QED BY <2>1, StillIsCalm
<1>10. \A v \in Windows : (IsOpen(v)' <=> IsOpen(v) \/ v = w) /\ (Lives(v)' <=> Lives(v) \/ v = w)
  BY <1>1, <1>2, <1>3 DEF IsOpen, Lives, TypeOK
<1>11. ASSUME NEW f \in Begun' PROVE WellFormed(f)'
  <2>1. f.op \notin Calm
    BY <1>9 DEF Still, Begun
  <2>2. WellFormed(f)
    BY <1>5, <1>8 DEF CoverInv
  <2> QED BY <2>1, <2>2 DEF WellFormed, Calm
<1>12. ASSUME NEW v \in Windows, NEW s \in Windows, IsOpen(v)', s \in sources'[v]
       PROVE  s # v /\ (Lives(s)' \/ ReleasedFrom(s, v)')
  <2>1. IsOpen(v) /\ s \in sources[v]
    BY <1>1, <1>3, <1>10, <1>12
  <2>2. s # v /\ (Lives(s) \/ ReleasedFrom(s, v))
    BY <2>1 DEF CoverInv
  <2>3. ReleasedFrom(s, v) => ReleasedFrom(s, v)'
    BY <1>8 DEF ReleasedFrom
  <2> QED BY <1>10, <2>2, <2>3
<1> QED BY <1>9, <1>11, <1>12 DEF CoverInv

LEMMA RunCovers ==
  ASSUME WindowInv, CoverInv, Still(stack), NEW c \in Commands, Run(c)
  PROVE  CoverInv'
<1>1. /\ c.kind \in {"destroy", "requestClose", "mutate", "setInput"} => c.window \in Windows
      /\ c.kind = "setInput" => c.enabled \in BOOLEAN
  BY CommandFields
<1>2. CASE c.kind = "create" /\ CreateWindow(c)
  BY <1>2, CreateCovers
<1>3. CASE c.kind = "destroy" /\ CanDestroy(c.window) /\ DestroyWindow(c.window)
  BY <1>1, <1>3, LeavingCovers
<1>4. CASE c.kind = "mutate" /\ CanChange(c.window) /\ MutateConfiguration(c.window)
  BY <1>1, <1>4, QuietCovers
<1>5. CASE c.kind = "setInput" /\ IsOpen(c.window) /\ SetInputEnabled(c.window, c.enabled)
  BY <1>1, <1>5, QuietCovers
<1>6. CASE c.kind = "requestClose" /\ RequestClose(c.window)
  BY <1>1, <1>6, AskingCovers
<1> QED BY <1>2, <1>3, <1>4, <1>5, <1>6 DEF Run

LEMMA CoverInvInit == Init => CoverInv
<1> SUFFICES ASSUME Init PROVE CoverInv
  OBVIOUS
<1>1. stack = <<>> /\ Begun = {} /\ \A w \in Windows : sources[w] = {}
  BY Short DEF Init, Begun
<1>2. CalmAbove(stack)
  BY <1>1 DEF CalmAbove
<1> QED BY <1>1, <1>2 DEF CoverInv

LEMMA CoverInvStep ==
  ASSUME "notify" \notin ReentrantFrames, WindowInv, CoverInv, [Next]_vars
  PROVE  CoverInv'
<1>1. ASSUME UNCHANGED <<stack, lifecycle, sources>> PROVE CoverInv'
  <2>1. Begun' = Begun /\ CalmAbove(stack')
    BY <1>1 DEF Begun, CoverInv
  <2> QED BY <1>1, <2>1, CoverKept, LivesKept DEF CoverInv
<1>2. CASE UNCHANGED vars
  BY <1>1, <1>2 DEF vars, record
<1>3. ASSUME NEW c \in Commands, Command(c) PROVE CoverInv'
  <2>1. Run(c) /\ stack = <<>>
    BY <1>3 DEF Command, Idle
  <2> QED BY <1>3, <2>1, StillNow, RunCovers
<1>4. ASSUME NEW c \in Commands, Reenter(c) PROVE CoverInv'
  <2>1. Run(c) /\ stack # <<>> /\ Top.op \in ReentrantFrames
    BY <1>4 DEF Reenter, InCallback
  <2>2. Top.op \notin Calm
    BY <2>1, BoundsAssumption DEF Calm
  <2> QED BY <1>4, <2>1, <2>2, StillNow, RunCovers
<1>5. CASE Continue
  BY <1>5, RefreshCovers, ReleaseCovers, ReconcileCovers, NotifiedCovers, QuietCovers, AskingCovers,
     LeavingCovers, GoingCovers, FinalizeCovers, EraseCovers, ShutdownCovers DEF Continue
<1>6. CASE RunFlush \/ DestroyAll \/ RequestStop
  BY <1>1, <1>6, ShutdownCovers DEF RequestStop, record
<1>7. ASSUME NEW w \in Windows, ConfigurationEvent(w) PROVE CoverInv'
  BY <1>7, GoingCovers
<1>8. ASSUME NEW w \in Windows, CloseEvent(w) \/ DestroyedEvent(w) PROVE CoverInv'
  BY <1>8, AskingCovers, LeavingCovers
<1> QED BY <1>2, <1>3, <1>4, <1>5, <1>6, <1>7, <1>8 DEF Next

(* Whatever is created, closed and reconciled meanwhile, between operations  *)
(* a window is covered only by others that are managed, as long as the       *)
(* subscribers of a configuration change do not call the manager             *)
(* (ReleaseModalSuppression, ReconcileModalSuppression).                     *)
THEOREM CoversWhileItLivesHolds ==
  ASSUME "notify" \notin ReentrantFrames
  PROVE  Spec => []CoversWhileItLives
<1>1. Init => CoverInv
  BY CoverInvInit
<1>2. WindowInv /\ CoverInv /\ [Next]_vars => CoverInv'
  BY CoverInvStep
<1>3. WindowInv /\ CoverInv => CoversWhileItLives
  <2> SUFFICES ASSUME WindowInv, CoverInv, stack = <<>>, NEW w \in managed, NEW s \in sources[w]
               PROVE  s \in managed \ {w}
    BY DEF CoversWhileItLives, Idle
  <2>1. TypeOK /\ Records /\ Duties /\ Begun = {}
    BY StillNow DEF WindowInv
  <2>2. w \in Windows /\ s \in Windows
    BY <2>1 DEF TypeOK
  <2>3. IsOpen(w)
    BY <2>1, <2>2 DEF Duties, Records, Finalizing, Releasing, Leaving, Lives, IsOpen
  <2>4. s # w /\ Lives(s)
    BY <2>1, <2>2, <2>3 DEF CoverInv, ReleasedFrom
  <2> QED BY <2>1, <2>2, <2>4 DEF Records
<1> QED BY <1>1, <1>2, <1>3, WindowInvHolds, PTL DEF Spec


------------------------------------------------------------------------------
(* Which operations can be on the stack above which: while a modal layer is  *)
(* being rebuilt or taken down there is nothing above it but notifications   *)
(* and the reconciliations that they lead to, and while a window leaves the  *)
(* backend or is finalized, nothing but these and flushes.                   *)
Allowed(f, g) ==
  /\ f.op # "notify"
  /\ f.op \in {"refresh", "release", "reconcile"} => g.op \in Calm
  /\ f.op \in {"finalize", "remove"} => g.op \in Calm \cup {"flush"}

Nested(s) == \A i, j \in DOMAIN s : i < j => Allowed(s[i], s[j])

Free(s) == \A f \in Range(s) : f.op \notin Calm \cup {"refresh", "release", "finalize", "remove"}

LEMMA NestedPushed ==
  ASSUME NEW s \in Seq(Frame), NEW e \in Frame, Nested(s), \A f \in Range(s) : Allowed(f, e)
  PROVE  Nested(Append(s, e))
<1> DEFINE q == Append(s, e)
<1> SUFFICES ASSUME NEW i \in DOMAIN q, NEW j \in DOMAIN q, i < j PROVE Allowed(q[i], q[j])
  BY DEF Nested
<1>1. DOMAIN q = DOMAIN s \cup {Len(q)} /\ q[Len(q)] = e /\ \A k \in DOMAIN s : q[k] = s[k]
  OBVIOUS
<1>2. Len(q) = Len(s) + 1 /\ i \in DOMAIN s
  OBVIOUS
<1> HIDE DEF q
<1>3. CASE j \in DOMAIN s
  BY <1>1, <1>2, <1>3 DEF Nested
<1>4. CASE j = Len(q)
  BY <1>1, <1>2, <1>4 DEF Range
<1> QED BY <1>1, <1>3, <1>4

LEMMA NestedPopped ==
  ASSUME stack \in Seq(Frame), stack # <<>>, Nested(stack)
  PROVE  /\ Nested(Pop) /\ Pop \in Seq(Frame) /\ Top \in Frame /\ Begun = Range(Pop) \cup {Top}
         /\ \A f \in Range(Pop) : Allowed(f, Top)
         /\ Top.op \notin Calm \cup {"flush"} => Free(Pop)
<1>1. /\ Pop \in Seq(Frame) /\ Len(Pop) = Len(stack) - 1 /\ Top \in Frame
      /\ \A i \in 1 .. Len(Pop) : Pop[i] = stack[i]
      /\ Begun = Range(Pop) \cup {Top}
  BY StackTop
<1>2. Nested(Pop)
  BY <1>1 DEF Nested
<1>3. ASSUME NEW f \in Range(Pop) PROVE Allowed(f, Top)
  <2>1. PICK i \in 1 .. Len(Pop) : f = stack[i]
    BY <1>1 DEF Range
  <2>2. i \in DOMAIN stack /\ Len(stack) \in DOMAIN stack /\ i < Len(stack)
    BY <1>1
  <2> QED BY <2>1, <2>2 DEF Nested, Top
<1>4. Top.op \notin Calm \cup {"flush"} => Free(Pop)
  BY <1>3 DEF Free, Allowed, Calm
<1> QED BY <1>1, <1>2, <1>3, <1>4

(* Above a stack that is free of all that, anything may begin.               *)
LEMMA FreeNested ==
  ASSUME NEW s \in Seq(Frame), Free(s)
  PROVE  /\ Nested(s)
         /\ \A e \in Frame : Nested(Append(s, e)) /\ Append(s, e) \in Seq(Frame)
                             /\ Range(Append(s, e)) = Range(s) \cup {e}
         /\ \A e, g \in Frame : Allowed(e, g) => Nested(Append(Append(s, e), g))
<1>1. ASSUME NEW f \in Range(s), NEW e PROVE Allowed(f, e)
  BY DEF Free, Allowed, Calm
<1>2. Nested(s)
  BY <1>1 DEF Nested, Range
<1>3. ASSUME NEW e \in Frame
      PROVE  Nested(Append(s, e)) /\ Append(s, e) \in Seq(Frame) /\ Range(Append(s, e)) = Range(s) \cup {e}
  BY <1>1, <1>2, NestedPushed, Pushed
<1>4. ASSUME NEW e \in Frame, NEW g \in Frame, Allowed(e, g) PROVE Nested(Append(Append(s, e), g))
  <2> DEFINE q == Append(s, e)
  <2>1. q \in Seq(Frame) /\ Nested(q) /\ Range(q) = Range(s) \cup {e}
    BY <1>3
  <2> HIDE DEF q
  <2>2. Nested(Append(q, g))
    BY <1>1, <1>4, <2>1, NestedPushed
  <2> QED BY <2>2 DEF q
<1> QED BY <1>2, <1>3, <1>4

LEMMA ToldNested ==
  ASSUME NEW rest \in Seq(Frame), Nested(rest), \A f \in Range(rest) : f.op # "notify", Told(rest)
  PROVE  Nested(stack')
<1>1. ASSUME NEW g \in Notification PROVE Nested(Append(rest, g))
  <2>1. g \in Frame /\ g.op \in Calm
    BY NotificationIsFrame DEF Calm
  <2> QED BY <2>1, NestedPushed DEF Allowed
<1> QED BY <1>1 DEF Told

(* What a stack looks like in which a modal layer, a reconciliation or a     *)
(* release has been put back with less to do.                                *)
LEMMA PutBack ==
  ASSUME stack \in Seq(Frame), stack # <<>>, Nested(stack), Top.op # "notify",
         NEW e \in Frame, e.op = Top.op,
         NEW rest, rest = Pop \/ rest = Append(Pop, e)
  PROVE  /\ rest \in Seq(Frame) /\ Nested(rest)
         /\ \A f \in Range(rest) : f.op # "notify"
         /\ Range(rest) \in {Range(Pop), Range(Pop) \cup {e}}
<1>1. Nested(Pop) /\ Pop \in Seq(Frame) /\ \A f \in Range(Pop) : Allowed(f, Top)
  BY NestedPopped
<1>2. \A f \in Range(Pop) : Allowed(f, e) /\ f.op # "notify"
  BY <1>1 DEF Allowed
<1>3. Nested(Append(Pop, e)) /\ Append(Pop, e) \in Seq(Frame) /\ Range(Append(Pop, e)) = Range(Pop) \cup {e}
  BY <1>1, <1>2, NestedPushed, Pushed
<1>4. CASE rest = Pop
  BY <1>1, <1>2, <1>4
<1>5. CASE rest = Append(Pop, e)
  BY <1>2, <1>3, <1>5
<1> QED BY <1>4, <1>5

(* The policy of a window is the part of its configuration that the modal    *)
(* layers depend on.  Of what a step does to configurations only this is     *)
(* followed: it comes from the backend, and a change of it is told.          *)
SamePolicy(c, d) == c.parent = d.parent /\ c.modality = d.modality

TellsPolicy(rest) == stack' = Append(rest, [op |-> "notify", policy |-> TRUE])

Follows(rest) ==
  /\ \A v \in Windows : /\ Exists(v)' <=> Exists(v)
                        /\ Exists(v) => SamePolicy(native'[v], native[v])
                        /\ \/ SamePolicy(configuration'[v], configuration[v])
                           \/ Exists(v) /\ SamePolicy(configuration'[v], native[v])
  /\ \/ \A v \in Windows : SamePolicy(configuration'[v], configuration[v])
     \/ TellsPolicy(rest)

LEMMA SuppressedPolicy ==
  ASSUME NEW c \in Configuration, NEW by, NEW b \in BOOLEAN
  PROVE  SamePolicy(Suppressed(c, by), c) /\ SamePolicy([c EXCEPT !.input = b], c)
<1>1. c \in [parent : Windows \cup {NoWindow}, modality : Modalities, input : BOOLEAN]
  BY DEF Configuration
<1>2. \A i \in BOOLEAN : SamePolicy([c EXCEPT !.input = i], c)
  BY <1>1 DEF SamePolicy
<1> QED BY <1>2 DEF Suppressed, SamePolicy

LEMMA ApplyPolicy ==
  ASSUME WindowInv, NEW w \in Windows, Lives(w), NEW next \in Configuration, NEW by, NEW rest,
         Apply(w, next, by, rest)
  PROVE  /\ \A v \in Windows : v # w => configuration'[v] = configuration[v]
         /\ SamePolicy(configuration'[w], next)
         /\ SamePolicy(next, configuration[w]) \/ TellsPolicy(rest)
         /\ Told(rest)
<1> DEFINE new == Suppressed(next, by)
<1>1. new \in Configuration /\ SamePolicy(new, next)
  BY SuppressedFields, SuppressedPolicy
<1>2. configuration \in Table /\ TypeOK /\ lifecycle[w] # "Destroyed"
  BY DEF WindowInv, TypeOK, Table, Lives
<1>3. Told(rest)
  <2>1. lifecycle[w] # "none"
    BY DEF Lives
  <2> QED BY <1>2, <2>1, ApplyEffect DEF Changed
<1> HIDE DEF new
<1>4. CASE new = configuration[w]
  BY <1>1, <1>2, <1>3, <1>4 DEF Apply, new, SamePolicy
<1>5. CASE new # configuration[w]
  <2>1. configuration' = [configuration EXCEPT ![w] = new]
    BY <1>2, <1>5 DEF Apply, new
  <2>2. PICK policy \in BOOLEAN : policy = ChangesPolicy(configuration[w], new)
    BY DEF ChangesPolicy
  <2>3. stack' = Append(rest, [op |-> "notify", policy |-> policy])
    BY <1>2, <1>5, <2>2 DEF Apply, new
  <2>4. SamePolicy(new, configuration[w]) \/ policy = TRUE
    BY <2>2 DEF ChangesPolicy, SamePolicy
  <2>5. configuration'[w] = new /\ \A v \in Windows : v # w => configuration'[v] = configuration[v]
    BY <1>2, <2>1 DEF Table
  <2>6. SamePolicy(next, configuration[w]) \/ TellsPolicy(rest)
    BY <1>1, <2>3, <2>4 DEF SamePolicy, TellsPolicy
  <2> QED BY <1>1, <1>3, <2>5, <2>6
<1> QED BY <1>4, <1>5

LEMMA NothingFollows ==
  ASSUME UNCHANGED <<native, configuration>>, NEW rest
  PROVE  Follows(rest)
BY DEF Follows, SamePolicy, Exists

LEMMA AppliedFollows ==
  ASSUME WindowInv, NEW w \in Windows, Exists(w), NEW next \in Configuration,
         SamePolicy(next, native[w]), NEW by, NEW rest, Apply(w, next, by, rest),
         \A v \in Windows : /\ Exists(v)' <=> Exists(v)
                            /\ Exists(v) => SamePolicy(native'[v], native[v])
  PROVE  Follows(rest) /\ Told(rest)
<1>1. Lives(w)
  BY DEF WindowInv, Records
<1>2. /\ \A v \in Windows : v # w => configuration'[v] = configuration[v]
      /\ SamePolicy(configuration'[w], next)
      /\ SamePolicy(next, configuration[w]) \/ TellsPolicy(rest)
      /\ Told(rest)
  BY <1>1, ApplyPolicy
<1>3. \A v \in Windows : v # w => SamePolicy(configuration'[v], configuration[v])
  BY <1>2 DEF SamePolicy
<1>4. SamePolicy(configuration'[w], native[w])
  BY <1>2 DEF SamePolicy
<1>5. SamePolicy(configuration'[w], configuration[w]) \/ TellsPolicy(rest)
  BY <1>2 DEF SamePolicy
<1> QED BY <1>1, <1>2, <1>3, <1>4, <1>5 DEF Follows

LEMMA SwitchFollows ==
  ASSUME WindowInv, NEW w \in Windows, Lives(w), NEW enabled \in BOOLEAN, NEW by, NEW rest,
         SwitchInput(w, enabled, by, rest)
  PROVE  Follows(rest) /\ Told(rest)
<1>1. native \in Table /\ configuration[w] \in Configuration
  BY DEF WindowInv, TypeOK, Records, Table
<1>2. CASE Exists(w)
  <2> DEFINE switched == [native[w] EXCEPT !.input = enabled]
  <2>1. native[w] \in Configuration
    BY <1>1, <1>2 DEF Exists, Table
  <2>2. switched \in Configuration /\ SamePolicy(switched, native[w])
    BY <2>1, ConfigurationFields, SuppressedPolicy
  <2>3. native' = [native EXCEPT ![w] = switched] /\ Apply(w, switched, by, rest)
    BY <1>2 DEF SwitchInput
  <2> HIDE DEF switched
  <2>4. \A v \in Windows : /\ Exists(v)' <=> Exists(v)
                           /\ Exists(v) => SamePolicy(native'[v], native[v])
    BY <1>1, <1>2, <2>2, <2>3, NoConfigurationAssumption DEF Exists, Table, SamePolicy
  <2> QED BY <1>2, <2>2, <2>3, <2>4, AppliedFollows
<1>3. CASE ~Exists(w) /\ enabled
  BY <1>3, NothingFollows DEF SwitchInput, Told
<1>4. CASE ~Exists(w) /\ ~enabled
  <2> DEFINE next == [configuration[w] EXCEPT !.input = FALSE]
  <2>1. next \in Configuration /\ SamePolicy(next, configuration[w])
    BY <1>1, ConfigurationFields, SuppressedPolicy
  <2>2. UNCHANGED native /\ Apply(w, next, by, rest)
    BY <1>4 DEF SwitchInput
  <2> HIDE DEF next
  <2>3. /\ \A v \in Windows : v # w => configuration'[v] = configuration[v]
        /\ SamePolicy(configuration'[w], next) /\ Told(rest)
    BY <2>1, <2>2, ApplyPolicy
  <2>4. \A v \in Windows : SamePolicy(configuration'[v], configuration[v])
    BY <2>1, <2>3 DEF SamePolicy
  <2> QED BY <2>2, <2>3, <2>4 DEF Follows, Exists, SamePolicy
<1> QED BY <1>2, <1>3, <1>4

LEMMA ConsidersFollows ==
  ASSUME WindowInv, NEW modal \in Windows, NEW target \in Windows, NEW rest,
         Considers(modal, target, rest)
  PROVE  Follows(rest) /\ Told(rest)
<1> DEFINE by == sources[target] \cup {modal}
<1>1. CASE /\ ShouldSuppress(modal, target) /\ IsOpen(target) /\ modal \notin sources[target]
           /\ configuration[target].input
  <2>1. PICK no \in BOOLEAN : no = FALSE
    OBVIOUS
  <2>2. SwitchInput(target, no, by, rest)
    BY <1>1, <2>1 DEF Considers, AddSuppression
  <2>3. Lives(target)
    BY <1>1 DEF IsOpen, Lives
  <2> QED BY <2>2, <2>3, SwitchFollows
<1>2. CASE ~(/\ ShouldSuppress(modal, target) /\ IsOpen(target) /\ modal \notin sources[target]
             /\ configuration[target].input)
  BY <1>2, NothingFollows DEF Considers, AddSuppression, Told
<1> QED BY <1>1, <1>2

LEMMA CommandsFollow ==
  ASSUME WindowInv, NEW w \in Windows,
         \/ CanChange(w) /\ MutateConfiguration(w)
         \/ \E enabled \in BOOLEAN : IsOpen(w) /\ SetInputEnabled(w, enabled)
  PROVE  Follows(stack) /\ Told(stack)
<1>1. CASE CanChange(w) /\ MutateConfiguration(w)
  <2>1. Exists(w) /\ native[w] \in Configuration
    BY <1>1 DEF CanChange, WindowInv, TypeOK, Exists
  <2>2. Apply(w, native[w], sources[w], stack) /\ UNCHANGED native
    BY <1>1 DEF MutateConfiguration
  <2>3. SamePolicy(native[w], native[w]) /\ \A v \in Windows : SamePolicy(native'[v], native[v])
    BY <2>2 DEF SamePolicy
  <2>4. \A v \in Windows : Exists(v)' <=> Exists(v)
    BY <2>2 DEF Exists
  <2> QED BY <2>1, <2>2, <2>3, <2>4, AppliedFollows
<1>2. ASSUME NEW enabled \in BOOLEAN, IsOpen(w), SetInputEnabled(w, enabled)
      PROVE  Follows(stack) /\ Told(stack)
  <2>1. PICK effective \in BOOLEAN : effective = (enabled /\ sources[w] = {})
    OBVIOUS
  <2>2. CASE effective # configuration[w].input /\ Exists(w)
    <3>1. SwitchInput(w, effective, sources[w], stack)
      BY <1>2, <2>1, <2>2 DEF SetInputEnabled
    <3>2. Lives(w)
      BY <1>2 DEF IsOpen, Lives
    <3> QED BY <3>1, <3>2, SwitchFollows
  <2>3. CASE ~(effective # configuration[w].input /\ Exists(w))
    <3>1. UNCHANGED <<native, configuration, stack>>
      BY <1>2, <2>1, <2>3 DEF SetInputEnabled
    <3> QED BY <3>1, NothingFollows DEF Told
  <2> QED BY <2>2, <2>3
<1> QED BY <1>1, <1>2

RefreshFrame(w, above, below) == [op |-> "refresh", window |-> w, above |-> above, below |-> below]

RefreshCase(modal, target, above, below) ==
  \/ /\ modal \in Top.above /\ target = Top.window
     /\ above = Top.above \ {modal} /\ below = Top.below
  \/ /\ Top.above = {} /\ modal = Top.window /\ target \in Top.below
     /\ above = {} /\ below = Top.below \ {target}

LEMMA RefreshShape ==
  ASSUME WindowInv, Nested(stack), RefreshNext
  PROVE  /\ stack # <<>> /\ Top.op = "refresh" /\ Top \in Begun /\ Top.window \in Windows
         /\ Free(Pop) /\ Begun = Range(Pop) \cup {Top}
         /\ \E modal, target \in Windows, above, below \in SUBSET Windows, rest \in Seq(Frame) :
              /\ RefreshCase(modal, target, above, below)
              /\ Considers(modal, target, rest) /\ Told(rest) /\ Follows(rest)
              /\ IF above \cup below = {} THEN Range(rest) = Range(Pop)
                 ELSE Range(rest) = Range(Pop) \cup {RefreshFrame(Top.window, above, below)}
              /\ Nested(rest) /\ Nested(stack')
<1>1. stack # <<>> /\ Top.op = "refresh" /\ stack \in Seq(Frame)
  BY DEF RefreshNext, InFrame, WindowInv, TypeOK
<1>2. /\ Top \in Begun /\ Pop \in Seq(Frame) /\ Begun = Range(Pop) \cup {Top} /\ Free(Pop)
      /\ Top.window \in Windows /\ Top.above \subseteq Windows /\ Top.below \subseteq Windows
  BY <1>1, StackTop, NestedPopped, FrameFields DEF Calm
<1>3. PICK modal \in Windows, target \in Windows, above \in SUBSET Windows, below \in SUBSET Windows :
        /\ RefreshCase(modal, target, above, below)
        /\ Considers(modal, target, Refreshing(Pop, Top.window, above, below))
  <2>1. CASE \E modal \in Top.above :
               Considers(modal, Top.window, Refreshing(Pop, Top.window, Top.above \ {modal}, Top.below))
    <3>1. PICK modal \in Top.above :
            Considers(modal, Top.window, Refreshing(Pop, Top.window, Top.above \ {modal}, Top.below))
      BY <2>1
    <3>2. RefreshCase(modal, Top.window, Top.above \ {modal}, Top.below)
      BY <3>1 DEF RefreshCase
    <3>3. Top.above \ {modal} \in SUBSET Windows /\ modal \in Windows
      BY <1>2
    <3> QED BY <1>2, <3>1, <3>2, <3>3
  <2>2. CASE Top.above = {} /\ \E target \in Top.below :
               Considers(Top.window, target, Refreshing(Pop, Top.window, {}, Top.below \ {target}))
    <3>1. PICK target \in Top.below :
            Considers(Top.window, target, Refreshing(Pop, Top.window, {}, Top.below \ {target}))
      BY <2>2
    <3>2. RefreshCase(Top.window, target, {}, Top.below \ {target})
      BY <2>2, <3>1 DEF RefreshCase
    <3>3. Top.below \ {target} \in SUBSET Windows /\ {} \in SUBSET Windows /\ target \in Windows
      BY <1>2
    <3> QED BY <1>2, <3>1, <3>2, <3>3
  <2> QED BY <2>1, <2>2 DEF RefreshNext
<1> DEFINE rest == Refreshing(Pop, Top.window, above, below)
           e == RefreshFrame(Top.window, above, below)
<1>4. e \in Frame /\ e.op = "refresh"
  BY <1>2, WindowFrames DEF RefreshFrame
<1>5. rest = IF above \cup below = {} THEN Pop ELSE Append(Pop, e)
  BY DEF Refreshing, RefreshFrame
<1>6. Considers(modal, target, rest)
  BY <1>3
<1> HIDE DEF e, rest
<1>7. Told(rest) /\ Follows(rest)
  BY <1>6, ConsidersFollows
<1>8. /\ rest \in Seq(Frame) /\ Nested(rest)
      /\ \A f \in Range(rest) : f.op # "notify"
      /\ IF above \cup below = {} THEN Range(rest) = Range(Pop) ELSE Range(rest) = Range(Pop) \cup {e}
  <2>1. CASE above \cup below = {}
    BY <1>2, <1>5, <2>1, FreeNested DEF Free, Calm
  <2>2. CASE above \cup below # {}
    BY <1>2, <1>4, <1>5, <2>2, FreeNested DEF Free, Calm
  <2> QED BY <2>1, <2>2
<1>9. Nested(stack')
  BY <1>7, <1>8, ToldNested
<1> QED BY <1>1, <1>2, <1>3, <1>6, <1>7, <1>8, <1>9 DEF e

ReconcileFrame(targets, desired) == [op |-> "reconcile", targets |-> targets, desired |-> desired]

Settles(t, rest) ==
  LET by == Top.desired[t]
      enabled == requested[t] /\ by = {}
  IN IF IsOpen(t)
     THEN /\ sources' = [sources EXCEPT ![t] = by]
          /\ IF enabled # configuration[t].input
             THEN SwitchInput(t, enabled, by, rest)
             ELSE UNCHANGED <<native, configuration>> /\ stack' = rest
     ELSE UNCHANGED <<sources, native, configuration>> /\ stack' = rest

LEMMA ReconcileShape ==
  ASSUME WindowInv, Nested(stack), ReconcileNext
  PROVE  /\ stack # <<>> /\ Top.op = "reconcile" /\ Top \in Begun
         /\ Begun = Range(Pop) \cup {Top} /\ \A f \in Range(Pop) : f.op # "notify"
         /\ Top.desired \in [Windows -> SUBSET Windows]
         /\ \E t \in Windows, rest \in Seq(Frame) :
              /\ t \in Top.targets
              /\ Settles(t, rest) /\ Told(rest) /\ Follows(rest)
              /\ IF Top.targets \ {t} = {} THEN Range(rest) = Range(Pop)
                 ELSE Range(rest) = Range(Pop) \cup {ReconcileFrame(Top.targets \ {t}, Top.desired)}
              /\ Nested(rest) /\ Nested(stack')
<1>1. stack # <<>> /\ Top.op = "reconcile" /\ stack \in Seq(Frame)
  BY DEF ReconcileNext, InFrame, WindowInv, TypeOK
<1>2. /\ Top \in Begun /\ Pop \in Seq(Frame) /\ Begun = Range(Pop) \cup {Top}
      /\ Top.targets \subseteq Windows /\ Top.desired \in [Windows -> SUBSET Windows]
      /\ \A f \in Range(Pop) : f.op # "notify"
  BY <1>1, StackTop, NestedPopped, FrameFields DEF Allowed
<1>3. PICK t \in Top.targets : Settles(t, Reconciling(Pop, Top.targets \ {t}, Top.desired))
  BY DEF ReconcileNext, Settles
<1> DEFINE rest == Reconciling(Pop, Top.targets \ {t}, Top.desired)
           e == ReconcileFrame(Top.targets \ {t}, Top.desired)
<1>4. e \in Frame /\ e.op = "reconcile"
  BY <1>2, OtherFrames DEF ReconcileFrame
<1>5. rest = IF Top.targets \ {t} = {} THEN Pop ELSE Append(Pop, e)
  BY DEF Reconciling, ReconcileFrame
<1>6. Settles(t, rest)
  BY <1>3
<1> HIDE DEF e, rest
<1>7. /\ rest \in Seq(Frame) /\ Nested(rest) /\ \A f \in Range(rest) : f.op # "notify"
  BY <1>1, <1>4, <1>5, PutBack
<1>8. IF Top.targets \ {t} = {} THEN Range(rest) = Range(Pop) ELSE Range(rest) = Range(Pop) \cup {e}
  BY <1>2, <1>4, <1>5, Pushed
<1>9. Told(rest) /\ Follows(rest)
  <2>1. PICK enabled \in BOOLEAN : enabled = (requested[t] /\ Top.desired[t] = {})
    OBVIOUS
  <2>2. CASE IsOpen(t) /\ enabled # configuration[t].input
    <3>1. SwitchInput(t, enabled, Top.desired[t], rest)
      BY <1>6, <2>1, <2>2 DEF Settles
    <3>2. Lives(t)
      BY <2>2 DEF IsOpen, Lives
    <3> QED BY <1>2, <3>1, <3>2, SwitchFollows
  <2>3. CASE ~(IsOpen(t) /\ enabled # configuration[t].input)
    <3>1. UNCHANGED <<native, configuration>> /\ stack' = rest
      BY <1>6, <2>1, <2>3 DEF Settles
    <3> QED BY <3>1, NothingFollows DEF Told
  <2> QED BY <2>2, <2>3
<1>10. Nested(stack')
  BY <1>7, <1>9, ToldNested
<1> QED BY <1>1, <1>2, <1>3, <1>6, <1>7, <1>8, <1>9, <1>10 DEF e

LEMMA ReleaseShape ==
  ASSUME WindowInv, Nested(stack), ReleaseNext
  PROVE  /\ stack # <<>> /\ Top.op = "release" /\ Free(Pop)
         /\ \E t \in Top.targets, rest \in Seq(Frame) :
              /\ t \in Windows /\ Told(rest) /\ Follows(rest)
              /\ Range(rest) = Range(Pop) \cup {Released(t)}
              /\ \A s \in Windows : s # t => sources'[s] = sources[s]
              /\ Lives(t) => sources'[t] = sources[t] \ {Top.window}
         /\ Nested(stack')
<1>1. stack # <<>> /\ Top.op = "release" /\ stack \in Seq(Frame)
  BY DEF ReleaseNext, InFrame, WindowInv, TypeOK
<1>2. /\ Pop \in Seq(Frame) /\ Free(Pop) /\ Top \in Frame /\ Top.window \in Windows
      /\ Top.targets \subseteq Windows
  BY <1>1, NestedPopped, FrameFields DEF Calm
<1>3. PICK t \in Top.targets :
        LET rest == Append(Pop, Released(t))
            by == sources[t] \ {Top.window}
        IN IF lifecycle[t] = "Destroyed" \/ Top.window \notin sources[t]
           THEN UNCHANGED <<sources, native, configuration>> /\ stack' = rest
           ELSE /\ sources' = [sources EXCEPT ![t] = by]
                /\ IF by = {} /\ requested[t] /\ ~configuration[t].input
                   THEN SwitchInput(t, TRUE, by, rest)
                   ELSE UNCHANGED <<native, configuration>> /\ stack' = rest
  BY DEF ReleaseNext, Released
<1> DEFINE e == Released(t)
           rest == Append(Pop, e)
           by == sources[t] \ {Top.window}
<1>4. e \in Frame /\ e.op = "release" /\ t \in Windows
  BY <1>1, <1>2, ReleasedFields
<1> HIDE DEF e
<1>5. rest \in Seq(Frame) /\ Nested(rest) /\ Range(rest) = Range(Pop) \cup {e}
  BY <1>2, <1>4, FreeNested
<1>6. sources \in [Windows -> SUBSET Windows] /\ Records /\ TypeOK
  BY DEF WindowInv, TypeOK
<1>7. IF lifecycle[t] = "Destroyed" \/ Top.window \notin sources[t]
      THEN UNCHANGED <<sources, native, configuration>> /\ stack' = rest
      ELSE /\ sources' = [sources EXCEPT ![t] = by]
           /\ IF by = {} /\ requested[t] /\ ~configuration[t].input
              THEN SwitchInput(t, TRUE, by, rest)
              ELSE UNCHANGED <<native, configuration>> /\ stack' = rest
  BY <1>3 DEF e
<1> HIDE DEF rest, by
<1>8. /\ \A s \in Windows : s # t => sources'[s] = sources[s]
      /\ Lives(t) => sources'[t] = sources[t] \ {Top.window}
  BY <1>4, <1>6, <1>7 DEF Lives, by
<1>9. Told(rest) /\ Follows(rest)
  <2>1. CASE UNCHANGED <<native, configuration>> /\ stack' = rest
    BY <2>1, NothingFollows DEF Told
  <2>2. CASE ~(UNCHANGED <<native, configuration>> /\ stack' = rest)
    <3>1. PICK yes \in BOOLEAN : yes = TRUE
      OBVIOUS
    <3>2. lifecycle[t] # "Destroyed" /\ Top.window \in sources[t] /\ SwitchInput(t, yes, by, rest)
      BY <1>7, <2>2, <3>1
    <3>3. Lives(t)
      BY <1>4, <1>6, <3>2 DEF Records, TypeOK, Lives
    <3> QED BY <1>4, <3>2, <3>3, SwitchFollows
  <2> QED BY <2>1, <2>2
<1>10. Nested(stack')
  BY <1>2, <1>4, <1>5, <1>9, ToldNested DEF Free, Calm
<1> QED BY <1>1, <1>2, <1>4, <1>5, <1>8, <1>9, <1>10 DEF e

LEMMA TwoPushed ==
  ASSUME NEW s \in Seq(Frame), NEW a \in Frame, NEW f \in Frame
  PROVE  s \o (<<a>> \o <<>>) = Append(s, a) /\ s \o (<<a>> \o <<f>>) = Append(Append(s, a), f)
<1>1. <<a>> \o <<>> = <<a>> /\ s \o <<a>> = Append(s, a)
  OBVIOUS
<1> DEFINE q == <<a>> \o <<f>>
<1>2. q \in Seq(Frame) /\ Len(q) = 2 /\ q[1] = a /\ q[2] = f
  OBVIOUS
<1> HIDE DEF q
<1> DEFINE r == Append(s, a)
<1>3. r \in Seq(Frame) /\ Len(r) = Len(s) + 1 /\ r[Len(s) + 1] = a /\ \A i \in 1 .. Len(s) : r[i] = s[i]
  OBVIOUS
<1> HIDE DEF r
<1> DEFINE x == s \o q
           y == Append(r, f)
<1>4. x \in Seq(Frame) /\ y \in Seq(Frame) /\ Len(x) = Len(s) + 2 /\ Len(y) = Len(s) + 2
  <2>1. x \in Seq(Frame) /\ Len(x) = Len(s) + Len(q)
    BY <1>2, ConcatProperties
  <2>2. y \in Seq(Frame) /\ Len(y) = Len(r) + 1
    BY <1>3
  <2>3. Len(s) \in Nat
    OBVIOUS
  <2> QED BY <1>2, <1>3, <2>1, <2>2, <2>3
<1>5. ASSUME NEW i \in 1 .. Len(x) PROVE x[i] = y[i]
  <2>1. CASE i \in 1 .. Len(s)
    <3>1. x[i] = s[i]
      BY <1>2, <2>1
    <3>2. y[i] = r[i]
      BY <1>3, <2>1
    <3> QED BY <1>3, <2>1, <3>1, <3>2
  <2>2. CASE i = Len(s) + 1
    <3>1. x[i] = q[1]
      BY <1>2, <2>2
    <3>2. y[i] = r[i]
      BY <1>3, <2>2
    <3> QED BY <1>2, <1>3, <2>2, <3>1, <3>2
  <2>3. CASE i = Len(s) + 2
    <3>1. x[i] = q[2]
      BY <1>2, <2>3
    <3>2. y[i] = f
      BY <1>3, <2>3
    <3> QED BY <1>2, <3>1, <3>2
  <2> QED BY <1>4, <2>1, <2>2, <2>3
<1>6. x = y
  <2> HIDE DEF x, y
  <2> QED BY <1>4, <1>5, SeqEqual
<1> QED BY <1>1, <1>6 DEF q, r, x, y

(* The stack of a step that is not about a modal layer: what was above is    *)
(* done, and at most two operations begin.                                   *)
LEMMA ClosingNested ==
  ASSUME NEW w \in Windows, NEW s \in Seq(Frame), Free(s)
  PROVE  /\ Nested(s \o AskToClose(w)) /\ Nested(s \o ReportClosed(w))
         /\ Nested(Append(s, Finalization(w)))
<1> DEFINE a == [op |-> "ask", window |-> w]
           g == Finalization(w)
           f == Flush(w)
<1>1. /\ a \in Frame /\ a.op = "ask" /\ g \in Frame /\ g.op = "finalize" /\ f \in Frame /\ f.op = "flush"
  BY WindowFrames DEF Finalization, Flush
<1>2. FlushFirst(w) = <<>> \/ FlushFirst(w) = <<f>>
  BY DEF FlushFirst
<1>3. AskToClose(w) = <<a>> \o FlushFirst(w) /\ ReportClosed(w) = <<g>> \o FlushFirst(w)
  BY DEF AskToClose, ReportClosed, Finalization
<1> HIDE DEF a, g, f
<1>4. Allowed(a, f) /\ Allowed(g, f)
  BY <1>1 DEF Allowed, Calm
<1>5. /\ s \o (<<a>> \o <<>>) = Append(s, a) /\ s \o (<<g>> \o <<>>) = Append(s, g)
      /\ s \o (<<a>> \o <<f>>) = Append(Append(s, a), f)
      /\ s \o (<<g>> \o <<f>>) = Append(Append(s, g), f)
  BY <1>1, TwoPushed
<1>6. /\ Nested(Append(s, a)) /\ Nested(Append(s, g))
      /\ Nested(Append(Append(s, a), f)) /\ Nested(Append(Append(s, g), f))
  BY <1>1, <1>4, FreeNested
<1>7. CASE FlushFirst(w) = <<>>
  BY <1>3, <1>5, <1>6, <1>7 DEF g
<1>8. CASE FlushFirst(w) = <<f>>
  BY <1>3, <1>5, <1>6, <1>8 DEF g
<1> QED BY <1>2, <1>7, <1>8

LEMMA RemovingNested ==
  ASSUME NEW w \in Windows, NEW s \in Seq(Frame), Free(s), NEW notify \in BOOLEAN
  PROVE  Nested(Removing(s, w, notify))
<1> DEFINE e == [op |-> "remove", window |-> w, children |-> Children(w), notify |-> notify]
<1>1. Children(w) \in SUBSET Windows
  BY DEF Children
<1>2. e \in Frame
  BY <1>1, WindowFrames
<1>3. Removing(s, w, notify) = Append(s, e)
  BY DEF Removing
<1> HIDE DEF e
<1> QED BY <1>2, <1>3, FreeNested

LEMMA PoppedNested ==
  ASSUME WindowInv, Nested(stack),
         \/ Notified \/ FlushPending \/ Ask \/ Cancelled \/ Closes \/ DetachNext \/ Remove
         \/ Finalize \/ Erase \/ ClosedReported \/ DestroyNext \/ ShutdownBackend
  PROVE  Nested(stack')
<1>0. /\ stack \in Seq(Frame) /\ managed \subseteq Windows
      /\ stack # <<>> => /\ Nested(Pop) /\ Pop \in Seq(Frame) /\ Top \in Frame
                         /\ \A f \in Range(Pop) : Allowed(f, Top)
                         /\ Top.op \notin Calm \cup {"flush"} => Free(Pop)
  BY NestedPopped DEF WindowInv, TypeOK
<1>1. CASE Notified
  <2> DEFINE e == [op |-> "reconcile", targets |-> {w \in managed : IsOpen(w)}, desired |-> Reconciled]
  <2>1. stack # <<>> /\ Top.op = "notify" /\ (stack' = Pop \/ stack' = Append(Pop, e))
    BY <1>1 DEF Notified, InFrame, Reconciling
  <2>2. Reconciled \in [Windows -> SUBSET Windows]
    BY <1>0 DEF Reconciled, DesiredSources
  <2>3. e \in Frame /\ e.op = "reconcile"
    BY <1>0, <2>2, OtherFrames
  <2> HIDE DEF e
  <2>4. \A f \in Range(Pop) : Allowed(f, e)
    BY <1>0, <2>1, <2>3 DEF Allowed, Calm
  <2>5. Nested(Append(Pop, e))
    BY <1>0, <2>1, <2>3, <2>4, NestedPushed
  <2> QED BY <1>0, <2>1, <2>5
<1>2. CASE FlushPending
  <2>1. stack # <<>> /\ Top.op = "flush" /\ Told(Pop)
    BY <1>2, FlushEffect
  <2>2. \A f \in Range(Pop) : f.op # "notify"
    BY <1>0, <2>1 DEF Allowed
  <2> QED BY <1>0, <2>1, <2>2, ToldNested
<1>3. CASE Ask \/ Cancelled \/ ClosedReported \/ ShutdownBackend
  <2> DEFINE e == [op |-> "asking", window |-> Top.window]
  <2>1. /\ stack # <<>> /\ Top.op \notin Calm \cup {"flush"}
        /\ (stack' = Pop \/ (Top.op = "ask" /\ stack' = Append(Pop, e)))
    BY <1>3 DEF Ask, Cancelled, ClosedReported, ShutdownBackend, InFrame, Calm
  <2>2. Top.op = "ask" => e \in Frame
    BY <1>0, <2>1, FrameFields, WindowFrames
  <2> HIDE DEF e
  <2> QED BY <1>0, <2>1, <2>2, FreeNested
<1>4. CASE Closes
  <2>1. PICK yes \in BOOLEAN : yes = TRUE
    OBVIOUS
  <2>2. stack # <<>> /\ Top.op = "asking" /\ stack' = Removing(Pop, Top.window, yes)
    BY <1>4, <2>1 DEF Closes, InFrame
  <2>3. Top.window \in Windows
    BY <1>0, <2>2, FrameFields
  <2> QED BY <1>0, <2>2, <2>3, RemovingNested DEF Calm
<1>5. CASE Finalize \/ Erase
  <2> DEFINE c == [op |-> "closed"]
             e == [op |-> "release", window |-> Top.window, targets |-> CoveredTargets(Top.window)]
  <2>1. /\ stack # <<>> /\ Top.op \in {"finalize", "release"}
        /\ stack' \in {Pop, Append(Pop, c), Append(Pop, e)}
    BY <1>5 DEF Finalize, Erase, Forget, InFrame
  <2>2. Top.window \in Windows /\ CoveredTargets(Top.window) \in SUBSET Windows
    BY <1>0, <2>1, FrameFields DEF CoveredTargets
  <2>3. c \in Frame /\ e \in Frame
    BY <2>2, WindowFrames, OtherFrames
  <2> HIDE DEF c, e
  <2> QED BY <1>0, <2>1, <2>3, FreeNested DEF Calm
<1>6. CASE DestroyNext
  <2>1. stack # <<>> /\ Top.op = "destroyAll"
    BY <1>6 DEF DestroyNext, InFrame
  <2>2. Top.todo \subseteq Windows /\ Top \in [op : {"destroyAll"}, todo : SUBSET Windows]
    BY <1>0, <2>1, FrameFields DEF Frame
  <2>3. PICK w \in Windows : \/ stack' = Append(Append(Pop, Remaining(w)), Finalization(w))
                             \/ stack' = Removing(Append(Pop, Remaining(w)), w, FALSE)
                             \/ stack' = Append(Pop, Remaining(w))
    BY <1>6, <2>2 DEF DestroyNext, Remaining, Finalization
  <2>4. Remaining(w) = [op |-> "destroyAll", todo |-> Top.todo \ {w}] /\ Top.todo \ {w} \in SUBSET Windows
    BY <2>2 DEF Remaining
  <2>5. Remaining(w) \in Frame /\ Remaining(w).op = "destroyAll" /\ Finalization(w) \in Frame
    <3>1. Remaining(w) \in Frame /\ Remaining(w).op = "destroyAll"
      BY <2>4, OtherFrames
    <3>2. Finalization(w) \in Frame
      BY WindowFrames DEF Finalization
    <3> QED BY <3>1, <3>2
  <2>6. Allowed(Remaining(w), Finalization(w))
    BY <2>5 DEF Allowed
  <2> DEFINE s == Append(Pop, Remaining(w))
  <2>7. s \in Seq(Frame) /\ Free(s) /\ Nested(s) /\ Nested(Append(s, Finalization(w)))
    BY <1>0, <2>1, <2>5, <2>6, FreeNested DEF Free, Calm
  <2>8. PICK no \in BOOLEAN : no = FALSE
    OBVIOUS
  <2>9. stack' = Append(s, Finalization(w)) \/ stack' = Removing(s, w, no) \/ stack' = s
    BY <2>3, <2>8
  <2> HIDE DEF s
  <2> QED BY <2>7, <2>9, RemovingNested
<1>7. CASE DetachNext
  <2>1. stack # <<>> /\ Top.op = "remove" /\ Free(Pop)
    BY <1>0, <1>7, DetachEffect DEF Calm
  <2>2. PICK c \in Windows : /\ \/ stack' = Append(Pop, Detaching(c))
                                \/ stack' = Append(Append(Pop, Detaching(c)), Flush(c))
                             /\ Detaching(c) \in Frame /\ Detaching(c).op = "remove"
    <3>1. PICK c \in Top.children :
            \/ Report(c, Detached(native[c]), Append(Pop, Detaching(c)))
            \/ stack' = Append(Pop, Detaching(c))
      BY <1>7, DetachEffect
    <3>2. c \in Windows /\ Detaching(c) \in Frame /\ Detaching(c).op = "remove"
      BY <1>0, <1>7, <2>1, <3>1, DetachEffect, DetachingFields
    <3> QED BY <3>1, <3>2, ReportStack
  <2>3. Flush(c) \in Frame /\ Flush(c).op = "flush"
    BY WindowFrames DEF Flush
  <2>4. Allowed(Detaching(c), Flush(c))
    BY <2>2, <2>3 DEF Allowed
  <2> QED BY <1>0, <2>1, <2>2, <2>3, <2>4, FreeNested
<1>8. CASE Remove
  <2>1. /\ stack # <<>> /\ Top.op = "remove" /\ Top.window \in Windows
        /\ \/ stack' = Pop \o ReportClosed(Top.window)
           \/ stack' = Append(Pop, Finalization(Top.window))
    BY <1>8, RemoveEffect
  <2> QED BY <1>0, <2>1, ClosingNested DEF Calm
<1> QED BY <1>1, <1>2, <1>3, <1>4, <1>5, <1>6, <1>7, <1>8

LEMMA RunNested ==
  ASSUME WindowInv, Free(stack), NEW c \in Commands, Run(c)
  PROVE  Nested(stack')
<1>0. stack \in Seq(Frame) /\ managed \subseteq Windows /\ \A f \in Begun : f.op # "notify"
  BY DEF WindowInv, TypeOK, Free, Begun, Calm
<1>1. /\ c.kind \in {"destroy", "requestClose", "mutate", "setInput"} => c.window \in Windows
      /\ c.kind = "setInput" => c.enabled \in BOOLEAN
  BY CommandFields
<1>2. CASE c.kind = "create" /\ CreateWindow(c)
  <2>1. PICK w \in Windows : stack' = Refreshing(stack, w, CoveredBy(w, c.modality), managed)
    BY <1>2 DEF CreateWindow, Unused
  <2>2. CoveredBy(w, c.modality) \in SUBSET Windows /\ managed \in SUBSET Windows
    BY <1>0 DEF CoveredBy
  <2> DEFINE e == [op |-> "refresh", window |-> w, above |-> CoveredBy(w, c.modality), below |-> managed]
  <2>3. e \in Frame
    BY <2>2, WindowFrames
  <2>4. stack' = stack \/ stack' = Append(stack, e)
    BY <2>1 DEF Refreshing
  <2> HIDE DEF e
  <2> QED BY <1>0, <2>3, <2>4, FreeNested
<1>3. CASE c.kind = "destroy" /\ DestroyWindow(c.window)
  <2>1. PICK no \in BOOLEAN : no = FALSE
    OBVIOUS
  <2>2. stack' = Removing(stack, c.window, no)
    BY <1>3, <2>1 DEF DestroyWindow
  <2> QED BY <1>0, <1>1, <1>3, <2>2, RemovingNested
<1>4. ASSUME Told(stack) PROVE Nested(stack')
  BY <1>0, <1>4, FreeNested, ToldNested DEF Begun
<1>5. CASE c.kind = "mutate" /\ CanChange(c.window) /\ MutateConfiguration(c.window)
  BY <1>1, <1>4, <1>5, MutateEffect
<1>6. CASE c.kind = "setInput" /\ IsOpen(c.window) /\ SetInputEnabled(c.window, c.enabled)
  BY <1>1, <1>4, <1>6, SetInputEffect
<1>7. CASE c.kind = "requestClose" /\ RequestClose(c.window)
  BY <1>0, <1>1, <1>7, ClosingNested DEF RequestClose
<1> QED BY <1>2, <1>3, <1>5, <1>6, <1>7 DEF Run

LEMMA IdleIsFree ==
  ASSUME WindowInv, Nested(stack), stack = <<>> \/ Top.op \in {"asking", "closed"}
  PROVE  Free(stack)
<1>1. CASE stack = <<>>
  BY <1>1, Short DEF Free
<1>2. CASE stack # <<>> /\ Top.op \in {"asking", "closed"}
  <2>1. Free(Pop) /\ Begun = Range(Pop) \cup {Top}
    BY <1>2, NestedPopped DEF WindowInv, TypeOK, Calm
  <2> QED BY <1>2, <2>1 DEF Free, Begun, Calm
<1> QED BY <1>1, <1>2

LEMMA CallsOutsideLayers ==
  ASSUME "notify" \notin ReentrantFrames, WindowInv, Nested(stack),
         NEW c \in Commands, Command(c) \/ Reenter(c)
  PROVE  Free(stack) /\ Run(c)
<1>1. CASE Command(c)
  BY <1>1, IdleIsFree DEF Command, Idle
<1>2. CASE Reenter(c)
  <2>1. Top.op \in {"asking", "closed"} /\ Run(c)
    BY <1>2, BoundsAssumption DEF Reenter, InCallback
  <2> QED BY <2>1, IdleIsFree
<1> QED BY <1>1, <1>2

LEMMA NestedStep ==
  ASSUME "notify" \notin ReentrantFrames, WindowInv, Nested(stack), [Next]_vars
  PROVE  Nested(stack')
<1>1. ASSUME NEW c \in Commands, Command(c) \/ Reenter(c) PROVE Nested(stack')
  BY <1>1, CallsOutsideLayers, RunNested
<1>2. CASE Continue
  <2>1. CASE RefreshNext \/ ReconcileNext \/ ReleaseNext
    BY <2>1, RefreshShape, ReconcileShape, ReleaseShape
  <2> QED BY <1>2, <2>1, PoppedNested DEF Continue
<1>3. ASSUME NEW e \in Frame, stack' = <<e>> PROVE Nested(stack')
  BY <1>3 DEF Nested
<1>4. CASE DestroyAll
  <2> DEFINE e == [op |-> "destroyAll", todo |-> managed]
  <2>1. e \in Frame
    BY OtherFrames DEF WindowInv, TypeOK
  <2>2. stack' = <<e>>
    BY <1>4 DEF DestroyAll
  <2> HIDE DEF e
  <2> QED BY <1>3, <2>1, <2>2
<1>5. CASE RunFlush
  <2> DEFINE e == Flush(Head(posts))
  <2>1. Head(posts) \in Windows
    BY <1>5 DEF RunFlush, WindowInv, TypeOK
  <2>2. e \in Frame
    BY <2>1, WindowFrames DEF Flush
  <2>3. stack' = <<e>>
    BY <1>5 DEF RunFlush
  <2> HIDE DEF e
  <2> QED BY <1>3, <2>2, <2>3
<1>6. ASSUME NEW w \in Windows, CloseEvent(w) \/ DestroyedEvent(w) \/ ConfigurationEvent(w)
      PROVE  Nested(stack')
  <2>1. Free(stack) /\ stack = <<>> /\ stack \in Seq(Frame)
    BY <1>6, IdleIsFree DEF CloseEvent, DestroyedEvent, ConfigurationEvent, Pumping, Idle, WindowInv, TypeOK
  <2>2. CASE CloseEvent(w)
    <3>1. AskToClose(w) \in Seq(Frame) /\ stack' = AskToClose(w)
      BY <2>2, ClosingFrames DEF CloseEvent
    <3>2. stack' = stack \o AskToClose(w)
      BY <2>1, <3>1
    <3> QED BY <2>1, <3>2, ClosingNested
  <2>3. CASE DestroyedEvent(w)
    <3>1. PICK yes \in BOOLEAN : yes = TRUE
      OBVIOUS
    <3>2. stack' = Removing(stack, w, yes)
      BY <2>3, <3>1 DEF DestroyedEvent
    <3> QED BY <2>1, <3>2, RemovingNested
  <2>4. CASE ConfigurationEvent(w)
    <3>1. Flush(w) \in Frame
      BY WindowFrames DEF Flush
    <3>2. stack' = stack \/ stack' = Append(stack, Flush(w))
      BY <2>4, ReportStack DEF ConfigurationEvent
    <3> QED BY <2>1, <3>1, <3>2, FreeNested
  <2> QED BY <1>6, <2>2, <2>3, <2>4
<1>7. CASE UNCHANGED stack \/ RequestStop
  BY <1>7 DEF RequestStop
<1> QED BY <1>1, <1>2, <1>4, <1>5, <1>6, <1>7 DEF Next, vars

------------------------------------------------------------------------------
(* Where the policy of a window comes from: the configuration that a facade  *)
(* shows lags behind the backend by what is buffered, parents only ever go,  *)
(* and with the parent the modality that needs it.                           *)
Created(w) == lifecycle[w] # "none"

Lags(w) ==
  Exists(w) => SamePolicy(native[w], IF pending[w] = NoConfiguration THEN configuration[w] ELSE pending[w])

KeepsParent(w) ==
  Exists(w) /\ native[w].parent # NoWindow =>
    Exists(native[w].parent) /\ SamePolicy(native[w], configuration[w])

StaysModeless(w) ==
  Lives(w) /\ configuration[w].modality = "Modeless" =>
    /\ Exists(w) => native[w].modality = "Modeless"
    /\ pending[w] # NoConfiguration => pending[w].modality = "Modeless"

WereCreated(w) ==
  /\ Lives(w) /\ configuration[w].parent # NoWindow => Created(configuration[w].parent)
  /\ pending[w] # NoConfiguration =>
       /\ Created(w)
       /\ pending[w].parent # NoWindow => Created(pending[w].parent)

PolicyOf(w) == Lags(w) /\ KeepsParent(w) /\ StaysModeless(w) /\ WereCreated(w)

PolicyInv ==
  /\ ~sink => stopping /\ \A w \in Windows : ~Exists(w)
  /\ \A v, w \in Windows : Created(v) /\ ~Created(w) => v < w
  /\ \A w \in Windows : PolicyOf(w)

(* Whoever has a window that is leaving the backend as its parent is still   *)
(* to be detached from it.                                                   *)
ChildrenOf(f) ==
  f.op = "remove" =>
    \A c \in Windows : c # f.window /\ Exists(c) /\ native[c].parent = f.window => c \in f.children

ChildrenInv == \A f \in Begun : ChildrenOf(f)

LEMMA ParentIsWindow ==
  ASSUME WindowInv, NEW w \in Windows
  PROVE  /\ Exists(w) /\ native[w].parent # NoWindow => native[w].parent \in Windows
         /\ Lives(w) /\ configuration[w].parent # NoWindow => configuration[w].parent \in Windows
         /\ pending[w] # NoConfiguration /\ pending[w].parent # NoWindow => pending[w].parent \in Windows
BY ConfigurationFields DEF WindowInv, TypeOK, Records, Exists

LEMMA FollowsKeeps ==
  ASSUME WindowInv, PolicyInv, NEW rest, Follows(rest),
         UNCHANGED <<lifecycle, pending, sink, stopping>>
  PROVE  PolicyInv'
<1>1. /\ ~sink' => stopping' /\ \A w \in Windows : ~Exists(w)'
      /\ \A v, w \in Windows : Created(v)' /\ ~Created(w)' => v < w
  BY DEF PolicyInv, Created, Follows
<1> SUFFICES ASSUME NEW w \in Windows PROVE PolicyOf(w)'
  BY <1>1 DEF PolicyInv
<1>2. /\ Exists(w)' <=> Exists(w)
      /\ Exists(w) => SamePolicy(native'[w], native[w])
      /\ \/ SamePolicy(configuration'[w], configuration[w])
         \/ Exists(w) /\ SamePolicy(configuration'[w], native[w])
      /\ Lives(w)' <=> Lives(w)
  BY DEF Follows, Lives
<1>3. PolicyOf(w) /\ (Exists(w) => Lives(w))
  BY DEF PolicyInv, WindowInv, Records
<1>4. Lags(w)'
  BY <1>2, <1>3 DEF PolicyOf, Lags, SamePolicy
<1>5. KeepsParent(w)'
  <2>1. Exists(w) /\ native[w].parent # NoWindow => native'[native[w].parent] # NoConfiguration
    BY <1>3, ParentIsWindow DEF PolicyOf, KeepsParent, Follows, Exists
  <2>2. Exists(w) => native'[w].parent = native[w].parent
    BY <1>2 DEF SamePolicy
  <2> QED BY <1>2, <1>3, <2>1, <2>2 DEF PolicyOf, KeepsParent, SamePolicy, Exists
<1>6. StaysModeless(w)'
  BY <1>2, <1>3 DEF PolicyOf, Lags, StaysModeless, SamePolicy
<1>7. WereCreated(w)'
  <2>1. Exists(w) /\ native[w].parent # NoWindow => Created(native[w].parent)
    BY <1>3, ParentIsWindow DEF PolicyOf, KeepsParent, WindowInv, Records, Created
  <2>2. configuration'[w].parent = configuration[w].parent
        \/ (Exists(w) /\ configuration'[w].parent = native[w].parent)
    BY <1>2 DEF SamePolicy
  <2> QED BY <1>2, <1>3, <2>1, <2>2 DEF PolicyOf, WereCreated, Created
<1> QED BY <1>4, <1>5, <1>6, <1>7 DEF PolicyOf

(* Applying what was buffered catches up with the backend.                   *)
LEMMA FlushFollows ==
  ASSUME WindowInv, PolicyInv, FlushPending
  PROVE  /\ Told(Pop) /\ stack # <<>> /\ Top.op = "flush" /\ Top.window \in Windows
         /\ \A v \in Windows : /\ Exists(v)' <=> Exists(v)
                               /\ Exists(v) => SamePolicy(native'[v], native[v])
         /\ \A v \in Windows : v # Top.window => configuration'[v] = configuration[v]
         /\ IF pending[Top.window] = NoConfiguration \/ ~Lives(Top.window)
            THEN configuration'[Top.window] = configuration[Top.window]
            ELSE /\ SamePolicy(configuration'[Top.window], pending[Top.window])
                 /\ SamePolicy(pending[Top.window], configuration[Top.window]) \/ TellsPolicy(Pop)
<1> DEFINE w == Top.window
           buffered == pending[w]
<1>1. stack # <<>> /\ Top.op = "flush" /\ Told(Pop) /\ w \in Windows
  BY FlushEffect, StackTop, FrameFields DEF WindowInv, TypeOK
<1>2. TypeOK /\ Records /\ native \in Table /\ pending \in Table
  BY DEF WindowInv, TypeOK, Table
<1>3. ASSUME UNCHANGED native
      PROVE  \A v \in Windows : /\ Exists(v)' <=> Exists(v)
                                /\ Exists(v) => SamePolicy(native'[v], native[v])
  BY <1>3 DEF Exists, SamePolicy
<1>4. CASE buffered = NoConfiguration \/ w \notin managed
  <2>1. UNCHANGED <<native, configuration>>
    BY <1>4 DEF FlushPending
  <2>2. buffered = NoConfiguration \/ ~Lives(w)
    BY <1>1, <1>2, <1>4 DEF Records
  <2> QED BY <1>1, <1>3, <2>1, <2>2
<1>5. CASE buffered # NoConfiguration /\ w \in managed /\ ~Lives(w)
  <2>1. ~Exists(w) /\ lifecycle[w] = "Destroyed"
    BY <1>1, <1>2, <1>5 DEF Records, TypeOK, Lives
  <2>2. UNCHANGED native /\ UNCHANGED configuration
    BY <1>5, <2>1 DEF FlushPending, Apply
  <2> QED BY <1>1, <1>3, <1>5, <2>2
<1>6. CASE buffered # NoConfiguration /\ w \in managed /\ Lives(w)
  <2>1. buffered \in Configuration
    BY <1>1, <1>2, <1>6 DEF Table
  <2>2. CASE sources[w] # {} /\ buffered.input /\ Exists(w)
    <3> DEFINE switched == [native[w] EXCEPT !.input = FALSE]
    <3>1. native[w] \in Configuration
      BY <1>1, <1>2, <2>2 DEF Exists, Table
    <3>2. switched \in Configuration /\ SamePolicy(switched, native[w])
      BY <3>1, ConfigurationFields, SuppressedPolicy
    <3>3. native' = [native EXCEPT ![w] = switched] /\ Apply(w, switched, sources[w], Pop)
      BY <1>6, <2>2 DEF FlushPending, SwitchInput
    <3>4. SamePolicy(native[w], buffered)
      BY <1>1, <1>6, <2>2 DEF PolicyInv, PolicyOf, Lags
    <3> HIDE DEF switched
    <3>5. \A v \in Windows : /\ Exists(v)' <=> Exists(v)
                             /\ Exists(v) => SamePolicy(native'[v], native[v])
      BY <1>1, <1>2, <2>2, <3>2, <3>3, NoConfigurationAssumption DEF Exists, Table, SamePolicy
    <3>6. /\ \A v \in Windows : v # w => configuration'[v] = configuration[v]
          /\ SamePolicy(configuration'[w], switched)
          /\ SamePolicy(switched, configuration[w]) \/ TellsPolicy(Pop)
      BY <1>1, <1>6, <3>2, <3>3, ApplyPolicy
    <3>7. /\ SamePolicy(configuration'[w], buffered)
          /\ SamePolicy(buffered, configuration[w]) \/ TellsPolicy(Pop)
      BY <3>2, <3>4, <3>6 DEF SamePolicy
    <3> QED BY <1>1, <1>6, <3>5, <3>6, <3>7
  <2>3. CASE ~(sources[w] # {} /\ buffered.input /\ Exists(w))
    <3>1. UNCHANGED native /\ Apply(w, buffered, sources[w], Pop)
      BY <1>6, <2>3 DEF FlushPending
    <3>2. /\ \A v \in Windows : v # w => configuration'[v] = configuration[v]
          /\ SamePolicy(configuration'[w], buffered)
          /\ SamePolicy(buffered, configuration[w]) \/ TellsPolicy(Pop)
      BY <1>1, <1>6, <2>1, <3>1, ApplyPolicy
    <3> QED BY <1>1, <1>3, <1>6, <3>1, <3>2
  <2> QED BY <2>2, <2>3
<1> QED BY <1>4, <1>5, <1>6

LEMMA FlushPolicy == WindowInv /\ PolicyInv /\ FlushPending => PolicyInv'
<1> SUFFICES ASSUME WindowInv, PolicyInv, FlushPending PROVE PolicyInv'
  OBVIOUS
<1> DEFINE t == Top.window
<1>1. /\ t \in Windows
      /\ \A v \in Windows : /\ Exists(v)' <=> Exists(v)
                            /\ Exists(v) => SamePolicy(native'[v], native[v])
      /\ \A v \in Windows : v # t => configuration'[v] = configuration[v]
      /\ IF pending[t] = NoConfiguration \/ ~Lives(t)
         THEN configuration'[t] = configuration[t]
         ELSE SamePolicy(configuration'[t], pending[t])
  BY FlushFollows
<1>2. UNCHANGED <<lifecycle, sink, stopping>> /\ pending' = [pending EXCEPT ![t] = NoConfiguration]
  BY DEF FlushPending
<1>3. pending \in Table /\ Records
  BY DEF WindowInv, TypeOK, Table
<1> HIDE DEF t
<1>4. /\ ~sink' => stopping' /\ \A w \in Windows : ~Exists(w)'
      /\ \A v, w \in Windows : Created(v)' /\ ~Created(w)' => v < w
  BY <1>1, <1>2 DEF PolicyInv, Created
<1> SUFFICES ASSUME NEW w \in Windows PROVE PolicyOf(w)'
  BY <1>4 DEF PolicyInv
<1>5. /\ PolicyOf(w) /\ (Exists(w) => Lives(w)) /\ (Lives(w)' <=> Lives(w))
      /\ Exists(w) => SamePolicy(native'[w], native[w])
      /\ Exists(w)' <=> Exists(w)
  BY <1>1, <1>2, <1>3 DEF PolicyInv, Records, Lives
<1>6. IF w = t /\ pending[t] # NoConfiguration /\ Lives(t)
      THEN pending'[w] = NoConfiguration /\ SamePolicy(configuration'[w], pending[w])
      ELSE /\ configuration'[w] = configuration[w]
           /\ pending'[w] = pending[w] \/ (pending'[w] = NoConfiguration /\ ~Lives(w))
  BY <1>1, <1>2, <1>3 DEF Table
<1>7. Lags(w)'
  BY <1>5, <1>6 DEF PolicyOf, Lags, SamePolicy
<1>8. KeepsParent(w)'
  <2>1. Exists(w) /\ native[w].parent # NoWindow => native'[native[w].parent] # NoConfiguration
    BY <1>1, <1>5, ParentIsWindow DEF PolicyOf, KeepsParent, Exists
  <2>2. Exists(w) => native'[w].parent = native[w].parent
    BY <1>5 DEF SamePolicy
  <2> QED BY <1>5, <1>6, <2>1, <2>2 DEF PolicyOf, Lags, KeepsParent, SamePolicy, Exists
<1>9. StaysModeless(w)'
  BY <1>5, <1>6 DEF PolicyOf, Lags, StaysModeless, SamePolicy
<1>10. WereCreated(w)'
  BY <1>2, <1>5, <1>6 DEF PolicyOf, WereCreated, Created, SamePolicy
<1> QED BY <1>7, <1>8, <1>9, <1>10 DEF PolicyOf

(* A child is detached: it has no parent any more, and this is reported.     *)
LEMMA DetachedFacts ==
  ASSUME WindowInv, PolicyInv, DetachNext
  PROVE  /\ UNCHANGED <<managed, record, sink, stopping>>
         /\ \A v \in Windows : Exists(v)' <=> Exists(v)
         /\ \E c \in Windows :
              /\ \A v \in Windows : v # c => native'[v] = native[v] /\ pending'[v] = pending[v]
              /\ \/ native'[c] = native[c] /\ pending'[c] = pending[c]
                 \/ /\ Exists(c) /\ pending'[c] = native'[c] /\ pending'[c] # NoConfiguration
                    /\ native'[c].parent = NoWindow
                    /\ native[c].modality = "Modeless" => native'[c].modality = "Modeless"
                    /\ native[c].parent = NoWindow => SamePolicy(native'[c], native[c])
<1>1. /\ Top.children \subseteq Windows
      /\ UNCHANGED <<managed, record, sink, stopping, accepting, overtaken>>
  BY DetachEffect
<1>2. PICK c \in Top.children :
         \/ /\ Exists(c) /\ native' = [native EXCEPT ![c] = Detached(@)]
            /\ native[c] \in Configuration /\ Detached(native[c]) \in Configuration
            /\ Report(c, Detached(native[c]), Append(Pop, Detaching(c)))
         \/ UNCHANGED <<native, pending, posts>> /\ stack' = Append(Pop, Detaching(c))
  BY DetachEffect
<1>3. native \in Table /\ pending \in Table /\ c \in Windows
  BY <1>1, <1>2 DEF WindowInv, TypeOK, Table
<1>4. CASE UNCHANGED <<native, pending>>
  BY <1>1, <1>3, <1>4 DEF Exists
<1>5. CASE /\ Exists(c) /\ native' = [native EXCEPT ![c] = Detached(@)]
           /\ native[c] \in Configuration /\ Detached(native[c]) \in Configuration
           /\ Report(c, Detached(native[c]), Append(Pop, Detaching(c)))
  <2> DEFINE d == Detached(native[c])
  <2>1. native[c] \in [parent : Windows \cup {NoWindow}, modality : Modalities, input : BOOLEAN]
        /\ (NeedsParent(native[c].modality) => native[c].parent # NoWindow)
    BY <1>5 DEF Configuration
  <2>2. /\ d.parent = NoWindow
        /\ native[c].modality = "Modeless" => d.modality = "Modeless"
        /\ native[c].parent = NoWindow => SamePolicy(d, native[c])
    BY <2>1 DEF Detached, NeedsParent, SamePolicy
  <2>3. sink
    BY <1>3, <1>5 DEF PolicyInv
  <2>4. pending' = [pending EXCEPT ![c] = d]
    BY <1>5, <2>3 DEF Report
  <2>5. d \in Configuration /\ native' = [native EXCEPT ![c] = d]
    BY <1>5
  <2> HIDE DEF d
  <2>6. /\ \A v \in Windows : v # c => native'[v] = native[v] /\ pending'[v] = pending[v]
        /\ native'[c] = d /\ pending'[c] = d
    BY <1>3, <2>4, <2>5 DEF Table
  <2>7. d # NoConfiguration
    BY <2>5, NoConfigurationAssumption
  <2>8. \A v \in Windows : Exists(v)' <=> Exists(v)
    BY <1>5, <2>6, <2>7 DEF Exists
  <2> QED BY <1>1, <1>3, <1>5, <2>2, <2>6, <2>7, <2>8
<1> QED BY <1>2, <1>4, <1>5

LEMMA DetachedPolicy ==
  ASSUME WindowInv, PolicyInv, DetachNext
  PROVE  PolicyInv'
<1>1. PICK c \in Windows :
         /\ \A v \in Windows : v # c => native'[v] = native[v] /\ pending'[v] = pending[v]
         /\ \/ native'[c] = native[c] /\ pending'[c] = pending[c]
            \/ /\ Exists(c) /\ pending'[c] = native'[c] /\ pending'[c] # NoConfiguration
               /\ native'[c].parent = NoWindow
               /\ native[c].modality = "Modeless" => native'[c].modality = "Modeless"
  BY DetachedFacts
<1>2. /\ UNCHANGED <<lifecycle, configuration, sink, stopping>>
      /\ \A v \in Windows : Exists(v)' <=> Exists(v)
  BY DetachedFacts DEF record
<1>3. /\ ~sink' => stopping' /\ \A v \in Windows : ~Exists(v)'
      /\ \A u, v \in Windows : Created(u)' /\ ~Created(v)' => u < v
  BY <1>2 DEF PolicyInv, Created
<1> SUFFICES ASSUME NEW v \in Windows PROVE PolicyOf(v)'
  BY <1>3 DEF PolicyInv
<1>4. /\ PolicyOf(v) /\ (Lives(v)' <=> Lives(v)) /\ (Exists(v) => Lives(v)) /\ (Lives(v) => Created(v))
      /\ Exists(v) /\ native[v].parent # NoWindow => native[v].parent \in Windows
      /\ Exists(v)' <=> Exists(v)
  BY <1>2, ParentIsWindow DEF PolicyInv, WindowInv, Records, Lives, Created
<1>5. CASE native'[v] = native[v] /\ pending'[v] = pending[v]
  <2>1. Exists(v) /\ native[v].parent # NoWindow => native'[native[v].parent] # NoConfiguration
    BY <1>2, <1>4 DEF PolicyOf, KeepsParent, Exists
  <2> QED BY <1>2, <1>4, <1>5, <2>1
          DEF PolicyOf, Lags, KeepsParent, StaysModeless, WereCreated, Created, SamePolicy, Exists
<1>6. CASE ~(native'[v] = native[v] /\ pending'[v] = pending[v])
  <2>1. /\ Exists(v) /\ pending'[v] = native'[v] /\ pending'[v] # NoConfiguration
        /\ native'[v].parent = NoWindow
        /\ native[v].modality = "Modeless" => native'[v].modality = "Modeless"
    BY <1>1, <1>6
  <2> QED BY <1>2, <1>4, <2>1
          DEF PolicyOf, Lags, KeepsParent, StaysModeless, WereCreated, Created, SamePolicy
<1> QED BY <1>5, <1>6

(* The window leaves the table when nobody has it as parent any more.        *)
LEMMA RemovedPolicy ==
  ASSUME WindowInv, PolicyInv, ChildrenInv, Remove
  PROVE  PolicyInv'
<1> DEFINE w == Top.window
<1>1. /\ stack # <<>> /\ Top.op = "remove" /\ w \in Windows
      /\ native' = [native EXCEPT ![w] = NoConfiguration]
      /\ UNCHANGED <<lifecycle, configuration, pending, sink, stopping>>
  BY RemoveEffect DEF record
<1>2. \A c \in Windows : c # w /\ Exists(c) => native[c].parent # w
  <2>1. Top \in Begun /\ Top.children = {}
    BY <1>1, StackTop DEF Remove, WindowInv, TypeOK
  <2> QED BY <1>1, <2>1 DEF ChildrenInv, ChildrenOf
<1> HIDE DEF w
<1>3. native \in Table
  BY DEF WindowInv, TypeOK, Table
<1>4. \A v \in Windows : /\ v # w => native'[v] = native[v]
                         /\ Exists(v)' <=> Exists(v) /\ v # w
  BY <1>1, <1>3 DEF Table, Exists
<1>5. /\ ~sink' => stopping' /\ \A v \in Windows : ~Exists(v)'
      /\ \A u, v \in Windows : Created(u)' /\ ~Created(v)' => u < v
  BY <1>1, <1>4 DEF PolicyInv, Created
<1> SUFFICES ASSUME NEW v \in Windows PROVE PolicyOf(v)'
  BY <1>5 DEF PolicyInv
<1>6. /\ PolicyOf(v) /\ (Lives(v)' <=> Lives(v))
      /\ Exists(v) /\ native[v].parent # NoWindow => native[v].parent \in Windows
  BY <1>1, ParentIsWindow DEF PolicyInv, Lives
<1>7. Exists(v) /\ v # w /\ native[v].parent # NoWindow => native'[native[v].parent] # NoConfiguration
  BY <1>2, <1>4, <1>6 DEF PolicyOf, KeepsParent, Exists
<1>8. /\ v # w => native'[v] = native[v]
      /\ Exists(v)' <=> Exists(v) /\ v # w
  BY <1>4
<1> QED BY <1>1, <1>6, <1>7, <1>8
        DEF PolicyOf, Lags, KeepsParent, StaysModeless, WereCreated, Created, SamePolicy, Exists

LEMMA EventFacts ==
  ASSUME WindowInv, PolicyInv, NEW w \in Windows, ConfigurationEvent(w)
  PROVE  /\ \A v \in Windows : v # w => pending'[v] = pending[v]
         /\ pending'[w] = native[w] /\ Exists(w)
<1>1. Exists(w) /\ sink /\ Report(w, native[w], stack)
  BY DEF ConfigurationEvent, Pumping
<1>2. pending' = [pending EXCEPT ![w] = native[w]]
  BY <1>1 DEF Report
<1> QED BY <1>1, <1>2 DEF WindowInv, TypeOK

LEMMA EventPolicy ==
  ASSUME WindowInv, PolicyInv, NEW w \in Windows, ConfigurationEvent(w)
  PROVE  PolicyInv'
<1>1. /\ Exists(w)
      /\ UNCHANGED <<lifecycle, configuration, native, sink, stopping>>
      /\ \A v \in Windows : pending'[v] = IF v = w THEN native[v] ELSE pending[v]
  BY EventFacts DEF ConfigurationEvent, record
<1>2. /\ ~sink' => stopping' /\ \A v \in Windows : ~Exists(v)'
      /\ \A u, v \in Windows : Created(u)' /\ ~Created(v)' => u < v
  BY <1>1 DEF PolicyInv, Created
<1>3. ASSUME NEW v \in Windows PROVE PolicyOf(v)'
  <2>1. /\ PolicyOf(v) /\ (Lives(v)' <=> Lives(v)) /\ (Exists(v)' <=> Exists(v))
        /\ Exists(v) => Lives(v)
        /\ Lives(v) => Created(v)
    BY <1>1 DEF PolicyInv, WindowInv, Records, Lives, Created, Exists
  <2>2. Exists(v) /\ native[v].parent # NoWindow => Created(native[v].parent)
    BY <2>1, ParentIsWindow DEF PolicyOf, KeepsParent, WindowInv, Records, Created, Lives
  <2>3. pending'[v] = IF v = w THEN native[v] ELSE pending[v]
    BY <1>1
  <2>4. Lags(v)' /\ KeepsParent(v)'
    BY <1>1, <2>1, <2>3 DEF PolicyOf, Lags, KeepsParent, SamePolicy, Exists
  <2>5. StaysModeless(v)'
    BY <1>1, <2>1, <2>3 DEF PolicyOf, StaysModeless
  <2>6. WereCreated(v)'
    BY <1>1, <2>1, <2>2, <2>3 DEF PolicyOf, WereCreated, Created
  <2> QED BY <2>4, <2>5, <2>6 DEF PolicyOf
<1> QED BY <1>1, <1>2, <1>3 DEF PolicyInv

(* A closing window: nothing of it is left in the backend.                   *)
LEMMA ClosedPolicy ==
  ASSUME WindowInv, PolicyInv, NEW w \in Windows, ~Exists(w), Created(w),
         lifecycle' = [lifecycle EXCEPT ![w] = "Destroyed"],
         \A v \in Windows : v # w => configuration'[v] = configuration[v],
         UNCHANGED <<pending, native, sink, stopping>>
  PROVE  PolicyInv'
<1>1. lifecycle \in [Windows -> {"none", "Open", "Destroying", "Destroyed"}]
  BY DEF WindowInv, TypeOK
<1>2. \A v : (Exists(v)' <=> Exists(v)) /\ \A u \in Windows : Created(u)' <=> Created(u)
  BY <1>1 DEF Exists, Created
<1>3. /\ ~sink' => stopping' /\ \A v \in Windows : ~Exists(v)'
      /\ \A u, v \in Windows : Created(u)' /\ ~Created(v)' => u < v
  BY <1>2 DEF PolicyInv
<1>4. ASSUME NEW v \in Windows PROVE PolicyOf(v)'
  <2>1. PolicyOf(v) /\ (Lives(v)' <=> Lives(v) /\ v # w)
    BY <1>1 DEF PolicyInv, Lives
  <2>2. Lags(v)' /\ KeepsParent(v)' /\ StaysModeless(v)'
    BY <1>2, <2>1 DEF PolicyOf, Lags, KeepsParent, StaysModeless, SamePolicy, Exists
  <2>3. WereCreated(v)'
    <3>1. pending[v] # NoConfiguration /\ pending[v].parent # NoWindow => lifecycle'[pending[v].parent] # "none"
      BY <1>2, <2>1, ParentIsWindow DEF PolicyOf, WereCreated, Created
    <3>2. Lives(v) /\ configuration[v].parent # NoWindow => lifecycle'[configuration[v].parent] # "none"
      BY <1>2, <2>1, ParentIsWindow DEF PolicyOf, WereCreated, Created
    <3> QED BY <1>2, <2>1, <3>1, <3>2 DEF PolicyOf, WereCreated, Created
  <2> QED BY <2>2, <2>3 DEF PolicyOf
<1> QED BY <1>3, <1>4 DEF PolicyInv

LEMMA CreatedFacts ==
  ASSUME WindowInv, PolicyInv, NEW c \in Commands, c.kind = "create", CanCreate(c), CreateWindow(c)
  PROVE  \E w \in Windows :
           /\ ~Created(w) /\ w \notin managed /\ ~Exists(w) /\ pending[w] = NoConfiguration
           /\ \A v \in managed : v < w
           /\ lifecycle' = [lifecycle EXCEPT ![w] = "Open"]
           /\ managed' = managed \cup {w}
           /\ \A v \in Windows : v # w => native'[v] = native[v] /\ configuration'[v] = configuration[v]
           /\ native'[w] = configuration'[w] /\ Exists(w)'
           /\ configuration'[w].parent = c.parent /\ configuration'[w].modality = c.modality
           /\ \A u \in Windows : ~Created(u) => u = w \/ w < u
           /\ stack' = Refreshing(stack, w, CoveredBy(w, c.modality), managed)
           /\ UNCHANGED <<sources, pending>>
<1> DEFINE initial == [parent |-> c.parent, modality |-> c.modality, input |-> TRUE]
<1>1. PICK w \in Unused :
        /\ \A u \in Unused : w <= u
        /\ native' = [native EXCEPT ![w] = initial]
        /\ configuration' = [configuration EXCEPT ![w] = initial]
        /\ lifecycle' = [lifecycle EXCEPT ![w] = "Open"]
        /\ managed' = managed \cup {w}
        /\ stack' = Refreshing(stack, w, CoveredBy(w, c.modality), managed)
        /\ UNCHANGED <<sources, pending>>
  BY DEF CreateWindow, Oldest
<1>2. native \in Table /\ configuration \in Table /\ Records /\ managed \subseteq Windows
  BY DEF WindowInv, TypeOK, Table
<1>3. w \in Windows /\ ~Created(w)
  BY <1>1 DEF Unused, Created
<1>4. initial \in Configuration
  <2>1. c.parent \in Windows \cup {NoWindow} /\ c.modality \in Modalities
    BY CommandFields
  <2>2. NeedsParent(initial.modality) => initial.parent # NoWindow
    BY DEF CanCreate
  <2> QED BY <2>1, <2>2 DEF Configuration
<1>5. initial.parent = c.parent /\ initial.modality = c.modality
  OBVIOUS
<1> HIDE DEF initial
<1>6. w \notin managed /\ ~Exists(w) /\ pending[w] = NoConfiguration
  BY <1>2, <1>3 DEF Records, Created, PolicyInv, PolicyOf, WereCreated
<1>7. \A v \in managed : v < w
  BY <1>2, <1>3 DEF Records, Created, PolicyInv
<1>8. /\ \A v \in Windows : v # w => native'[v] = native[v] /\ configuration'[v] = configuration[v]
      /\ native'[w] = initial /\ configuration'[w] = initial
  BY <1>1, <1>2, <1>3 DEF Table
<1>9. Exists(w)'
  BY <1>4, <1>8, NoConfigurationAssumption DEF Exists
<1>10. \A u \in Windows : ~Created(u) => u = w \/ w < u
  BY <1>1, <1>3 DEF Unused, Created, Windows
<1> QED BY <1>1, <1>3, <1>5, <1>6, <1>7, <1>8, <1>9, <1>10

LEMMA CreatedPolicy ==
  ASSUME WindowInv, PolicyInv, NEW c \in Commands, c.kind = "create", CanCreate(c), CreateWindow(c),
         UNCHANGED <<sink, stopping>>
  PROVE  PolicyInv'
<1>1. PICK w \in Windows :
           /\ ~Created(w) /\ w \notin managed /\ ~Exists(w) /\ pending[w] = NoConfiguration
           /\ lifecycle' = [lifecycle EXCEPT ![w] = "Open"]
           /\ \A v \in Windows : v # w => native'[v] = native[v] /\ configuration'[v] = configuration[v]
           /\ native'[w] = configuration'[w] /\ Exists(w)'
           /\ configuration'[w].parent = c.parent /\ configuration'[w].modality = c.modality
           /\ \A u \in Windows : ~Created(u) => u = w \/ w < u
           /\ UNCHANGED pending
  BY CreatedFacts
<1>2. lifecycle \in [Windows -> {"none", "Open", "Destroying", "Destroyed"}] /\ Records /\ managed \subseteq Windows
  BY DEF WindowInv, TypeOK
<1>3. /\ \A u \in Windows : Created(u)' <=> Created(u) \/ u = w
      /\ \A u \in Windows : Lives(u)' <=> Lives(u) \/ u = w
      /\ \A u \in Windows : Exists(u)' <=> Exists(u) \/ u = w
  BY <1>1, <1>2 DEF Created, Lives, Exists
<1>4. sink /\ \A u, v \in Windows : Created(u)' /\ ~Created(v)' => u < v
  <2>1. sink
    BY DEF CanCreate, PolicyInv
  <2>2. \A u, v \in Windows : Created(u)' /\ ~Created(v)' => u < v
    BY <1>1, <1>3 DEF PolicyInv
  <2> QED BY <2>1, <2>2
<1>5. ASSUME NEW v \in Windows, v # w PROVE PolicyOf(v)'
  <2>1. /\ PolicyOf(v) /\ (Lives(v)' <=> Lives(v)) /\ (Exists(v)' <=> Exists(v))
        /\ native'[v] = native[v] /\ configuration'[v] = configuration[v]
    BY <1>1, <1>3, <1>5 DEF PolicyInv
  <2>2. Exists(v) /\ native[v].parent # NoWindow => native'[native[v].parent] # NoConfiguration
    BY <1>3, <2>1, ParentIsWindow DEF PolicyOf, KeepsParent, Exists
  <2>3. /\ pending[v] # NoConfiguration /\ pending[v].parent # NoWindow => lifecycle'[pending[v].parent] # "none"
        /\ Lives(v) /\ configuration[v].parent # NoWindow => lifecycle'[configuration[v].parent] # "none"
    BY <1>3, <2>1, ParentIsWindow DEF PolicyOf, WereCreated, Created
  <2>4. pending[v] # NoConfiguration => Created(v)'
    BY <1>3, <2>1 DEF PolicyOf, WereCreated
  <2> QED BY <1>1, <2>1, <2>2, <2>3, <2>4
          DEF PolicyOf, Lags, KeepsParent, StaysModeless, WereCreated, SamePolicy, Created, Exists
<1>6. PolicyOf(w)'
  <2>1. c.parent # NoWindow => c.parent \in Windows /\ Exists(c.parent) /\ Created(c.parent)
    BY <1>2, CommandFields DEF CanCreate, Records, Created, Lives
  <2>2. native'[w].parent # NoWindow =>
          native'[native'[w].parent] # NoConfiguration /\ lifecycle'[native'[w].parent] # "none"
    BY <1>1, <1>3, <2>1 DEF Exists, Created
  <2> QED BY <1>1, <2>2 DEF PolicyOf, Lags, KeepsParent, StaysModeless, WereCreated, SamePolicy, Created, Exists
<1> QED BY <1>4, <1>5, <1>6 DEF PolicyInv

LEMMA QuietPolicy ==
  ASSUME PolicyInv, UNCHANGED <<lifecycle, configuration, pending, native, sink>>, stopping => stopping'
  PROVE  PolicyInv'
BY DEF PolicyInv, PolicyOf, Lags, KeepsParent, StaysModeless, WereCreated, Created, Exists, Lives, SamePolicy

(* A window whose destruction begins is still there.                         *)
LEMMA GoingPolicy ==
  ASSUME WindowInv, PolicyInv, NEW w \in Windows, IsOpen(w),
         lifecycle' = [lifecycle EXCEPT ![w] = "Destroying"],
         UNCHANGED <<configuration, pending, native, sink, stopping>>
  PROVE  PolicyInv'
<1>1. \A v \in Windows : /\ Lives(v)' <=> Lives(v)
                         /\ (lifecycle'[v] = "none") <=> (lifecycle[v] = "none")
  BY DEF WindowInv, TypeOK, IsOpen, Lives
<1>2. /\ ~sink' => stopping' /\ \A v \in Windows : ~Exists(v)'
      /\ \A u, v \in Windows : Created(u)' /\ ~Created(v)' => u < v
  BY <1>1 DEF PolicyInv, Created, Exists
<1> SUFFICES ASSUME NEW v \in Windows PROVE PolicyOf(v)'
  BY <1>2 DEF PolicyInv
<1>3. PolicyOf(v)
  BY DEF PolicyInv
<1>4. /\ Lives(v) /\ configuration[v].parent # NoWindow => lifecycle'[configuration[v].parent] # "none"
      /\ pending[v] # NoConfiguration /\ pending[v].parent # NoWindow => lifecycle'[pending[v].parent] # "none"
      /\ pending[v] # NoConfiguration => lifecycle'[v] # "none"
  BY <1>1, <1>3, ParentIsWindow DEF PolicyOf, WereCreated, Created
<1> QED BY <1>1, <1>3, <1>4 DEF PolicyOf, Lags, KeepsParent, StaysModeless, WereCreated, Created, Exists, SamePolicy

LEMMA ClosingPolicy ==
  ASSUME WindowInv, PolicyInv, Finalize \/ Erase
  PROVE  PolicyInv'
<1> DEFINE w == Top.window
<1>1. stack # <<>> /\ Top.op \in {"finalize", "release"} /\ UNCHANGED <<pending, native, sink, stopping>>
  BY DEF Finalize, Erase, InFrame
<1>2. Top \in Begun /\ w \in Windows /\ lifecycle \in [Windows -> {"none", "Open", "Destroying", "Destroyed"}]
      /\ configuration \in Table /\ Duties /\ Records
  BY <1>1, StackTop, FrameFields DEF WindowInv, TypeOK, Table
<1>3. ~Exists(w) /\ Created(w)
  BY <1>1, <1>2 DEF Duties, Finalizing, Releasing, Records, Lives, Created
<1>4. CASE Erase
  <2>1. lifecycle[w] = "Destroyed" /\ UNCHANGED lifecycle
    BY <1>2, <1>4 DEF Erase, InFrame, Duties, Releasing
  <2>2. lifecycle' = [lifecycle EXCEPT ![w] = "Destroyed"]
    BY <1>2, <2>1
  <2>3. configuration' = [configuration EXCEPT ![w] = NoConfiguration]
    BY <1>4 DEF Erase, Forget
  <2>4. \A v \in Windows : v # w => configuration'[v] = configuration[v]
    BY <1>2, <2>3 DEF Table
  <2> QED BY <1>1, <1>2, <1>3, <2>2, <2>4, ClosedPolicy
<1>5. CASE Finalize /\ (w \notin managed \/ lifecycle[w] = "Destroyed")
  BY <1>1, <1>5, QuietPolicy DEF Finalize, record
<1>6. CASE Finalize /\ ~(w \notin managed \/ lifecycle[w] = "Destroyed")
  <2>1. lifecycle' = [lifecycle EXCEPT ![w] = "Destroyed"]
    BY <1>6 DEF Finalize
  <2>2. configuration' = [configuration EXCEPT ![w] = NoConfiguration] \/ configuration' = configuration
    BY <1>6 DEF Finalize, Forget
  <2>3. \A v \in Windows : v # w => configuration'[v] = configuration[v]
    BY <1>2, <2>2 DEF Table
  <2> QED BY <1>1, <1>2, <1>3, <2>1, <2>3, ClosedPolicy
<1> QED BY <1>4, <1>5, <1>6

LEMMA ShutdownPolicy ==
  ASSUME WindowInv, PolicyInv, ShutdownBackend
  PROVE  PolicyInv'
<1>1. /\ UNCHANGED <<lifecycle, configuration, pending, stopping>>
      /\ \A v \in Windows : ~Exists(v)'
  BY DEF ShutdownBackend, record, Exists
<1>2. stopping
  <2>1. Top \in Begun /\ Top.op = "destroyAll"
    BY StackTop DEF ShutdownBackend, InFrame, WindowInv, TypeOK
  <2> QED BY <2>1 DEF WindowInv, ShutdownDuty
<1> QED BY <1>1, <1>2 DEF PolicyInv, PolicyOf, Lags, KeepsParent, StaysModeless, WereCreated, Created, Lives

LEMMA PolicyStep ==
  ASSUME WindowInv, PolicyInv, ChildrenInv, Nested(stack), [Next]_vars
  PROVE  PolicyInv'
<1>1. CASE Continue
  <2>1. CASE RefreshNext
    BY <2>1, RefreshShape, FollowsKeeps DEF RefreshNext
  <2>2. CASE ReconcileNext
    BY <2>2, ReconcileShape, FollowsKeeps DEF ReconcileNext
  <2>3. CASE ReleaseNext
    BY <2>3, ReleaseShape, FollowsKeeps DEF ReleaseNext
  <2>4. CASE Notified \/ Ask \/ Cancelled \/ Closes \/ ClosedReported
    <3>1. UNCHANGED <<managed, record, pending, native, sink, stopping, posts>>
      BY <2>4 DEF Notified, Ask, Cancelled, Closes, ClosedReported
    <3> QED BY <3>1, QuietPolicy DEF record
  <2>5. CASE DestroyNext
    <3>1. UNCHANGED <<configuration, pending, native, sink, stopping>>
      BY <2>5 DEF DestroyNext
    <3>2. \/ UNCHANGED lifecycle
          \/ \E w \in Windows : IsOpen(w) /\ lifecycle' = [lifecycle EXCEPT ![w] = "Destroying"]
      BY <2>5 DEF DestroyNext, WindowInv, TypeOK
    <3> QED BY <3>1, <3>2, GoingPolicy, QuietPolicy
  <2> QED BY <1>1, <2>1, <2>2, <2>3, <2>4, <2>5, DetachedPolicy, RemovedPolicy, FlushPolicy, ClosingPolicy,
             ShutdownPolicy DEF Continue
<1>2. ASSUME NEW c \in Commands, Run(c) PROVE PolicyInv'
  <2>0. /\ c.kind \in {"destroy", "requestClose", "mutate", "setInput"} => c.window \in Windows
        /\ c.kind = "setInput" => c.enabled \in BOOLEAN
        /\ UNCHANGED <<sink, stopping, overtaken>>
    BY <1>2, CommandFields DEF Run
  <2>1. CASE c.kind = "create" /\ CanCreate(c) /\ CreateWindow(c)
    BY <2>0, <2>1, CreatedPolicy
  <2>2. CASE c.kind = "destroy" /\ CanDestroy(c.window) /\ DestroyWindow(c.window)
    BY <2>0, <2>2, GoingPolicy DEF CanDestroy, DestroyWindow
  <2>3. CASE c.kind = "mutate" /\ CanChange(c.window) /\ MutateConfiguration(c.window)
    BY <2>0, <2>3, CommandsFollow, FollowsKeeps DEF MutateConfiguration
  <2>4. CASE c.kind = "setInput" /\ IsOpen(c.window) /\ SetInputEnabled(c.window, c.enabled)
    BY <2>0, <2>4, CommandsFollow, FollowsKeeps DEF SetInputEnabled
  <2>5. CASE c.kind = "requestClose" /\ RequestClose(c.window)
    BY <2>0, <2>5, QuietPolicy DEF RequestClose, record
  <2> QED BY <1>2, <2>1, <2>2, <2>3, <2>4, <2>5 DEF Run
<1>3. CASE RunFlush \/ RequestStop \/ DestroyAll
  BY <1>3, QuietPolicy DEF RunFlush, RequestStop, DestroyAll, record
<1>4. ASSUME NEW w \in Windows, ConfigurationEvent(w) \/ CloseEvent(w) \/ DestroyedEvent(w)
      PROVE  PolicyInv'
  <2>1. CASE CloseEvent(w)
    BY <2>1, QuietPolicy DEF CloseEvent, record
  <2>2. CASE DestroyedEvent(w)
    BY <2>2, QuietPolicy DEF DestroyedEvent, record
  <2> QED BY <1>4, <2>1, <2>2, EventPolicy
<1>5. CASE UNCHANGED vars
  BY <1>5, QuietPolicy DEF vars, record
<1> QED BY <1>1, <1>2, <1>3, <1>4, <1>5 DEF Next, Command, Reenter

LEMMA PolicyInvInit == Init => PolicyInv /\ Nested(stack)
BY DEF Init, PolicyInv, PolicyOf, Lags, KeepsParent, StaysModeless, WereCreated, Created, Exists, Lives, Nested

------------------------------------------------------------------------------
(* The layer of a new window is rebuilt for windows that are managed, and it *)
(* is covered only while it is modeless.                                     *)
RefreshOf(f) ==
  f.op = "refresh" =>
    /\ IsOpen(f.window)
    /\ f.above # {} => configuration[f.window].modality = "Modeless"
    /\ f.above \cup f.below \subseteq managed
    /\ \A t \in f.below : t < f.window

RefreshInv == \A f \in Begun : RefreshOf(f)

Layers == {"refresh", "reconcile"}
Plain(s) == \A f \in Range(s) : f.op \notin Layers

PolicyTold == \E f \in Begun : f.op = "notify" /\ f.policy

LEMMA ToldLast ==
  ASSUME WindowInv, Nested(stack), stack = <<>> \/ Top.op # "notify" \/ ~Top.policy
  PROVE  ~PolicyTold
<1>1. CASE stack = <<>>
  BY <1>1, Short DEF PolicyTold, Begun
<1>2. CASE stack # <<>>
  BY <1>2, NestedPopped DEF PolicyTold, Begun, Allowed, WindowInv, TypeOK
<1> QED BY <1>1, <1>2

LEMMA NotTold ==
  ASSUME NEW rest \in Seq(Frame), TellsPolicy(rest)
  PROVE  PolicyTold'
<1> DEFINE e == [op |-> "notify", policy |-> TRUE]
<1>1. e \in Notification /\ e.op = "notify" /\ e.policy = TRUE
  BY DEF Notification
<1>2. e \in Frame
  BY <1>1, NotificationIsFrame
<1> HIDE DEF e
<1>3. stack' = Append(rest, e)
  BY DEF TellsPolicy, e
<1>4. e \in Range(stack')
  BY <1>2, <1>3, Pushed
<1> QED BY <1>1, <1>4 DEF PolicyTold, Begun

(* What a step that tells subscribers leaves of the frames below.            *)
LEMMA FramesTold ==
  ASSUME NEW rest \in Seq(Frame), Told(rest)
  PROVE  /\ Range(rest) \subseteq Begun'
         /\ \A f \in Begun' : f \in Range(rest) \/ f.op = "notify"
<1>1. CASE stack' = rest
  BY <1>1 DEF Begun
<1>2. ASSUME NEW g \in Notification, stack' = Append(rest, g)
      PROVE  Range(rest) \subseteq Begun' /\ \A f \in Begun' : f \in Range(rest) \/ f.op = "notify"
  <2>1. g \in Frame /\ g.op = "notify"
    BY NotificationIsFrame
  <2>2. Range(Append(rest, g)) = Range(rest) \cup {g}
    BY <2>1, Pushed
  <2> QED BY <1>2, <2>1, <2>2 DEF Begun
<1> QED BY <1>1, <1>2 DEF Told

LEMMA RefreshKept ==
  ASSUME WindowInv, PolicyInv, NEW rest, Follows(rest), UNCHANGED <<managed, lifecycle>>,
         \A f \in Begun' : f.op = "refresh" => f.window \in Windows /\ RefreshOf(f)
  PROVE  RefreshInv'
<1> SUFFICES ASSUME NEW f \in Begun', f.op = "refresh" PROVE RefreshOf(f)'
  BY DEF RefreshInv, RefreshOf
<1> DEFINE w == f.window
<1>1. w \in Windows /\ RefreshOf(f)
  OBVIOUS
<1>2. IsOpen(w) /\ Lives(w) /\ (IsOpen(w)' <=> IsOpen(w)) /\ StaysModeless(w)
  BY <1>1 DEF RefreshOf, IsOpen, Lives, PolicyInv, PolicyOf
<1>3. \/ SamePolicy(configuration'[w], configuration[w])
      \/ Exists(w) /\ SamePolicy(configuration'[w], native[w])
  BY <1>1 DEF Follows
<1>4. configuration[w].modality = "Modeless" => configuration'[w].modality = "Modeless"
  BY <1>2, <1>3 DEF StaysModeless, SamePolicy
<1> QED BY <1>1, <1>2, <1>4 DEF RefreshOf

LEMMA RefreshOfPlain ==
  ASSUME Plain(stack')
  PROVE  RefreshInv'
BY DEF Plain, RefreshInv, RefreshOf, Begun, Layers

(* What a step that is not about a modal layer puts on the stack: no layer,  *)
(* and a removal only with all its children.                                 *)
New(f) == f.op \notin Layers /\ (f.op = "remove" => f.children = Children(f.window))

Adds(s) == \A f \in Begun' : f \in Range(s) \/ New(f)

LEMMA NewPushed ==
  ASSUME NEW s \in Seq(Frame), NEW w \in Windows, NEW notify \in BOOLEAN,
         \/ stack' = s
         \/ \E e \in Frame : New(e) /\ stack' = Append(s, e)
         \/ \E e, g \in Frame : New(e) /\ New(g) /\ stack' = Append(Append(s, e), g)
         \/ stack' = s \o AskToClose(w)
         \/ stack' = s \o ReportClosed(w)
         \/ stack' = Removing(s, w, notify)
         \/ \E e \in Frame : New(e) /\ stack' = Removing(Append(s, e), w, notify)
  PROVE  Adds(s)
<1>1. ASSUME NEW q \in Seq(Frame), NEW e \in Frame
      PROVE  Append(q, e) \in Seq(Frame) /\ Range(Append(q, e)) = Range(q) \cup {e}
  BY Pushed
<1>2. ASSUME NEW e \in Frame, NEW g \in Frame
      PROVE  Range(Append(Append(s, e), g)) = Range(s) \cup {e, g}
  <2> DEFINE q == Append(s, e)
  <2>1. q \in Seq(Frame) /\ Range(q) = Range(s) \cup {e}
    BY <1>1
  <2> HIDE DEF q
  <2>2. Range(Append(q, g)) = Range(q) \cup {g}
    BY <1>1, <2>1
  <2> QED BY <2>1, <2>2 DEF q
<1> DEFINE r == [op |-> "remove", window |-> w, children |-> Children(w), notify |-> notify]
<1>3. r \in Frame /\ New(r)
  <2>1. Children(w) \in SUBSET Windows
    BY DEF Children
  <2>2. r \in Frame
    BY <2>1, WindowFrames
  <2> QED BY <2>2 DEF New, Layers
<1>4. \A q : Removing(q, w, notify) = Append(q, r)
  BY DEF Removing
<1> HIDE DEF r
<1>5. CASE stack' = s
  BY <1>5 DEF Adds, Begun
<1>8. CASE \E e \in Frame : New(e) /\ stack' = Append(s, e)
  <2>1. PICK e \in Frame : New(e) /\ stack' = Append(s, e)
    BY <1>8
  <2> QED BY <1>1, <2>1 DEF Adds, Begun
<1>9. CASE \E e, g \in Frame : New(e) /\ New(g) /\ stack' = Append(Append(s, e), g)
  <2>1. PICK e \in Frame, g \in Frame : New(e) /\ New(g) /\ stack' = Append(Append(s, e), g)
    BY <1>9
  <2>2. Begun' = Range(s) \cup {e, g}
    BY <1>2, <2>1 DEF Begun
  <2> QED BY <2>1, <2>2 DEF Adds
<1>6. CASE stack' = s \o AskToClose(w) \/ stack' = s \o ReportClosed(w)
  BY <1>6, ClosingFrames, Joined DEF Adds, New, Begun, Layers
<1>7. CASE stack' = Removing(s, w, notify)
  <2>1. Begun' = Range(s) \cup {r}
    BY <1>1, <1>3, <1>4, <1>7 DEF Begun
  <2> QED BY <1>3, <2>1 DEF Adds
<1>10. CASE \E e \in Frame : New(e) /\ stack' = Removing(Append(s, e), w, notify)
  <2>1. PICK e \in Frame : New(e) /\ stack' = Removing(Append(s, e), w, notify)
    BY <1>10
  <2>2. Begun' = Range(s) \cup {e, r}
    BY <1>2, <1>3, <1>4, <2>1 DEF Begun
  <2> QED BY <1>3, <2>1, <2>2 DEF Adds
<1> QED BY <1>5, <1>6, <1>7, <1>8, <1>9, <1>10

LEMMA PlainAdded ==
  ASSUME NEW s, Plain(s), Adds(s)
  PROVE  Plain(stack')
BY DEF Plain, Adds, New, Begun

(* Outside the layers themselves, neither a refresh nor a reconciliation is  *)
(* under way.                                                                *)
Outside == \/ FlushPending \/ Ask \/ Cancelled \/ Closes \/ Remove
           \/ Finalize \/ Erase \/ ClosedReported \/ DestroyNext \/ ShutdownBackend

LEMMA PoppedPlain ==
  ASSUME WindowInv, Nested(stack), Outside \/ ReleaseNext
  PROVE  Plain(stack) /\ Plain(stack') /\ Range(Pop) \subseteq Begun /\ Adds(Pop)
<1>0. /\ stack \in Seq(Frame) /\ managed \subseteq Windows
      /\ stack # <<>> => /\ Pop \in Seq(Frame) /\ Top \in Frame /\ Begun = Range(Pop) \cup {Top}
                         /\ \A f \in Range(Pop) : Allowed(f, Top)
  BY NestedPopped DEF WindowInv, TypeOK
<1>1. stack # <<>> /\ Top.op \notin Calm \cup {"refresh"}
  BY DEF Outside, FlushPending, Ask, Cancelled, Closes, Remove, Finalize, Erase, ClosedReported, DestroyNext,
         ShutdownBackend, ReleaseNext, InFrame, Calm
<1>2. Plain(Pop) /\ Plain(stack)
  BY <1>0, <1>1 DEF Plain, Allowed, Calm, Layers, Begun
<1> SUFFICES Adds(Pop)
  BY <1>0, <1>1, <1>2, PlainAdded
<1>3. ASSUME stack' = Pop \/ \E e \in Frame : New(e) /\ stack' = Append(Pop, e) PROVE Adds(Pop)
  <2>1. CASE stack' = Pop
    BY <2>1 DEF Adds, Begun
  <2>2. CASE \E e \in Frame : New(e) /\ stack' = Append(Pop, e)
    <3>1. PICK e \in Frame : New(e) /\ stack' = Append(Pop, e)
      BY <2>2
    <3> QED BY <1>0, <1>1, <3>1, Pushed DEF Adds, Begun
  <2> QED BY <1>3, <2>1, <2>2
<1>4. ASSUME NEW rest \in Seq(Frame), Told(rest) PROVE Adds(rest)
  BY <1>4, FramesTold DEF Adds, New, Layers
<1>5. CASE FlushPending
  BY <1>0, <1>1, <1>4, <1>5, FlushEffect
<1>6. CASE Ask \/ Cancelled \/ ClosedReported \/ ShutdownBackend
  <2> DEFINE e == [op |-> "asking", window |-> Top.window]
  <2>1. stack' = Pop \/ (Top.op = "ask" /\ stack' = Append(Pop, e))
    BY <1>6 DEF Ask, Cancelled, ClosedReported, ShutdownBackend, InFrame
  <2>2. Top.op = "ask" => e \in Frame /\ New(e)
    BY <1>0, <1>1, FrameFields, WindowFrames DEF Layers, New
  <2> HIDE DEF e
  <2> QED BY <1>3, <2>1, <2>2
<1>7. CASE Closes
  <2>1. PICK yes \in BOOLEAN : yes = TRUE
    OBVIOUS
  <2>2. Top.op = "asking" /\ stack' = Removing(Pop, Top.window, yes)
    BY <1>7, <2>1 DEF Closes, InFrame
  <2>3. Top.window \in Windows
    BY <1>0, <1>1, <2>2, FrameFields
  <2> QED BY <1>0, <1>1, <2>2, <2>3, NewPushed
<1>11. CASE Remove
  <2>1. /\ Top.window \in Windows
        /\ \/ stack' = Pop \o ReportClosed(Top.window)
           \/ stack' = Append(Pop, Finalization(Top.window))
    BY <1>11, RemoveEffect
  <2>2. Finalization(Top.window) \in Frame /\ New(Finalization(Top.window))
    BY <2>1, WindowFrames DEF Finalization, New, Layers
  <2>3. PICK yes \in BOOLEAN : yes = TRUE
    OBVIOUS
  <2> QED BY <1>0, <1>1, <2>1, <2>2, <2>3, NewPushed
<1>8. CASE Finalize \/ Erase
  <2> DEFINE c == [op |-> "closed"]
             e == [op |-> "release", window |-> Top.window, targets |-> CoveredTargets(Top.window)]
  <2>1. /\ Top.op \in {"finalize", "release"}
        /\ stack' \in {Pop, Append(Pop, c), Append(Pop, e)}
    BY <1>8 DEF Finalize, Erase, Forget, InFrame
  <2>2. Top.window \in Windows /\ CoveredTargets(Top.window) \in SUBSET Windows
    BY <1>0, <1>1, <2>1, FrameFields DEF CoveredTargets
  <2>3. c \in Frame /\ New(c) /\ e \in Frame /\ New(e)
    BY <2>2, WindowFrames, OtherFrames DEF Layers, New
  <2> HIDE DEF c, e
  <2> QED BY <1>3, <2>1, <2>3
<1>9. CASE DestroyNext
  <2>1. Top.op = "destroyAll"
    BY <1>9 DEF DestroyNext, InFrame
  <2>2. Top.todo \subseteq Windows /\ Top \in [op : {"destroyAll"}, todo : SUBSET Windows]
    BY <1>0, <1>1, <2>1, FrameFields DEF Frame
  <2>8. PICK no \in BOOLEAN : no = FALSE
    OBVIOUS
  <2>3. PICK w \in Windows : \/ stack' = Append(Append(Pop, Remaining(w)), Finalization(w))
                             \/ stack' = Removing(Append(Pop, Remaining(w)), w, no)
                             \/ stack' = Append(Pop, Remaining(w))
    BY <1>9, <2>2, <2>8 DEF DestroyNext, Remaining, Finalization
  <2>4. Remaining(w) = [op |-> "destroyAll", todo |-> Top.todo \ {w}] /\ Top.todo \ {w} \in SUBSET Windows
    BY <2>2 DEF Remaining
  <2>5. Remaining(w) \in Frame /\ Remaining(w).op = "destroyAll"
    BY <2>4, OtherFrames
  <2>6. Finalization(w) \in Frame /\ Finalization(w).op = "finalize"
    BY WindowFrames DEF Finalization
  <2>7. New(Remaining(w)) /\ New(Finalization(w))
    BY <2>5, <2>6 DEF Layers, New
  <2> QED BY <1>0, <1>1, <2>3, <2>5, <2>6, <2>7, NewPushed
<1>10. CASE ReleaseNext
  <2>1. PICK t \in Top.targets, rest \in Seq(Frame) :
          Told(rest) /\ Range(rest) = Range(Pop) \cup {Released(t)}
    BY <1>10, ReleaseShape
  <2>2. New(Released(t))
    <3>1. Top.op = "release" /\ Top \in Frame
      BY <1>0, <1>1, <1>10 DEF ReleaseNext, InFrame
    <3>2. Released(t).op = "release"
      BY <3>1, ReleasedFields
    <3> QED BY <3>2 DEF Layers, New
  <2>3. Adds(rest)
    BY <1>4, <2>1
  <2> QED BY <2>1, <2>2, <2>3 DEF Adds
<1> QED BY <1>5, <1>6, <1>7, <1>8, <1>9, <1>10, <1>11 DEF Outside

(* A removal goes on.                                                        *)
LEMMA DetachPlain ==
  ASSUME WindowInv, Nested(stack), DetachNext
  PROVE  /\ stack # <<>> /\ Top.op = "remove" /\ Top \in Begun
         /\ Plain(stack) /\ Plain(stack')
         /\ \E c \in Top.children :
              /\ Detaching(c).window = Top.window /\ Detaching(c).children = Top.children \ {c}
              /\ \A f \in Begun' : f \in Begun \/ f = Detaching(c) \/ f.op = "flush"
              /\ \/ Exists(c) /\ native' = [native EXCEPT ![c] = Detached(@)]
                    /\ native[c] \in Configuration
                 \/ ~Exists(c) /\ UNCHANGED native
<1>1. /\ stack # <<>> /\ Top.op = "remove" /\ Top \in Frame /\ Top.children \subseteq Windows
  BY DetachEffect
<1>2. PICK c \in Top.children :
        /\ \/ stack' = Append(Pop, Detaching(c))
           \/ stack' = Append(Append(Pop, Detaching(c)), Flush(c))
        /\ \/ Exists(c) /\ native' = [native EXCEPT ![c] = Detached(@)]
           \/ ~Exists(c) /\ UNCHANGED native
  <2>1. PICK c \in Top.children :
          IF Exists(c)
          THEN /\ native' = [native EXCEPT ![c] = Detached(@)]
               /\ Report(c, Detached(native[c]), Append(Pop, Detaching(c)))
          ELSE UNCHANGED <<native, pending, posts>> /\ stack' = Append(Pop, Detaching(c))
    BY DEF DetachNext, Detaching
  <2> QED BY <2>1, ReportStack
<1>3. /\ Pop \in Seq(Frame) /\ Begun = Range(Pop) \cup {Top} /\ \A f \in Range(Pop) : Allowed(f, Top)
  BY <1>1, NestedPopped DEF WindowInv, TypeOK
<1>4. Plain(Pop) /\ Plain(stack)
  BY <1>1, <1>3 DEF Plain, Allowed, Calm, Layers, Begun
<1>5. /\ Detaching(c) \in Frame /\ Detaching(c).op = "remove" /\ Detaching(c).window = Top.window
      /\ Detaching(c).children = Top.children \ {c}
  BY <1>1, DetachingFields
<1>6. Flush(c) \in Frame /\ Flush(c).op = "flush"
  BY <1>1, WindowFrames DEF Flush
<1> DEFINE rest == Append(Pop, Detaching(c))
<1>7. rest \in Seq(Frame) /\ Range(rest) = Range(Pop) \cup {Detaching(c)}
  BY <1>3, <1>5, Pushed
<1> HIDE DEF rest
<1>8. stack' = rest \/ stack' = Append(rest, Flush(c))
  BY <1>2 DEF rest
<1>9. Range(Append(rest, Flush(c))) = Range(rest) \cup {Flush(c)}
  BY <1>6, <1>7, Pushed
<1>10. \A f \in Begun' : f \in Range(Pop) \/ f = Detaching(c) \/ f = Flush(c)
  BY <1>7, <1>8, <1>9 DEF Begun
<1>11. Plain(stack')
  BY <1>4, <1>5, <1>6, <1>10 DEF Plain, Layers, Begun
<1>12. Exists(c) => native[c] \in Configuration
  BY <1>1 DEF WindowInv, TypeOK, Exists
<1> QED BY <1>1, <1>2, <1>3, <1>4, <1>5, <1>6, <1>10, <1>11, <1>12

LEMMA RunPlain ==
  ASSUME WindowInv, Free(stack), NEW c \in Commands, Run(c), c.kind # "create"
  PROVE  Plain(stack) /\ Plain(stack') /\ Adds(stack)
<1>0. stack \in Seq(Frame) /\ Plain(stack)
  BY DEF WindowInv, TypeOK, Free, Plain, Layers, Calm
<1>1. /\ c.kind \in {"destroy", "requestClose", "mutate", "setInput"} => c.window \in Windows
      /\ c.kind = "setInput" => c.enabled \in BOOLEAN
  BY CommandFields
<1> SUFFICES Adds(stack)
  BY <1>0, PlainAdded
<1>2. CASE c.kind = "destroy" /\ DestroyWindow(c.window)
  <2>1. PICK no \in BOOLEAN : no = FALSE
    OBVIOUS
  <2>2. stack' = Removing(stack, c.window, no)
    BY <1>2, <2>1 DEF DestroyWindow
  <2> QED BY <1>0, <1>1, <1>2, <2>2, NewPushed
<1>3. ASSUME Told(stack) PROVE Adds(stack)
  BY <1>0, <1>3, FramesTold DEF Adds, New, Layers
<1>4. CASE c.kind = "mutate" /\ CanChange(c.window) /\ MutateConfiguration(c.window)
  BY <1>1, <1>3, <1>4, MutateEffect
<1>5. CASE c.kind = "setInput" /\ IsOpen(c.window) /\ SetInputEnabled(c.window, c.enabled)
  BY <1>1, <1>3, <1>5, SetInputEffect
<1>6. CASE c.kind = "requestClose" /\ RequestClose(c.window)
  <2>1. PICK yes \in BOOLEAN : yes = TRUE
    OBVIOUS
  <2> QED BY <1>0, <1>1, <1>6, <2>1, NewPushed DEF RequestClose
<1> QED BY <1>2, <1>4, <1>5, <1>6 DEF Run

LEMMA IdlePlain ==
  ASSUME WindowInv, Nested(stack),
         \/ RunFlush \/ DestroyAll
         \/ \E w \in Windows : ConfigurationEvent(w) \/ CloseEvent(w) \/ DestroyedEvent(w)
  PROVE  stack = <<>> /\ Plain(stack) /\ Plain(stack') /\ Adds(stack)
<1>1. stack = <<>> /\ Plain(stack) /\ stack \in Seq(Frame)
  BY Short DEF RunFlush, DestroyAll, ConfigurationEvent, CloseEvent, DestroyedEvent, Pumping, Idle,
               WindowInv, TypeOK, Plain
<1> SUFFICES Adds(stack)
  BY <1>1, PlainAdded
<1>2. ASSUME NEW e \in Frame, New(e), stack' = <<e>> PROVE Adds(stack)
  BY <1>2, Short DEF Adds, Begun
<1>3. CASE DestroyAll
  <2> DEFINE e == [op |-> "destroyAll", todo |-> managed]
  <2>1. e \in Frame /\ New(e)
    BY OtherFrames DEF WindowInv, TypeOK, Layers, New
  <2>2. stack' = <<e>>
    BY <1>3 DEF DestroyAll
  <2> HIDE DEF e
  <2> QED BY <1>1, <1>2, <2>1, <2>2
<1>4. CASE RunFlush
  <2> DEFINE e == Flush(Head(posts))
  <2>1. Head(posts) \in Windows
    BY <1>4 DEF RunFlush, WindowInv, TypeOK
  <2>2. e \in Frame /\ New(e)
    BY <2>1, WindowFrames DEF Layers, New, Flush
  <2>3. stack' = <<e>>
    BY <1>4 DEF RunFlush
  <2> HIDE DEF e
  <2> QED BY <1>1, <1>2, <2>2, <2>3
<1>5. ASSUME NEW w \in Windows, CloseEvent(w) \/ DestroyedEvent(w) \/ ConfigurationEvent(w)
      PROVE  Adds(stack)
  <2>1. AskToClose(w) \in Seq(Frame)
    BY ClosingFrames
  <2>2. PICK yes \in BOOLEAN : yes = TRUE
    OBVIOUS
  <2>3. Flush(w) \in Frame /\ New(Flush(w))
    BY WindowFrames DEF Flush, New, Layers
  <2>4. CASE CloseEvent(w)
    <3>1. stack' = stack \o AskToClose(w)
      BY <1>1, <2>1, <2>4 DEF CloseEvent
    <3> QED BY <1>1, <2>2, <3>1, NewPushed
  <2>5. CASE DestroyedEvent(w)
    <3>1. stack' = Removing(stack, w, yes)
      BY <2>2, <2>5 DEF DestroyedEvent
    <3> QED BY <1>1, <3>1, NewPushed
  <2>6. CASE ConfigurationEvent(w)
    <3>1. stack' = stack \/ stack' = Append(stack, Flush(w))
      BY <2>6, ReportStack DEF ConfigurationEvent
    <3> QED BY <1>1, <2>2, <2>3, <3>1, NewPushed
  <2> QED BY <1>5, <2>4, <2>5, <2>6
<1> QED BY <1>3, <1>4, <1>5

LEMMA RefreshInvStep ==
  ASSUME "notify" \notin ReentrantFrames, WindowInv, PolicyInv, RefreshInv, Nested(stack), [Next]_vars
  PROVE  RefreshInv'
<1>0. stack \in Seq(Frame) /\ managed \subseteq Windows
      /\ \A f \in Begun : f.op = "refresh" => f.window \in Windows /\ RefreshOf(f)
  BY StackTop, FrameFields DEF WindowInv, TypeOK, RefreshInv, Begun, Range
<1>1. CASE RefreshNext
  <2>1. PICK modal \in Windows, target \in Windows, above \in SUBSET Windows, below \in SUBSET Windows,
             rest \in Seq(Frame) :
          /\ RefreshCase(modal, target, above, below)
          /\ Considers(modal, target, rest) /\ Told(rest) /\ Follows(rest)
          /\ IF above \cup below = {} THEN Range(rest) = Range(Pop)
             ELSE Range(rest) = Range(Pop) \cup {RefreshFrame(Top.window, above, below)}
          /\ Nested(rest) /\ Nested(stack')
    BY <1>1, RefreshShape
  <2>2. /\ Top \in Begun /\ Top.op = "refresh" /\ Begun = Range(Pop) \cup {Top} /\ Top.window \in Windows
    BY <1>1, RefreshShape
  <2> DEFINE e == RefreshFrame(Top.window, above, below)
  <2>3. e.window = Top.window /\ e.above = above /\ e.below = below
    BY DEF RefreshFrame
  <2>4. /\ above \subseteq Top.above /\ below \subseteq Top.below
    BY <2>1 DEF RefreshCase
  <2>5. RefreshOf(Top)
    BY <1>0, <2>2
  <2> HIDE DEF e
  <2>6. e.window \in Windows /\ RefreshOf(e)
    BY <2>2, <2>3, <2>4, <2>5 DEF RefreshOf
  <2>7. \A f \in Begun' : f.op = "refresh" => f.window \in Windows /\ RefreshOf(f)
    BY <1>0, <2>1, <2>2, <2>6, FramesTold DEF e
  <2>8. UNCHANGED <<managed, lifecycle>>
    BY <1>1 DEF RefreshNext
  <2> QED BY <2>1, <2>7, <2>8, RefreshKept
<1>2. CASE ReconcileNext
  <2>1. PICK t \in Windows, rest \in Seq(Frame) :
          /\ Told(rest) /\ Follows(rest)
          /\ IF Top.targets \ {t} = {} THEN Range(rest) = Range(Pop)
             ELSE Range(rest) = Range(Pop) \cup {ReconcileFrame(Top.targets \ {t}, Top.desired)}
    BY <1>2, ReconcileShape
  <2>2. Begun = Range(Pop) \cup {Top}
    BY <1>2, ReconcileShape
  <2>3. ReconcileFrame(Top.targets \ {t}, Top.desired).op = "reconcile"
    BY DEF ReconcileFrame
  <2>4. \A f \in Begun' : f.op = "refresh" => f.window \in Windows /\ RefreshOf(f)
    BY <1>0, <2>1, <2>2, <2>3, FramesTold
  <2>5. UNCHANGED <<managed, lifecycle>>
    BY <1>2 DEF ReconcileNext
  <2> QED BY <2>1, <2>4, <2>5, RefreshKept
<1>3. ASSUME UNCHANGED <<managed, lifecycle, configuration>>,
             \A f \in Begun' : f \in Begun \/ f.op # "refresh"
      PROVE  RefreshInv'
  BY <1>3 DEF RefreshInv, RefreshOf, IsOpen
<1>4. CASE Notified
  <2> DEFINE e == ReconcileFrame({w \in managed : IsOpen(w)}, Reconciled)
  <2>1. stack # <<>> /\ (stack' = Pop \/ stack' = Append(Pop, e))
    BY <1>4 DEF Notified, InFrame, Reconciling, ReconcileFrame
  <2>2. Reconciled \in [Windows -> SUBSET Windows]
    BY <1>0 DEF Reconciled, DesiredSources
  <2>3. e \in Frame /\ e.op = "reconcile"
    BY <1>0, <2>2, OtherFrames DEF ReconcileFrame
  <2> HIDE DEF e
  <2>4. Pop \in Seq(Frame) /\ Begun = Range(Pop) \cup {Top}
    BY <1>0, <2>1, StackTop
  <2>5. Begun' \subseteq Begun \cup {e}
    <3>1. Range(Append(Pop, e)) = Range(Pop) \cup {e}
      BY <2>3, <2>4, Pushed
    <3>2. Range(stack') \in {Range(Pop), Range(Pop) \cup {e}}
      BY <2>1, <3>1
    <3> QED BY <2>4, <3>2 DEF Begun
  <2>6. UNCHANGED <<managed, lifecycle, configuration>>
    BY <1>4 DEF Notified, record
  <2> QED BY <1>3, <2>3, <2>5, <2>6
<1>5. CASE Outside \/ ReleaseNext \/ DetachNext
  BY <1>5, PoppedPlain, DetachPlain, RefreshOfPlain
<1>6. ASSUME NEW c \in Commands, Command(c) \/ Reenter(c) PROVE RefreshInv'
  <2>1. Free(stack) /\ Run(c)
    BY <1>6, CallsOutsideLayers
  <2>2. CASE c.kind # "create"
    BY <2>1, <2>2, RunPlain, RefreshOfPlain
  <2>3. CASE c.kind = "create"
    <3>1. CanCreate(c) /\ CreateWindow(c)
      BY <2>1, <2>3 DEF Run
    <3>2. PICK w \in Windows :
           /\ w \notin managed /\ \A v \in managed : v < w
           /\ lifecycle' = [lifecycle EXCEPT ![w] = "Open"]
           /\ managed' = managed \cup {w}
           /\ configuration'[w].modality = c.modality
           /\ stack' = Refreshing(stack, w, CoveredBy(w, c.modality), managed)
      BY <2>3, <3>1, CreatedFacts
    <3> DEFINE above == CoveredBy(w, c.modality)
               e == RefreshFrame(w, above, managed)
    <3>3. above \subseteq managed /\ (above # {} => c.modality = "Modeless")
      BY DEF CoveredBy
    <3>4. stack' = stack \/ stack' = Append(stack, e)
      BY <3>2 DEF Refreshing, RefreshFrame
    <3>5. e \in Frame /\ e.window = w /\ e.above = above /\ e.below = managed
      <4>1. above \in SUBSET Windows /\ managed \in SUBSET Windows
        BY <1>0, <3>3
      <4> HIDE DEF above
      <4>2. e \in Frame
        BY <4>1, WindowFrames DEF RefreshFrame
      <4> QED BY <4>2 DEF RefreshFrame
    <3> HIDE DEF e, above
    <3>6. IsOpen(w)'
      BY <3>2 DEF IsOpen, WindowInv, TypeOK
    <3>7. PICK g \in Frame : g = e
      BY <3>5
    <3>10. RefreshOf(g)'
      BY <3>2, <3>3, <3>5, <3>6, <3>7 DEF RefreshOf, IsOpen
    <3>8. \A f \in Begun : f.op # "refresh"
      BY <2>1 DEF Free, Begun
    <3>9. Begun' \subseteq Begun \cup {g}
      <4>1. Range(Append(stack, e)) = Range(stack) \cup {e}
        BY <1>0, <3>5, Pushed
      <4>2. Range(stack') \in {Range(stack), Range(stack) \cup {e}}
        BY <3>4, <4>1
      <4> QED BY <3>7, <4>2 DEF Begun
    <3> QED BY <3>8, <3>9, <3>10 DEF RefreshInv, RefreshOf
  <2> QED BY <2>2, <2>3
<1>7. CASE \/ RunFlush \/ DestroyAll
           \/ \E w \in Windows : ConfigurationEvent(w) \/ CloseEvent(w) \/ DestroyedEvent(w)
  BY <1>7, IdlePlain, RefreshOfPlain
<1>8. CASE UNCHANGED vars \/ RequestStop
  BY <1>3, <1>8 DEF vars, record, Begun, RequestStop
<1> QED BY <1>1, <1>2, <1>4, <1>5, <1>6, <1>7, <1>8 DEF Next, Continue, Outside

(* No window is left out when the children of a removal are detached: the    *)
(* others keep the parent that they have, and nobody gets a new one.         *)
LEMMA ChildrenKept ==
  ASSUME WindowInv, ChildrenInv, Adds(stack),
         \A v \in Windows : Exists(v)' => Exists(v) /\ native'[v].parent = native[v].parent
  PROVE  ChildrenInv'
<1> SUFFICES ASSUME NEW f \in Begun', f.op = "remove", NEW c \in Windows, c # f.window, Exists(c)',
                    native'[c].parent = f.window
             PROVE  c \in f.children
  BY DEF ChildrenInv, ChildrenOf
<1>1. Exists(c) /\ native[c].parent = f.window
  OBVIOUS
<1>2. CASE f \in Begun
  BY <1>1, <1>2 DEF ChildrenInv, ChildrenOf
<1>3. CASE New(f)
  BY <1>1, <1>3 DEF New, Children
<1> QED BY <1>2, <1>3 DEF Adds, Begun

LEMMA FollowsParents ==
  ASSUME NEW rest, Follows(rest), NEW v \in Windows, Exists(v)'
  PROVE  Exists(v) /\ native'[v].parent = native[v].parent
BY DEF Follows, SamePolicy

LEMMA ChildrenDetached ==
  ASSUME WindowInv, Nested(stack), ChildrenInv, DetachNext
  PROVE  ChildrenInv'
<1>1. PICK c \in Top.children :
        /\ Detaching(c).window = Top.window /\ Detaching(c).children = Top.children \ {c}
        /\ \A f \in Begun' : f \in Begun \/ f = Detaching(c) \/ f.op = "flush"
        /\ \/ Exists(c) /\ native' = [native EXCEPT ![c] = Detached(@)]
              /\ native[c] \in Configuration
           \/ ~Exists(c) /\ UNCHANGED native
  BY DetachPlain
<1>2. Top \in Begun /\ Top.op = "remove" /\ Top.window \in Windows /\ Top.children \subseteq Windows
  BY DetachEffect, DetachPlain
<1>3. c \in Windows /\ native \in Table
  BY <1>1, <1>2 DEF WindowInv, TypeOK, Table
<1>4. CASE ~Exists(c) /\ UNCHANGED native
  BY <1>1, <1>2, <1>4 DEF ChildrenInv, ChildrenOf, Exists
<1>5. CASE Exists(c) /\ native' = [native EXCEPT ![c] = Detached(@)] /\ native[c] \in Configuration
  <2> DEFINE d == Detached(native[c])
  <2>1. native[c] \in [parent : Windows \cup {NoWindow}, modality : Modalities, input : BOOLEAN]
    BY <1>5 DEF Configuration
  <2>2. d.parent = NoWindow
    BY <2>1 DEF Detached
  <2>3. native' = [native EXCEPT ![c] = d]
    BY <1>5
  <2> HIDE DEF d
  <2>4. native'[c].parent = NoWindow /\ \A v \in Windows : v # c => native'[v] = native[v]
    BY <1>3, <2>2, <2>3 DEF Table
  <2> SUFFICES ASSUME NEW f \in Begun', f.op = "remove", NEW v \in Windows, v # f.window, Exists(v)',
                      native'[v].parent = f.window
               PROVE  v \in f.children
    BY DEF ChildrenInv, ChildrenOf
  <2>5. f.window \in Windows
    <3>1. \A g \in Begun : g \in Frame
      BY DEF WindowInv, TypeOK, Begun, Range
    <3>2. CASE f \in Begun
      BY <3>1, <3>2, FrameFields
    <3>3. CASE f = Detaching(c)
      BY <1>1, <1>2, <3>3
    <3>4. f \in Begun \/ f = Detaching(c)
      BY <1>1
    <3> QED BY <3>2, <3>3, <3>4
  <2>6. v # c
    BY <2>4, <2>5 DEF Windows, NoWindow
  <2>7. Exists(v) /\ native[v].parent = f.window
    BY <2>4, <2>6 DEF Exists
  <2> QED BY <1>1, <1>2, <2>6, <2>7 DEF ChildrenInv, ChildrenOf
<1> QED BY <1>1, <1>4, <1>5

LEMMA ChildrenInvStep ==
  ASSUME "notify" \notin ReentrantFrames, WindowInv, PolicyInv, ChildrenInv, Nested(stack), [Next]_vars
  PROVE  ChildrenInv'
<1>0. stack \in Seq(Frame) /\ managed \subseteq Windows
  BY DEF WindowInv, TypeOK
<1>1. ASSUME \A f \in Begun' : f.op = "remove" => f \in Begun,
             \A v \in Windows : Exists(v)' => Exists(v) /\ native'[v].parent = native[v].parent
      PROVE  ChildrenInv'
  BY <1>1 DEF ChildrenInv, ChildrenOf
<1>2. CASE RefreshNext
  <2>1. PICK above \in SUBSET Windows, below \in SUBSET Windows, rest \in Seq(Frame) :
          /\ Told(rest) /\ Follows(rest)
          /\ IF above \cup below = {} THEN Range(rest) = Range(Pop)
             ELSE Range(rest) = Range(Pop) \cup {RefreshFrame(Top.window, above, below)}
    BY <1>2, RefreshShape
  <2>2. Begun = Range(Pop) \cup {Top}
    BY <1>2, RefreshShape
  <2>3. RefreshFrame(Top.window, above, below).op = "refresh"
    BY DEF RefreshFrame
  <2>4. \A f \in Begun' : f.op = "remove" => f \in Begun
    BY <2>1, <2>2, <2>3, FramesTold
  <2> QED BY <1>1, <2>1, <2>4, FollowsParents
<1>3. CASE ReconcileNext
  <2>1. PICK t \in Windows, rest \in Seq(Frame) :
          /\ Told(rest) /\ Follows(rest)
          /\ IF Top.targets \ {t} = {} THEN Range(rest) = Range(Pop)
             ELSE Range(rest) = Range(Pop) \cup {ReconcileFrame(Top.targets \ {t}, Top.desired)}
    BY <1>3, ReconcileShape
  <2>2. Begun = Range(Pop) \cup {Top}
    BY <1>3, ReconcileShape
  <2>3. ReconcileFrame(Top.targets \ {t}, Top.desired).op = "reconcile"
    BY DEF ReconcileFrame
  <2>4. \A f \in Begun' : f.op = "remove" => f \in Begun
    BY <2>1, <2>2, <2>3, FramesTold
  <2> QED BY <1>1, <2>1, <2>4, FollowsParents
<1>4. CASE Notified
  <2> DEFINE e == ReconcileFrame({w \in managed : IsOpen(w)}, Reconciled)
  <2>1. stack # <<>> /\ (stack' = Pop \/ stack' = Append(Pop, e))
    BY <1>4 DEF Notified, InFrame, Reconciling, ReconcileFrame
  <2>2. Reconciled \in [Windows -> SUBSET Windows]
    BY <1>0 DEF Reconciled, DesiredSources
  <2>3. e \in Frame /\ e.op = "reconcile"
    BY <1>0, <2>2, OtherFrames DEF ReconcileFrame
  <2> HIDE DEF e
  <2>4. Pop \in Seq(Frame) /\ Begun = Range(Pop) \cup {Top}
    BY <1>0, <2>1, StackTop
  <2>5. Begun' \subseteq Begun \cup {e}
    <3>1. Range(Append(Pop, e)) = Range(Pop) \cup {e}
      BY <2>3, <2>4, Pushed
    <3>2. Range(stack') \in {Range(Pop), Range(Pop) \cup {e}}
      BY <2>1, <3>1
    <3> QED BY <2>4, <3>2 DEF Begun
  <2>6. UNCHANGED native
    BY <1>4 DEF Notified
  <2> QED BY <1>1, <2>3, <2>5, <2>6 DEF Exists
<1>5. CASE Outside \/ ReleaseNext
  <2>1. Adds(stack)
    <3>1. Range(Pop) \subseteq Begun /\ Adds(Pop)
      BY <1>5, PoppedPlain
    <3> QED BY <3>1 DEF Adds, Begun
  <2>2. CASE ReleaseNext
    BY <2>1, <2>2, ReleaseShape, FollowsParents, ChildrenKept
  <2>3. CASE FlushPending
    <3>1. \A v \in Windows : Exists(v)' => Exists(v) /\ native'[v].parent = native[v].parent
      BY <2>3, FlushFollows DEF SamePolicy
    <3> QED BY <2>1, <3>1, ChildrenKept
  <2>4. CASE Remove
    <3>1. native' = [native EXCEPT ![Top.window] = NoConfiguration] /\ Top.window \in Windows
      BY <2>4, RemoveEffect
    <3>2. \A v \in Windows : Exists(v)' => Exists(v) /\ native'[v].parent = native[v].parent
      BY <3>1 DEF Exists, WindowInv, TypeOK
    <3> QED BY <2>1, <3>2, ChildrenKept
  <2>5. CASE ShutdownBackend
    <3>1. \A v \in Windows : ~Exists(v)'
      BY <2>5 DEF ShutdownBackend, Exists
    <3> QED BY <2>1, <3>1, ChildrenKept
  <2>6. CASE Ask \/ Cancelled \/ Closes \/ Finalize \/ Erase \/ ClosedReported \/ DestroyNext
    <3>1. UNCHANGED native
      BY <2>6 DEF Ask, Cancelled, Closes, Finalize, Erase, ClosedReported, DestroyNext
    <3>2. \A v \in Windows : Exists(v)' => Exists(v) /\ native'[v].parent = native[v].parent
      BY <3>1 DEF Exists
    <3> QED BY <2>1, <3>2, ChildrenKept
  <2> QED BY <1>5, <2>2, <2>3, <2>4, <2>5, <2>6 DEF Outside
<1>6. ASSUME NEW c \in Commands, Command(c) \/ Reenter(c) PROVE ChildrenInv'
  <2>1. Free(stack) /\ Run(c)
    BY <1>6, CallsOutsideLayers
  <2>2. \A f \in Begun : f.op # "remove"
    BY <2>1 DEF Free, Begun
  <2>3. CASE c.kind = "create"
    <3>1. CanCreate(c) /\ CreateWindow(c)
      BY <2>1, <2>3 DEF Run
    <3>2. PICK w \in Windows : stack' = Refreshing(stack, w, CoveredBy(w, c.modality), managed)
      BY <2>3, <3>1, CreatedFacts
    <3> DEFINE above == CoveredBy(w, c.modality)
               e == RefreshFrame(w, above, managed)
    <3>3. above \in SUBSET Windows /\ managed \in SUBSET Windows
      BY <1>0 DEF CoveredBy
    <3>4. stack' = stack \/ stack' = Append(stack, e)
      BY <3>2 DEF Refreshing, RefreshFrame
    <3> HIDE DEF above
    <3>5. e \in Frame /\ e.op = "refresh"
      BY <3>3, WindowFrames DEF RefreshFrame
    <3> HIDE DEF e
    <3>6. \A f \in Begun' : f.op # "remove"
      <4>1. Range(Append(stack, e)) = Range(stack) \cup {e}
        BY <1>0, <3>5, Pushed
      <4>2. Range(stack') \in {Range(stack), Range(stack) \cup {e}}
        BY <3>4, <4>1
      <4> QED BY <2>2, <3>5, <4>2 DEF Begun
    <3> QED BY <3>6 DEF ChildrenInv, ChildrenOf
  <2>4. CASE c.kind # "create"
    <3>1. Adds(stack)
      BY <2>1, <2>4, RunPlain
    <3>2. /\ c.kind \in {"destroy", "requestClose", "mutate", "setInput"} => c.window \in Windows
          /\ c.kind = "setInput" => c.enabled \in BOOLEAN
      BY CommandFields
    <3>3. \A v \in Windows : Exists(v)' => Exists(v) /\ native'[v].parent = native[v].parent
      <4>1. CASE c.kind = "destroy" /\ DestroyWindow(c.window)
        BY <4>1 DEF DestroyWindow, Exists
      <4>2. CASE c.kind = "mutate" /\ CanChange(c.window) /\ MutateConfiguration(c.window)
        BY <3>2, <4>2, CommandsFollow, FollowsParents
      <4>3. CASE c.kind = "setInput" /\ IsOpen(c.window) /\ SetInputEnabled(c.window, c.enabled)
        BY <3>2, <4>3, CommandsFollow, FollowsParents
      <4>4. CASE c.kind = "requestClose" /\ RequestClose(c.window)
        BY <4>4 DEF RequestClose, Exists
      <4> QED BY <2>1, <2>4, <4>1, <4>2, <4>3, <4>4 DEF Run
    <3> QED BY <3>1, <3>3, ChildrenKept
  <2> QED BY <2>3, <2>4
<1>7. CASE \/ RunFlush \/ DestroyAll
           \/ \E w \in Windows : ConfigurationEvent(w) \/ CloseEvent(w) \/ DestroyedEvent(w)
  <2>1. Adds(stack) /\ UNCHANGED native
    BY <1>7, IdlePlain DEF RunFlush, DestroyAll, ConfigurationEvent, CloseEvent, DestroyedEvent
  <2> QED BY <2>1, ChildrenKept DEF Exists
<1>8. CASE UNCHANGED vars \/ RequestStop
  BY <1>1, <1>8 DEF vars, Begun, RequestStop, Exists
<1> QED BY <1>2, <1>3, <1>4, <1>5, <1>6, <1>7, <1>8, ChildrenDetached DEF Next, Continue, Outside

ParentsWithin(windows, above) == \A v \in windows : configuration[v].parent \in above \cup {NoWindow}

LEMMA AncestorsReachUp ==
  ASSUME NEW m \in Windows, ParentsWithin({m} \cup managed, Windows)
  PROVE  ReachesUp(m, Ancestors(m)) /\ Ancestors(m) \subseteq Windows
<1> SUFFICES ASSUME NEW v \in {m} \cup (Ancestors(m) \cap managed), configuration[v].parent # NoWindow
             PROVE  configuration[v].parent \in Ancestors(m)
  BY DEF ReachesUp, Ancestors
<1>1. configuration[v].parent \in Windows
  BY DEF ParentsWithin
<1>2. ASSUME NEW above \in SUBSET Windows, ReachesUp(m, above) PROVE configuration[v].parent \in above
  <2>1. v \in {m} \cup (above \cap managed)
    BY <1>2 DEF Ancestors
  <2> QED BY <1>2, <2>1 DEF ReachesUp
<1> QED BY <1>1, <1>2 DEF Ancestors

LEMMA AncestorsAreLeast ==
  ASSUME NEW m, NEW above \in SUBSET Windows, ReachesUp(m, above)
  PROVE  Ancestors(m) \subseteq above
BY DEF Ancestors

SamePolicies == \A v \in Windows : SamePolicy(configuration'[v], configuration[v])

LEMMA AncestorsKept ==
  ASSUME TypeOK, UNCHANGED managed, SamePolicies, NEW m \in Windows
  PROVE  Ancestors(m)' = Ancestors(m)
<1>1. ASSUME NEW above \in SUBSET Windows PROVE ReachesUp(m, above)' <=> ReachesUp(m, above)
  BY <1>1 DEF ReachesUp, SamePolicies, SamePolicy, TypeOK
<1> QED BY <1>1 DEF Ancestors

LEMMA DesiredKept ==
  ASSUME TypeOK, UNCHANGED <<managed, lifecycle>>, SamePolicies, NEW t \in Windows
  PROVE  DesiredSources(t)' = DesiredSources(t)
<1>1. \A m \in Windows : Ancestors(m)' = Ancestors(m)
  BY AncestorsKept
<1>2. ASSUME NEW m \in managed
      PROVE  /\ ShouldSuppress(m, t)' <=> ShouldSuppress(m, t)
             /\ configuration'[t].modality = configuration[t].modality
  <2>1. m \in Windows /\ Ancestors(m)' = Ancestors(m)
    BY <1>1 DEF TypeOK
  <2>2. SamePolicy(configuration'[m], configuration[m]) /\ SamePolicy(configuration'[t], configuration[t])
    BY <2>1 DEF SamePolicies
  <2> QED BY <2>1, <2>2 DEF ShouldSuppress, SamePolicy, IsOpen
<1> QED BY <1>2 DEF DesiredSources

(* When a window w that is above m goes, one on the way up to it is left     *)
(* whose parent is gone.                                                     *)
LEMMA Severed ==
  ASSUME TypeOK, NEW m \in Windows, NEW w \in Windows, m # w, w \in Ancestors(m),
         NEW above \in SUBSET Windows,
         ParentsWithin(({m} \cup (above \cap managed)) \ {w}, above)
  PROVE  \E c \in ({m} \cup (above \cap managed)) \ {w} : configuration[c].parent = w
<1> SUFFICES ASSUME \A c \in ({m} \cup (above \cap managed)) \ {w} : configuration[c].parent # w
             PROVE  FALSE
  OBVIOUS
<1> DEFINE least == above \ {w}
<1>1. ReachesUp(m, least)
  BY DEF ReachesUp, ParentsWithin
<1>2. Ancestors(m) \subseteq least
  BY <1>1, AncestorsAreLeast
<1> QED BY <1>2

(* A new window is above nobody.                                             *)
LEMMA CreatedAncestors ==
  ASSUME TypeOK, NEW w \in Windows, managed' = managed \cup {w},
         \A v \in Windows : v # w => configuration'[v] = configuration[v],
         \A v \in managed : configuration[v].parent \in (Windows \ {w}) \cup {NoWindow},
         w \notin managed, NEW m \in managed
  PROVE  Ancestors(m)' = Ancestors(m)
<1>1. m \in Windows /\ m # w /\ ParentsWithin({m} \cup managed, Windows)
  BY DEF TypeOK, ParentsWithin
<1>2. ReachesUp(m, Ancestors(m)) /\ Ancestors(m) \subseteq Windows
  BY <1>1, AncestorsReachUp
<1>3. Ancestors(m) \subseteq Ancestors(m) \ {w}
  <2>1. ReachesUp(m, Ancestors(m) \ {w})
    BY <1>1, <1>2 DEF ReachesUp
  <2> QED BY <1>2, <2>1, AncestorsAreLeast
<1>4. PICK A \in SUBSET Windows : A = Ancestors(m)
  BY <1>2
<1>5. ReachesUp(m, A)'
  BY <1>1, <1>2, <1>3, <1>4 DEF ReachesUp, TypeOK
<1>6. Ancestors(m)' \subseteq A
  BY <1>4, <1>5 DEF Ancestors
<1>7. ASSUME NEW above \in SUBSET Windows, ReachesUp(m, above)' PROVE ReachesUp(m, above)
  BY <1>1, <1>7 DEF ReachesUp, TypeOK
<1>8. A \subseteq Ancestors(m)'
  BY <1>4, <1>7 DEF Ancestors
<1> QED BY <1>4, <1>6, <1>8

(* Forgetting a window leaves fewer windows above the others, and all that   *)
(* were there unless one has lost its parent.                                *)
LEMMA ForgottenAncestors ==
  ASSUME TypeOK, NEW w \in Windows, managed' = managed \ {w},
         \A v \in Windows : v # w => configuration'[v] = configuration[v],
         \A v \in managed \ {w} : configuration[v].parent \in Windows \cup {NoWindow},
         NEW m \in managed, m # w
  PROVE  /\ Ancestors(m)' \subseteq Ancestors(m)
         /\ \/ Ancestors(m)' = Ancestors(m) /\ w \notin Ancestors(m)
            \/ \E c \in managed \ {w} : c \in {m} \cup Ancestors(m)' /\ configuration[c].parent = w
<1>0. m \in Windows /\ managed \subseteq Windows
  BY DEF TypeOK
<1>1. ASSUME NEW above \in SUBSET Windows, ReachesUp(m, above) PROVE ReachesUp(m, above)'
  BY <1>0, <1>1 DEF ReachesUp
<1>2. Ancestors(m)' \subseteq Ancestors(m)
  BY <1>1 DEF Ancestors
<1>3. ReachesUp(m, Ancestors(m))' /\ Ancestors(m)' \subseteq Windows
  <2>1. Ancestors(m)' \subseteq Windows
    BY DEF Ancestors
  <2>2. PICK A \in SUBSET Windows : A = Ancestors(m)'
    BY <2>1
  <2>3. ASSUME NEW v \in {m} \cup (A \cap managed'), configuration'[v].parent # NoWindow
        PROVE  configuration'[v].parent \in A
    <3>1. v \in managed \ {w} /\ configuration'[v].parent \in Windows
      BY <1>0, <2>3
    <3>2. ASSUME NEW above \in SUBSET Windows, ReachesUp(m, above)' PROVE configuration'[v].parent \in above
      <4>1. v \in {m} \cup (above \cap managed')
        BY <2>2, <2>3, <3>2 DEF Ancestors
      <4> QED BY <2>3, <3>2, <4>1 DEF ReachesUp
    <3> QED BY <2>2, <3>1, <3>2 DEF Ancestors
  <2>4. \A v \in {m} \cup (Ancestors(m)' \cap managed') : configuration'[v].parent \in Ancestors(m)' \cup {NoWindow}
    BY <2>2, <2>3
  <2> QED BY <2>1, <2>4 DEF ReachesUp
<1>4. PICK A \in SUBSET Windows : A = Ancestors(m)'
  BY <1>3
<1>5. ASSUME NEW v \in ({m} \cup (A \cap managed)) \ {w}
      PROVE  v \in managed \ {w} /\ configuration[v].parent \in A \cup {NoWindow}
  <2>1. v \in {m} \cup (A \cap managed') /\ v \in managed \ {w}
    BY <1>5
  <2>2. configuration'[v].parent \in A \cup {NoWindow}
    BY <1>3, <1>4, <2>1 DEF ReachesUp
  <2> QED BY <1>0, <2>1, <2>2
<1>6. CASE \E c \in ({m} \cup (A \cap managed)) \ {w} : configuration[c].parent = w
  BY <1>2, <1>4, <1>5, <1>6
<1>7. CASE \A c \in ({m} \cup (A \cap managed)) \ {w} : configuration[c].parent # w
  <2>1. ReachesUp(m, A \ {w})
    BY <1>5, <1>7 DEF ReachesUp
  <2>2. Ancestors(m) \subseteq A \ {w}
    BY <2>1, AncestorsAreLeast
  <2> QED BY <1>2, <1>4, <2>2
<1> QED BY <1>6, <1>7

------------------------------------------------------------------------------
(* What is recorded of one window under another, while no change of policy   *)
(* is unannounced and no reconciliation was overtaken.  Sources that a       *)
(* replay would not give are those of a modal window, or of one above it,    *)
(* that a buffered configuration will change; the ones that a replay would   *)
(* give are recorded or about to be.                                         *)
Due(w) == Lives(w) /\ pending[w] # NoConfiguration /\ ~SamePolicy(configuration[w], pending[w])

Behind(m) == \E x \in Windows : x \in {m} \cup Ancestors(m) /\ Due(x)

Considered(f, m, t) == \/ f.window = t /\ m \in f.above
                       \/ f.window = m /\ t \in f.below

Unconsidered(m, t) == \E f \in Begun : f.op = "refresh" /\ Considered(f, m, t)

Awaited(t) == \E f \in Begun : f.op = "reconcile" /\ t \in f.targets

Justified(m, t) == m \in sources[t] => m \in DesiredSources(t) \/ Behind(m)
Recorded(m, t) == m \in DesiredSources(t) => m \in sources[t] \/ Unconsidered(m, t)

Replays(desired) == \A t \in managed : IsOpen(t) => desired[t] = DesiredSources(t)

Pairs(m, t) == IsOpen(t) /\ IsOpen(m) /\ ~Awaited(t) => Justified(m, t) /\ Recorded(m, t)

PairInv ==
  ~overtaken /\ ~PolicyTold =>
    /\ \A f \in Begun : f.op = "reconcile" => Replays(f.desired)
    /\ \A m, t \in Windows : Pairs(m, t)

(* Without a layer under way.                                                *)
LEMMA PlainPairs ==
  ASSUME Plain(stack)
  PROVE  /\ PairInv <=> (~overtaken /\ ~PolicyTold =>
              \A m, t \in Windows : IsOpen(t) /\ IsOpen(m) =>
                Justified(m, t) /\ (m \in DesiredSources(t) => m \in sources[t]))
BY DEF PairInv, Plain, Pairs, Recorded, Unconsidered, Awaited, Begun, Layers

LEMMA PlainPairsNext ==
  ASSUME Plain(stack'),
         ~overtaken' /\ ~PolicyTold' =>
           \A m, t \in Windows : IsOpen(t)' /\ IsOpen(m)' =>
             Justified(m, t)' /\ (m \in DesiredSources(t)' => m \in sources'[t])
  PROVE  PairInv'
BY DEF PairInv, Plain, Pairs, Recorded, Unconsidered, Awaited, Begun, Layers

(* A step that changes no policy and loses nothing that is buffered.         *)
LEMMA BehindKept ==
  ASSUME TypeOK, UNCHANGED managed, SamePolicies, \A w \in Windows : Due(w) => Due(w)'
  PROVE  \A m \in Windows : Behind(m) => Behind(m)'
<1> SUFFICES ASSUME NEW m \in Windows, NEW x \in Windows, x \in {m} \cup Ancestors(m), Due(x)
             PROVE  Behind(m)'
  BY DEF Behind
<1>1. Ancestors(m)' = Ancestors(m)
  BY AncestorsKept
<1> QED BY <1>1 DEF Behind

LEMMA SameDue ==
  ASSUME SamePolicies, UNCHANGED <<lifecycle, pending>>, NEW w \in Windows
  PROVE  Due(w)' <=> Due(w)
BY DEF Due, SamePolicies, SamePolicy, Lives

LEMMA PairsKept ==
  ASSUME WindowInv, PairInv, Plain(stack), Plain(stack'), UNCHANGED <<managed, lifecycle, overtaken>>,
         ~PolicyTold,
         \A m, t \in Windows : IsOpen(m) /\ IsOpen(t) => (m \in sources'[t] <=> m \in sources[t]),
         ~PolicyTold' => SamePolicies /\ \A w \in Windows : Due(w) => Due(w)'
  PROVE  PairInv'
<1> SUFFICES ASSUME ~overtaken', ~PolicyTold', NEW m \in Windows, NEW t \in Windows, IsOpen(t)', IsOpen(m)'
             PROVE  Justified(m, t)' /\ (m \in DesiredSources(t)' => m \in sources'[t])
  BY PlainPairsNext
<1>1. IsOpen(t) /\ IsOpen(m) /\ ~overtaken /\ TypeOK
  BY DEF IsOpen, WindowInv
<1>2. Justified(m, t) /\ (m \in DesiredSources(t) => m \in sources[t])
  BY <1>1, PlainPairs
<1>3. DesiredSources(t)' = DesiredSources(t) /\ (Behind(m) => Behind(m)')
  BY <1>1, DesiredKept, BehindKept
<1>4. m \in sources'[t] <=> m \in sources[t]
  BY <1>1
<1> QED BY <1>2, <1>3, <1>4 DEF Justified

(* A window that loses its parent stays behind if it was: it had none before. *)
LEMMA DetachedStaysDue ==
  ASSUME WindowInv, PolicyInv, DetachNext, NEW v \in Windows, Due(v)
  PROVE  Due(v)'
<1>1. PICK c \in Windows :
        /\ \A u \in Windows : u # c => native'[u] = native[u] /\ pending'[u] = pending[u]
        /\ \/ native'[c] = native[c] /\ pending'[c] = pending[c]
           \/ /\ Exists(c) /\ pending'[c] = native'[c] /\ pending'[c] # NoConfiguration
              /\ native'[c].parent = NoWindow
              /\ native[c].modality = "Modeless" => native'[c].modality = "Modeless"
              /\ native[c].parent = NoWindow => SamePolicy(native'[c], native[c])
  BY DetachedFacts
<1>2. UNCHANGED <<lifecycle, configuration>> /\ PolicyOf(v)
  BY DetachedFacts DEF record, PolicyInv
<1>3. CASE pending'[v] = pending[v]
  BY <1>2, <1>3 DEF Due, Lives, SamePolicy
<1>4. CASE pending'[v] # pending[v]
  <2>1. v = c
    BY <1>1, <1>4
  <2>2. /\ Exists(v) /\ pending'[v] = native'[v] /\ pending'[v] # NoConfiguration
        /\ native[v].parent = NoWindow => SamePolicy(native'[v], native[v])
    BY <1>1, <1>4, <2>1
  <2>3. SamePolicy(native[v], pending[v]) /\ ~SamePolicy(configuration[v], pending[v])
    BY <1>2, <2>2 DEF PolicyOf, Lags, Due
  <2>4. native[v].parent = NoWindow
    BY <1>2, <2>2, <2>3 DEF PolicyOf, KeepsParent, SamePolicy
  <2> QED BY <1>2, <2>2, <2>3, <2>4 DEF Due, Lives, SamePolicy
<1> QED BY <1>3, <1>4

LEMMA EventStaysDue ==
  ASSUME WindowInv, PolicyInv, NEW w \in Windows, ConfigurationEvent(w), NEW v \in Windows, Due(v)
  PROVE  Due(v)'
<1>1. /\ PolicyOf(v) /\ UNCHANGED <<lifecycle, configuration>>
      /\ v # w => pending'[v] = pending[v]
      /\ v = w => pending'[v] = native[v] /\ Exists(v)
  BY EventFacts DEF ConfigurationEvent, record, PolicyInv
<1>2. CASE v # w
  BY <1>1, <1>2 DEF Due, Lives, SamePolicy
<1>3. CASE v = w
  BY <1>1, <1>3 DEF Due, Lives, PolicyOf, Lags, SamePolicy, Exists
<1> QED BY <1>2, <1>3

LEMMA FollowsTells ==
  ASSUME NEW rest \in Seq(Frame), Follows(rest), ~PolicyTold'
  PROVE  SamePolicies
BY NotTold DEF Follows, SamePolicies

(* A managed window whose parent is gone is behind: its detachment is        *)
(* buffered.                                                                 *)
LEMMA OrphanIsDue ==
  ASSUME WindowInv, PolicyInv, NEW c \in Windows, Exists(c), NEW w \in Windows, ~Exists(w),
         configuration[c].parent = w
  PROVE  Due(c)
<1>1. Lives(c) /\ PolicyOf(c) /\ w # NoWindow
  BY DEF WindowInv, Records, PolicyInv, Windows, NoWindow
<1>2. ~SamePolicy(native[c], configuration[c])
  BY <1>1 DEF PolicyOf, KeepsParent, SamePolicy
<1> QED BY <1>1, <1>2 DEF PolicyOf, Lags, Due, SamePolicy

LEMMA QuietPairs ==
  ASSUME WindowInv, PairInv, Plain(stack), Plain(stack'), ~PolicyTold,
         UNCHANGED <<managed, lifecycle, configuration, sources, overtaken>>,
         \A w \in Windows : Due(w) => Due(w)'
  PROVE  PairInv'
<1>1. SamePolicies
  BY DEF SamePolicies, SamePolicy
<1> QED BY <1>1, PairsKept

LEMMA SteadyPairs ==
  ASSUME WindowInv, PairInv, Plain(stack), Plain(stack'), ~PolicyTold,
         UNCHANGED <<managed, record, pending, overtaken>>
  PROVE  PairInv'
<1>1. \A w \in Windows : Due(w) => Due(w)'
  BY DEF Due, Lives, SamePolicy, record
<1> QED BY <1>1, QuietPairs DEF record

(* A window that begins to close is still above the others, but no modal     *)
(* window any more.                                                          *)
LEMMA GoingPairs ==
  ASSUME WindowInv, PairInv, Plain(stack), Plain(stack'), ~PolicyTold,
         NEW w \in Windows, IsOpen(w), lifecycle' = [lifecycle EXCEPT ![w] = "Destroying"],
         UNCHANGED <<managed, configuration, sources, pending, overtaken>>
  PROVE  PairInv'
<1>1. TypeOK /\ SamePolicies
  BY DEF WindowInv, SamePolicies, SamePolicy
<1>2. \A v \in Windows : (IsOpen(v)' <=> IsOpen(v) /\ v # w) /\ (Lives(v)' <=> Lives(v))
  BY <1>1 DEF TypeOK, IsOpen, Lives
<1>3. \A v \in Windows : Due(v) => Due(v)'
  BY <1>2 DEF Due, SamePolicy
<1> SUFFICES ASSUME ~overtaken', ~PolicyTold', NEW m \in Windows, NEW t \in Windows, IsOpen(t)', IsOpen(m)'
             PROVE  Justified(m, t)' /\ (m \in DesiredSources(t)' => m \in sources'[t])
  BY PlainPairsNext
<1>4. IsOpen(t) /\ IsOpen(m) /\ ~overtaken
  BY <1>2
<1>5. Justified(m, t) /\ (m \in DesiredSources(t) => m \in sources[t])
  BY <1>4, PlainPairs
<1>6. Ancestors(m)' = Ancestors(m) /\ (Behind(m) => Behind(m)')
  BY <1>1, <1>3, AncestorsKept, BehindKept
<1>7. m \in DesiredSources(t)' <=> m \in DesiredSources(t)
  BY <1>4, <1>6 DEF DesiredSources, ShouldSuppress
<1> QED BY <1>5, <1>6, <1>7 DEF Justified

LEMMA OutsideTop ==
  ASSUME WindowInv, Nested(stack), Outside \/ ReleaseNext
  PROVE  /\ stack # <<>> /\ Pop \in Seq(Frame) /\ Top \in Begun /\ Top \in Frame
         /\ Begun = Range(Pop) \cup {Top} /\ ~PolicyTold
<1>1. stack # <<>> /\ Top.op # "notify"
  BY DEF Outside, FlushPending, Ask, Cancelled, Closes, Remove, Finalize, Erase, ClosedReported,
         DestroyNext, ShutdownBackend, ReleaseNext, InFrame
<1> QED BY <1>1, StackTop, ToldLast DEF WindowInv, TypeOK

LEMMA ReleasePairs ==
  ASSUME WindowInv, PolicyInv, PairInv, Nested(stack), ReleaseNext
  PROVE  PairInv'
<1>1. PICK t \in Top.targets, rest \in Seq(Frame) :
        /\ t \in Windows /\ Told(rest) /\ Follows(rest)
        /\ \A s \in Windows : s # t => sources'[s] = sources[s]
        /\ Lives(t) => sources'[t] = sources[t] \ {Top.window}
  BY ReleaseShape
<1>2. Plain(stack) /\ Plain(stack') /\ ~PolicyTold
  BY PoppedPlain, OutsideTop
<1>3. ~IsOpen(Top.window)
  <2>1. Top \in Begun /\ Top \in Frame /\ Top.op = "release"
    BY OutsideTop DEF ReleaseNext, InFrame
  <2>2. Top.window \in Windows /\ Releasing(Top.window)
    BY <2>1, FrameFields DEF Releasing
  <2> QED BY <2>2 DEF WindowInv, Duties, IsOpen
<1>4. UNCHANGED <<managed, lifecycle, pending, overtaken>>
  BY DEF ReleaseNext
<1>5. \A m, s \in Windows : IsOpen(m) /\ IsOpen(s) => (m \in sources'[s] <=> m \in sources[s])
  BY <1>1, <1>3 DEF Lives, IsOpen
<1>6. ~PolicyTold' => SamePolicies /\ \A w \in Windows : Due(w) => Due(w)'
  BY <1>1, <1>4, FollowsTells, SameDue
<1> QED BY <1>2, <1>4, <1>5, <1>6, PairsKept

LEMMA FlushPairs ==
  ASSUME WindowInv, PolicyInv, PairInv, Nested(stack), FlushPending
  PROVE  PairInv'
<1> DEFINE w == Top.window
<1>1. /\ w \in Windows
      /\ \A v \in Windows : v # w => configuration'[v] = configuration[v]
      /\ IF pending[w] = NoConfiguration \/ ~Lives(w)
         THEN configuration'[w] = configuration[w]
         ELSE /\ SamePolicy(configuration'[w], pending[w])
              /\ SamePolicy(pending[w], configuration[w]) \/ TellsPolicy(Pop)
  BY FlushFollows
<1>2. Plain(stack) /\ Plain(stack') /\ ~PolicyTold /\ Pop \in Seq(Frame)
  BY PoppedPlain, OutsideTop DEF Outside
<1>3. /\ UNCHANGED <<managed, lifecycle, sources, overtaken>>
      /\ pending' = [pending EXCEPT ![w] = NoConfiguration]
  BY DEF FlushPending
<1>4. ASSUME ~PolicyTold' PROVE SamePolicies /\ \A v \in Windows : Due(v) => Due(v)'
  <2>1. ~TellsPolicy(Pop)
    BY <1>2, <1>4, NotTold
  <2>2. pending[w] = NoConfiguration \/ ~Lives(w)
        \/ (SamePolicy(configuration'[w], configuration[w]) /\ SamePolicy(pending[w], configuration[w]))
    BY <1>1, <2>1 DEF SamePolicy
  <2>3. SamePolicies
    BY <1>1, <2>2 DEF SamePolicies, SamePolicy
  <2>4. ~Due(w)
    BY <2>2 DEF Due, SamePolicy
  <2>5. \A v \in Windows : v # w => pending'[v] = pending[v] /\ configuration'[v] = configuration[v]
    BY <1>1, <1>3 DEF WindowInv, TypeOK
  <2> QED BY <1>3, <2>3, <2>4, <2>5 DEF Due, Lives, SamePolicy
<1> QED BY <1>2, <1>3, <1>4, PairsKept

(* At the end of a window every other one that is managed is still in the    *)
(* backend.                                                                  *)
LEMMA OthersExist ==
  ASSUME WindowInv, Nested(stack), Finalize \/ Erase
  PROVE  /\ Top.window \in Windows /\ ~Exists(Top.window)
         /\ \A v \in managed : v # Top.window => Exists(v) /\ IsOpen(v)
         /\ \A v \in managed : v # Top.window => configuration[v].parent \in Windows \cup {NoWindow}
<1>1. /\ stack # <<>> /\ Top \in Begun /\ Top \in Frame /\ Top.op \in {"finalize", "release"}
  BY OutsideTop DEF Outside, Finalize, Erase, InFrame
<1>2. Top.window \in Windows /\ Free(Pop) /\ Begun = Range(Pop) \cup {Top}
  BY <1>1, FrameFields, NestedPopped DEF WindowInv, TypeOK, Calm
<1>3. \A v : Finalizing(v) \/ Releasing(v) \/ Leaving(v) => v = Top.window
  BY <1>1, <1>2 DEF Finalizing, Releasing, Leaving, Free
<1>4. ~Exists(Top.window)
  BY <1>1, <1>2 DEF WindowInv, Duties, Records, Finalizing, Releasing, Lives
<1>5. \A v \in managed : v # Top.window => Exists(v) /\ IsOpen(v)
  BY <1>3 DEF WindowInv, TypeOK, Duties, Records, Lives, IsOpen
<1>6. \A v \in Windows : IsOpen(v) => configuration[v].parent \in Windows \cup {NoWindow}
  BY ConfigurationFields DEF WindowInv, Records, Lives, IsOpen
<1> QED BY <1>2, <1>4, <1>5, <1>6 DEF WindowInv, TypeOK

LEMMA ForgetPairs ==
  ASSUME WindowInv, PolicyInv, PairInv, Nested(stack), Finalize \/ Erase, Forget(Top.window),
         lifecycle' = [lifecycle EXCEPT ![Top.window] = "Destroyed"]
  PROVE  PairInv'
<1> DEFINE w == Top.window
<1>1. Plain(stack) /\ Plain(stack') /\ ~PolicyTold
  BY PoppedPlain, OutsideTop DEF Outside
<1>2. /\ w \in Windows /\ ~Exists(w)
      /\ \A v \in managed : v # w => Exists(v) /\ IsOpen(v)
      /\ \A v \in managed \ {w} : configuration[v].parent \in Windows \cup {NoWindow}
  BY OthersExist
<1>3. UNCHANGED <<pending, native, overtaken>>
  BY DEF Finalize, Erase
<1>4. /\ managed' = managed \ {w}
      /\ \A v \in Windows : v # w => configuration'[v] = configuration[v] /\ sources'[v] = sources[v]
      /\ \A v \in Windows : IsOpen(v)' <=> IsOpen(v) /\ v # w
      /\ \A v \in Windows : v # w => (Lives(v)' <=> Lives(v))
  BY <1>2 DEF Forget, WindowInv, TypeOK, IsOpen, Lives
<1>5. TypeOK /\ managed \subseteq Windows /\ \A v \in Windows : IsOpen(v) => v \in managed
  BY DEF WindowInv, TypeOK, Records, IsOpen, Lives
<1> HIDE DEF w
<1> SUFFICES ASSUME ~overtaken', ~PolicyTold', NEW m \in Windows, NEW t \in Windows, IsOpen(t)', IsOpen(m)'
             PROVE  Justified(m, t)' /\ (m \in DesiredSources(t)' => m \in sources'[t])
  BY <1>1, PlainPairsNext
<1>6. IsOpen(t) /\ IsOpen(m) /\ t # w /\ m # w /\ m \in managed /\ t \in managed /\ ~overtaken
  BY <1>3, <1>4, <1>5
<1>7. Justified(m, t) /\ (m \in DesiredSources(t) => m \in sources[t])
  BY <1>1, <1>6, PlainPairs
<1>8. sources'[t] = sources[t] /\ configuration'[m] = configuration[m] /\ configuration'[t] = configuration[t]
  BY <1>4, <1>6
<1>9. /\ Ancestors(m)' \subseteq Ancestors(m)
      /\ \/ Ancestors(m)' = Ancestors(m) /\ w \notin Ancestors(m)
         \/ \E c \in managed \ {w} : c \in {m} \cup Ancestors(m)' /\ configuration[c].parent = w
  BY <1>2, <1>4, <1>5, <1>6, ForgottenAncestors
<1>10. m \in DesiredSources(t)' => m \in DesiredSources(t)
  BY <1>4, <1>6, <1>8, <1>9 DEF DesiredSources, ShouldSuppress
<1>11. ASSUME NEW x \in Windows, x # w, Due(x) PROVE Due(x)'
  BY <1>3, <1>4, <1>11 DEF Due, SamePolicy
<1>12. Justified(m, t)'
  <2>1. CASE \E c \in managed \ {w} : c \in {m} \cup Ancestors(m)' /\ configuration[c].parent = w
    <3>1. PICK c \in managed \ {w} : c \in {m} \cup Ancestors(m)' /\ configuration[c].parent = w
      BY <2>1
    <3>2. Due(c)
      BY <1>2, <1>5, <3>1, OrphanIsDue
    <3>3. c \in Windows /\ Due(c)'
      BY <1>5, <1>11, <3>1, <3>2
    <3> QED BY <3>1, <3>3 DEF Justified, Behind
  <2>2. CASE Ancestors(m)' = Ancestors(m) /\ w \notin Ancestors(m)
    <3>1. m \in DesiredSources(t) => m \in DesiredSources(t)'
      BY <1>4, <1>6, <1>8, <2>2 DEF DesiredSources, ShouldSuppress
    <3>2. Behind(m) => Behind(m)'
      BY <1>6, <1>11, <2>2 DEF Behind
    <3> QED BY <1>7, <1>8, <3>1, <3>2 DEF Justified
  <2> QED BY <1>9, <2>1, <2>2
<1> QED BY <1>7, <1>8, <1>10, <1>12

LEMMA FinalizePairs ==
  ASSUME WindowInv, PolicyInv, PairInv, Nested(stack), Finalize
  PROVE  PairInv'
<1> DEFINE w == Top.window
<1>1. Plain(stack) /\ Plain(stack') /\ ~PolicyTold
  BY PoppedPlain, OutsideTop DEF Outside
<1>2. /\ w \in Windows /\ ~Exists(w)
      /\ \A v \in managed : v # w => Exists(v) /\ IsOpen(v)
      /\ \A v \in managed \ {w} : configuration[v].parent \in Windows \cup {NoWindow}
  BY OthersExist
<1>3. UNCHANGED <<pending, native, overtaken>>
  BY DEF Finalize
<1>4. CASE w \notin managed \/ lifecycle[w] = "Destroyed"
  <2>1. UNCHANGED <<managed, record>>
    BY <1>4 DEF Finalize
  <2> QED BY <1>1, <1>3, <2>1, SteadyPairs
<1>5. CASE w \in managed /\ lifecycle[w] # "Destroyed" /\ CoveredTargets(w) = {}
  <2>1. Forget(w) /\ lifecycle' = [lifecycle EXCEPT ![w] = "Destroyed"]
    BY <1>5 DEF Finalize
  <2> QED BY <2>1, ForgetPairs
<1>6. CASE w \in managed /\ lifecycle[w] # "Destroyed" /\ CoveredTargets(w) # {}
  <2>1. UNCHANGED <<managed, configuration, sources>> /\ lifecycle' = [lifecycle EXCEPT ![w] = "Destroyed"]
    BY <1>6 DEF Finalize
  <2>2. TypeOK /\ managed \subseteq Windows /\ \A v \in Windows : IsOpen(v) => v \in managed
    BY DEF WindowInv, TypeOK, Records, IsOpen, Lives
  <2>3. Lives(w)
    BY <1>2, <1>6, <2>2 DEF Lives, WindowInv, Records, TypeOK
  <2>4. configuration[w].parent \in Windows \cup {NoWindow}
    BY <1>2, <2>3, ConfigurationFields DEF WindowInv, Records
  <2>5. /\ \A v \in Windows : IsOpen(v)' <=> IsOpen(v) /\ v # w
        /\ \A v \in Windows : v # w => (Lives(v)' <=> Lives(v))
    BY <1>2, <2>1, <2>2 DEF TypeOK, IsOpen, Lives
  <2>6. SamePolicies
    BY <2>1 DEF SamePolicies, SamePolicy
  <2> HIDE DEF w
  <2> SUFFICES ASSUME ~overtaken', ~PolicyTold', NEW m \in Windows, NEW t \in Windows, IsOpen(t)', IsOpen(m)'
               PROVE  Justified(m, t)' /\ (m \in DesiredSources(t)' => m \in sources'[t])
    BY <1>1, PlainPairsNext
  <2>7. IsOpen(t) /\ IsOpen(m) /\ t # w /\ m # w /\ m \in managed /\ t \in managed /\ ~overtaken
    BY <1>3, <2>2, <2>5
  <2>8. Justified(m, t) /\ (m \in DesiredSources(t) => m \in sources[t])
    BY <1>1, <2>7, PlainPairs
  <2>9. Ancestors(m)' = Ancestors(m)
    BY <2>1, <2>2, <2>6, AncestorsKept
  <2>10. m \in DesiredSources(t)' <=> m \in DesiredSources(t)
    BY <2>1, <2>7, <2>9 DEF DesiredSources, ShouldSuppress
  <2>11. ASSUME NEW x \in Windows, x # w, Due(x) PROVE Due(x)'
    BY <1>3, <2>1, <2>5, <2>11 DEF Due, SamePolicy
  <2>12. ASSUME Behind(m) PROVE Behind(m)'
    <3>1. PICK x \in Windows : x \in {m} \cup Ancestors(m) /\ Due(x)
      BY <2>12 DEF Behind
    <3>2. CASE x # w
      BY <2>9, <2>11, <3>1, <3>2 DEF Behind
    <3>3. CASE x = w
      <4>1. ParentsWithin({m} \cup managed, Windows)
        BY <1>2, <2>4, <2>7 DEF ParentsWithin
      <4>2. ReachesUp(m, Ancestors(m)) /\ Ancestors(m) \in SUBSET Windows
        BY <4>1, AncestorsReachUp
      <4>3. ParentsWithin(({m} \cup (Ancestors(m) \cap managed)) \ {w}, Ancestors(m))
        BY <4>2 DEF ReachesUp, ParentsWithin
      <4>4. w \in Ancestors(m)
        BY <2>7, <3>1, <3>3
      <4>5. PICK c \in ({m} \cup (Ancestors(m) \cap managed)) \ {w} : configuration[c].parent = w
        BY <1>2, <2>2, <2>7, <4>2, <4>3, <4>4, Severed
      <4>6. c \in managed /\ c # w /\ c \in Windows /\ c \in {m} \cup Ancestors(m)
        BY <2>2, <2>7, <4>5
      <4>7. Due(c)
        BY <1>2, <4>5, <4>6, OrphanIsDue
      <4> QED BY <2>9, <2>11, <4>6, <4>7 DEF Behind
    <3> QED BY <3>2, <3>3
  <2> QED BY <2>1, <2>8, <2>10, <2>12 DEF Justified
<1> QED BY <1>4, <1>5, <1>6

LEMMA ErasePairs ==
  ASSUME WindowInv, PolicyInv, PairInv, Nested(stack), Erase
  PROVE  PairInv'
<1>1. Top \in Begun /\ Top.op = "release" /\ Top.window \in Windows
  BY OutsideTop, OthersExist DEF Outside, Erase, InFrame
<1>2. lifecycle[Top.window] = "Destroyed"
  BY <1>1 DEF WindowInv, Duties, Releasing
<1>3. lifecycle' = [lifecycle EXCEPT ![Top.window] = "Destroyed"]
  BY <1>1, <1>2 DEF Erase, WindowInv, TypeOK
<1>4. Forget(Top.window)
  BY DEF Erase
<1> QED BY <1>3, <1>4, ForgetPairs

------------------------------------------------------------------------------
(* The layers themselves.                                                    *)
LEMMA FreeIsOpen ==
  ASSUME WindowInv, Free(stack)
  PROVE  /\ \A v \in Windows : Lives(v) => IsOpen(v)
         /\ \A v \in managed : Exists(v) /\ IsOpen(v)
<1>1. \A v : ~Finalizing(v) /\ ~Releasing(v) /\ ~Leaving(v)
  BY DEF Finalizing, Releasing, Leaving, Free, Begun
<1> QED BY <1>1 DEF WindowInv, TypeOK, Duties, Records, Lives, IsOpen

LEMMA NewPairs ==
  ASSUME "notify" \notin ReentrantFrames, WindowInv, PolicyInv, CoverInv, PairInv, Free(stack),
         NEW c \in Commands, c.kind = "create", CanCreate(c), CreateWindow(c), UNCHANGED overtaken
  PROVE  PairInv'
<1>0. /\ TypeOK /\ Records /\ stack \in Seq(Frame) /\ managed \subseteq Windows /\ Plain(stack) /\ ~PolicyTold
      /\ \A f \in Begun : f.op \notin {"reconcile", "refresh", "release", "finalize", "notify"}
  BY DEF WindowInv, TypeOK, Free, Plain, Layers, Calm, PolicyTold, Begun
<1>1. PICK w \in Windows :
        /\ ~Created(w) /\ w \notin managed /\ ~Exists(w) /\ pending[w] = NoConfiguration
        /\ \A v \in managed : v < w
        /\ lifecycle' = [lifecycle EXCEPT ![w] = "Open"]
        /\ managed' = managed \cup {w}
        /\ \A v \in Windows : v # w => native'[v] = native[v] /\ configuration'[v] = configuration[v]
        /\ native'[w] = configuration'[w] /\ Exists(w)'
        /\ configuration'[w].parent = c.parent /\ configuration'[w].modality = c.modality
        /\ \A u \in Windows : ~Created(u) => u = w \/ w < u
        /\ stack' = Refreshing(stack, w, CoveredBy(w, c.modality), managed)
        /\ UNCHANGED <<sources, pending>>
  BY CreatedFacts
<1> DEFINE above == CoveredBy(w, c.modality)
           e == RefreshFrame(w, above, managed)
<1>2. above \subseteq managed /\ (c.modality = "Modeless" => above = managed)
  BY DEF CoveredBy
<1>3. e \in Frame /\ e.op = "refresh" /\ e.window = w /\ e.above = above /\ e.below = managed
  <2>1. above \in SUBSET Windows /\ managed \in SUBSET Windows
    BY <1>0, <1>2
  <2> HIDE DEF above
  <2>2. e \in Frame
    BY <2>1, WindowFrames DEF RefreshFrame
  <2> QED BY <2>2 DEF RefreshFrame
<1>4. stack' = IF managed = {} THEN stack ELSE Append(stack, e)
  BY <1>1, <1>2 DEF Refreshing, RefreshFrame
<1> HIDE DEF above, e
<1>5. PICK g \in Frame : g = e
  BY <1>3
<1>6. Begun' = IF managed = {} THEN Begun ELSE Begun \cup {g}
  <2>1. Range(Append(stack, e)) = Range(stack) \cup {e}
    BY <1>0, <1>3, Pushed
  <2> QED BY <1>4, <1>5, <2>1 DEF Begun
<1>7. \A f \in Begun' : f.op # "reconcile"
  BY <1>0, <1>3, <1>5, <1>6
<1>8. \A v \in Windows : (IsOpen(v)' <=> IsOpen(v) \/ v = w) /\ (Lives(v)' <=> Lives(v) \/ v = w)
  BY <1>0, <1>1 DEF TypeOK, IsOpen, Lives
<1>9. ~Lives(w) /\ \A v \in managed : Lives(v) /\ IsOpen(v)
  BY <1>0, <1>1, FreeIsOpen DEF Created, IsOpen, Lives
<1>15. \A v \in Windows : IsOpen(v) => v \in managed
  BY <1>0 DEF Records, Lives, IsOpen
<1>10. \A v \in managed : configuration[v].parent \in (Windows \ {w}) \cup {NoWindow}
  <2>1. \A v \in managed : configuration[v].parent \in Windows \cup {NoWindow}
    BY <1>0, <1>9, ConfigurationFields DEF Records
  <2>2. \A v \in managed : configuration[v].parent # NoWindow => Created(configuration[v].parent)
    BY <1>0, <1>9 DEF PolicyInv, PolicyOf, WereCreated
  <2> QED BY <1>1, <2>1, <2>2
<1> SUFFICES ASSUME ~overtaken', ~PolicyTold', NEW m \in Windows, NEW t \in Windows, IsOpen(t)', IsOpen(m)'
             PROVE  Justified(m, t)' /\ Recorded(m, t)'
  BY <1>7 DEF PairInv, Pairs
<1>11. ~overtaken
  OBVIOUS
<1>12. CASE m # w /\ t # w
  <2>1. IsOpen(m) /\ IsOpen(t) /\ m \in managed /\ t \in managed
    BY <1>8, <1>12, <1>15
  <2>2. Justified(m, t) /\ (m \in DesiredSources(t) => m \in sources[t])
    BY <1>0, <1>11, <2>1, PlainPairs
  <2>3. Ancestors(m)' = Ancestors(m)
    BY <1>0, <1>1, <1>10, <2>1, CreatedAncestors
  <2>4. m \in DesiredSources(t)' <=> m \in DesiredSources(t)
    <3>1. configuration'[m] = configuration[m] /\ configuration'[t] = configuration[t] /\ m \in managed'
      BY <1>1, <1>12, <2>1
    <3> QED BY <1>8, <1>12, <2>1, <2>3, <3>1 DEF DesiredSources, ShouldSuppress
  <2>5. ASSUME NEW x \in Windows, Due(x) PROVE Due(x)'
    <3>1. x # w
      BY <1>1, <2>5 DEF Due
    <3> QED BY <1>1, <1>8, <2>5, <3>1 DEF Due, SamePolicy
  <2>6. Behind(m) => Behind(m)'
    BY <2>3, <2>5 DEF Behind
  <2> QED BY <1>1, <2>2, <2>4, <2>6 DEF Justified, Recorded
<1>13. CASE t = w
  <2>1. sources'[t] = {}
    BY <1>0, <1>1, <1>13 DEF Records, Created
  <2>2. ASSUME m \in DesiredSources(t)' PROVE Unconsidered(m, t)'
    <3>1. m \in managed' /\ m # t /\ (m < t => configuration'[t].modality = "Modeless")
      BY <2>2 DEF DesiredSources, Older
    <3>2. m \in managed
      BY <1>1, <1>13, <3>1
    <3>3. m \in above
      BY <1>1, <1>2, <1>13, <3>1, <3>2
    <3>4. Considered(g, m, t) /\ g \in Begun' /\ g.op = "refresh"
      <4>1. g \in Begun'
        BY <1>6, <3>2
      <4>2. g.op = "refresh" /\ g.window = w /\ g.above = above
        BY <1>3, <1>5
      <4> QED BY <1>13, <3>3, <4>1, <4>2 DEF Considered
    <3> QED BY <3>4 DEF Unconsidered
  <2> QED BY <2>1, <2>2 DEF Justified, Recorded
<1>14. CASE m = w /\ t # w
  <2>1. IsOpen(t) /\ t \in managed
    BY <1>8, <1>14, <1>15
  <2>2. w \notin sources[t]
    BY <1>0, <1>9, <2>1 DEF CoverInv, ReleasedFrom
  <2>3. Considered(g, m, t) /\ g \in Begun' /\ g.op = "refresh"
    BY <1>3, <1>5, <1>6, <1>14, <2>1 DEF Considered
  <2> QED BY <1>1, <1>14, <2>2, <2>3 DEF Justified, Recorded, Unconsidered
<1> QED BY <1>12, <1>13, <1>14

LEMMA RefreshPairs ==
  ASSUME WindowInv, PolicyInv, CoverInv, RefreshInv, PairInv, Nested(stack), RefreshNext
  PROVE  PairInv'
<1>1. PICK modal \in Windows, target \in Windows, above \in SUBSET Windows, below \in SUBSET Windows,
           rest \in Seq(Frame) :
        /\ RefreshCase(modal, target, above, below)
        /\ Considers(modal, target, rest) /\ Told(rest) /\ Follows(rest)
        /\ IF above \cup below = {} THEN Range(rest) = Range(Pop)
           ELSE Range(rest) = Range(Pop) \cup {RefreshFrame(Top.window, above, below)}
        /\ Nested(rest) /\ Nested(stack')
  BY RefreshShape
<1>2. /\ stack # <<>> /\ Top.op = "refresh" /\ Top \in Begun /\ Top.window \in Windows
      /\ Free(Pop) /\ Begun = Range(Pop) \cup {Top}
  BY RefreshShape
<1>3. TypeOK /\ UNCHANGED <<managed, lifecycle, pending, overtaken>> /\ ~PolicyTold
  BY <1>2, ToldLast DEF RefreshNext, WindowInv
<1>4. PICK e : e = RefreshFrame(Top.window, above, below)
  OBVIOUS
<1>5. e.op = "refresh" /\ e.window = Top.window /\ e.above = above /\ e.below = below
  BY <1>4 DEF RefreshFrame
<1>6. \A f \in Begun : f = Top \/ f.op \notin Layers
  BY <1>2 DEF Free, Layers, Calm
<1>7. \A f \in Begun' : f = e \/ f.op \notin Layers
  <2>1. \A f \in Begun' : f \in Range(rest) \/ f.op = "notify"
    BY <1>1, FramesTold
  <2> QED BY <1>1, <1>2, <1>4, <2>1 DEF Free, Layers, Calm
<1>8. above \cup below # {} => e \in Begun'
  BY <1>1, <1>4, FramesTold
<1> SUFFICES ASSUME ~overtaken', ~PolicyTold', NEW m \in Windows, NEW t \in Windows, IsOpen(t)', IsOpen(m)'
             PROVE  Justified(m, t)' /\ Recorded(m, t)'
  BY <1>5, <1>7 DEF PairInv, Pairs, Layers
<1>9. SamePolicies
  BY <1>1, FollowsTells
<1>10. IsOpen(t) /\ IsOpen(m) /\ ~overtaken /\ ~Awaited(t)
  BY <1>2, <1>3, <1>6 DEF IsOpen, Awaited, Layers
<1>11. Justified(m, t) /\ Recorded(m, t)
  BY <1>3, <1>10 DEF PairInv, Pairs
<1>12. DesiredSources(t)' = DesiredSources(t) /\ (Behind(m) => Behind(m)')
  BY <1>3, <1>9, DesiredKept, BehindKept, SameDue
<1>13. /\ m \in sources[t] => m \in sources'[t]
       /\ m \in sources'[t] => m \in sources[t] \/ (m = modal /\ t = target /\ ShouldSuppress(m, t))
       /\ m = modal /\ t = target /\ ShouldSuppress(m, t) => m \in sources'[t]
  <2> DEFINE adds == ShouldSuppress(modal, target) /\ IsOpen(target) /\ modal \notin sources[target]
  <2>1. adds => sources' = [sources EXCEPT ![target] = sources[target] \cup {modal}]
    BY <1>1 DEF Considers, AddSuppression
  <2>2. ~adds => sources' = sources
    BY <1>1 DEF Considers, AddSuppression
  <2>3. sources \in [Windows -> SUBSET Windows]
    BY <1>3 DEF TypeOK
  <2>4. CASE adds
    BY <2>1, <2>3, <2>4
  <2>5. CASE ~adds
    BY <1>10, <2>2, <2>5
  <2> QED BY <2>4, <2>5
<1>14. ASSUME m = modal, t = target, ShouldSuppress(m, t) PROVE m \in DesiredSources(t)
  <2>1. RefreshOf(Top) /\ Top.window \notin Top.above \cup Top.below
    BY <1>2 DEF RefreshInv, CoverInv, WellFormed
  <2>2. m \in managed /\ m # t
    BY <1>1, <1>2, <1>10, <1>14, <2>1 DEF RefreshCase, RefreshOf, WindowInv, Records, Lives, IsOpen
  <2>3. Older(m, t) => configuration[t].modality = "Modeless"
    BY <1>1, <1>2, <1>14, <2>1 DEF RefreshCase, RefreshOf, Older, Windows
  <2> QED BY <1>14, <2>2, <2>3 DEF DesiredSources
<1>15. ASSUME Unconsidered(m, t), ~(m = modal /\ t = target) PROVE Unconsidered(m, t)'
  <2>1. Considered(Top, m, t)
    BY <1>6, <1>15 DEF Unconsidered, Layers
  <2>2. Considered(e, m, t)
    BY <1>1, <1>5, <1>15, <2>1 DEF Considered, RefreshCase
  <2>3. above \cup below # {}
    BY <1>5, <2>2 DEF Considered
  <2> QED BY <1>5, <1>8, <2>2, <2>3 DEF Unconsidered
<1>16. m \in DesiredSources(t) => ShouldSuppress(m, t)
  BY DEF DesiredSources
<1> QED BY <1>11, <1>12, <1>13, <1>14, <1>15, <1>16 DEF Justified, Recorded

LEMMA ReconcilePairs ==
  ASSUME WindowInv, PolicyInv, PairInv, Nested(stack), ReconcileNext
  PROVE  PairInv'
<1>1. PICK t \in Windows, rest \in Seq(Frame) :
        /\ t \in Top.targets
        /\ Settles(t, rest) /\ Told(rest) /\ Follows(rest)
        /\ IF Top.targets \ {t} = {} THEN Range(rest) = Range(Pop)
           ELSE Range(rest) = Range(Pop) \cup {ReconcileFrame(Top.targets \ {t}, Top.desired)}
        /\ Nested(rest) /\ Nested(stack')
  BY ReconcileShape
<1>2. /\ stack # <<>> /\ Top.op = "reconcile" /\ Top \in Begun
      /\ Begun = Range(Pop) \cup {Top} /\ Top.desired \in [Windows -> SUBSET Windows]
  BY ReconcileShape
<1>3. TypeOK /\ Records /\ UNCHANGED <<managed, lifecycle, pending, overtaken>> /\ ~PolicyTold
  BY <1>2, ToldLast DEF ReconcileNext, WindowInv
<1>4. PICK e, desired : e = ReconcileFrame(Top.targets \ {t}, Top.desired) /\ desired = Top.desired
  OBVIOUS
<1>5. e.op = "reconcile" /\ e.targets = Top.targets \ {t} /\ e.desired = desired
  BY <1>4 DEF ReconcileFrame
<1>6. /\ Range(Pop) \subseteq Begun' /\ (Top.targets \ {t} # {} => e \in Begun')
      /\ \A f \in Begun' : f \in Range(Pop) \/ f = e \/ f.op = "notify"
  BY <1>1, <1>4, FramesTold
<1> SUFFICES ASSUME ~overtaken', ~PolicyTold'
             PROVE  /\ \A f \in Begun' : f.op = "reconcile" => Replays(f.desired)'
                    /\ \A m, s \in Windows : Pairs(m, s)'
  BY DEF PairInv, Replays
<1>7. SamePolicies
  BY <1>1, FollowsTells
<1>8. \A s \in Windows : DesiredSources(s)' = DesiredSources(s)
  BY <1>3, <1>7, DesiredKept
<1>9. \A m \in Windows : Behind(m) => Behind(m)'
  BY <1>3, <1>7, BehindKept, SameDue
<1>10. /\ \A f \in Begun : f.op = "reconcile" => Replays(f.desired)
       /\ \A m, s \in Windows : Pairs(m, s)
  BY <1>3 DEF PairInv
<1>11. ASSUME NEW f \in Begun', f.op = "reconcile" PROVE Replays(f.desired)'
  <2>1. PICK g \in Begun : g.op = "reconcile" /\ f.desired = g.desired
    BY <1>2, <1>4, <1>5, <1>6, <1>11
  <2>2. Replays(f.desired)
    BY <1>10, <2>1
  <2> QED BY <1>3, <1>8, <2>2 DEF Replays, IsOpen, TypeOK
<1>12. ASSUME NEW m \in Windows, NEW s \in Windows, IsOpen(s)', IsOpen(m)', ~Awaited(s)'
       PROVE  Justified(m, s)' /\ Recorded(m, s)'
  <2>1. IsOpen(s) /\ IsOpen(m) /\ s \in managed
    BY <1>3, <1>12 DEF IsOpen, Lives, Records
  <2>2. CASE s = t
    <3>1. sources' = [sources EXCEPT ![t] = Top.desired[t]]
      BY <1>1, <2>1, <2>2 DEF Settles
    <3>2. sources'[s] = Top.desired[s]
      BY <1>3, <2>2, <3>1 DEF TypeOK
    <3>3. Top.desired[s] = DesiredSources(s)
      BY <1>2, <1>10, <2>1 DEF Replays
    <3> QED BY <1>8, <3>2, <3>3 DEF Justified, Recorded
  <2>3. CASE s # t
    <3>1. sources'[s] = sources[s]
      BY <1>1, <1>3, <2>3 DEF Settles, TypeOK
    <3>2. ~Awaited(s)
      <4> SUFFICES ASSUME NEW f \in Begun, f.op = "reconcile", s \in f.targets PROVE FALSE
        BY DEF Awaited
      <4>1. CASE f \in Range(Pop)
        BY <1>6, <1>12, <4>1 DEF Awaited
      <4>2. CASE f = Top
        BY <1>5, <1>6, <1>12, <2>3, <4>2 DEF Awaited
      <4> QED BY <1>2, <4>1, <4>2
    <3>3. Justified(m, s) /\ Recorded(m, s)
      BY <1>10, <2>1, <3>2 DEF Pairs
    <3>4. Unconsidered(m, s) => Unconsidered(m, s)'
      BY <1>2, <1>6 DEF Unconsidered
    <3> QED BY <1>8, <1>9, <3>1, <3>3, <3>4 DEF Justified, Recorded
  <2> QED BY <2>2, <2>3
<1> QED BY <1>11, <1>12 DEF Pairs

LEMMA NotifiedPairs ==
  ASSUME WindowInv, PairInv, Nested(stack), Notified
  PROVE  PairInv'
<1>1. /\ stack # <<>> /\ Top.op = "notify" /\ stack \in Seq(Frame) /\ managed \subseteq Windows
      /\ UNCHANGED <<managed, lifecycle, configuration, sources, pending>>
  BY DEF Notified, InFrame, record, WindowInv, TypeOK
<1>2. Pop \in Seq(Frame) /\ Begun = Range(Pop) \cup {Top}
  BY <1>1, StackTop
<1>3. \A s \in Windows : DesiredSources(s)' = DesiredSources(s)
  BY <1>1 DEF DesiredSources, ShouldSuppress, Ancestors, ReachesUp, IsOpen
<1>4. \A m \in Windows : Behind(m)' <=> Behind(m)
  BY <1>1 DEF Behind, Due, SamePolicy, Ancestors, ReachesUp, Lives
<1>5. CASE ~Top.policy
  <2>1. stack' = Pop /\ UNCHANGED overtaken /\ ~PolicyTold
    BY <1>1, <1>5, ToldLast DEF Notified
  <2>2. \A f : f.op \in Layers => (f \in Begun' <=> f \in Begun)
    BY <1>1, <1>2, <2>1 DEF Begun, Layers
  <2>3. /\ \A f \in Begun' : f.op = "reconcile" => f \in Begun
        /\ \A f \in Begun : f.op = "refresh" \/ f.op = "reconcile" => f \in Begun'
    BY <2>2 DEF Layers
  <2> SUFFICES ASSUME ~overtaken
               PROVE  /\ \A f \in Begun' : f.op = "reconcile" => Replays(f.desired)'
                      /\ \A m, s \in Windows : Pairs(m, s)'
    BY <2>1 DEF PairInv, Replays
  <2>4. /\ \A f \in Begun : f.op = "reconcile" => Replays(f.desired)
        /\ \A m, s \in Windows : Pairs(m, s)
    BY <2>1 DEF PairInv
  <2>5. ASSUME NEW f \in Begun', f.op = "reconcile" PROVE Replays(f.desired)'
    <3>1. Replays(f.desired)
      BY <2>3, <2>4, <2>5
    <3> QED BY <1>1, <1>3, <3>1 DEF Replays, IsOpen
  <2>6. ASSUME NEW m \in Windows, NEW s \in Windows PROVE Pairs(m, s)'
    <3>1. Awaited(s) => Awaited(s)'
      BY <2>3 DEF Awaited
    <3>2. Unconsidered(m, s) => Unconsidered(m, s)'
      BY <2>3 DEF Unconsidered
    <3>3. Pairs(m, s) /\ DesiredSources(s)' = DesiredSources(s) /\ (Behind(m)' <=> Behind(m))
      BY <1>3, <1>4, <2>4
    <3> QED BY <1>1, <3>1, <3>2, <3>3 DEF Pairs, Justified, Recorded, IsOpen
  <2> QED BY <2>5, <2>6
<1>6. CASE Top.policy
  <2> DEFINE targets == {w \in managed : IsOpen(w)}
  <2>1. /\ stack' = Reconciling(Pop, targets, Reconciled)
        /\ overtaken' = \E f \in Begun : f.op = "reconcile"
    BY <1>6 DEF Notified
  <2>2. Reconciled \in [Windows -> SUBSET Windows] /\ targets \in SUBSET Windows
    BY <1>1 DEF Reconciled, DesiredSources
  <2>3. PICK e, open : e = ReconcileFrame(targets, Reconciled) /\ open = targets
    OBVIOUS
  <2>4. e \in Frame /\ e.op = "reconcile" /\ e.targets = open /\ e.desired = Reconciled
    BY <2>2, <2>3, OtherFrames DEF ReconcileFrame
  <2>5. stack' = IF open = {} THEN Pop ELSE Append(Pop, e)
    BY <2>1, <2>3 DEF Reconciling, ReconcileFrame
  <2>6. Begun' = IF open = {} THEN Range(Pop) ELSE Range(Pop) \cup {e}
    <3>1. Range(Append(Pop, e)) = Range(Pop) \cup {e}
      BY <1>2, <2>4, Pushed
    <3> QED BY <2>5, <3>1 DEF Begun
  <2> SUFFICES ASSUME ~overtaken'
               PROVE  /\ \A f \in Begun' : f.op = "reconcile" => Replays(f.desired)'
                      /\ \A m, s \in Windows : Pairs(m, s)'
    BY DEF PairInv, Replays
  <2>7. \A f \in Begun : f.op # "reconcile"
    BY <2>1
  <2>8. \A s \in managed : Reconciled[s] = DesiredSources(s)
    BY <1>1 DEF Reconciled
  <2>9. ASSUME NEW f \in Begun', f.op = "reconcile" PROVE Replays(f.desired)'
    <3>1. f = e
      BY <1>2, <2>6, <2>7, <2>9
    <3>2. \A s \in managed : f.desired[s] = DesiredSources(s)
      BY <2>4, <2>8, <3>1
    <3> QED BY <1>1, <1>3, <3>2 DEF Replays
  <2>10. ASSUME NEW m \in Windows, NEW s \in Windows PROVE Pairs(m, s)'
    <3>1. IsOpen(s)' => s \in open
      BY <1>1, <2>3 DEF IsOpen, Lives, WindowInv, Records
    <3>2. s \in open => Awaited(s)'
      BY <2>4, <2>6 DEF Awaited
    <3> QED BY <3>1, <3>2 DEF Pairs
  <2> QED BY <2>9, <2>10
<1> QED BY <1>5, <1>6

LEMMA CalledPairs ==
  ASSUME "notify" \notin ReentrantFrames, WindowInv, PolicyInv, CoverInv, PairInv, Free(stack),
         NEW c \in Commands, Run(c)
  PROVE  PairInv'
<1>0. /\ c.kind \in {"destroy", "requestClose", "mutate", "setInput"} => c.window \in Windows
      /\ c.kind = "setInput" => c.enabled \in BOOLEAN
      /\ UNCHANGED overtaken /\ stack \in Seq(Frame)
      /\ ~PolicyTold
  BY CommandFields DEF Run, WindowInv, TypeOK, Free, PolicyTold, Begun, Calm
<1>1. CASE c.kind = "create"
  BY <1>0, <1>1, NewPairs DEF Run
<1>2. CASE c.kind # "create"
  <2>0. Plain(stack) /\ Plain(stack')
    BY <1>2, RunPlain
  <2>1. CASE c.kind = "destroy"
    <3>1. CanDestroy(c.window) /\ DestroyWindow(c.window)
      BY <2>1 DEF Run
    <3>2. /\ IsOpen(c.window) /\ c.window \in Windows
          /\ lifecycle' = [lifecycle EXCEPT ![c.window] = "Destroying"]
          /\ UNCHANGED <<managed, configuration, sources, pending, overtaken>>
      BY <1>0, <2>1, <3>1 DEF CanDestroy, DestroyWindow
    <3> QED BY <1>0, <2>0, <3>2, GoingPairs
  <2>2. CASE c.kind = "requestClose"
    <3>1. UNCHANGED <<managed, record, pending, overtaken>>
      BY <1>0, <2>2 DEF Run, RequestClose
    <3> QED BY <1>0, <2>0, <3>1, SteadyPairs
  <2>3. ASSUME Follows(stack), UNCHANGED <<managed, lifecycle, sources, pending>> PROVE PairInv'
    <3>1. ~PolicyTold' => SamePolicies /\ \A w \in Windows : Due(w) => Due(w)'
      BY <1>0, <2>3, FollowsTells, SameDue
    <3> QED BY <1>0, <2>0, <2>3, <3>1, PairsKept
  <2>4. CASE c.kind = "mutate"
    <3>1. CanChange(c.window) /\ MutateConfiguration(c.window)
      BY <2>4 DEF Run
    <3>2. Follows(stack)
      BY <1>0, <2>4, <3>1, CommandsFollow
    <3>3. UNCHANGED <<managed, lifecycle, sources, pending>>
      BY <3>1 DEF MutateConfiguration
    <3> QED BY <2>3, <3>2, <3>3
  <2>5. CASE c.kind = "setInput"
    <3>1. IsOpen(c.window) /\ SetInputEnabled(c.window, c.enabled)
      BY <2>5 DEF Run
    <3>2. Follows(stack)
      BY <1>0, <2>5, <3>1, CommandsFollow
    <3>3. UNCHANGED <<managed, lifecycle, sources, pending>>
      BY <3>1 DEF SetInputEnabled
    <3> QED BY <2>3, <3>2, <3>3
  <2> QED BY <1>2, <2>1, <2>2, <2>4, <2>5 DEF Run
<1> QED BY <1>1, <1>2

LEMMA PairInvStep ==
  ASSUME "notify" \notin ReentrantFrames, WindowInv, PolicyInv, CoverInv, RefreshInv, PairInv,
         Nested(stack), [Next]_vars
  PROVE  PairInv'
<1>1. ASSUME NEW c \in Commands, Command(c) \/ Reenter(c) PROVE PairInv'
  BY <1>1, CallsOutsideLayers, CalledPairs
<1>2. CASE RefreshNext
  BY <1>2, RefreshPairs
<1>3. CASE ReconcileNext
  BY <1>3, ReconcilePairs
<1>4. CASE Notified
  BY <1>4, NotifiedPairs
<1>5. CASE ReleaseNext
  BY <1>5, ReleasePairs
<1>6. CASE FlushPending
  BY <1>6, FlushPairs
<1>7. CASE Outside /\ UNCHANGED <<managed, record, pending, overtaken>>
  BY <1>7, PoppedPlain, OutsideTop, SteadyPairs
<1>8. CASE DetachNext
  <2>1. Plain(stack) /\ Plain(stack') /\ ~PolicyTold
    BY <1>8, DetachPlain, ToldLast
  <2>2. UNCHANGED <<managed, lifecycle, configuration, sources, overtaken>>
    BY <1>8 DEF DetachNext, record
  <2> QED BY <1>8, <2>1, <2>2, DetachedStaysDue, QuietPairs
<1>9. CASE Ask \/ Cancelled \/ Closes \/ Remove \/ ClosedReported \/ ShutdownBackend
  <2>1. UNCHANGED <<managed, record, pending, overtaken>>
    BY <1>9 DEF Ask, Cancelled, Closes, Remove, ClosedReported, ShutdownBackend
  <2> QED BY <1>7, <1>9, <2>1 DEF Outside
<1>11. CASE DestroyNext
  <2>1. UNCHANGED <<managed, configuration, requested, sources, pending, overtaken>>
    BY <1>11 DEF DestroyNext
  <2>2. CASE UNCHANGED lifecycle
    BY <1>7, <1>11, <2>1, <2>2 DEF Outside, record
  <2>3. ASSUME NEW w \in Windows, IsOpen(w), lifecycle' = [lifecycle EXCEPT ![w] = "Destroying"]
        PROVE  PairInv'
    BY <1>11, <2>1, <2>3, PoppedPlain, OutsideTop, GoingPairs DEF Outside
  <2>4. UNCHANGED lifecycle
        \/ \E w \in Windows : IsOpen(w) /\ lifecycle' = [lifecycle EXCEPT ![w] = "Destroying"]
    BY <1>11 DEF DestroyNext, WindowInv, TypeOK
  <2> QED BY <2>2, <2>3, <2>4
<1>12. CASE Finalize \/ Erase
  BY <1>12, FinalizePairs, ErasePairs
<1>13. CASE \/ RunFlush \/ DestroyAll
            \/ \E w \in Windows : ConfigurationEvent(w) \/ CloseEvent(w) \/ DestroyedEvent(w)
  <2>1. Plain(stack) /\ Plain(stack') /\ ~PolicyTold
    BY <1>13, IdlePlain, ToldLast
  <2>2. CASE RunFlush \/ DestroyAll \/ \E w \in Windows : CloseEvent(w) \/ DestroyedEvent(w)
    <3>1. UNCHANGED <<managed, record, pending, overtaken>>
      BY <2>2 DEF RunFlush, DestroyAll, CloseEvent, DestroyedEvent
    <3> QED BY <2>1, <3>1, SteadyPairs
  <2>3. ASSUME NEW w \in Windows, ConfigurationEvent(w) PROVE PairInv'
    <3>1. UNCHANGED <<managed, lifecycle, configuration, sources, overtaken>>
      BY <2>3 DEF ConfigurationEvent, record
    <3> QED BY <2>1, <2>3, <3>1, EventStaysDue, QuietPairs
  <2> QED BY <1>13, <2>2, <2>3
<1>14. CASE UNCHANGED vars \/ RequestStop
  <2>1. UNCHANGED <<managed, lifecycle, configuration, sources, pending, overtaken, stack>>
    BY <1>14 DEF vars, record, RequestStop
  <2>2. \A t \in Windows : DesiredSources(t)' = DesiredSources(t) /\ (IsOpen(t)' <=> IsOpen(t))
    BY <2>1 DEF DesiredSources, ShouldSuppress, Ancestors, ReachesUp, IsOpen
  <2>3. \A m \in Windows : Behind(m)' <=> Behind(m)
    BY <2>1 DEF Behind, Due, SamePolicy, Ancestors, ReachesUp, Lives
  <2>4. Begun' = Begun /\ (PolicyTold' <=> PolicyTold) /\ managed \subseteq Windows
    BY <2>1 DEF Begun, PolicyTold, WindowInv, TypeOK
  <2>5. \A f : Replays(f.desired)' <=> Replays(f.desired)
    BY <2>1, <2>2, <2>4 DEF Replays
  <2>6. ASSUME NEW m \in Windows, NEW t \in Windows PROVE Pairs(m, t)' <=> Pairs(m, t)
    BY <2>1, <2>2, <2>3, <2>4 DEF Pairs, Justified, Recorded, Unconsidered, Awaited
  <2> QED BY <2>1, <2>4, <2>5, <2>6 DEF PairInv
<1> QED BY <1>1, <1>2, <1>3, <1>4, <1>5, <1>6, <1>8, <1>9, <1>11, <1>12, <1>13, <1>14 DEF Next, Continue

(* Between operations, once nothing is buffered, every window is covered by  *)
(* exactly the modal windows that a replay of the creation order gives,      *)
(* unless a reconciliation was overtaken by another one; and by managed      *)
(* windows in any case (RefreshModalSuppressionForNewWindow,                 *)
(* ReleaseModalSuppression, ReconcileModalSuppression).                      *)
THEOREM SuppressionIsCurrentHolds ==
  ASSUME "notify" \notin ReentrantFrames
  PROVE  Spec => []SuppressionIsCurrent
<1> DEFINE LayerInv == Nested(stack) /\ PolicyInv /\ CoverInv /\ RefreshInv /\ ChildrenInv /\ PairInv
<1>1. Init => LayerInv
  <2> SUFFICES ASSUME Init PROVE RefreshInv /\ ChildrenInv /\ PairInv
    BY PolicyInvInit, CoverInvInit
  <2>1. Begun = {} /\ \A t \in Windows : lifecycle[t] = "none"
    BY Short DEF Init, Begun
  <2> QED BY <2>1 DEF RefreshInv, ChildrenInv, PairInv, Pairs, IsOpen
<1>2. WindowInv /\ LayerInv /\ [Next]_vars => LayerInv'
  BY NestedStep, PolicyStep, CoverInvStep, RefreshInvStep, ChildrenInvStep, PairInvStep
<1>3. WindowInv /\ LayerInv => SuppressionIsReplayed
  <2> SUFFICES ASSUME WindowInv, CoverInv, PairInv, Nested(stack),
                      stack = <<>>, \A w \in Windows : pending[w] = NoConfiguration,
                      ~overtaken, NEW t \in managed
               PROVE  sources[t] = DesiredSources(t)
    BY DEF SuppressionIsReplayed, Settled, Idle
  <2>1. TypeOK /\ Records /\ Begun = {} /\ Plain(stack) /\ ~PolicyTold
    BY Short, ToldLast DEF WindowInv, Begun, Plain
  <2>6. Free(stack)
    BY <2>1 DEF Free, Begun
  <2>2. IsOpen(t) /\ t \in Windows
    BY <2>1, <2>6, FreeIsOpen DEF TypeOK
  <2>3. \A m \in Windows : ~Behind(m)
    BY DEF Behind, Due
  <2>4. ASSUME NEW m \in sources[t] PROVE m \in DesiredSources(t)
    <3>1. m \in Windows /\ Lives(m)
      BY <2>1, <2>2 DEF TypeOK, CoverInv, ReleasedFrom
    <3>2. IsOpen(m)
      BY <2>6, <3>1, FreeIsOpen
    <3> QED BY <2>1, <2>2, <2>3, <3>1, <3>2, PlainPairs DEF Justified
  <2>5. ASSUME NEW m \in DesiredSources(t) PROVE m \in sources[t]
    <3>1. m \in Windows /\ IsOpen(m)
      BY <2>1 DEF DesiredSources, ShouldSuppress, TypeOK
    <3> QED BY <2>1, <2>2, <3>1, PlainPairs
  <2> QED BY <2>4, <2>5
<1>4. Spec => []SuppressionIsReplayed
  <2> HIDE DEF LayerInv
  <2> QED BY <1>1, <1>2, <1>3, WindowInvHolds, PTL DEF Spec
<1> QED BY <1>4, CoversWhileItLivesHolds, PTL DEF SuppressionIsCurrent

------------------------------------------------------------------------------
(* The Vulkan presenter.                                                     *)
Signals == {"reset", "pending", "signaled"}
Places == {"idle", "instance", "surface", "device", "pool", "support", "buffers", "sync0", "sync1",
           "query", "waitDevice", "waitPresentation", "create", "retire", "imageSync", "redraw", "present",
           "acquire", "waitImage", "waitShown", "record", "clear", "reset", "submit", "queuePresent",
           "destroyWindow", "destroySwapchain", "destroyDevice"}
AnySize == Sizes \cup {Zero}
FrameType == [complete : Signals, available : Signals]
ImageType == [owner : {"engine", "code", "queue"}, finished : Signals, complete : Signals,
              pending : BOOLEAN, inFlight : Frames \cup {NoFrame}]
Work == [frame : Frames, image : Images]

CallType == {"none", "attach", "redraw", "again", "detach", "shutdown"}
CpuType == [at : Places, call : CallType, size : AnySize, extent : AnySize, attempt : {0, 1},
            image : Images \cup {NoImage}, suboptimal : BOOLEAN]
WindowType == [attached : BOOLEAN, failed : BOOLEAN, extent : AnySize, frameIndex : Frames]

PresenterTypeOK ==
  /\ cpu \in CpuType
  /\ live \subseteq WindowObjects \cup {"instance", "device", "pool"}
  /\ window \in WindowType
  /\ frame \in [Frames -> FrameType]
  /\ image \in [Images -> ImageType]
  /\ submitted \in Seq(Work)
  /\ presenting \subseteq Images
  /\ stopped \in BOOLEAN /\ lost \in BOOLEAN

(* The places of an attachment that is not complete, and what it has made.   *)
Attachment == {"instance", "surface", "device", "pool", "support", "buffers", "sync0", "sync1"}
MadeBefore(place) ==
  /\ Has("surface") <=> place \notin {"instance", "surface"}
  /\ Has("buffers") <=> place \in {"sync0", "sync1"}
  /\ Has("sync0") <=> place = "sync1"
  /\ ~Has("sync1") /\ ~Has("swapchain") /\ ~Has("replacement")
NoObjects == \A object \in WindowObjects : ~Has(object)

WithoutWindow == Attachment \cup {"idle", "destroyWindow", "destroyDevice"}
WithSwapchain == {"present", "acquire", "waitImage", "waitShown", "record", "clear", "reset",
                  "submit", "queuePresent"}
WithoutSwapchain == {"imageSync"}

(* Which objects exist where: an attached window has its objects, and only   *)
(* an attached one has a swapchain.                                          *)
Objects ==
  /\ window.attached => {"instance", "device", "pool", "surface", "buffers", "sync0", "sync1"} \subseteq live
  /\ ~window.attached => cpu.at \in WithoutWindow
  /\ cpu.at \in Attachment \cup {"destroyDevice"} => ~window.attached
  /\ cpu.at \in Attachment => MadeBefore(cpu.at) /\ ~stopped
  /\ cpu.at \in {"idle", "destroyDevice"} /\ ~window.attached => NoObjects
  /\ Has("swapchain") \/ Has("replacement") => window.attached
  /\ Has("replacement") => cpu.at \in {"retire", "imageSync"}
  /\ Has("retired") => At("retire")
  /\ cpu.at \in WithSwapchain => Has("swapchain")
  /\ cpu.at \in WithoutSwapchain => ~Has("swapchain")
  /\ Has("device") /\ ~At("pool") => Has("pool")
  /\ cpu.at \in {"pool", "support", "buffers", "sync0", "sync1"} => Has("device")
  /\ cpu.at \in Attachment \ {"instance"} => Has("instance")

(* The calls that lead to a place, and what is left once the presenter stops.*)
Calls ==
  /\ cpu.at \in {"query", "waitDevice", "waitPresentation", "create", "retire", "imageSync", "destroySwapchain"}
       => cpu.call \in {"attach", "redraw", "again"}
  /\ cpu.at \in Attachment => cpu.call = "attach"
  /\ At("redraw") => cpu.call = "redraw"
  /\ At("destroyWindow") => cpu.call \in {"attach", "detach", "shutdown"}
  /\ window.failed => window.attached /\ cpu.at \in {"idle", "destroyWindow", "destroyDevice"}
  /\ stopped => \/ At("idle") /\ live = {}
                \/ At("destroyDevice")
                \/ At("destroyWindow") /\ cpu.call = "shutdown"
  /\ At("destroyDevice") => stopped
  /\ At("destroyWindow") /\ cpu.call = "shutdown" => stopped

Drawing == {"acquire", "waitImage", "waitShown", "record", "clear", "reset", "submit", "queuePresent"}
Holding == {"waitImage", "waitShown", "record", "clear", "reset", "submit"}

(* Without a swapchain nothing is under way.                                 *)
NothingUnderWay ==
  /\ ~Has("swapchain") => submitted = <<>> /\ presenting = {} /\ image = Forgotten
  /\ lost => submitted = <<>> /\ presenting = {}
  /\ cpu.at \in {"waitPresentation", "create", "retire"} => submitted = <<>>
  /\ cpu.at \in {"create", "retire"} => presenting = {}

(* A submission owns its frame's fence and its image.                        *)
Submissions ==
  /\ \A k \in DOMAIN submitted : /\ frame[submitted[k].frame].complete = "pending"
                                 /\ image[submitted[k].image].finished = "pending"
                                 /\ image[submitted[k].image].owner # "engine"
  /\ \A j, k \in DOMAIN submitted : j # k => /\ submitted[j].frame # submitted[k].frame
                                             /\ submitted[j].image # submitted[k].image

(* A frame whose fence is signaled has its semaphore back, but for the frame *)
(* that has acquired an image and not submitted it.                          *)
FramesInOrder ==
  /\ \A f \in Frames : frame[f].complete = "signaled" /\ ~window.failed
       => frame[f].available = "reset" \/ (f = CurrentFrame /\ cpu.at \in Holding)
  /\ cpu.at \in Drawing \ {"submit", "queuePresent"} => frame[CurrentFrame].complete = "signaled"
  /\ At("submit") => frame[CurrentFrame].complete = "reset"

(* The image that is drawn is the code's, and no other is.                   *)
ImagesInOrder ==
  /\ cpu.at \in Drawing \ {"acquire"} => CurrentImage \in Images
  /\ cpu.at \in Drawing \ {"acquire"} => image[CurrentImage].owner = "code"
  /\ cpu.at \in Holding => image[CurrentImage].finished = "reset"
  /\ \A i \in Images : /\ image[i].owner = "engine" => image[i].finished = "reset"
                       /\ image[i].owner = "code" => \/ window.failed
                                                     \/ i = CurrentImage /\ cpu.at \in Drawing \ {"acquire"}

(* The fence of a presentation.                                              *)
Presentations ==
  /\ \A i \in presenting : image[i].pending /\ image[i].complete = "pending"
  /\ \A i \in Images : image[i].pending \/ image[i].complete = "reset" \/ cpu.at \in {"create", "retire"}
                       \/ (lost /\ cpu.at \notin Drawing)
  /\ cpu.at \in {"record", "clear", "reset", "submit", "queuePresent"} => ~image[CurrentImage].pending

PresenterInv == /\ PresenterTypeOK /\ Objects /\ Calls /\ NothingUnderWay
                /\ Submissions /\ FramesInOrder /\ ImagesInOrder /\ Presentations

(* What follows a swapchain that was made, for each call that makes one.   *)
LEMMA RecreatedCases ==
  ASSUME cpu.call \in {"attach", "redraw", "again"}, Recreated
  PROVE  /\ cpu.call = "attach" => cpu' = NoCall
         /\ cpu.call = "redraw" => Goes("present")
         /\ cpu.call = "again" => TriesAgain
<1>1. CASE cpu.call = "attach"
  BY <1>1, Zenon DEF Recreated
<1>2. CASE cpu.call = "redraw"
  BY <1>2, Zenon DEF Recreated
<1>3. CASE cpu.call = "again"
  BY <1>3, Zenon DEF Recreated
<1> QED BY <1>1, <1>2, <1>3

(* The fields of cpu after each way of assigning it.                       *)
LEMMA NoCallFields ==
  /\ NoCall \in CpuType
  /\ NoCall.at = "idle" /\ NoCall.call = "none" /\ NoCall.image = NoImage
BY VulkanAssumption DEF NoCall, CpuType, CallType, Places, AnySize

LEMMA StartsSized ==
  ASSUME NEW place \in Places, NEW call \in CallType, NEW size \in AnySize,
         cpu' = [NoCall EXCEPT !.at = place, !.call = call, !.size = size]
  PROVE  /\ cpu' \in CpuType /\ cpu'.at = place /\ cpu'.call = call
         /\ cpu'.size = size /\ cpu'.image = NoImage
BY NoCallFields DEF CpuType

LEMMA StartRedraw ==
  ASSUME NEW size \in AnySize,
         cpu' = [NoCall EXCEPT !.call = "redraw", !.size = size,
                   !.at = IF size = Zero THEN "destroySwapchain" ELSE "redraw"]
  PROVE  cpu' \in CpuType
<1> DEFINE place == IF size = Zero THEN "destroySwapchain" ELSE "redraw"
<1>1. place \in Places /\ "redraw" \in CallType
  BY DEF Places, CallType
<1>2. cpu' = [NoCall EXCEPT !.call = "redraw", !.size = size, !.at = place]
  OBVIOUS
<1> HIDE DEF place
<1> QED
  BY <1>1, <1>2, NoCallFields DEF CpuType

LEMMA StartShutdown ==
  ASSUME cpu' = [NoCall EXCEPT !.call = "shutdown",
                         !.at = IF window.attached THEN "destroyWindow" ELSE "destroyDevice"]
  PROVE  cpu' \in CpuType
<1> DEFINE place == IF window.attached THEN "destroyWindow" ELSE "destroyDevice"
<1>1. place \in Places /\ "shutdown" \in CallType
  BY DEF Places, CallType
<1>2. cpu' = [NoCall EXCEPT !.call = "shutdown", !.at = place]
  OBVIOUS
<1> HIDE DEF place
<1> QED
  BY <1>1, <1>2, NoCallFields DEF CpuType

LEMMA StartsCall ==
  ASSUME NEW place \in Places, NEW call \in CallType,
         cpu' = [NoCall EXCEPT !.at = place, !.call = call]
  PROVE  cpu' \in CpuType /\ cpu'.at = place /\ cpu'.call = call /\ cpu'.image = NoImage
BY NoCallFields DEF CpuType

LEMMA GoesFields ==
  ASSUME NEW place \in Places, cpu \in CpuType, Goes(place)
  PROVE  /\ cpu' \in CpuType /\ cpu'.at = place
         /\ cpu'.call = cpu.call /\ cpu'.size = cpu.size /\ cpu'.image = cpu.image
BY DEF Goes, CpuType

LEMMA OutOfDateFields ==
  ASSUME cpu \in CpuType, OutOfDate
  PROVE  /\ cpu' \in CpuType /\ cpu'.at = "query"
         /\ cpu'.call = "again" /\ cpu'.image = NoImage
BY DEF OutOfDate, CpuType, Places, CallType

LEMMA TriesAgainFields ==
  ASSUME cpu \in CpuType, TriesAgain
  PROVE  /\ cpu' \in CpuType /\ cpu'.at \in {"idle", "redraw"}
         /\ cpu'.image \in {cpu.image, NoImage} /\ (cpu'.at = "redraw" => cpu'.call = "redraw")
<1>1. CASE cpu.attempt = 0
  <2>1. cpu' = [cpu EXCEPT !.at = "redraw", !.call = "redraw", !.attempt = 1]
    BY <1>1 DEF TriesAgain
  <2> QED
    BY <2>1 DEF CpuType, Places, CallType
<1>2. CASE cpu.attempt # 0
  BY <1>2, NoCallFields DEF TriesAgain
<1> QED
  BY <1>1, <1>2

LEMMA AnExtent ==
  ASSUME cpu \in CpuType, NEW extent \in Sizes,
         cpu' = [cpu EXCEPT !.at = "waitDevice", !.extent = extent]
  PROVE  /\ cpu' \in CpuType /\ cpu'.at = "waitDevice" /\ cpu'.call = cpu.call /\ cpu'.image = cpu.image
BY DEF CpuType, Places, AnySize

LEMMA AnImage ==
  ASSUME cpu \in CpuType, NEW i \in Images, NEW suboptimal \in BOOLEAN,
         cpu' = [cpu EXCEPT !.at = "waitImage", !.image = i, !.suboptimal = suboptimal]
  PROVE  /\ cpu' \in CpuType /\ cpu'.at = "waitImage" /\ cpu'.call = cpu.call /\ cpu'.image = i
BY DEF CpuType, Places

(* The fields of window after each way of assigning it.                    *)
LEMMA WithoutExtent ==
  ASSUME window \in WindowType,
         window' = [window EXCEPT !.extent = Zero, !.frameIndex = IF Has("swapchain") THEN 0 ELSE @]
  PROVE  /\ window' \in WindowType
         /\ window'.attached = window.attached /\ window'.failed = window.failed
         /\ window'.frameIndex = IF Has("swapchain") THEN 0 ELSE window.frameIndex
<1> DEFINE index == IF Has("swapchain") THEN 0 ELSE window.frameIndex
<1>1. index \in Frames
  BY DEF WindowType, Frames
<1>2. window' = [window EXCEPT !.extent = Zero, !.frameIndex = index]
  OBVIOUS
<1> QED
  BY <1>1, <1>2 DEF WindowType, AnySize

LEMMA FatalFields ==
  ASSUME window \in WindowType, Fatal
  PROVE  /\ cpu' = NoCall /\ window' \in WindowType
         /\ window'.attached = window.attached /\ window'.failed
         /\ window'.frameIndex = window.frameIndex
BY DEF WindowType, Fatal

LEMMA Installed ==
  ASSUME window \in WindowType, cpu \in CpuType,
         window' = [window EXCEPT !.extent = cpu.extent, !.frameIndex = 0, !.failed = FALSE]
  PROVE  /\ window' \in WindowType
         /\ window'.attached = window.attached /\ ~window'.failed
         /\ window'.frameIndex = 0
<1>1. cpu.extent \in AnySize
  BY DEF CpuType
<1>2. 0 \in Frames
  BY DEF Frames
<1> HIDE DEF Frames
<1> QED BY <1>1, <1>2 DEF WindowType

LEMMA NextFrame ==
  ASSUME NEW failed \in BOOLEAN, window \in WindowType,
         window' = [window EXCEPT !.frameIndex = (CurrentFrame + 1) % Cardinality(Frames),
                                  !.failed = failed]
  PROVE  /\ window' \in WindowType /\ window'.attached = window.attached /\ window'.failed = failed
         /\ window'.frameIndex # window.frameIndex
<1>1. Cardinality(Frames) = 2
  <2>1. Cardinality(0..1) = IF 0 > 1 THEN 0 ELSE 1 - 0 + 1
    <3>1. 0 \in Int /\ 1 \in Int
      OBVIOUS
    <3> QED
      BY <3>1, FS_Interval, Zenon
  <2> QED
    BY <2>1 DEF Frames
<1>2. window.frameIndex \in 0..1
  BY DEF WindowType, Frames
<1>3. (CurrentFrame + 1) % Cardinality(Frames) \in 0..1 /\ (CurrentFrame + 1) % Cardinality(Frames) # CurrentFrame
  BY <1>1, <1>2 DEF CurrentFrame
<1> QED BY <1>3 DEF WindowType, CurrentFrame, Frames

LEMMA Fields ==
  ASSUME PresenterTypeOK
  PROVE  /\ cpu.at \in Places /\ cpu.call \in CallType /\ cpu.size \in AnySize
         /\ cpu.image \in Images \cup {NoImage} /\ cpu.suboptimal \in BOOLEAN /\ cpu.extent \in AnySize
         /\ window.attached \in BOOLEAN /\ window.failed \in BOOLEAN /\ window.frameIndex \in Frames
BY DEF PresenterTypeOK, CpuType, WindowType

(* What the steps do that assign several fields at once.                   *)
LEMMA QuerySurfaceEffect ==
  ASSUME PresenterTypeOK, QuerySurface
  PROVE  /\ cpu' \in CpuType /\ cpu.at = "query" /\ cpu'.image \in {cpu.image, NoImage}
         /\ \/ cpu'.at \in {"waitDevice", "destroySwapchain"} /\ cpu'.call = cpu.call
            \/ cpu'.at = "destroyWindow" /\ cpu.call = "attach" /\ cpu'.call = "attach"
            \/ cpu'.at = "idle" /\ cpu.call # "attach"
         /\ UNCHANGED <<live, window, frame, image, submitted, presenting, stopped, lost>>
<1>1. cpu \in CpuType /\ cpu.at = "query"
  BY DEF PresenterTypeOK, QuerySurface, At
<1>2. UNCHANGED <<live, window, frame, image, submitted, presenting, stopped, lost>>
  BY DEF QuerySurface, objects, gpu
<1>3. CASE \E extent \in Sizes : cpu' = [cpu EXCEPT !.at = "waitDevice", !.extent = extent]
  BY <1>1, <1>2, <1>3, AnExtent
<1>4. CASE Goes("destroySwapchain")
  BY <1>1, <1>2, <1>4, GoesFields DEF Places
<1>5. CASE RecreateFails
  BY <1>1, <1>2, <1>5, GoesFields, NoCallFields DEF RecreateFails, Fails, Places
<1> QED
  BY <1>3, <1>4, <1>5 DEF QuerySurface

LEMMA RetireSwapchainEffect ==
  ASSUME PresenterTypeOK, RetireSwapchain
  PROVE  /\ cpu' \in CpuType /\ cpu.at = "retire" /\ cpu'.image \in {cpu.image, NoImage}
         /\ window' \in WindowType
         /\ window'.attached = window.attached /\ window'.failed = window.failed
         /\ \/ Has("replacement") /\ cpu'.at = "imageSync" /\ cpu'.call = cpu.call
            \/ ~Has("replacement") /\ cpu'.at = "destroyWindow" /\ cpu.call = "attach" /\ cpu'.call = "attach"
            \/ ~Has("replacement") /\ cpu'.at = "idle" /\ cpu.call # "attach"
         /\ live' = live \ {"swapchain", "retired"} /\ image' = Forgotten
         /\ UNCHANGED <<frame, submitted, presenting, stopped, lost>>
<1>1. cpu \in CpuType /\ cpu.at = "retire" /\ window \in WindowType
  BY DEF PresenterTypeOK, RetireSwapchain, At
<1>2. /\ live' = live \ {"swapchain", "retired"} /\ image' = Forgotten
      /\ UNCHANGED <<frame, submitted, presenting, stopped, lost>>
  BY DEF RetireSwapchain, Replaced, gpu
<1>3. /\ window' \in WindowType
      /\ window'.attached = window.attached /\ window'.failed = window.failed
  BY <1>1, WithoutExtent DEF RetireSwapchain, Replaced
<1>4. CASE Has("replacement")
  <2>1. Goes("imageSync")
    BY <1>4 DEF RetireSwapchain
  <2> QED
    BY <1>1, <1>2, <1>3, <1>4, <2>1, GoesFields DEF Places
<1>5. CASE ~Has("replacement")
  <2>1. RecreateFails
    BY <1>5 DEF RetireSwapchain
  <2> QED
    BY <1>1, <1>2, <1>3, <1>5, <2>1, GoesFields, NoCallFields DEF RecreateFails, Fails, Places
<1> QED
  BY <1>4, <1>5

LEMMA InstallSwapchainEffect ==
  ASSUME PresenterTypeOK, Calls, InstallSwapchain
  PROVE  /\ cpu' \in CpuType /\ cpu.at = "imageSync" /\ window' \in WindowType /\ window'.attached = window.attached
         /\ cpu'.image \in {cpu.image, NoImage}
         /\ \/ /\ live' = (live \ {"replacement"}) \cup {"swapchain"}
               /\ window'.frameIndex = 0 /\ ~window'.failed
               /\ \/ cpu'.at = "idle" 
                  \/ cpu'.at = "present" /\ cpu.call # "attach"
                  \/ cpu'.at = "redraw" /\ cpu'.call = "redraw" /\ cpu.call # "attach"
            \/ /\ live' = live \ {"replacement"} /\ window' = window
               /\ \/ cpu'.at = "idle" /\ cpu.call # "attach"
                  \/ cpu'.at = "destroyWindow" /\ cpu'.call = "attach"
         /\ UNCHANGED <<frame, image, submitted, presenting, stopped, lost>>
<1>0. cpu.call \in {"attach", "redraw", "again"}
  BY DEF Calls, InstallSwapchain, At
<1>1. cpu \in CpuType /\ cpu.at = "imageSync" /\ window \in WindowType
  BY DEF PresenterTypeOK, InstallSwapchain, At
<1>2. UNCHANGED <<frame, image, submitted, presenting, stopped, lost>>
  BY DEF InstallSwapchain, gpu
<1>3. ASSUME live' = (live \ {"replacement"}) \cup {"swapchain"},
             window' = [window EXCEPT !.extent = cpu.extent, !.frameIndex = 0, !.failed = FALSE], Recreated
      PROVE /\ window' \in WindowType /\ window'.attached = window.attached /\ window'.frameIndex = 0 /\ ~window'.failed
            /\ cpu' \in CpuType /\ cpu'.image \in {cpu.image, NoImage}
            /\ \/ cpu'.at = "idle" 
               \/ cpu'.at = "present" /\ cpu.call # "attach"
               \/ cpu'.at = "redraw" /\ cpu'.call = "redraw" /\ cpu.call # "attach"
  <2>1. window' \in WindowType /\ window'.attached = window.attached /\ window'.frameIndex = 0 /\ ~window'.failed
    BY <1>1, <1>3, Installed
  <2>2. CASE cpu.call = "attach"
    BY <1>1, <1>3, <2>1, <2>2, <1>0, RecreatedCases, NoCallFields
  <2>3. CASE cpu.call = "redraw"
    BY <1>1, <1>3, <2>1, <2>3, <1>0, RecreatedCases, GoesFields DEF Places
  <2>4. CASE cpu.call = "again"
    BY <1>1, <1>3, <2>1, <2>4, <1>0, RecreatedCases, TriesAgainFields
  <2> QED
    BY <2>2, <2>3, <2>4, <1>0
<1>4. ASSUME RecreateFails
      PROVE  /\ cpu' \in CpuType /\ cpu'.image \in {cpu.image, NoImage}
             /\ \/ cpu'.at = "idle" /\ cpu.call # "attach"
                \/ cpu'.at = "destroyWindow" /\ cpu'.call = "attach"
  BY <1>1, <1>4, GoesFields, NoCallFields DEF RecreateFails, Fails, Places
<1>5. CASE /\ live' = (live \ {"replacement"}) \cup {"swapchain"}
           /\ window' = [window EXCEPT !.extent = cpu.extent, !.frameIndex = 0, !.failed = FALSE] /\ Recreated
  BY <1>1, <1>2, <1>3, <1>5
<1>6. CASE live' = live \ {"replacement"} /\ RecreateFails /\ window' = window
  BY <1>1, <1>2, <1>4, <1>6
<1> QED
  BY <1>5, <1>6 DEF InstallSwapchain

LEMMA AcquireEffect ==
  ASSUME PresenterTypeOK, Acquire
  PROVE  /\ cpu' \in CpuType /\ cpu.at = "acquire" /\ window' \in WindowType
         /\ window'.attached = window.attached /\ window'.frameIndex = window.frameIndex
         /\ \/ /\ ~lost /\ window' = window /\ cpu'.at = "waitImage" /\ cpu'.image \in Images
               /\ image[cpu'.image].owner = "engine" /\ image' = [image EXCEPT ![cpu'.image].owner = "code"]
               /\ frame' = [frame EXCEPT ![CurrentFrame].available = "signaled"]
            \/ /\ ~lost /\ cpu'.at = "query" /\ cpu'.call = "again" /\ UNCHANGED <<window, frame, image>>
            \/ /\ window'.failed /\ cpu'.at = "idle" /\ UNCHANGED <<frame, image>>
         /\ UNCHANGED <<live, submitted, presenting, stopped, lost>>
<1> DEFINE Effect == /\ cpu' \in CpuType /\ cpu.at = "acquire" /\ window' \in WindowType
                       /\ window'.attached = window.attached /\ window'.frameIndex = window.frameIndex
                       /\ \/ /\ ~lost /\ window' = window /\ cpu'.at = "waitImage" /\ cpu'.image \in Images
                             /\ image[cpu'.image].owner = "engine" /\ image' = [image EXCEPT ![cpu'.image].owner = "code"]
                             /\ frame' = [frame EXCEPT ![CurrentFrame].available = "signaled"]
                          \/ /\ ~lost /\ cpu'.at = "query" /\ cpu'.call = "again" /\ UNCHANGED <<window, frame, image>>
                          \/ /\ window'.failed /\ cpu'.at = "idle" /\ UNCHANGED <<frame, image>>
                       /\ UNCHANGED <<live, submitted, presenting, stopped, lost>>
<1>1. cpu \in CpuType /\ cpu.at = "acquire" /\ window \in WindowType
  BY DEF PresenterTypeOK, Acquire, At
<1>2. UNCHANGED <<live, submitted, presenting, stopped, lost>>
  BY DEF Acquire, gpu
<1>3. ASSUME NEW i \in Images, NEW suboptimal \in BOOLEAN, ~lost, window' = window, image[i].owner = "engine",
             image' = [image EXCEPT ![i].owner = "code"],
             frame' = [frame EXCEPT ![CurrentFrame].available = "signaled"],
             cpu' = [cpu EXCEPT !.at = "waitImage", !.image = i, !.suboptimal = suboptimal]
      PROVE  Effect
  BY <1>1, <1>2, <1>3, AnImage
<1>4. CASE ~lost /\ OutOfDate /\ UNCHANGED <<window, frame, image>>
  BY <1>1, <1>2, <1>4, OutOfDateFields
<1>5. CASE Fatal /\ UNCHANGED <<frame, image>>
  BY <1>1, <1>2, <1>5, FatalFields, NoCallFields
<1> QED
  BY <1>1, <1>2, <1>3, <1>4, <1>5 DEF Acquire

LEMMA PresentEffect ==
  ASSUME PresenterTypeOK, Present
  PROVE  /\ cpu' \in CpuType /\ cpu.at = "queuePresent" /\ window' \in WindowType
         /\ window'.attached = window.attached /\ window'.frameIndex # window.frameIndex
         /\ \/ /\ ~lost /\ presenting' = presenting \cup {CurrentImage}
               /\ image' = [image EXCEPT ![CurrentImage].owner = "queue", ![CurrentImage].complete = "pending",
                                         ![CurrentImage].pending = TRUE]
               /\ \/ cpu'.at = "idle"
                  \/ cpu'.at = "query" /\ cpu'.call = "again" /\ ~window'.failed
            \/ /\ window'.failed /\ cpu'.at = "idle" /\ UNCHANGED <<presenting, image>>
         /\ UNCHANGED <<live, frame, submitted, stopped, lost>>
<1> DEFINE Effect == /\ cpu' \in CpuType /\ cpu.at = "queuePresent" /\ window' \in WindowType
                       /\ window'.attached = window.attached /\ window'.frameIndex # window.frameIndex
                       /\ \/ /\ ~lost /\ presenting' = presenting \cup {CurrentImage}
                             /\ image' = [image EXCEPT ![CurrentImage].owner = "queue", ![CurrentImage].complete = "pending",
                                                       ![CurrentImage].pending = TRUE]
                             /\ \/ cpu'.at = "idle"
                                \/ cpu'.at = "query" /\ cpu'.call = "again" /\ ~window'.failed
                          \/ /\ window'.failed /\ cpu'.at = "idle" /\ UNCHANGED <<presenting, image>>
                       /\ UNCHANGED <<live, frame, submitted, stopped, lost>>
<1>1. cpu \in CpuType /\ cpu.at = "queuePresent" /\ window \in WindowType
  BY DEF PresenterTypeOK, Present, At
<1>2. UNCHANGED <<live, frame, submitted, stopped, lost>>
  BY DEF Present
<1>3. ASSUME NEW result \in Results, ~lost, presenting' = presenting \cup {CurrentImage},
             image' = [image EXCEPT ![CurrentImage].owner = "queue", ![CurrentImage].complete = "pending",
                                    ![CurrentImage].pending = @ \/ PresentWasEnqueued(result)],
             cpu' = NoCall \/ (result # "surfaceLost" /\ OutOfDate),
             window' = [window EXCEPT !.frameIndex = (CurrentFrame + 1) % Cardinality(Frames),
                                      !.failed = (result = "surfaceLost")]
      PROVE Effect
  <2>1. window' \in WindowType /\ window'.attached = window.attached /\ window'.frameIndex # window.frameIndex
        /\ window'.failed = (result = "surfaceLost")
    BY <1>1, <1>3, NextFrame
  <2>2. image' = [image EXCEPT ![CurrentImage].owner = "queue", ![CurrentImage].complete = "pending",
                                    ![CurrentImage].pending = TRUE]
    BY <1>3 DEF PresentWasEnqueued
  <2> QED
    BY <1>1, <1>2, <1>3, <2>1, <2>2, NoCallFields, OutOfDateFields
<1>4. ASSUME cpu' = NoCall, UNCHANGED <<presenting, image>>,
             window' = [window EXCEPT !.frameIndex = (CurrentFrame + 1) % Cardinality(Frames), !.failed = TRUE]
      PROVE  Effect
  BY <1>1, <1>2, <1>4, NextFrame, NoCallFields
<1> QED
  BY <1>3, <1>4 DEF Present

LEMMA DestroySwapchainEffect ==
  ASSUME PresenterTypeOK, DestroySwapchain
  PROVE  /\ cpu' \in CpuType /\ cpu.at = "destroySwapchain" /\ window' \in WindowType
         /\ window'.attached = window.attached /\ window'.failed = window.failed
         /\ Has("swapchain") => DeviceIsIdle
         /\ PresentationIsOver
         /\ live' = live \ {"swapchain"}
         /\ image' = Forgotten
         /\ cpu'.at \in {"idle", "redraw"}
         /\ cpu.call # "again" => cpu'.at = "idle"
         /\ cpu'.at = "redraw" => cpu'.call = "redraw"
         /\ UNCHANGED <<frame, submitted, presenting, stopped, lost>>
<1>1. cpu \in CpuType /\ cpu.at = "destroySwapchain" /\ window \in WindowType
  BY DEF PresenterTypeOK, DestroySwapchain, At
<1>2. window' \in WindowType /\ window'.attached = window.attached /\ window'.failed = window.failed
  BY <1>1, WithoutExtent DEF DestroySwapchain
<1>3. cpu' \in CpuType /\ cpu'.at \in {"idle", "redraw"} /\ (cpu.call # "again" => cpu'.at = "idle")
        /\ (cpu'.at = "redraw" => cpu'.call = "redraw")
  BY <1>1, NoCallFields, TriesAgainFields DEF DestroySwapchain
<1> QED
  BY <1>1, <1>2, <1>3 DEF DestroySwapchain, gpu

(* The types of what a step assigns, and the fields it leaves alone.       *)
LEMMA GoesType ==
  ASSUME cpu \in CpuType
  PROVE  /\ \A place \in Places : Goes(place) => cpu' \in CpuType
         /\ cpu' = NoCall => cpu' \in CpuType
BY GoesFields, NoCallFields

LEMMA ImageFinished ==
  ASSUME image \in [Images -> ImageType], NEW i \in Images, NEW value \in Signals,
         image' = [image EXCEPT ![i].finished = value]
  PROVE  /\ image' \in [Images -> ImageType]
         /\ \A j \in Images :
              /\ image'[j].finished = IF j = i THEN value ELSE image[j].finished
              /\ image'[j].owner = image[j].owner
              /\ image'[j].complete = image[j].complete
              /\ image'[j].pending = image[j].pending
              /\ image'[j].inFlight = image[j].inFlight
BY DEF ImageType

LEMMA ImageComplete ==
  ASSUME image \in [Images -> ImageType], NEW i \in Images, NEW value \in Signals,
         image' = [image EXCEPT ![i].complete = value]
  PROVE  /\ image' \in [Images -> ImageType]
         /\ \A j \in Images :
              /\ image'[j].complete = IF j = i THEN value ELSE image[j].complete
              /\ image'[j].owner = image[j].owner
              /\ image'[j].finished = image[j].finished
              /\ image'[j].pending = image[j].pending
              /\ image'[j].inFlight = image[j].inFlight
BY DEF ImageType

LEMMA ImageOwner ==
  ASSUME image \in [Images -> ImageType], NEW i \in Images, NEW owner \in {"engine", "code", "queue"},
         image' = [image EXCEPT ![i].owner = owner]
  PROVE  /\ image' \in [Images -> ImageType]
         /\ \A j \in Images :
              /\ image'[j].owner = IF j = i THEN owner ELSE image[j].owner
              /\ image'[j].finished = image[j].finished
              /\ image'[j].complete = image[j].complete
              /\ image'[j].pending = image[j].pending
              /\ image'[j].inFlight = image[j].inFlight
BY DEF ImageType

LEMMA ImageWaited ==
  ASSUME image \in [Images -> ImageType], NEW i \in Images,
         image' = [image EXCEPT ![i].complete = "reset", ![i].pending = FALSE]
  PROVE  /\ image' \in [Images -> ImageType]
         /\ \A j \in Images :
              /\ image'[j].complete = IF j = i THEN "reset" ELSE image[j].complete
              /\ image'[j].pending = IF j = i THEN FALSE ELSE image[j].pending
              /\ image'[j].owner = image[j].owner
              /\ image'[j].finished = image[j].finished
              /\ image'[j].inFlight = image[j].inFlight
<1>1. "reset" \in Signals
  BY DEF Signals
<1> QED
  BY <1>1 DEF ImageType

LEMMA ImageSubmitted ==
  ASSUME image \in [Images -> ImageType], NEW i \in Images, NEW f \in Frames,
         image' = [image EXCEPT ![i].inFlight = f, ![i].finished = "pending"]
  PROVE  /\ image' \in [Images -> ImageType]
         /\ \A j \in Images :
              /\ image'[j].finished = IF j = i THEN "pending" ELSE image[j].finished
              /\ image'[j].inFlight = IF j = i THEN f ELSE image[j].inFlight
              /\ image'[j].owner = image[j].owner
              /\ image'[j].complete = image[j].complete
              /\ image'[j].pending = image[j].pending
<1>1. "pending" \in Signals
  BY DEF Signals
<1> QED
  BY <1>1 DEF ImageType

LEMMA ImagePresented ==
  ASSUME image \in [Images -> ImageType], NEW i \in Images,
         image' = [image EXCEPT ![i].owner = "queue", ![i].complete = "pending", ![i].pending = TRUE]
  PROVE  /\ image' \in [Images -> ImageType]
         /\ \A j \in Images :
              /\ image'[j].owner = IF j = i THEN "queue" ELSE image[j].owner
              /\ image'[j].complete = IF j = i THEN "pending" ELSE image[j].complete
              /\ image'[j].pending = IF j = i THEN TRUE ELSE image[j].pending
              /\ image'[j].finished = image[j].finished
              /\ image'[j].inFlight = image[j].inFlight
<1>1. "pending" \in Signals
  BY DEF Signals
<1>2. image[i] \in ImageType
  OBVIOUS
<1>3. [image[i] EXCEPT !.owner = "queue", !.complete = "pending", !.pending = TRUE] \in ImageType
  BY <1>1, <1>2 DEF ImageType
<1>4. image' \in [Images -> ImageType]
  BY <1>3
<1>5. ASSUME NEW j \in Images
      PROVE  /\ image'[j].owner = IF j = i THEN "queue" ELSE image[j].owner
             /\ image'[j].complete = IF j = i THEN "pending" ELSE image[j].complete
             /\ image'[j].pending = IF j = i THEN TRUE ELSE image[j].pending
             /\ image'[j].finished = image[j].finished
             /\ image'[j].inFlight = image[j].inFlight
  <2>1. CASE j = i
    BY <1>2, <2>1 DEF ImageType
  <2>2. CASE j # i
    BY <2>2
  <2> QED BY <2>1, <2>2
<1> QED
  BY <1>4, <1>5

LEMMA ImagesWaited ==
  ASSUME image \in [Images -> ImageType], NEW done,
         image' = [i \in Images |-> [image[i] EXCEPT !.pending = @ /\ i \notin done]]
  PROVE  image' \in [Images -> ImageType]
BY DEF ImageType

LEMMA AllImagesWaited ==
  ASSUME image \in [Images -> ImageType],
         image' = [i \in Images |-> [image[i] EXCEPT !.pending = FALSE]]
  PROVE  image' \in [Images -> ImageType]
BY DEF ImageType

LEMMA FrameComplete ==
  ASSUME frame \in [Frames -> FrameType], NEW f \in Frames, NEW value \in Signals,
         frame' = [frame EXCEPT ![f].complete = value]
  PROVE  /\ frame' \in [Frames -> FrameType]
         /\ \A g \in Frames : /\ frame'[g].complete = IF g = f THEN value ELSE frame[g].complete
                            /\ frame'[g].available = frame[g].available
BY DEF FrameType

LEMMA FrameExecuted ==
  ASSUME frame \in [Frames -> FrameType], NEW f \in Frames,
         frame' = [frame EXCEPT ![f].complete = "signaled", ![f].available = "reset"]
  PROVE  /\ frame' \in [Frames -> FrameType]
         /\ \A g \in Frames : /\ frame'[g].complete = IF g = f THEN "signaled" ELSE frame[g].complete
                            /\ frame'[g].available = IF g = f THEN "reset" ELSE frame[g].available
<1>1. "signaled" \in Signals /\ "reset" \in Signals
  BY DEF Signals
<1> QED
  BY <1>1 DEF FrameType

LEMMA FrameAvailable ==
  ASSUME frame \in [Frames -> FrameType], NEW f \in Frames,
         frame' = [frame EXCEPT ![f].available = "signaled"]
  PROVE  /\ frame' \in [Frames -> FrameType]
         /\ \A g \in Frames : /\ frame'[g].complete = frame[g].complete
                            /\ frame'[g].available = IF g = f THEN "signaled" ELSE frame[g].available
<1>1. "signaled" \in Signals
  BY DEF Signals
<1> QED
  BY <1>1 DEF FrameType

LEMMA Attached ==
  ASSUME window \in WindowType, window' = [window EXCEPT !.attached = TRUE]
  PROVE  window' \in WindowType
BY DEF WindowType

LEMMA NewTypes ==
  /\ Forgotten \in [Images -> ImageType]
  /\ [f \in Frames |-> NewFrame] \in [Frames -> FrameType]
  /\ Unattached \in WindowType
BY DEF Forgotten, NewImage, NewFrame, ImageType, FrameType, Signals, Unattached, WindowType, AnySize,
   Frames, NoFrame

(* Every step preserves the type invariant.                                *)
LEMMA TypeStep ==
  ASSUME PresenterInv, PresenterNext
  PROVE  PresenterTypeOK'
<1> USE DEF PresenterInv
<1>0. PresenterTypeOK /\ cpu \in CpuType /\ window \in WindowType
      /\ frame \in [Frames -> FrameType] /\ image \in [Images -> ImageType]
  BY DEF PresenterTypeOK
<1>00. cpu.at \in {"waitShown", "submit", "queuePresent"} => CurrentImage \in Images
  BY DEF ImagesInOrder, Drawing
<1>01. CurrentFrame \in Frames /\ {"reset", "pending", "signaled"} \subseteq Signals
  BY <1>0 DEF CurrentFrame, WindowType, Signals
<1>1. CASE BeginAttach
  <2>1. cpu' \in CpuType
    BY <1>1, StartsSized DEF BeginAttach, Places, CallType, AnySize
  <2>2. UNCHANGED <<live, window, frame, image, submitted, presenting, stopped, lost>>
    BY <1>1 DEF BeginAttach, objects, gpu
  <2> QED
    BY <1>0, <2>1, <2>2 DEF PresenterTypeOK
<1>2. CASE BeginRedraw
  <2>1. cpu' \in CpuType
    BY <1>2, StartRedraw DEF BeginRedraw, AnySize
  <2>2. UNCHANGED <<live, window, frame, image, submitted, presenting, stopped, lost>>
    BY <1>2 DEF BeginRedraw, objects, gpu
  <2> QED
    BY <1>0, <2>1, <2>2 DEF PresenterTypeOK
<1>3. CASE DetachWindow
  <2>1. cpu' \in CpuType
    BY <1>3, StartsCall DEF DetachWindow, Places, CallType
  <2>2. UNCHANGED <<live, window, frame, image, submitted, presenting, stopped, lost>>
    BY <1>3 DEF DetachWindow, objects, gpu
  <2> QED
    BY <1>0, <2>1, <2>2 DEF PresenterTypeOK
<1>4. CASE Shutdown
  <2>1. cpu' \in CpuType
    BY <1>4, StartShutdown DEF Shutdown
  <2>2. stopped' = TRUE /\ UNCHANGED <<live, window, frame, image, submitted, presenting, lost>>
    BY <1>4 DEF Shutdown, objects, gpu
  <2> QED
    BY <1>0, <2>1, <2>2 DEF PresenterTypeOK
<1>5. CASE EnsureInstance
  <2>1. Goes("surface") \/ cpu' = NoCall
    BY <1>5 DEF EnsureInstance, Made
  <2>2. cpu' \in CpuType
    BY <1>0, <2>1, GoesType DEF Places
  <2>3. /\ live' \subseteq live \cup {"instance"}
        /\ UNCHANGED <<window, frame, image, submitted, presenting, stopped, lost>>
    BY <1>5 DEF EnsureInstance, Made, gpu
  <2> QED
    BY <1>0, <2>2, <2>3, NewTypes DEF PresenterTypeOK, WindowObjects
<1>6. CASE CreateSurface
  <2>1. Goes("device") \/ cpu' = NoCall
    BY <1>6 DEF CreateSurface, Made
  <2>2. cpu' \in CpuType
    BY <1>0, <2>1, GoesType DEF Places
  <2>3. /\ live' \subseteq live \cup {"surface"}
        /\ UNCHANGED <<window, frame, image, submitted, presenting, stopped, lost>>
    BY <1>6 DEF CreateSurface, Made, gpu
  <2> QED
    BY <1>0, <2>2, <2>3, NewTypes DEF PresenterTypeOK, WindowObjects
<1>7. CASE EnsureDevice
  <2>1. Goes("support") \/ Goes("pool") \/ Goes("destroyWindow")
    BY <1>7 DEF EnsureDevice, Made, Fails
  <2>2. cpu' \in CpuType
    BY <1>0, <2>1, GoesType DEF Places
  <2>3. /\ live' \subseteq live \cup {"device"}
        /\ UNCHANGED <<window, frame, image, submitted, presenting, stopped, lost>>
    BY <1>7 DEF EnsureDevice, Made, gpu
  <2> QED
    BY <1>0, <2>2, <2>3, NewTypes DEF PresenterTypeOK, WindowObjects
<1>8. CASE CreateCommandPool
  <2>1. Goes("support") \/ Goes("destroyWindow")
    BY <1>8 DEF CreateCommandPool, Made, Fails
  <2>2. cpu' \in CpuType
    BY <1>0, <2>1, GoesType DEF Places
  <2>3. /\ live' \subseteq live \cup {"pool"} /\ lost' \in {lost, FALSE}
        /\ UNCHANGED <<window, frame, image, submitted, presenting, stopped>>
    BY <1>8 DEF CreateCommandPool, Made, gpu
  <2> QED
    BY <1>0, <2>2, <2>3, NewTypes DEF PresenterTypeOK, WindowObjects
<1>9. CASE ValidatePresentationSupport
  <2>1. Goes("buffers") \/ Goes("destroyWindow")
    BY <1>9 DEF ValidatePresentationSupport, Fails
  <2>2. cpu' \in CpuType
    BY <1>0, <2>1, GoesType DEF Places
  <2>3. UNCHANGED <<live, window, frame, image, submitted, presenting, stopped, lost>>
    BY <1>9 DEF ValidatePresentationSupport, objects, gpu
  <2> QED
    BY <1>0, <2>2, <2>3, NewTypes DEF PresenterTypeOK, WindowObjects
<1>10. CASE CreateFrameResources
  <2>1. Goes("idle") \/ Goes("query") \/ Goes("sync0") \/ Goes("sync1") \/ Goes("destroyWindow")
    BY <1>10 DEF CreateFrameResources, Made, Fails
  <2>2. cpu' \in CpuType
    BY <1>0, <2>1, GoesType DEF Places
  <2>3. live' \subseteq live \cup {"buffers", "sync0", "sync1"} /\ window' \in WindowType
        /\ UNCHANGED <<frame, image, submitted, presenting, stopped, lost>>
    BY <1>10, <1>0, Attached DEF CreateFrameResources, Made, gpu
  <2> QED
    BY <1>0, <2>2, <2>3, NewTypes DEF PresenterTypeOK, WindowObjects
<1>11. CASE QuerySurface
  <2>1. cpu' \in CpuType /\ window' \in WindowType
    BY <1>11, <1>0, QuerySurfaceEffect
  <2>2. UNCHANGED <<live, window, frame, image, submitted, presenting, stopped, lost>>
    BY <1>11, <1>0, QuerySurfaceEffect
  <2> QED
    BY <1>0, <2>1, <2>2 DEF PresenterTypeOK, WindowObjects
<1>12. CASE WaitDevice
  <2>1. Goes("waitPresentation") \/ Goes("destroyWindow") \/ cpu' = NoCall
    BY <1>12 DEF WaitDevice, RecreateFails, Fails
  <2>2. cpu' \in CpuType
    BY <1>0, <2>1, GoesType DEF Places
  <2>3. UNCHANGED <<live, window, frame, image, submitted, presenting, stopped, lost>>
    BY <1>12 DEF WaitDevice, objects, gpu
  <2> QED
    BY <1>0, <2>2, <2>3, NewTypes DEF PresenterTypeOK, WindowObjects
<1>13. CASE WaitForPresentation
  <2>1. Goes("create") \/ Goes("destroyWindow") \/ cpu' = NoCall
    BY <1>13 DEF WaitForPresentation, RecreateFails, Fails
  <2>2. cpu' \in CpuType
    BY <1>0, <2>1, GoesType DEF Places
  <2>3. /\ image' \in [Images -> ImageType]
        /\ UNCHANGED <<live, window, frame, submitted, presenting, stopped, lost>>
    BY <1>13, <1>0, ImagesWaited, AllImagesWaited DEF WaitForPresentation, gpu
  <2> QED
    BY <1>0, <2>2, <2>3, NewTypes DEF PresenterTypeOK, WindowObjects
<1>14. CASE CreateSwapchain
  <2>1. cpu' \in CpuType
    BY <1>14, <1>0, GoesType DEF CreateSwapchain, Places
  <2>2. /\ live' \subseteq live \cup {"retired", "replacement"}
        /\ UNCHANGED <<window, frame, image, submitted, presenting, stopped, lost>>
    BY <1>14 DEF CreateSwapchain, Retires, gpu
  <2> QED
    BY <1>0, <2>1, <2>2 DEF PresenterTypeOK, WindowObjects
<1>14a. CASE RetireSwapchain
  <2>1. cpu' \in CpuType /\ window' \in WindowType
    BY <1>14a, <1>0, RetireSwapchainEffect
  <2>2. /\ live' \subseteq live /\ image' = Forgotten
        /\ UNCHANGED <<frame, submitted, presenting, stopped, lost>>
    BY <1>14a, <1>0, RetireSwapchainEffect
  <2> QED
    BY <1>0, <2>1, <2>2, NewTypes DEF PresenterTypeOK
<1>15. CASE InstallSwapchain
  <2>1. cpu' \in CpuType /\ window' \in WindowType
    BY <1>15, <1>0, InstallSwapchainEffect
  <2>2. /\ live' \subseteq live \cup {"swapchain"}
        /\ UNCHANGED <<frame, image, submitted, presenting, stopped, lost>>
    BY <1>15, <1>0, InstallSwapchainEffect
  <2> QED
    BY <1>0, <2>1, <2>2 DEF PresenterTypeOK, WindowObjects
<1>16. CASE Redraw
  <2>1. Goes("present") \/ Goes("query")
    BY <1>16 DEF Redraw
  <2>2. cpu' \in CpuType
    BY <1>0, <2>1, GoesType DEF Places
  <2>3. UNCHANGED <<live, window, frame, image, submitted, presenting, stopped, lost>>
    BY <1>16 DEF Redraw, objects, gpu
  <2> QED
    BY <1>0, <2>2, <2>3, NewTypes DEF PresenterTypeOK, WindowObjects
<1>17. CASE WaitForFrame
  <2>1. Goes("acquire") \/ cpu' = NoCall
    BY <1>17 DEF WaitForFrame, Fatal
  <2>2. cpu' \in CpuType
    BY <1>0, <2>1, GoesType DEF Places
  <2>3. /\ window' \in WindowType
        /\ UNCHANGED <<live, frame, image, submitted, presenting, stopped, lost>>
    BY <1>17, <1>0, FatalFields DEF WaitForFrame, objects, gpu
  <2> QED
    BY <1>0, <2>2, <2>3, NewTypes DEF PresenterTypeOK, WindowObjects
<1>18. CASE Acquire
  <2>1. cpu' \in CpuType /\ window' \in WindowType
        /\ UNCHANGED <<live, submitted, presenting, stopped, lost>>
    BY <1>18, <1>0, AcquireEffect
  <2>2. CASE UNCHANGED <<frame, image>>
    BY <2>1, <2>2, <1>0 DEF PresenterTypeOK
  <2>3. CASE /\ cpu'.image \in Images
             /\ image' = [image EXCEPT ![cpu'.image].owner = "code"]
             /\ frame' = [frame EXCEPT ![CurrentFrame].available = "signaled"]
    <3>1. frame' \in [Frames -> FrameType] /\ image' \in [Images -> ImageType]
      BY <2>3, <1>0, <1>01, FrameAvailable, ImageOwner
    <3> QED
      BY <2>1, <3>1, <1>0 DEF PresenterTypeOK
  <2> QED
    BY <1>18, <1>0, <2>2, <2>3, AcquireEffect
<1>19. CASE WaitForImage
  <2>1. Goes("waitShown") \/ cpu' = NoCall
    BY <1>19 DEF WaitForImage, Fatal
  <2>2. cpu' \in CpuType
    BY <1>0, <2>1, GoesType DEF Places
  <2>3. /\ window' \in WindowType
        /\ UNCHANGED <<live, frame, image, submitted, presenting, stopped, lost>>
    BY <1>19, <1>0, FatalFields DEF WaitForImage, objects, gpu
  <2> QED
    BY <1>0, <2>2, <2>3, NewTypes DEF PresenterTypeOK, WindowObjects
<1>20. CASE WaitForPresented
  <2>1. Goes("record") \/ cpu' = NoCall
    BY <1>20 DEF WaitForPresented, Fatal
  <2>2. cpu' \in CpuType
    BY <1>0, <2>1, GoesType DEF Places
  <2>3. /\ window' \in WindowType /\ image' \in [Images -> ImageType]
        /\ UNCHANGED <<live, frame, submitted, presenting, stopped, lost>>
    BY <1>20, <1>0, FatalFields, ImageWaited, <1>00 DEF WaitForPresented, gpu, At
  <2> QED
    BY <1>0, <2>2, <2>3, NewTypes DEF PresenterTypeOK, WindowObjects
<1>21. CASE ResetCommandBuffer
  <2>1. Goes("clear") \/ cpu' = NoCall
    BY <1>21 DEF ResetCommandBuffer, Fatal
  <2>2. cpu' \in CpuType
    BY <1>0, <2>1, GoesType DEF Places
  <2>3. /\ window' \in WindowType
        /\ UNCHANGED <<live, frame, image, submitted, presenting, stopped, lost>>
    BY <1>21, <1>0, FatalFields DEF ResetCommandBuffer, objects, gpu
  <2> QED
    BY <1>0, <2>2, <2>3, NewTypes DEF PresenterTypeOK, WindowObjects
<1>22. CASE RecordClear
  <2>1. Goes("reset") \/ cpu' = NoCall
    BY <1>22 DEF RecordClear, Fatal
  <2>2. cpu' \in CpuType
    BY <1>0, <2>1, GoesType DEF Places
  <2>3. /\ window' \in WindowType
        /\ UNCHANGED <<live, frame, image, submitted, presenting, stopped, lost>>
    BY <1>22, <1>0, FatalFields DEF RecordClear, objects, gpu
  <2> QED
    BY <1>0, <2>2, <2>3, NewTypes DEF PresenterTypeOK, WindowObjects
<1>23. CASE ResetFrame
  <2>1. Goes("submit") \/ cpu' = NoCall
    BY <1>23 DEF ResetFrame, Fatal
  <2>2. cpu' \in CpuType
    BY <1>0, <2>1, GoesType DEF Places
  <2>3. /\ window' \in WindowType /\ frame' \in [Frames -> FrameType]
        /\ UNCHANGED <<live, image, submitted, presenting, stopped, lost>>
    BY <1>23, <1>0, FatalFields, FrameComplete, <1>01 DEF ResetFrame, gpu
  <2> QED
    BY <1>0, <2>2, <2>3, NewTypes DEF PresenterTypeOK, WindowObjects
<1>24. CASE Submit
  <2>1. Goes("queuePresent") \/ cpu' = NoCall
    BY <1>24 DEF Submit, Fatal
  <2>2. cpu' \in CpuType
    BY <1>0, <2>1, GoesType DEF Places
  <2>3. window' \in WindowType /\ frame' \in [Frames -> FrameType] /\ image' \in [Images -> ImageType]
        /\ UNCHANGED <<live, presenting, stopped, lost>>
    BY <1>24, <1>0, FatalFields, FrameComplete, ImageSubmitted, <1>00, <1>01 DEF Submit, gpu, At
  <2>4. submitted' \in Seq(Work)
    <3>1. [frame |-> CurrentFrame, image |-> CurrentImage] \in Work
      BY <1>24, <1>00, <1>01 DEF Submit, At, Work
    <3>2. \/ submitted' = submitted
          \/ submitted' = Append(submitted, [frame |-> CurrentFrame, image |-> CurrentImage])
      BY <1>24 DEF Submit
    <3>3. submitted \in Seq(Work)
      BY DEF PresenterTypeOK
    <3> HIDE DEF Work
    <3> QED
      BY <3>1, <3>2, <3>3
  <2> QED
    BY <1>0, <2>2, <2>3, <2>4, NewTypes DEF PresenterTypeOK, WindowObjects
<1>25. CASE Present
  <2>1. cpu' \in CpuType /\ window' \in WindowType
    BY <1>25, <1>0, PresentEffect
  <2>2. image' \in [Images -> ImageType] /\ presenting' \subseteq Images
    BY <1>25, <1>0, <1>00, PresentEffect, ImagePresented DEF PresenterTypeOK
  <2>3. UNCHANGED <<live, frame, submitted, stopped, lost>>
    BY <1>25, <1>0, PresentEffect
  <2> QED
    BY <1>0, <2>1, <2>2, <2>3 DEF PresenterTypeOK, WindowObjects
<1>26. CASE DestroyPresentedWindow
  <2>1. Goes("destroyDevice") \/ cpu' = NoCall
    BY <1>26 DEF DestroyPresentedWindow
  <2>2. cpu' \in CpuType
    BY <1>0, <2>1, GoesType DEF Places
  <2>3. live' \subseteq live /\ window' = Unattached /\ frame' = [f \in Frames |-> NewFrame] /\ image' = Forgotten
        /\ UNCHANGED <<submitted, presenting, stopped, lost>>
    BY <1>26 DEF DestroyPresentedWindow, gpu
  <2> QED
    BY <1>0, <2>2, <2>3, NewTypes DEF PresenterTypeOK, WindowObjects
<1>27. CASE DestroySwapchain
  <2>1. cpu' \in CpuType /\ window' \in WindowType
    BY <1>27, <1>0, DestroySwapchainEffect
  <2>2. /\ live' \subseteq live /\ image' = Forgotten
        /\ UNCHANGED <<frame, submitted, presenting, stopped, lost>>
    BY <1>27, <1>0, DestroySwapchainEffect
  <2> QED
    BY <1>0, <2>1, <2>2, NewTypes DEF PresenterTypeOK, WindowObjects
<1>28. CASE DestroyDevice
  <2>1. cpu' = NoCall
    BY <1>28 DEF DestroyDevice
  <2>2. cpu' \in CpuType
    BY <1>0, <2>1, GoesType DEF Places
  <2>3. /\ live' \subseteq live
        /\ UNCHANGED <<window, frame, image, submitted, presenting, stopped, lost>>
    BY <1>28 DEF DestroyDevice, gpu
  <2> QED
    BY <1>0, <2>2, <2>3, NewTypes DEF PresenterTypeOK, WindowObjects
<1>29. CASE Execute
  <2> DEFINE work == Head(submitted)
  <2>1. work \in Work /\ Tail(submitted) \in Seq(Work)
    BY <1>29 DEF Execute, PresenterTypeOK
  <2>2. /\ submitted' = Tail(submitted)
        /\ frame' = [frame EXCEPT ![work.frame].complete = "signaled", ![work.frame].available = "reset"]
        /\ image' = [image EXCEPT ![work.image].finished = "signaled"]
        /\ UNCHANGED <<cpu, live, window, presenting, stopped, lost>>
    BY <1>29 DEF Execute
  <2>3. work.frame \in Frames /\ work.image \in Images
    BY <2>1 DEF Work
  <2> HIDE DEF work
  <2>4. frame' \in [Frames -> FrameType] /\ image' \in [Images -> ImageType]
    BY <2>2, <2>3, <1>0, <1>01, FrameExecuted, ImageFinished
  <2> QED
    BY <1>0, <2>1, <2>2, <2>4 DEF PresenterTypeOK
<1>30. ASSUME NEW i \in Images, Show(i) PROVE PresenterTypeOK'
  <2>1. image' \in [Images -> ImageType]
    BY <1>30, <1>0, ImageFinished DEF Show, Signals
  <2>2. UNCHANGED cpu /\ UNCHANGED <<live, window, frame, submitted, presenting, stopped, lost>>
    BY <1>30 DEF Show, gpu, objects
  <2> QED
    BY <1>0, <2>1, <2>2 DEF PresenterTypeOK
<1>31. ASSUME NEW i \in Images, GiveBack(i) PROVE PresenterTypeOK'
  <2>1. image' \in [Images -> ImageType]
    BY <1>31, <1>0, ImageOwner DEF GiveBack, Signals
  <2>2. UNCHANGED cpu /\ UNCHANGED <<live, window, frame, submitted, presenting, stopped, lost>>
    BY <1>31 DEF GiveBack, gpu, objects
  <2> QED
    BY <1>0, <2>1, <2>2 DEF PresenterTypeOK
<1>32. ASSUME NEW i \in Images, SignalPresented(i) PROVE PresenterTypeOK'
  <2>1. image' \in [Images -> ImageType] /\ presenting' \subseteq presenting
    BY <1>32, <1>0, ImageComplete DEF SignalPresented, Signals
  <2>2. UNCHANGED cpu /\ UNCHANGED <<live, window, frame, submitted, stopped, lost>>
    BY <1>32 DEF SignalPresented, gpu, objects
  <2> QED
    BY <1>0, <2>1, <2>2 DEF PresenterTypeOK
<1>33. CASE DeviceLost
  <2>1. submitted' = <<>> /\ presenting' \subseteq presenting /\ lost' = TRUE
    BY <1>33, <1>0 DEF DeviceLost, PresenterTypeOK
  <2>2. UNCHANGED cpu /\ UNCHANGED <<live, window, frame, image, stopped>>
    BY <1>33 DEF DeviceLost, gpu, objects
  <2> QED
    BY <1>0, <2>1, <2>2 DEF PresenterTypeOK
<1> QED
  BY <1>1, <1>2, <1>3, <1>4, <1>5, <1>6, <1>7, <1>8, <1>9, <1>10, <1>11, <1>12, <1>13, <1>14, <1>14a,
     <1>15, <1>16, <1>17, <1>18, <1>19, <1>20, <1>21, <1>22, <1>23, <1>24, <1>25, <1>26, <1>27, <1>28,
     <1>29, <1>30, <1>31, <1>32, <1>33 DEF PresenterNext, EventThread, Attaching, Recreating, Presenting,
     Destroying, Compositor

(* Objects are made and destroyed in the order of their dependencies.      *)
LEMMA ObjectsStep ==
  ASSUME PresenterInv, PresenterNext
  PROVE  Objects'
<1> USE DEF PresenterInv, Objects, Calls, Attachment, MadeBefore, NoObjects, WithoutWindow,
   WithSwapchain, WithoutSwapchain, WindowObjects, Unattached, Zero, PresenterTypeOK, CpuType,
   WindowType, Places, CallType, AnySize, At, Has, objects, gpu
<1>0. PresenterTypeOK'
  BY TypeStep
<1>1. CASE BeginAttach
  BY <1>1 DEF BeginAttach, NoCall
<1>2. CASE BeginRedraw
  BY <1>2 DEF BeginRedraw, NoCall
<1>3. CASE DetachWindow
  BY <1>3 DEF DetachWindow, NoCall
<1>4. CASE Shutdown
  BY <1>4 DEF Shutdown, NoCall
<1>5. CASE EnsureInstance
  BY <1>5 DEF EnsureInstance, Goes, Made, NoCall
<1>6. CASE CreateSurface
  BY <1>6 DEF CreateSurface, Goes, Made, NoCall
<1>7. CASE EnsureDevice
  BY <1>7 DEF EnsureDevice, Goes, Made, Fails
<1>8. CASE CreateCommandPool
  BY <1>8 DEF CreateCommandPool, Goes, Made, Fails
<1>9. CASE ValidatePresentationSupport
  BY <1>9 DEF ValidatePresentationSupport, Goes, Fails
<1>10. CASE CreateFrameResources
  BY <1>10 DEF CreateFrameResources, Goes, Made, Fails
<1>11. CASE QuerySurface
  BY <1>11, <1>0, QuerySurfaceEffect
<1>12. CASE WaitDevice
  BY <1>12 DEF WaitDevice, Goes, Fails, RecreateFails, NoCall
<1>13. CASE WaitForPresentation
  BY <1>13 DEF WaitForPresentation, Goes, Fails, RecreateFails, NoCall
<1>14. CASE CreateSwapchain
  BY <1>14 DEF CreateSwapchain, Retires, Goes
<1>14a. CASE RetireSwapchain
  BY <1>14a, <1>0, RetireSwapchainEffect
<1>15. CASE InstallSwapchain
  BY <1>15, <1>0, InstallSwapchainEffect
<1>16. CASE Redraw
  BY <1>16 DEF Redraw, Goes
<1>17. CASE WaitForFrame
  BY <1>17 DEF WaitForFrame, Goes, Fatal, NoCall
<1>18. CASE Acquire
  BY <1>18, <1>0, AcquireEffect
<1>19. CASE WaitForImage
  BY <1>19 DEF WaitForImage, Goes, Fatal, NoCall
<1>20. CASE WaitForPresented
  BY <1>20 DEF WaitForPresented, Goes, Fatal, NoCall
<1>21. CASE ResetCommandBuffer
  BY <1>21 DEF ResetCommandBuffer, Goes, Fatal, NoCall
<1>22. CASE RecordClear
  BY <1>22 DEF RecordClear, Goes, Fatal, NoCall
<1>23. CASE ResetFrame
  BY <1>23 DEF ResetFrame, Goes, Fatal, NoCall
<1>24. CASE Submit
  BY <1>24 DEF Submit, Goes, Fatal, NoCall
<1>25. CASE Present
  BY <1>25, <1>0, PresentEffect
<1>26. CASE DestroyPresentedWindow
  BY <1>26 DEF DestroyPresentedWindow, Goes, NoCall
<1>27. CASE DestroySwapchain
  BY <1>27, <1>0, DestroySwapchainEffect
<1>28. CASE DestroyDevice
  BY <1>28 DEF DestroyDevice, NoCall
<1>29. CASE Execute
  BY <1>29 DEF Execute
<1>30. ASSUME NEW i \in Images, Show(i) PROVE Objects'
  BY <1>30 DEF Show
<1>31. ASSUME NEW i \in Images, GiveBack(i) PROVE Objects'
  BY <1>31 DEF GiveBack
<1>32. ASSUME NEW i \in Images, SignalPresented(i) PROVE Objects'
  BY <1>32 DEF SignalPresented
<1>33. CASE DeviceLost
  BY <1>33 DEF DeviceLost
<1> QED
  BY <1>1, <1>2, <1>3, <1>4, <1>5, <1>6, <1>7, <1>8, <1>9, <1>10, <1>11, <1>12, <1>13, <1>14, <1>14a,
     <1>15, <1>16, <1>17, <1>18, <1>19, <1>20, <1>21, <1>22, <1>23, <1>24, <1>25, <1>26, <1>27, <1>28,
     <1>29, <1>30, <1>31, <1>32, <1>33 DEF PresenterNext, EventThread, Attaching, Recreating, Presenting,
     Destroying, Compositor

(* A call reaches its places only, and a stopped presenter ends empty.     *)
LEMMA CallsStep ==
  ASSUME PresenterInv, PresenterNext
  PROVE  Calls'
<1> USE DEF PresenterInv, Objects, Calls, Attachment, MadeBefore, NoObjects, WithoutWindow,
   WithSwapchain, WindowObjects, Unattached, Zero, PresenterTypeOK, CpuType, WindowType, Places,
   CallType, AnySize, At, Has, objects, gpu
<1>0. PresenterTypeOK'
  BY TypeStep
<1>1. CASE BeginAttach
  BY <1>1, Fields DEF BeginAttach, NoCall
<1>2. CASE BeginRedraw
  BY <1>2, Fields DEF BeginRedraw, NoCall
<1>3. CASE DetachWindow
  BY <1>3, Fields DEF DetachWindow, NoCall
<1>4. CASE Shutdown
  BY <1>4, Fields DEF Shutdown, NoCall
<1>5. CASE EnsureInstance
  BY <1>5, Fields DEF EnsureInstance, Goes, Made, NoCall
<1>6. CASE CreateSurface
  BY <1>6, Fields DEF CreateSurface, Goes, Made, NoCall
<1>7. CASE EnsureDevice
  BY <1>7, Fields DEF EnsureDevice, Goes, Made, Fails
<1>8. CASE CreateCommandPool
  BY <1>8, Fields DEF CreateCommandPool, Goes, Made, Fails
<1>9. CASE ValidatePresentationSupport
  BY <1>9, Fields DEF ValidatePresentationSupport, Goes, Fails
<1>10. CASE CreateFrameResources
  BY <1>10, Fields DEF CreateFrameResources, Goes, Made, Fails
<1>11. CASE QuerySurface
  BY <1>11, <1>0, QuerySurfaceEffect, Fields
<1>12. CASE WaitDevice
  BY <1>12, Fields DEF WaitDevice, Goes, Fails, RecreateFails, NoCall
<1>13. CASE WaitForPresentation
  BY <1>13, Fields DEF WaitForPresentation, Goes, Fails, RecreateFails, NoCall
<1>14. CASE CreateSwapchain
  BY <1>14, Fields DEF CreateSwapchain, Retires, Goes
<1>14a. CASE RetireSwapchain
  BY <1>14a, <1>0, RetireSwapchainEffect, Fields
<1>15. CASE InstallSwapchain
  BY <1>15, <1>0, InstallSwapchainEffect, Fields
<1>16. CASE Redraw
  BY <1>16, Fields DEF Redraw, Goes
<1>17. CASE WaitForFrame
  BY <1>17, Fields DEF WaitForFrame, Goes, Fatal, NoCall
<1>18. CASE Acquire
  BY <1>18, <1>0, AcquireEffect, Fields
<1>19. CASE WaitForImage
  BY <1>19, Fields DEF WaitForImage, Goes, Fatal, NoCall
<1>20. CASE WaitForPresented
  BY <1>20, Fields DEF WaitForPresented, Goes, Fatal, NoCall
<1>21. CASE ResetCommandBuffer
  BY <1>21, Fields DEF ResetCommandBuffer, Goes, Fatal, NoCall
<1>22. CASE RecordClear
  BY <1>22, Fields DEF RecordClear, Goes, Fatal, NoCall
<1>23. CASE ResetFrame
  BY <1>23, Fields DEF ResetFrame, Goes, Fatal, NoCall
<1>24. CASE Submit
  BY <1>24, Fields DEF Submit, Goes, Fatal, NoCall
<1>25. CASE Present
  BY <1>25, <1>0, PresentEffect, Fields
<1>26. CASE DestroyPresentedWindow
  BY <1>26, Fields DEF DestroyPresentedWindow, Goes, NoCall
<1>27. CASE DestroySwapchain
  BY <1>27, <1>0, DestroySwapchainEffect, Fields
<1>28. CASE DestroyDevice
  BY <1>28, Fields DEF DestroyDevice, NoCall
<1>29. CASE Execute
  BY <1>29, Fields DEF Execute
<1>30. ASSUME NEW i \in Images, Show(i) PROVE Calls'
  BY <1>30, Fields DEF Show
<1>31. ASSUME NEW i \in Images, GiveBack(i) PROVE Calls'
  BY <1>31, Fields DEF GiveBack
<1>32. ASSUME NEW i \in Images, SignalPresented(i) PROVE Calls'
  BY <1>32, Fields DEF SignalPresented
<1>33. CASE DeviceLost
  BY <1>33, Fields DEF DeviceLost
<1> QED
  BY <1>1, <1>2, <1>3, <1>4, <1>5, <1>6, <1>7, <1>8, <1>9, <1>10, <1>11, <1>12, <1>13, <1>14, <1>14a,
     <1>15, <1>16, <1>17, <1>18, <1>19, <1>20, <1>21, <1>22, <1>23, <1>24, <1>25, <1>26, <1>27, <1>28,
     <1>29, <1>30, <1>31, <1>32, <1>33 DEF PresenterNext, EventThread, Attaching, Recreating, Presenting,
     Destroying, Compositor

(* Nothing is under way without a swapchain, or on a lost device.          *)
LEMMA NothingUnderWayStep ==
  ASSUME PresenterInv, PresenterNext
  PROVE  NothingUnderWay'
<1> USE DEF PresenterInv, NothingUnderWay, Objects, Calls, Forgotten, NewImage, DeviceIsIdle,
   PresentationIsOver, Presentations, PresenterTypeOK, WithSwapchain, Attachment, MadeBefore,
   WindowObjects, ImagesInOrder, Drawing, Holding, CurrentImage, CpuType, WindowType, Places,
   CallType, AnySize, At, Has, objects, gpu
<1>0. PresenterTypeOK'
  BY TypeStep
<1>1. CASE BeginAttach
  BY <1>1 DEF BeginAttach, NoCall
<1>2. CASE BeginRedraw
  BY <1>2 DEF BeginRedraw, NoCall
<1>3. CASE DetachWindow
  BY <1>3 DEF DetachWindow, NoCall
<1>4. CASE Shutdown
  BY <1>4 DEF Shutdown, NoCall
<1>5. CASE EnsureInstance
  BY <1>5 DEF EnsureInstance, Goes, Made, NoCall
<1>6. CASE CreateSurface
  BY <1>6 DEF CreateSurface, Goes, Made, NoCall
<1>7. CASE EnsureDevice
  BY <1>7 DEF EnsureDevice, Goes, Made, Fails
<1>8. CASE CreateCommandPool
  BY <1>8 DEF CreateCommandPool, Goes, Made, Fails
<1>9. CASE ValidatePresentationSupport
  BY <1>9 DEF ValidatePresentationSupport, Goes, Fails
<1>10. CASE CreateFrameResources
  BY <1>10 DEF CreateFrameResources, Goes, Made, Fails
<1>11. CASE QuerySurface
  BY <1>11, <1>0, QuerySurfaceEffect
<1>12. CASE WaitDevice
  BY <1>12 DEF WaitDevice, Goes, Fails, RecreateFails, NoCall
<1>13. CASE WaitForPresentation
  BY <1>13 DEF WaitForPresentation, Goes, Fails, RecreateFails, NoCall
<1>14. CASE CreateSwapchain
  BY <1>14 DEF CreateSwapchain, Retires, Goes
<1>14a. CASE RetireSwapchain
  BY <1>14a, <1>0, RetireSwapchainEffect
<1>15. CASE InstallSwapchain
  BY <1>15, <1>0, InstallSwapchainEffect
<1>16. CASE Redraw
  BY <1>16 DEF Redraw, Goes
<1>17. CASE WaitForFrame
  BY <1>17 DEF WaitForFrame, Goes, Fatal, NoCall
<1>18. CASE Acquire
  BY <1>18, <1>0, AcquireEffect
<1>19. CASE WaitForImage
  BY <1>19 DEF WaitForImage, Goes, Fatal, NoCall
<1>20. CASE WaitForPresented
  BY <1>20 DEF WaitForPresented, Goes, Fatal, NoCall
<1>21. CASE ResetCommandBuffer
  BY <1>21 DEF ResetCommandBuffer, Goes, Fatal, NoCall
<1>22. CASE RecordClear
  BY <1>22 DEF RecordClear, Goes, Fatal, NoCall
<1>23. CASE ResetFrame
  BY <1>23 DEF ResetFrame, Goes, Fatal, NoCall
<1>24. CASE Submit
  BY <1>24 DEF Submit, Goes, Fatal, NoCall
<1>25. CASE Present
  BY <1>25, <1>0, PresentEffect
<1>26. CASE DestroyPresentedWindow
  BY <1>26 DEF DestroyPresentedWindow, Goes, NoCall
<1>27. CASE DestroySwapchain
  BY <1>27, <1>0, DestroySwapchainEffect
<1>28. CASE DestroyDevice
  BY <1>28 DEF DestroyDevice, NoCall
<1>29. CASE Execute
  BY <1>29 DEF Execute
<1>30. ASSUME NEW i \in Images, Show(i) PROVE NothingUnderWay'
  BY <1>30 DEF Show
<1>31. ASSUME NEW i \in Images, GiveBack(i) PROVE NothingUnderWay'
  BY <1>31 DEF GiveBack
<1>32. ASSUME NEW i \in Images, SignalPresented(i) PROVE NothingUnderWay'
  BY <1>32 DEF SignalPresented
<1>33. CASE DeviceLost
  BY <1>33 DEF DeviceLost
<1> QED
  BY <1>1, <1>2, <1>3, <1>4, <1>5, <1>6, <1>7, <1>8, <1>9, <1>10, <1>11, <1>12, <1>13, <1>14, <1>14a,
     <1>15, <1>16, <1>17, <1>18, <1>19, <1>20, <1>21, <1>22, <1>23, <1>24, <1>25, <1>26, <1>27, <1>28,
     <1>29, <1>30, <1>31, <1>32, <1>33 DEF PresenterNext, EventThread, Attaching, Recreating, Presenting,
     Destroying, Compositor

(* A submission keeps its frame and its image to itself.                   *)
LEMMA SubmissionsStep ==
  ASSUME PresenterInv, PresenterNext
  PROVE  Submissions'
<1>00. /\ CurrentFrame \in Frames /\ {"reset", "pending", "signaled"} \subseteq Signals
       /\ \A k \in DOMAIN submitted : submitted[k].frame \in Frames /\ submitted[k].image \in Images
  <2>1. CurrentFrame \in Frames /\ {"reset", "pending", "signaled"} \subseteq Signals
    BY DEF PresenterInv, PresenterTypeOK, WindowType, CurrentFrame, Signals
  <2>2. \A k \in DOMAIN submitted : submitted[k] \in Work
    BY DEF PresenterInv, PresenterTypeOK
  <2> QED
    BY <2>1, <2>2 DEF Work
<1> USE DEF PresenterInv, Submissions, NothingUnderWay, Objects, WithSwapchain, Forgotten, NewImage,
   FramesInOrder, ImagesInOrder, Presentations, Drawing, Holding, CurrentFrame, CurrentImage,
   DeviceIsIdle, PresenterTypeOK, FrameType, ImageType
<1>0. PresenterTypeOK'
  BY TypeStep
<1>1. CASE BeginAttach
  BY <1>1 DEF BeginAttach, CpuType, WindowType, Places, CallType, AnySize, At, Has, objects, gpu,
     NoCall
<1>2. CASE BeginRedraw
  BY <1>2 DEF BeginRedraw, CpuType, WindowType, Places, CallType, AnySize, At, Has, objects, gpu,
     NoCall
<1>3. CASE DetachWindow
  BY <1>3 DEF DetachWindow, CpuType, WindowType, Places, CallType, AnySize, At, Has, objects, gpu,
     NoCall
<1>4. CASE Shutdown
  BY <1>4 DEF Shutdown, CpuType, WindowType, Places, CallType, AnySize, At, Has, objects, gpu, NoCall
<1>5. CASE EnsureInstance
  BY <1>5 DEF EnsureInstance, CpuType, WindowType, Places, CallType, AnySize, At, Goes, Has, gpu,
     Made, NoCall
<1>6. CASE CreateSurface
  BY <1>6 DEF CreateSurface, CpuType, WindowType, Places, CallType, AnySize, At, Goes, Has, gpu,
     Made, NoCall
<1>7. CASE EnsureDevice
  BY <1>7 DEF EnsureDevice, CpuType, WindowType, Places, CallType, AnySize, At, Goes, Has, gpu,
     Made, Fails
<1>8. CASE CreateCommandPool
  BY <1>8 DEF CreateCommandPool, CpuType, WindowType, Places, CallType, AnySize, At, Goes, Has, gpu,
     Made, Fails
<1>9. CASE ValidatePresentationSupport
  BY <1>9 DEF ValidatePresentationSupport, CpuType, WindowType, Places, CallType, AnySize, At, Goes,
     Has, objects, gpu, Fails
<1>10. CASE CreateFrameResources
  BY <1>10 DEF CreateFrameResources, CpuType, WindowType, Places, CallType, AnySize, At, Goes, Has,
     gpu, Made, Fails
<1>11. CASE QuerySurface
  BY <1>11, <1>0, QuerySurfaceEffect DEF At, Has
<1>12. CASE WaitDevice
  BY <1>12 DEF WaitDevice, CpuType, WindowType, Places, CallType, AnySize, At, Goes, Has, objects,
     gpu, Fails, RecreateFails, NoCall
<1>13. CASE WaitForPresentation
  BY <1>13 DEF WaitForPresentation, CpuType, WindowType, Places, CallType, AnySize, At, Goes, Has,
     gpu, Fails, RecreateFails, NoCall
<1>14. CASE CreateSwapchain
  BY <1>14 DEF CreateSwapchain, Retires, CpuType, WindowType, Places, CallType, AnySize, At, Goes, Has, gpu
<1>14a. CASE RetireSwapchain
  BY <1>14a, <1>0, RetireSwapchainEffect DEF At, Has
<1>15. CASE InstallSwapchain
  BY <1>15, <1>0, InstallSwapchainEffect DEF At, Has
<1>16. CASE Redraw
  BY <1>16 DEF Redraw, CpuType, WindowType, Places, CallType, AnySize, At, Goes, Has, objects, gpu
<1>17. CASE WaitForFrame
  BY <1>17 DEF WaitForFrame, CpuType, WindowType, Places, CallType, AnySize, At, Goes, Has, objects,
     gpu, Fatal, NoCall
<1>18. CASE Acquire
  <2> HIDE DEF Submissions, NothingUnderWay, Objects, WithSwapchain, Forgotten, NewImage,
     FramesInOrder, ImagesInOrder, Presentations, Drawing, Holding, CurrentFrame, CurrentImage,
     DeviceIsIdle, PresenterTypeOK, FrameType, ImageType
  <2>1. \A j \in Images : /\ image'[j].finished = image[j].finished
                          /\ image'[j].owner \in {image[j].owner, "code"}
    BY <1>18, AcquireEffect, ImageOwner DEF PresenterTypeOK
  <2>2. \A f \in Frames : frame'[f].complete = frame[f].complete
    BY <1>18, <1>00, AcquireEffect, FrameAvailable DEF PresenterTypeOK
  <2>3. submitted' = submitted
    BY <1>18, AcquireEffect
  <2> QED
    BY <1>00, <2>1, <2>2, <2>3 DEF Submissions
<1>19. CASE WaitForImage
  BY <1>19 DEF WaitForImage, CpuType, WindowType, Places, CallType, AnySize, At, Goes, Has, objects,
     gpu, Fatal, NoCall
<1>20. CASE WaitForPresented
  <2> HIDE DEF Submissions, NothingUnderWay, Objects, WithSwapchain, Forgotten, NewImage,
     FramesInOrder, ImagesInOrder, Presentations, Drawing, Holding, CurrentFrame, CurrentImage,
     DeviceIsIdle, PresenterTypeOK, FrameType, ImageType
  <2>1. CurrentImage \in Images
    BY <1>20 DEF WaitForPresented, At, ImagesInOrder, Drawing
  <2>2. \A j \in Images : image'[j].owner = image[j].owner /\ image'[j].finished = image[j].finished
    BY <1>20, <2>1, ImageWaited DEF WaitForPresented, PresenterTypeOK
  <2>3. frame' = frame /\ submitted' = submitted
    BY <1>20 DEF WaitForPresented, gpu
  <2> QED
    BY <1>00, <2>2, <2>3 DEF Submissions
<1>21. CASE ResetCommandBuffer
  BY <1>21 DEF ResetCommandBuffer, CpuType, WindowType, Places, CallType, AnySize, At, Goes, Has,
     objects, gpu, Fatal, NoCall
<1>22. CASE RecordClear
  BY <1>22 DEF RecordClear, CpuType, WindowType, Places, CallType, AnySize, At, Goes, Has, objects,
     gpu, Fatal, NoCall
<1>23. CASE ResetFrame
  <2> HIDE DEF Submissions, NothingUnderWay, Objects, WithSwapchain, Forgotten, NewImage,
     FramesInOrder, ImagesInOrder, Presentations, Drawing, Holding, CurrentFrame, CurrentImage,
     DeviceIsIdle, PresenterTypeOK, FrameType, ImageType
  <2>1. frame[CurrentFrame].complete = "signaled"
    BY <1>23 DEF ResetFrame, At, FramesInOrder, Drawing
  <2>2. \A f \in Frames : frame'[f].complete = frame[f].complete \/ f = CurrentFrame
    BY <1>23, <1>00, FrameComplete DEF ResetFrame, PresenterTypeOK, Signals
  <2>3. image' = image /\ submitted' = submitted
    BY <1>23 DEF ResetFrame, gpu
  <2> QED
    BY <1>00, <2>1, <2>2, <2>3 DEF Submissions
<1>24. CASE Submit
  <2> HIDE DEF Submissions, NothingUnderWay, Objects, WithSwapchain, Forgotten, NewImage,
     FramesInOrder, ImagesInOrder, Presentations, Drawing, Holding, CurrentFrame, CurrentImage,
     DeviceIsIdle, PresenterTypeOK, FrameType, ImageType
  <2> DEFINE work == [frame |-> CurrentFrame, image |-> CurrentImage]
  <2>1. /\ frame[CurrentFrame].complete = "reset" /\ CurrentImage \in Images
        /\ image[CurrentImage].finished = "reset" /\ image[CurrentImage].owner = "code"
    BY <1>24 DEF Submit, At, FramesInOrder, ImagesInOrder, Drawing, Holding
  <2>2. CASE UNCHANGED <<submitted, frame, image>>
    BY <2>2 DEF Submissions
  <2>3. CASE /\ submitted' = Append(submitted, work)
             /\ frame' = [frame EXCEPT ![CurrentFrame].complete = "pending"]
             /\ image' = [image EXCEPT ![CurrentImage].inFlight = CurrentFrame, ![CurrentImage].finished = "pending"]
    <3>1. \A f \in Frames : frame'[f].complete = IF f = CurrentFrame THEN "pending" ELSE frame[f].complete
      BY <1>00, <2>3, FrameComplete DEF PresenterTypeOK, Signals
    <3>2. \A j \in Images : /\ image'[j].finished = IF j = CurrentImage THEN "pending" ELSE image[j].finished
                            /\ image'[j].owner = image[j].owner
      BY <1>00, <2>1, <2>3, ImageSubmitted DEF PresenterTypeOK
    <3>3. /\ work.frame = CurrentFrame /\ work.image = CurrentImage /\ work \in Work
      BY <1>00, <2>1 DEF Work
    <3>4. /\ DOMAIN submitted' = 1..(Len(submitted) + 1) /\ DOMAIN submitted = 1..Len(submitted)
          /\ Len(submitted) \in Nat
          /\ \A k \in DOMAIN submitted : submitted'[k] = submitted[k]
          /\ submitted'[Len(submitted) + 1] = work
      <4> HIDE DEF work
      <4> QED
        BY <2>3, <3>3 DEF PresenterTypeOK
    <3>5. \A k \in DOMAIN submitted' : k \in DOMAIN submitted \/ submitted'[k] = work
      BY <3>4
    <3>6. \A k \in DOMAIN submitted : /\ submitted[k].frame # CurrentFrame
                                      /\ submitted[k].image # CurrentImage
      BY <1>00, <2>1 DEF Submissions
    <3>7. \A k \in DOMAIN submitted' : /\ frame'[submitted'[k].frame].complete = "pending"
                                       /\ image'[submitted'[k].image].finished = "pending"
                                       /\ image'[submitted'[k].image].owner # "engine"
      <4> HIDE DEF work
      <4> QED
        BY <1>00, <2>1, <3>1, <3>2, <3>3, <3>4, <3>5, <3>6 DEF Submissions
    <3>8. ASSUME NEW j \in DOMAIN submitted', NEW k \in DOMAIN submitted', j # k
          PROVE  submitted'[j].frame # submitted'[k].frame /\ submitted'[j].image # submitted'[k].image
      <4> HIDE DEF work
      <4>1. CASE j \in DOMAIN submitted /\ k \in DOMAIN submitted
        BY <3>4, <3>8, <4>1 DEF Submissions
      <4>2. CASE j \in DOMAIN submitted /\ k \notin DOMAIN submitted
        BY <3>3, <3>4, <3>5, <3>6, <4>2
      <4>3. CASE j \notin DOMAIN submitted /\ k \in DOMAIN submitted
        BY <3>3, <3>4, <3>5, <3>6, <4>3
      <4>4. CASE j \notin DOMAIN submitted /\ k \notin DOMAIN submitted
        BY <3>4, <3>8, <4>4
      <4> QED
        BY <4>1, <4>2, <4>3, <4>4
    <3> QED
      BY <3>7, <3>8 DEF Submissions
  <2> QED
    BY <1>24, <2>2, <2>3 DEF Submit
<1>25. CASE Present
  <2> HIDE DEF Submissions, NothingUnderWay, Objects, WithSwapchain, Forgotten, NewImage,
     FramesInOrder, ImagesInOrder, Presentations, Drawing, Holding, CurrentFrame, CurrentImage,
     DeviceIsIdle, PresenterTypeOK, FrameType, ImageType
  <2>1. CurrentImage \in Images /\ UNCHANGED <<submitted, frame>>
    BY <1>25, PresentEffect DEF ImagesInOrder, Drawing, At
  <2>2. \A j \in Images : /\ image'[j].finished = image[j].finished
                          /\ image'[j].owner \in {image[j].owner, "queue"}
    BY <1>25, <2>1, PresentEffect, ImagePresented DEF PresenterTypeOK
  <2> QED
    BY <1>00, <2>1, <2>2 DEF Submissions
<1>26. CASE DestroyPresentedWindow
  BY <1>26 DEF DestroyPresentedWindow, CpuType, WindowType, Places, CallType, AnySize, At, Goes, Has, gpu,
     NoCall
<1>27. CASE DestroySwapchain
  BY <1>27, <1>0, DestroySwapchainEffect DEF At, Has
<1>28. CASE DestroyDevice
  BY <1>28 DEF DestroyDevice, CpuType, WindowType, Places, CallType, AnySize, At, Has, gpu, NoCall
<1>29. CASE Execute
  <2> HIDE DEF Submissions, NothingUnderWay, Objects, WithSwapchain, Forgotten, NewImage,
     FramesInOrder, ImagesInOrder, Presentations, Drawing, Holding, CurrentFrame, CurrentImage,
     DeviceIsIdle, PresenterTypeOK, FrameType, ImageType
  <2> DEFINE work == Head(submitted)
  <2>1. /\ submitted # <<>> /\ submitted' = Tail(submitted)
        /\ frame' = [frame EXCEPT ![work.frame].complete = "signaled", ![work.frame].available = "reset"]
        /\ image' = [image EXCEPT ![work.image].finished = "signaled"]
    BY <1>29 DEF Execute
  <2>2. /\ DOMAIN submitted = 1..Len(submitted) /\ Len(submitted) \in Nat \ {0} /\ work = submitted[1]
        /\ DOMAIN submitted' = 1..(Len(submitted) - 1)
        /\ \A k \in DOMAIN submitted' : submitted'[k] = submitted[k + 1]
    BY <2>1 DEF PresenterTypeOK
  <2>3. \A k \in DOMAIN submitted' : k + 1 \in DOMAIN submitted /\ k + 1 # 1
    BY <2>2
  <2>4. 1 \in DOMAIN submitted /\ work.frame \in Frames /\ work.image \in Images
    BY <1>00, <2>2
  <2>5. \A k \in DOMAIN submitted' : submitted'[k].frame # work.frame /\ submitted'[k].image # work.image
    BY <2>2, <2>3, <2>4 DEF Submissions
  <2> HIDE DEF work
  <2>6. \A f \in Frames : frame'[f].complete = frame[f].complete \/ f = work.frame
    BY <2>1, <2>4, FrameExecuted DEF PresenterTypeOK
  <2>7. \A j \in Images : /\ image'[j].finished = image[j].finished \/ j = work.image
                          /\ image'[j].owner = image[j].owner
    BY <1>00, <2>1, <2>4, ImageFinished DEF PresenterTypeOK
  <2>8. \A k \in DOMAIN submitted' : /\ frame'[submitted'[k].frame].complete = "pending"
                                     /\ image'[submitted'[k].image].finished = "pending"
                                     /\ image'[submitted'[k].image].owner # "engine"
    BY <1>00, <2>2, <2>3, <2>5, <2>6, <2>7 DEF Submissions
  <2>9. ASSUME NEW j \in DOMAIN submitted', NEW k \in DOMAIN submitted', j # k
        PROVE  submitted'[j].frame # submitted'[k].frame /\ submitted'[j].image # submitted'[k].image
    <3>1. j + 1 # k + 1
      BY <2>2, <2>9
    <3> QED
      BY <2>2, <2>3, <3>1 DEF Submissions
  <2> QED
    BY <2>8, <2>9 DEF Submissions
<1>30. ASSUME NEW i \in Images, Show(i) PROVE Submissions'
  BY <1>30 DEF Show, CpuType, WindowType, Places, CallType, AnySize, At, Has, gpu
<1>31. ASSUME NEW i \in Images, GiveBack(i) PROVE Submissions'
  BY <1>31 DEF GiveBack, CpuType, WindowType, Places, CallType, AnySize, At, Has, gpu
<1>32. ASSUME NEW i \in Images, SignalPresented(i) PROVE Submissions'
  BY <1>32 DEF SignalPresented, CpuType, WindowType, Places, CallType, AnySize, At, Has
<1>33. CASE DeviceLost
  BY <1>33 DEF DeviceLost, CpuType, WindowType, Places, CallType, AnySize, At, Has, objects
<1> QED
  BY <1>1, <1>2, <1>3, <1>4, <1>5, <1>6, <1>7, <1>8, <1>9, <1>10, <1>11, <1>12, <1>13, <1>14, <1>14a,
     <1>15, <1>16, <1>17, <1>18, <1>19, <1>20, <1>21, <1>22, <1>23, <1>24, <1>25, <1>26, <1>27, <1>28,
     <1>29, <1>30, <1>31, <1>32, <1>33 DEF PresenterNext, EventThread, Attaching, Recreating, Presenting,
     Destroying, Compositor

(* A signaled fence comes with a semaphore that can be signaled again.     *)
LEMMA FramesInOrderStep ==
  ASSUME PresenterInv, PresenterNext
  PROVE  FramesInOrder'
<1>00. /\ CurrentFrame \in Frames /\ {"reset", "pending", "signaled"} \subseteq Signals
       /\ \A k \in DOMAIN submitted : submitted[k].frame \in Frames /\ submitted[k].image \in Images
  <2>1. CurrentFrame \in Frames /\ {"reset", "pending", "signaled"} \subseteq Signals
    BY DEF PresenterInv, PresenterTypeOK, WindowType, CurrentFrame, Signals
  <2>2. \A k \in DOMAIN submitted : submitted[k] \in Work
    BY DEF PresenterInv, PresenterTypeOK
  <2> QED
    BY <2>1, <2>2 DEF Work
<1> USE DEF PresenterInv, FramesInOrder, Objects, Calls, WithSwapchain, WithoutWindow, Attachment,
   Unattached, NewFrame, Drawing, Holding, CurrentFrame, Submissions, PresenterTypeOK, FrameType
<1>0. PresenterTypeOK'
  BY TypeStep
<1>1. CASE BeginAttach
  BY <1>1 DEF BeginAttach, CpuType, WindowType, Places, CallType, AnySize, At, Has, objects, gpu,
     NoCall
<1>2. CASE BeginRedraw
  BY <1>2 DEF BeginRedraw, CpuType, WindowType, Places, CallType, AnySize, At, Has, objects, gpu,
     NoCall
<1>3. CASE DetachWindow
  BY <1>3 DEF DetachWindow, CpuType, WindowType, Places, CallType, AnySize, At, Has, objects, gpu,
     NoCall
<1>4. CASE Shutdown
  BY <1>4 DEF Shutdown, CpuType, WindowType, Places, CallType, AnySize, At, Has, objects, gpu, NoCall
<1>5. CASE EnsureInstance
  BY <1>5 DEF EnsureInstance, CpuType, WindowType, Places, CallType, AnySize, At, Goes, Has, gpu,
     Made, NoCall
<1>6. CASE CreateSurface
  BY <1>6 DEF CreateSurface, CpuType, WindowType, Places, CallType, AnySize, At, Goes, Has, gpu,
     Made, NoCall
<1>7. CASE EnsureDevice
  BY <1>7 DEF EnsureDevice, CpuType, WindowType, Places, CallType, AnySize, At, Goes, Has, gpu,
     Made, Fails
<1>8. CASE CreateCommandPool
  BY <1>8 DEF CreateCommandPool, CpuType, WindowType, Places, CallType, AnySize, At, Goes, Has, gpu,
     Made, Fails
<1>9. CASE ValidatePresentationSupport
  BY <1>9 DEF ValidatePresentationSupport, CpuType, WindowType, Places, CallType, AnySize, At, Goes,
     Has, objects, gpu, Fails
<1>10. CASE CreateFrameResources
  BY <1>10 DEF CreateFrameResources, CpuType, WindowType, Places, CallType, AnySize, At, Goes, Has,
     gpu, Made, Fails
<1>11. CASE QuerySurface
  BY <1>11, <1>0, QuerySurfaceEffect DEF At, Has
<1>12. CASE WaitDevice
  BY <1>12 DEF WaitDevice, CpuType, WindowType, Places, CallType, AnySize, At, Goes, Has, objects,
     gpu, Fails, RecreateFails, NoCall
<1>13. CASE WaitForPresentation
  BY <1>13 DEF WaitForPresentation, CpuType, WindowType, Places, CallType, AnySize, At, Goes, Has,
     gpu, Fails, RecreateFails, NoCall
<1>14. CASE CreateSwapchain
  BY <1>14 DEF CreateSwapchain, Retires, CpuType, WindowType, Places, CallType, AnySize, At, Goes, Has, gpu
<1>14a. CASE RetireSwapchain
  BY <1>14a, <1>0, RetireSwapchainEffect DEF At, Has
<1>15. CASE InstallSwapchain
  BY <1>15, <1>0, InstallSwapchainEffect DEF At, Has
<1>16. CASE Redraw
  BY <1>16 DEF Redraw, CpuType, WindowType, Places, CallType, AnySize, At, Goes, Has, objects, gpu
<1>17. CASE WaitForFrame
  BY <1>17 DEF WaitForFrame, CpuType, WindowType, Places, CallType, AnySize, At, Goes, Has, objects,
     gpu, Fatal, NoCall
<1>18. CASE Acquire
  BY <1>18, <1>0, AcquireEffect DEF At, Has
<1>19. CASE WaitForImage
  BY <1>19 DEF WaitForImage, CpuType, WindowType, Places, CallType, AnySize, At, Goes, Has, objects,
     gpu, Fatal, NoCall
<1>20. CASE WaitForPresented
  BY <1>20 DEF WaitForPresented, CpuType, WindowType, Places, CallType, AnySize, At, Goes, Has, gpu,
     Fatal, NoCall
<1>21. CASE ResetCommandBuffer
  BY <1>21 DEF ResetCommandBuffer, CpuType, WindowType, Places, CallType, AnySize, At, Goes, Has,
     objects, gpu, Fatal, NoCall
<1>22. CASE RecordClear
  BY <1>22 DEF RecordClear, CpuType, WindowType, Places, CallType, AnySize, At, Goes, Has, objects,
     gpu, Fatal, NoCall
<1>23. CASE ResetFrame
  BY <1>23 DEF ResetFrame, CpuType, WindowType, Places, CallType, AnySize, At, Goes, Has, gpu,
     Fatal, NoCall
<1>24. CASE Submit
  <2> HIDE DEF FramesInOrder, Objects, Calls, WithSwapchain, WithoutWindow, Attachment, Unattached,
     NewFrame, Drawing, Holding, CurrentFrame, Submissions, PresenterTypeOK, FrameType
  <2>1. cpu.at = "submit"
    BY <1>24 DEF Submit, At
  <2>2. CASE Fatal /\ UNCHANGED frame
    <3>1. cpu'.at = "idle" /\ window'.failed
      BY <2>2, FatalFields, NoCallFields DEF PresenterTypeOK
    <3> QED
      BY <3>1 DEF FramesInOrder, At, Drawing
  <2>3. CASE /\ frame' = [frame EXCEPT ![CurrentFrame].complete = "pending"]
             /\ Goes("queuePresent") /\ UNCHANGED window
    <3>1. cpu'.at = "queuePresent"
      BY <2>3, GoesFields DEF PresenterTypeOK, Places
    <3>2. \A f \in Frames : /\ frame'[f].complete = IF f = CurrentFrame THEN "pending" ELSE frame[f].complete
                            /\ frame'[f].available = frame[f].available
      BY <1>00, <2>3, FrameComplete DEF PresenterTypeOK
    <3> QED
      BY <1>00, <2>1, <2>3, <3>1, <3>2 DEF FramesInOrder, At, Drawing, Holding, CurrentFrame
  <2> QED
    BY <1>24, <2>2, <2>3 DEF Submit
<1>25. CASE Present
  <2>1. PresenterTypeOK /\ FramesInOrder /\ (cpu.at = "queuePresent" => ~window.failed)
    OBVIOUS
  <2> HIDE DEF PresenterInv, FramesInOrder, Objects, Calls, WithSwapchain, WithoutWindow, Attachment,
     Unattached, NewFrame, Drawing, Holding, CurrentFrame, Submissions, PresenterTypeOK, FrameType
  <2>2. /\ cpu.at = "queuePresent" /\ UNCHANGED frame
        /\ cpu'.at \in {"idle", "query"}
    BY <1>25, <2>1, PresentEffect
  <2> QED BY <2>1, <2>2 DEF FramesInOrder, Drawing, Holding, At
<1>26. CASE DestroyPresentedWindow
  BY <1>26 DEF DestroyPresentedWindow, CpuType, WindowType, Places, CallType, AnySize, At, Goes, Has, gpu,
     NoCall
<1>27. CASE DestroySwapchain
  BY <1>27, <1>0, DestroySwapchainEffect DEF At, Has
<1>28. CASE DestroyDevice
  BY <1>28 DEF DestroyDevice, CpuType, WindowType, Places, CallType, AnySize, At, Has, gpu, NoCall
<1>29. CASE Execute
  BY <1>29 DEF Execute, CpuType, WindowType, Places, CallType, AnySize, At, Has
<1>30. ASSUME NEW i \in Images, Show(i) PROVE FramesInOrder'
  BY <1>30 DEF Show, CpuType, WindowType, Places, CallType, AnySize, At, Has, gpu
<1>31. ASSUME NEW i \in Images, GiveBack(i) PROVE FramesInOrder'
  BY <1>31 DEF GiveBack, CpuType, WindowType, Places, CallType, AnySize, At, Has, gpu
<1>32. ASSUME NEW i \in Images, SignalPresented(i) PROVE FramesInOrder'
  BY <1>32 DEF SignalPresented, CpuType, WindowType, Places, CallType, AnySize, At, Has
<1>33. CASE DeviceLost
  BY <1>33 DEF DeviceLost, CpuType, WindowType, Places, CallType, AnySize, At, Has, objects
<1> QED
  BY <1>1, <1>2, <1>3, <1>4, <1>5, <1>6, <1>7, <1>8, <1>9, <1>10, <1>11, <1>12, <1>13, <1>14, <1>14a,
     <1>15, <1>16, <1>17, <1>18, <1>19, <1>20, <1>21, <1>22, <1>23, <1>24, <1>25, <1>26, <1>27, <1>28,
     <1>29, <1>30, <1>31, <1>32, <1>33 DEF PresenterNext, EventThread, Attaching, Recreating, Presenting,
     Destroying, Compositor

(* The code owns the image it draws, and no other.                         *)
LEMMA ImagesInOrderStep ==
  ASSUME PresenterInv, PresenterNext
  PROVE  ImagesInOrder'
<1> USE DEF PresenterInv, ImagesInOrder, Objects, Calls, Forgotten, NewImage, NothingUnderWay,
   Submissions, Drawing, Holding, CurrentImage, CurrentFrame, WithSwapchain, WithoutWindow,
   Attachment, Unattached, PresenterTypeOK, ImageType, Work
<1>0. PresenterTypeOK'
  BY TypeStep
<1>1. CASE BeginAttach
  BY <1>1 DEF BeginAttach, CpuType, WindowType, Places, CallType, AnySize, At, Has, objects, gpu,
     NoCall
<1>2. CASE BeginRedraw
  BY <1>2 DEF BeginRedraw, CpuType, WindowType, Places, CallType, AnySize, At, Has, objects, gpu,
     NoCall
<1>3. CASE DetachWindow
  BY <1>3 DEF DetachWindow, CpuType, WindowType, Places, CallType, AnySize, At, Has, objects, gpu,
     NoCall
<1>4. CASE Shutdown
  BY <1>4 DEF Shutdown, CpuType, WindowType, Places, CallType, AnySize, At, Has, objects, gpu, NoCall
<1>5. CASE EnsureInstance
  BY <1>5 DEF EnsureInstance, CpuType, WindowType, Places, CallType, AnySize, At, Goes, Has, gpu,
     Made, NoCall
<1>6. CASE CreateSurface
  BY <1>6 DEF CreateSurface, CpuType, WindowType, Places, CallType, AnySize, At, Goes, Has, gpu,
     Made, NoCall
<1>7. CASE EnsureDevice
  BY <1>7 DEF EnsureDevice, CpuType, WindowType, Places, CallType, AnySize, At, Goes, Has, gpu,
     Made, Fails
<1>8. CASE CreateCommandPool
  BY <1>8 DEF CreateCommandPool, CpuType, WindowType, Places, CallType, AnySize, At, Goes, Has, gpu,
     Made, Fails
<1>9. CASE ValidatePresentationSupport
  BY <1>9 DEF ValidatePresentationSupport, CpuType, WindowType, Places, CallType, AnySize, At, Goes,
     Has, objects, gpu, Fails
<1>10. CASE CreateFrameResources
  BY <1>10 DEF CreateFrameResources, CpuType, WindowType, Places, CallType, AnySize, At, Goes, Has,
     gpu, Made, Fails
<1>11. CASE QuerySurface
  BY <1>11, <1>0, QuerySurfaceEffect DEF At, Has
<1>12. CASE WaitDevice
  BY <1>12 DEF WaitDevice, CpuType, WindowType, Places, CallType, AnySize, At, Goes, Has, objects,
     gpu, Fails, RecreateFails, NoCall
<1>13. CASE WaitForPresentation
  BY <1>13 DEF WaitForPresentation, CpuType, WindowType, Places, CallType, AnySize, At, Goes, Has,
     gpu, Fails, RecreateFails, NoCall
<1>14. CASE CreateSwapchain
  BY <1>14 DEF CreateSwapchain, Retires, CpuType, WindowType, Places, CallType, AnySize, At, Goes, Has, gpu
<1>14a. CASE RetireSwapchain
  BY <1>14a, <1>0, RetireSwapchainEffect DEF At, Has
<1>15. CASE InstallSwapchain
  BY <1>15, <1>0, InstallSwapchainEffect DEF At, Has
<1>16. CASE Redraw
  BY <1>16 DEF Redraw, CpuType, WindowType, Places, CallType, AnySize, At, Goes, Has, objects, gpu
<1>17. CASE WaitForFrame
  BY <1>17 DEF WaitForFrame, CpuType, WindowType, Places, CallType, AnySize, At, Goes, Has, objects,
     gpu, Fatal, NoCall
<1>18. CASE Acquire
  BY <1>18, <1>0, AcquireEffect DEF At, Has
<1>19. CASE WaitForImage
  BY <1>19 DEF WaitForImage, CpuType, WindowType, Places, CallType, AnySize, At, Goes, Has, objects,
     gpu, Fatal, NoCall
<1>20. CASE WaitForPresented
  <2> HIDE DEF ImagesInOrder, Objects, Calls, Forgotten, NewImage, NothingUnderWay, Submissions,
     Drawing, Holding, CurrentImage, CurrentFrame, WithSwapchain, WithoutWindow, Attachment,
     Unattached, PresenterTypeOK, ImageType, Work
  <2>1. CurrentImage \in Images
    BY <1>20 DEF WaitForPresented, At, ImagesInOrder, Drawing
  <2>2. \A j \in Images : image'[j].owner = image[j].owner /\ image'[j].finished = image[j].finished
    BY <1>20, <2>1, ImageWaited DEF WaitForPresented, PresenterTypeOK
  <2>3. \/ cpu'.at = "record" /\ cpu'.image = cpu.image /\ UNCHANGED window
        \/ cpu'.at = "idle" /\ window'.failed
    BY <1>20, GoesFields, FatalFields, NoCallFields DEF WaitForPresented, PresenterTypeOK, Places
  <2> QED
    BY <1>20, <2>1, <2>2, <2>3 DEF ImagesInOrder, Drawing, Holding, CurrentImage, WaitForPresented,
       At
<1>21. CASE ResetCommandBuffer
  BY <1>21 DEF ResetCommandBuffer, CpuType, WindowType, Places, CallType, AnySize, At, Goes, Has,
     objects, gpu, Fatal, NoCall
<1>22. CASE RecordClear
  BY <1>22 DEF RecordClear, CpuType, WindowType, Places, CallType, AnySize, At, Goes, Has, objects,
     gpu, Fatal, NoCall
<1>23. CASE ResetFrame
  BY <1>23 DEF ResetFrame, CpuType, WindowType, Places, CallType, AnySize, At, Goes, Has, gpu,
     Fatal, NoCall
<1>24. CASE Submit
  BY <1>24 DEF Submit, CpuType, WindowType, Places, CallType, AnySize, At, Goes, Has, Fatal, NoCall
<1>25. CASE Present
  <2>1. /\ PresenterTypeOK /\ ImagesInOrder /\ image \in [Images -> ImageType]
        /\ cpu.at = "queuePresent" => CurrentImage \in Images /\ ~window.failed
    OBVIOUS
  <2> HIDE DEF PresenterInv, ImagesInOrder, Objects, Calls, Forgotten, NewImage, NothingUnderWay,
     Submissions, Drawing, Holding, CurrentImage, CurrentFrame, WithSwapchain, WithoutWindow,
     Attachment, Unattached, PresenterTypeOK, ImageType, Work
  <2>2. /\ cpu.at = "queuePresent" /\ CurrentImage \in Images
        /\ cpu'.at \in {"idle", "query"}
        /\ \A i \in Images : /\ image'[i].finished = image[i].finished
                             /\ \/ image'[i].owner = image[i].owner /\ window'.failed
                                \/ image'[i].owner = (IF i = CurrentImage THEN "queue" ELSE image[i].owner)
    <3>1. CASE window'.failed /\ cpu'.at = "idle" /\ UNCHANGED image
      BY <1>25, <2>1, <3>1, PresentEffect
    <3>2. CASE image' = [image EXCEPT ![CurrentImage].owner = "queue", ![CurrentImage].complete = "pending",
                                      ![CurrentImage].pending = TRUE]
      BY <1>25, <2>1, <3>2, PresentEffect, ImagePresented
    <3> QED BY <1>25, <2>1, <3>1, <3>2, PresentEffect
  <2>3. \A i \in Images : image[i].owner = "code" /\ i # CurrentImage => window.failed
    BY <2>1, <2>2 DEF ImagesInOrder
  <2> QED BY <2>1, <2>2, <2>3 DEF ImagesInOrder, Drawing, Holding
<1>26. CASE DestroyPresentedWindow
  BY <1>26 DEF DestroyPresentedWindow, CpuType, WindowType, Places, CallType, AnySize, At, Goes, Has, gpu,
     NoCall
<1>27. CASE DestroySwapchain
  BY <1>27, <1>0, DestroySwapchainEffect DEF At, Has
<1>28. CASE DestroyDevice
  BY <1>28 DEF DestroyDevice, CpuType, WindowType, Places, CallType, AnySize, At, Has, gpu, NoCall
<1>29. CASE Execute
  BY <1>29 DEF Execute, CpuType, WindowType, Places, CallType, AnySize, At, Has
<1>30. ASSUME NEW i \in Images, Show(i) PROVE ImagesInOrder'
  BY <1>30 DEF Show, CpuType, WindowType, Places, CallType, AnySize, At, Has, gpu
<1>31. ASSUME NEW i \in Images, GiveBack(i) PROVE ImagesInOrder'
  BY <1>31 DEF GiveBack, CpuType, WindowType, Places, CallType, AnySize, At, Has, gpu
<1>32. ASSUME NEW i \in Images, SignalPresented(i) PROVE ImagesInOrder'
  BY <1>32 DEF SignalPresented, CpuType, WindowType, Places, CallType, AnySize, At, Has
<1>33. CASE DeviceLost
  BY <1>33 DEF DeviceLost, CpuType, WindowType, Places, CallType, AnySize, At, Has, objects
<1> QED
  BY <1>1, <1>2, <1>3, <1>4, <1>5, <1>6, <1>7, <1>8, <1>9, <1>10, <1>11, <1>12, <1>13, <1>14, <1>14a,
     <1>15, <1>16, <1>17, <1>18, <1>19, <1>20, <1>21, <1>22, <1>23, <1>24, <1>25, <1>26, <1>27, <1>28,
     <1>29, <1>30, <1>31, <1>32, <1>33 DEF PresenterNext, EventThread, Attaching, Recreating, Presenting,
     Destroying, Compositor

(* A presentation keeps its fence pending until it is over.                *)
LEMMA PresentationsStep ==
  ASSUME PresenterInv, PresenterNext
  PROVE  Presentations'
<1> USE DEF PresenterInv, Presentations, NothingUnderWay, Objects, Calls, Forgotten, NewImage,
   ImagesInOrder, Drawing, Holding, CurrentImage, WithSwapchain, WithoutWindow, Attachment,
   PresentationIsOver, PresenterTypeOK, ImageType
<1>0. PresenterTypeOK'
  BY TypeStep
<1>1. CASE BeginAttach
  BY <1>1 DEF BeginAttach, CpuType, WindowType, Places, CallType, AnySize, At, Has, objects, gpu,
     NoCall
<1>2. CASE BeginRedraw
  BY <1>2 DEF BeginRedraw, CpuType, WindowType, Places, CallType, AnySize, At, Has, objects, gpu,
     NoCall
<1>3. CASE DetachWindow
  BY <1>3 DEF DetachWindow, CpuType, WindowType, Places, CallType, AnySize, At, Has, objects, gpu,
     NoCall
<1>4. CASE Shutdown
  BY <1>4 DEF Shutdown, CpuType, WindowType, Places, CallType, AnySize, At, Has, objects, gpu, NoCall
<1>5. CASE EnsureInstance
  BY <1>5 DEF EnsureInstance, CpuType, WindowType, Places, CallType, AnySize, At, Goes, Has, gpu,
     Made, NoCall
<1>6. CASE CreateSurface
  BY <1>6 DEF CreateSurface, CpuType, WindowType, Places, CallType, AnySize, At, Goes, Has, gpu,
     Made, NoCall
<1>7. CASE EnsureDevice
  BY <1>7 DEF EnsureDevice, CpuType, WindowType, Places, CallType, AnySize, At, Goes, Has, gpu,
     Made, Fails
<1>8. CASE CreateCommandPool
  BY <1>8 DEF CreateCommandPool, CpuType, WindowType, Places, CallType, AnySize, At, Goes, Has, gpu,
     Made, Fails
<1>9. CASE ValidatePresentationSupport
  BY <1>9 DEF ValidatePresentationSupport, CpuType, WindowType, Places, CallType, AnySize, At, Goes,
     Has, objects, gpu, Fails
<1>10. CASE CreateFrameResources
  BY <1>10 DEF CreateFrameResources, CpuType, WindowType, Places, CallType, AnySize, At, Goes, Has,
     gpu, Made, Fails
<1>11. CASE QuerySurface
  BY <1>11, <1>0, QuerySurfaceEffect DEF At, Has
<1>12. CASE WaitDevice
  BY <1>12 DEF WaitDevice, CpuType, WindowType, Places, CallType, AnySize, At, Goes, Has, objects,
     gpu, Fails, RecreateFails, NoCall
<1>13. CASE WaitForPresentation
  BY <1>13 DEF WaitForPresentation, CpuType, WindowType, Places, CallType, AnySize, At, Goes, Has,
     gpu, Fails, RecreateFails, NoCall
<1>14. CASE CreateSwapchain
  BY <1>14 DEF CreateSwapchain, Retires, CpuType, WindowType, Places, CallType, AnySize, At, Goes, Has, gpu
<1>14a. CASE RetireSwapchain
  BY <1>14a, <1>0, RetireSwapchainEffect DEF At, Has
<1>15. CASE InstallSwapchain
  BY <1>15, <1>0, InstallSwapchainEffect DEF At, Has
<1>16. CASE Redraw
  BY <1>16 DEF Redraw, CpuType, WindowType, Places, CallType, AnySize, At, Goes, Has, objects, gpu
<1>17. CASE WaitForFrame
  BY <1>17 DEF WaitForFrame, CpuType, WindowType, Places, CallType, AnySize, At, Goes, Has, objects,
     gpu, Fatal, NoCall
<1>18. CASE Acquire
  <2> HIDE DEF Presentations, NothingUnderWay, Objects, Calls, Forgotten, NewImage, ImagesInOrder,
     Drawing, Holding, CurrentImage, WithSwapchain, WithoutWindow, Attachment, PresentationIsOver,
     PresenterTypeOK, ImageType
  <2>1. \A j \in Images : image'[j].pending = image[j].pending /\ image'[j].complete = image[j].complete
    BY <1>18, AcquireEffect, ImageOwner DEF PresenterTypeOK
  <2>2. /\ cpu.at = "acquire" /\ cpu'.at \in {"waitImage", "query", "idle"}
        /\ UNCHANGED <<presenting, lost>>
    BY <1>18, AcquireEffect
  <2> QED
    BY <2>1, <2>2 DEF Presentations, At, Drawing, PresenterTypeOK
<1>19. CASE WaitForImage
  BY <1>19 DEF WaitForImage, CpuType, WindowType, Places, CallType, AnySize, At, Goes, Has, objects,
     gpu, Fatal, NoCall
<1>20. CASE WaitForPresented
  <2> HIDE DEF Presentations, NothingUnderWay, Objects, Calls, Forgotten, NewImage, ImagesInOrder,
     Drawing, Holding, CurrentImage, WithSwapchain, WithoutWindow, Attachment, PresentationIsOver,
     PresenterTypeOK, ImageType
  <2>1. cpu.at = "waitShown" /\ CurrentImage \in Images /\ UNCHANGED <<presenting, lost>>
    BY <1>20 DEF WaitForPresented, At, gpu, ImagesInOrder, Drawing
  <2>2. CASE ~image[CurrentImage].pending /\ Goes("record") /\ UNCHANGED image
    <3>1. cpu'.at = "record" /\ cpu'.image = cpu.image
      BY <2>2, GoesFields DEF PresenterTypeOK, Places
    <3> QED
      BY <2>1, <2>2, <3>1 DEF Presentations, At, Drawing, CurrentImage
  <2>3. CASE Fatal /\ UNCHANGED image
    <3>1. cpu'.at = "idle"
      BY <2>3, FatalFields, NoCallFields DEF PresenterTypeOK
    <3> QED
      BY <2>1, <2>3, <3>1 DEF Presentations, At, Drawing
  <2>4. CASE /\ image[CurrentImage].complete = "signaled" /\ Goes("record")
             /\ image' = [image EXCEPT ![CurrentImage].complete = "reset", ![CurrentImage].pending = FALSE]
    <3>1. cpu'.at = "record" /\ cpu'.image = cpu.image
      BY <2>4, GoesFields DEF PresenterTypeOK, Places
    <3>2. \A j \in Images : /\ image'[j].pending = IF j = CurrentImage THEN FALSE ELSE image[j].pending
                            /\ image'[j].complete = IF j = CurrentImage THEN "reset" ELSE image[j].complete
      BY <2>1, <2>4, ImageWaited DEF PresenterTypeOK
    <3> QED
      BY <2>1, <2>4, <3>1, <3>2 DEF Presentations, At, Drawing, CurrentImage, PresenterTypeOK
  <2> QED
    BY <1>20, <2>2, <2>3, <2>4 DEF WaitForPresented
<1>21. CASE ResetCommandBuffer
  BY <1>21 DEF ResetCommandBuffer, CpuType, WindowType, Places, CallType, AnySize, At, Goes, Has,
     objects, gpu, Fatal, NoCall
<1>22. CASE RecordClear
  BY <1>22 DEF RecordClear, CpuType, WindowType, Places, CallType, AnySize, At, Goes, Has, objects,
     gpu, Fatal, NoCall
<1>23. CASE ResetFrame
  BY <1>23 DEF ResetFrame, CpuType, WindowType, Places, CallType, AnySize, At, Goes, Has, gpu,
     Fatal, NoCall
<1>24. CASE Submit
  <2> HIDE DEF Presentations, NothingUnderWay, Objects, Calls, Forgotten, NewImage, ImagesInOrder,
     Drawing, Holding, CurrentImage, WithSwapchain, WithoutWindow, Attachment, PresentationIsOver,
     PresenterTypeOK, ImageType
  <2>1. /\ cpu.at = "submit" /\ CurrentImage \in Images /\ CurrentFrame \in Frames
        /\ UNCHANGED <<presenting, lost>>
    BY <1>24 DEF Submit, At, ImagesInOrder, Drawing, PresenterTypeOK, WindowType, CurrentFrame
  <2>2. \A j \in Images : image'[j].pending = image[j].pending /\ image'[j].complete = image[j].complete
    BY <1>24, <2>1, ImageSubmitted DEF Submit, PresenterTypeOK
  <2>3. (cpu'.at = "queuePresent" /\ cpu'.image = cpu.image) \/ cpu'.at = "idle"
    BY <1>24, GoesFields, FatalFields, NoCallFields DEF Submit, PresenterTypeOK, Places
  <2> QED
    BY <2>1, <2>2, <2>3 DEF Presentations, At, Drawing, CurrentImage, PresenterTypeOK
<1>25. CASE Present
  <2> HIDE DEF Presentations, NothingUnderWay, Objects, Calls, Forgotten, NewImage, ImagesInOrder,
     Drawing, Holding, CurrentImage, WithSwapchain, WithoutWindow, Attachment, PresentationIsOver,
     PresenterTypeOK, ImageType
  <2>1. cpu.at = "queuePresent" /\ CurrentImage \in Images /\ cpu'.at \in {"idle", "query"} /\ lost' = lost
    BY <1>25, PresentEffect DEF ImagesInOrder, Drawing, At
  <2>2. CASE /\ presenting' = presenting \cup {CurrentImage}
             /\ image' = [image EXCEPT ![CurrentImage].owner = "queue", ![CurrentImage].complete = "pending",
                                       ![CurrentImage].pending = TRUE]
    <3>1. \A j \in Images : /\ image'[j].pending = IF j = CurrentImage THEN TRUE ELSE image[j].pending
                            /\ image'[j].complete = IF j = CurrentImage THEN "pending" ELSE image[j].complete
      BY <2>1, <2>2, ImagePresented DEF PresenterTypeOK
    <3> QED
      BY <2>1, <2>2, <3>1 DEF Presentations, At, Drawing, PresenterTypeOK
  <2>3. CASE UNCHANGED <<presenting, image>>
    BY <2>1, <2>3 DEF Presentations, At, Drawing
  <2> QED
    BY <1>25, <2>2, <2>3, PresentEffect
<1>26. CASE DestroyPresentedWindow
  BY <1>26 DEF DestroyPresentedWindow, CpuType, WindowType, Places, CallType, AnySize, At, Goes, Has, gpu,
     NoCall
<1>27. CASE DestroySwapchain
  BY <1>27, <1>0, DestroySwapchainEffect DEF At, Has
<1>28. CASE DestroyDevice
  BY <1>28 DEF DestroyDevice, CpuType, WindowType, Places, CallType, AnySize, At, Has, gpu, NoCall
<1>29. CASE Execute
  BY <1>29 DEF Execute, CpuType, WindowType, Places, CallType, AnySize, At, Has
<1>30. ASSUME NEW i \in Images, Show(i) PROVE Presentations'
  BY <1>30 DEF Show, CpuType, WindowType, Places, CallType, AnySize, At, Has, gpu
<1>31. ASSUME NEW i \in Images, GiveBack(i) PROVE Presentations'
  BY <1>31 DEF GiveBack, CpuType, WindowType, Places, CallType, AnySize, At, Has, gpu
<1>32. ASSUME NEW i \in Images, SignalPresented(i) PROVE Presentations'
  BY <1>32 DEF SignalPresented, CpuType, WindowType, Places, CallType, AnySize, At, Has
<1>33. CASE DeviceLost
  BY <1>33 DEF DeviceLost, CpuType, WindowType, Places, CallType, AnySize, At, Has, objects
<1> QED
  BY <1>1, <1>2, <1>3, <1>4, <1>5, <1>6, <1>7, <1>8, <1>9, <1>10, <1>11, <1>12, <1>13, <1>14, <1>14a,
     <1>15, <1>16, <1>17, <1>18, <1>19, <1>20, <1>21, <1>22, <1>23, <1>24, <1>25, <1>26, <1>27, <1>28,
     <1>29, <1>30, <1>31, <1>32, <1>33 DEF PresenterNext, EventThread, Attaching, Recreating, Presenting,
     Destroying, Compositor

(* The invariant holds at first, and each step preserves it.               *)
LEMMA PresenterInvInit == PresenterInit => PresenterInv
<1> SUFFICES ASSUME PresenterInit PROVE PresenterInv
  OBVIOUS
<1>1. cpu \in CpuType /\ cpu.at = "idle" /\ cpu.call = "none" /\ cpu.image = NoImage
  BY NoCallFields DEF PresenterInit
<1>2. /\ frame \in [Frames -> FrameType] /\ image \in [Images -> ImageType] /\ window \in WindowType
      /\ image = Forgotten
  BY NewTypes DEF PresenterInit, Forgotten
<1>3. live = {} /\ submitted = <<>> /\ presenting = {} /\ stopped = FALSE /\ lost = FALSE
  BY DEF PresenterInit
<1>4. PresenterTypeOK
  <2>1. <<>> \in Seq(Work) /\ {FALSE} \subseteq BOOLEAN
    OBVIOUS
  <2> QED
    BY <1>1, <1>2, <1>3, <2>1 DEF PresenterTypeOK
<1>5. ~window.attached /\ ~window.failed
  BY DEF PresenterInit, Unattached
<1>6. Objects /\ Calls
  BY <1>1, <1>3, <1>5 DEF Objects, Calls, At, Has, Attachment, NoObjects, MadeBefore, WithoutWindow,
     WithSwapchain, WithoutSwapchain
<1>7. NothingUnderWay /\ Submissions
  BY <1>1, <1>2, <1>3 DEF NothingUnderWay, Submissions, At, Has
<1>8. FramesInOrder
  BY <1>1 DEF PresenterInit, NewFrame, FramesInOrder, At, Drawing
<1>9. ImagesInOrder /\ Presentations
  BY <1>1, <1>2, <1>3 DEF ImagesInOrder, Presentations, Forgotten, NewImage, At, Drawing, Holding
<1> QED
  BY <1>4, <1>6, <1>7, <1>8, <1>9 DEF PresenterInv

LEMMA PresenterInvStep == PresenterInv /\ [PresenterNext]_presenterVars => PresenterInv'
<1>1. ASSUME PresenterInv, PresenterNext PROVE PresenterInv'
  BY <1>1, TypeStep, ObjectsStep, CallsStep, NothingUnderWayStep, SubmissionsStep,
     FramesInOrderStep,
     ImagesInOrderStep, PresentationsStep DEF PresenterInv
<1>2. ASSUME PresenterInv, UNCHANGED presenterVars PROVE PresenterInv'
  <2> USE <1>2 DEF PresenterInv, presenterVars, gpu
  <2>1. PresenterTypeOK'
    BY DEF PresenterTypeOK
  <2>2. Objects'
    BY DEF Objects, At, Has, MadeBefore, NoObjects
  <2>3. Calls'
    BY DEF Calls, At
  <2>4. NothingUnderWay'
    BY DEF NothingUnderWay, At, Has
  <2>5. Submissions' /\ FramesInOrder'
    BY DEF Submissions, FramesInOrder, At, CurrentFrame
  <2>6. ImagesInOrder' /\ Presentations'
    BY DEF ImagesInOrder, Presentations, At, CurrentImage
  <2> QED
    BY <2>1, <2>2, <2>3, <2>4, <2>5, <2>6
<1> QED
  BY <1>1, <1>2

(* The invariant implies both properties.                                  *)
LEMMA InvUsed == PresenterInv => ObjectsLiveLongEnough
<1> SUFFICES ASSUME PresenterInv PROVE UsedIsAlive /\ NothingLeaks
  BY DEF ObjectsLiveLongEnough
<1>1. UsedIsAlive
  BY DEF PresenterInv, UsedIsAlive, NothingUnderWay, Objects, Has
<1>2. NothingLeaks
  BY DEF PresenterInv, NothingLeaks, Objects, Calls, ImagesInOrder, NoObjects, At, Has, Drawing,
     WithSwapchain
<1> QED
  BY <1>1, <1>2

LEMMA InvValid == PresenterInv => CallsAreValid
<1> SUFFICES ASSUME PresenterInv PROVE CallsAreValid
  OBVIOUS
<1>0. CurrentFrame \in Frames /\ PresenterTypeOK
  BY DEF PresenterInv, PresenterTypeOK, WindowType, CurrentFrame
<1>1. At("acquire") => frame[CurrentFrame].available = "reset" /\ Has("swapchain")
  BY <1>0 DEF PresenterInv, FramesInOrder, Objects, Calls, WithSwapchain, Drawing, Holding, At
<1>2. ASSUME cpu.at \in {"record", "clear", "reset"}
      PROVE  /\ frame[CurrentFrame].complete = "signaled"
             /\ \A k \in DOMAIN submitted : /\ submitted[k].frame # CurrentFrame
                                            /\ submitted[k].image # CurrentImage
  BY <1>2 DEF PresenterInv, FramesInOrder, Submissions, ImagesInOrder, Drawing, Holding, At
<1>3. At("submit") => frame[CurrentFrame].complete = "reset" /\ image[CurrentImage].finished = "reset"
  BY DEF PresenterInv, FramesInOrder, ImagesInOrder, Holding, At
<1>4. At("queuePresent") => image[CurrentImage].complete = "reset" /\ CurrentImage \notin presenting
  BY DEF PresenterInv, Presentations, ImagesInOrder, Drawing, At
<1>5. cpu.at \in {"create", "acquire", "queuePresent"} => ~Has("retired")
  BY DEF PresenterInv, Objects, At
<1> QED
  BY <1>1, <1>2, <1>3, <1>4, <1>5 DEF CallsAreValid

(* No Vulkan object is destroyed while the GPU or the compositor uses it,    *)
(* and none is kept that is no longer needed (AttachWindow, DetachWindow,    *)
(* WaitForPresentation, DestroyPresentedWindow, Shutdown).                   *)
THEOREM PresenterObjects == PresenterSpec => []ObjectsLiveLongEnough
<1>1. PresenterInit => PresenterInv
  BY PresenterInvInit
<1>2. PresenterInv /\ [PresenterNext]_presenterVars => PresenterInv'
  BY PresenterInvStep
<1>3. PresenterInv => ObjectsLiveLongEnough
  BY InvUsed
<1> QED
  BY <1>1, <1>2, <1>3, PTL DEF PresenterSpec

(* Each call of PresentOnce finds its fences and semaphores as Vulkan        *)
(* requires, whatever failed before it.                                      *)
THEOREM PresenterCalls == PresenterSpec => []CallsAreValid
<1>1. PresenterInit => PresenterInv
  BY PresenterInvInit
<1>2. PresenterInv /\ [PresenterNext]_presenterVars => PresenterInv'
  BY PresenterInvStep
<1>3. PresenterInv => CallsAreValid
  BY InvValid
<1> QED
  BY <1>1, <1>2, <1>3, PTL DEF PresenterSpec
===============================================================================
