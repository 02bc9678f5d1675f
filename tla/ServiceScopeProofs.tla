----------------------------- MODULE ServiceScopeProofs ---------------------------
(* Any number of threads and scopes: an ending is one of the whole subtree, it   *)
(* does all that was accepted and leaves nothing behind, and whoever asked for   *)
(* it is answered once, after it and with its outcome.                           *)
EXTENDS ServiceScope, SequenceTheorems, TLAPS

------------------------------------------------------------------------------------
(* Where the coroutine is and what its scope counts as.                          *)
Phases == \A s \in Scopes :
  /\ step[s] = "none" <=> state[s] \in {"Unborn", "Active"}
  /\ step[s] \in {"notify", "done"} <=> state[s] = "Ended"
  /\ step[s] # "none" => owner[s] \in Caller

(* A scope that has not been made belongs to nobody and is nobody's parent.      *)
Births == \A s \in Scopes : state[s] = "Unborn" =>
  /\ ~alive[s] /\ parent[s] = NoScope
  /\ \A c \in Scopes : parent[c] # s

(* A child that can be locked is known to its parent while the parent is active; *)
(* from then on it is one whose end is due, or has ended and been heard of.      *)
Families == \A p, c \in Scopes : parent[c] = p /\ alive[c] =>
  /\ state[p] = "Active" => c \in children[p]
  /\ state[p] \in {"Ending", "Ended"} =>
       \/ c \in ending[p]
       \/ state[c] = "Ended" /\ (failure[c] => failure[p])

(* What is left to do at each step of an ending.                                 *)
Tasks == \A s \in Scopes :
  /\ step[s] # "children" => ending[s] = {}
  /\ awaiting[s] # NoScope => awaiting[s] \in ending[s]
  /\ step[s] = "none" => toRun[s] = <<>> /\ ran[s] = <<>>
  /\ step[s] = "running" => toRun[s] # <<>>
  /\ step[s] \in {"finish", "notify", "done"} => toRun[s] = <<>> /\ instances[s] = 0
  /\ state[s] # "Active" => children[s] = {} /\ cleanups[s] = <<>>
  /\ state[s] = "Ended" => waiters[s] = {}

(* Of n cleanups accepted, some are registered, some are taken by the ending and *)
(* some have run, in reverse order.                                              *)
InOrder(accepted, left, done, n) ==
  /\ n = Len(accepted) + Len(left) + Len(done)
  /\ \A i \in 1 .. Len(accepted) : accepted[i] = i
  /\ \A i \in 1 .. Len(left) : left[i] = Len(left) + 1 - i
  /\ \A i \in 1 .. Len(done) : done[i] = n + 1 - i

Accepted == \A s \in Scopes : InOrder(cleanups[s], toRun[s], ran[s], registered[s])

(* There is room for the service that is being activated.                        *)
Activations == resolving # NoScope => instances[resolving] < MaxInstances

(* The scope whose end a thread, or the coroutine of a parent, awaits.           *)
Awaits(c) == IF c \in Threads THEN calls[c] ELSE awaiting[c]

(* How the scope remembers a caller that has not been answered.                  *)
Joins(c, s) == <<c, s>> \in joining
Waits(c, s) == c \in waiters[s]
Wakes(c, s) == c \in waking[s]
Owns(c, s) == owner[s] = c /\ step[s] \notin {"none", "done"}

Remembered(c, s) == Joins(c, s) \/ Waits(c, s) \/ Wakes(c, s) \/ Owns(c, s)

(* A caller is remembered by the scope whose end it awaits, and by no other ...  *)
Held == \A c \in Caller, s \in Scopes : Remembered(c, s) => Awaits(c) = s

(* ... in one place only: were it in two, the first answer would leave a second  *)
(* one behind, for whatever the caller awaits next.                              *)
Once == \A c \in Caller, s \in Scopes :
          /\ Joins(c, s) => ~Waits(c, s) /\ ~Wakes(c, s) /\ ~Owns(c, s)
          /\ Waits(c, s) => ~Wakes(c, s) /\ ~Owns(c, s)
          /\ Wakes(c, s) => ~Owns(c, s)

(* Only an ended scope gives answers.                                            *)
Over == \A s \in Scopes : waking[s] # {} => state[s] = "Ended"

Memory == Held /\ Once /\ Over

ScopeInv == /\ TypeOK /\ Phases /\ Births /\ Families /\ Tasks
            /\ Accepted /\ Activations /\ Memory

------------------------------------------------------------------------------------
(* What the shared pieces of the steps do, scope by scope.                       *)

LEMMA ReverseSeq ==
  ASSUME NEW S, NEW q \in Seq(S)
  PROVE  /\ Reverse(q) \in Seq(S) /\ Len(Reverse(q)) = Len(q)
         /\ \A i \in 1 .. Len(q) : Reverse(q)[i] = q[Len(q) - i + 1]
<1>1. \A i \in 1 .. Len(q) : Len(q) - i + 1 \in 1 .. Len(q)
  OBVIOUS
<1>2. \A i \in 1 .. Len(q) : q[Len(q) - i + 1] \in S
  BY <1>1, ElementOfSeq
<1> QED BY <1>2 DEF Reverse

LEMMA AllowedIsActive ==
  ASSUME NEW s, IsResolutionAllowed(s)
  PROVE  s \in Scopes /\ state[s] = "Active"
BY DEF IsResolutionAllowed

LEMMA StartEffect ==
  ASSUME TypeOK, NEW c \in Caller, NEW s \in Scopes, Start(c, s)
  PROVE  /\ \A x \in Scopes \ {s} :
              /\ state'[x] = state[x] /\ step'[x] = step[x] /\ owner'[x] = owner[x]
              /\ children'[x] = children[x] /\ ending'[x] = ending[x]
              /\ cleanups'[x] = cleanups[x] /\ toRun'[x] = toRun[x]
         /\ state[s] = "Active" =>
              /\ state'[s] = "Ending" /\ step'[s] = "children" /\ owner'[s] = c
              /\ children'[s] = {} /\ ending'[s] = Lockable(s)
              /\ cleanups'[s] = <<>> /\ toRun'[s] = Reverse(cleanups[s])
              /\ joining' = joining
         /\ state[s] # "Active" =>
              /\ UNCHANGED <<state, step, owner, children, ending, cleanups, toRun>>
              /\ joining' = joining \cup {<<c, s>>}
<1>1. CASE state[s] = "Active"
  BY <1>1 DEF Start, TypeOK
<1>2. CASE state[s] # "Active"
  BY <1>2 DEF Start
<1> QED BY <1>1, <1>2

LEMMA ResumeEffect ==
  ASSUME TypeOK, NEW c \in Caller, NEW s \in Scopes, Resume(c, s, failure[s])
  PROVE  /\ Awaits(c)' = NoScope
         /\ \A d \in Caller \ {c} : Awaits(d)' = Awaits(d)
         /\ \A x \in Scopes \ {c} : ending'[x] = ending[x] /\ failure'[x] = failure[x]
         /\ c \in Scopes => /\ ending'[c] = ending[c] \ {s}
                            /\ failure'[c] = (failure[c] \/ failure[s])
         /\ c \in Threads =>
              answer'[c] = IF failure[s] THEN "failed" ELSE "ended"
<1>1. CASE c \in Threads
  <2>1. c \notin Scopes
    BY <1>1, NamesAssumption
  <2> QED BY <1>1, <2>1, NamesAssumption DEF Resume, TypeOK, Awaits, Caller
<1>2. CASE c \notin Threads
  <2>1. c \in Scopes
    BY <1>2 DEF Caller
  <2>2. /\ awaiting' = [awaiting EXCEPT ![c] = NoScope]
        /\ ending' = [ending EXCEPT ![c] = @ \ {s}]
        /\ failure' = [failure EXCEPT ![c] = failure[c] \/ failure[s]]
        /\ calls' = calls
    BY <1>2 DEF Resume, EitherFailed, threads
  <2>3. \A x \in Scopes \ {c} : /\ ending'[x] = ending[x] /\ failure'[x] = failure[x]
                                /\ awaiting'[x] = awaiting[x]
    BY <2>2 DEF TypeOK
  <2>4. /\ ending'[c] = ending[c] \ {s} /\ awaiting'[c] = NoScope
        /\ failure'[c] = (failure[c] \/ failure[s])
    BY <2>1, <2>2 DEF TypeOK
  <2> QED BY <1>2, <2>1, <2>2, <2>3, <2>4, NamesAssumption DEF Awaits, Caller
<1> QED BY <1>1, <1>2

------------------------------------------------------------------------------------
(* The steps by what they do to an ending.                                       *)

(* A caller asks for an end: it starts the ending or joins it.                   *)
Asks(c, s) ==
  /\ Start(c, s)
  /\ Awaits(c) = NoScope /\ Awaits(c)' = s
  /\ \A d \in Caller \ {c} : Awaits(d)' = Awaits(d)
  /\ c \in Scopes => s \in ending[c]
  /\ UNCHANGED <<parent, waiters, failure, instances, alive, waking, activation,
                 registered, ran>>

(* A caller is told.                                                             *)
Tells(c, s) ==
  /\ Resume(c, s, failure[s])
  /\ state[s] = "Ended" /\ Remembered(c, s) /\ ~Remembered(c, s)'
  /\ joining' \subseteq joining
  /\ \A x \in Scopes : /\ waking'[x] \subseteq waking[x]
                       /\ \/ step'[x] = step[x]
                          \/ step[x] = "notify" /\ step'[x] = "done"
  /\ UNCHANGED <<state, parent, children, cleanups, waiters, instances, alive,
                 toRun, owner, activation, registered, ran>>

(* A caller that joined is put among the waiters.                                *)
Lists(c, s) == Join(c, s) /\ ~AlreadyFinished(s)

(* The coroutine goes on by itself.                                              *)
Works(s) == BeginCleanup(s) \/ EndCleanup(s) \/ ReleaseInstances(s) \/ Finish(s)

LEMMA EndAsyncAsks ==
  ASSUME TypeOK, NEW t \in Threads, NEW s \in Scopes, EndAsync(t, s)
  PROVE  Asks(t, s)
<1>1. /\ calls[t] = NoScope /\ calls' = [calls EXCEPT ![t] = s] /\ awaiting' = awaiting
      /\ t \notin Scopes
  BY NamesAssumption DEF EndAsync
<1>2. /\ Awaits(t) = NoScope /\ Awaits(t)' = s
      /\ \A d \in Caller \ {t} : Awaits(d)' = Awaits(d)
  BY <1>1 DEF Awaits, TypeOK
<1> QED BY <1>1, <1>2 DEF EndAsync, Asks

LEMMA DestroyAsks ==
  ASSUME TypeOK, NEW t \in Threads, Destroy(t)
  PROVE  destroying[t] \in Scopes /\ Asks(t, destroying[t])
<1>1. /\ calls[t] = NoScope /\ calls' = [calls EXCEPT ![t] = destroying[t]]
      /\ awaiting' = awaiting /\ t \notin Scopes
  BY NamesAssumption DEF Destroy
<1>2. /\ Awaits(t) = NoScope /\ Awaits(t)' = destroying[t]
      /\ \A d \in Caller \ {t} : Awaits(d)' = Awaits(d)
  BY <1>1 DEF Awaits, TypeOK
<1>3. destroying[t] \in Scopes
  BY DEF Destroy, TypeOK
<1> QED BY <1>1, <1>2, <1>3 DEF Destroy, Asks

LEMMA EndNextChildAsks ==
  ASSUME TypeOK, NEW p \in Scopes, EndNextChild(p)
  PROVE  \E s \in Scopes : Asks(p, s)
<1>1. PICK s \in Youngest(ending[p]) : /\ awaiting' = [awaiting EXCEPT ![p] = s]
                                       /\ Start(p, s)
  BY DEF EndNextChild
<1>2. s \in Scopes /\ s \in ending[p] /\ p \notin Threads
  BY NamesAssumption DEF Youngest, TypeOK
<1>3. awaiting[p] = NoScope /\ calls' = calls
  BY DEF EndNextChild, threads
<1>4. /\ Awaits(p) = NoScope /\ Awaits(p)' = s
      /\ \A d \in Caller \ {p} : Awaits(d)' = Awaits(d)
  BY <1>1, <1>2, <1>3 DEF Awaits, TypeOK, Caller
<1>5. Asks(p, s)
  BY <1>1, <1>2, <1>4 DEF EndNextChild, Asks
<1> QED BY <1>2, <1>5

LEMMA JoinTells ==
  ASSUME TypeOK, Once, NEW c \in Caller, NEW s \in Scopes,
         Join(c, s), AlreadyFinished(s)
  PROVE  Tells(c, s)
<1>1. /\ <<c, s>> \in joining /\ joining' = joining \ {<<c, s>>}
      /\ Resume(c, s, failure[s]) /\ state[s] = "Ended"
      /\ UNCHANGED <<state, parent, children, cleanups, waiters, instances, alive, step,
                     toRun, owner, waking, activation, registered, ran>>
  BY DEF Join, AlreadyFinished
<1>2. Remembered(c, s) /\ ~Remembered(c, s)'
  BY <1>1 DEF Once, Remembered, Joins, Waits, Wakes, Owns
<1> QED BY <1>1, <1>2 DEF Tells

LEMMA CompleteWaiterTells ==
  ASSUME TypeOK, Once, Over, NEW s \in Scopes, CompleteWaiter(s)
  PROVE  \E c \in Caller : Tells(c, s)
<1>1. PICK c \in waking[s] : /\ waking' = [waking EXCEPT ![s] = @ \ {c}]
                             /\ Resume(c, s, failure[s])
  BY DEF CompleteWaiter
<1>2. UNCHANGED <<state, parent, children, cleanups, waiters, instances, alive, step,
                  toRun, owner, joining, activation, registered, ran>>
  BY DEF CompleteWaiter
<1>3. c \in Caller /\ state[s] = "Ended"
  BY <1>1 DEF TypeOK, Over
<1>4. /\ waking'[s] = waking[s] \ {c}
      /\ \A x \in Scopes \ {s} : waking'[x] = waking[x]
  BY <1>1 DEF TypeOK
<1>5. Remembered(c, s) /\ ~Remembered(c, s)'
  BY <1>1, <1>2, <1>3, <1>4 DEF Once, Remembered, Joins, Waits, Wakes, Owns
<1>6. Tells(c, s)
  BY <1>1, <1>2, <1>3, <1>4, <1>5 DEF Tells
<1> QED BY <1>3, <1>6

LEMMA ReturnTells ==
  ASSUME TypeOK, Phases, Once, NEW s \in Scopes, Return(s)
  PROVE  \E c \in Caller : Tells(c, s)
<1>1. /\ step[s] = "notify" /\ step' = [step EXCEPT ![s] = "done"]
      /\ Resume(owner[s], s, failure[s])
      /\ UNCHANGED <<state, parent, children, cleanups, waiters, instances, alive,
                     toRun, owner, waking, joining, activation, registered, ran>>
  BY DEF Return
<1>2. owner[s] \in Caller /\ state[s] = "Ended"
  BY <1>1 DEF Phases
<1>3. step'[s] = "done" /\ \A x \in Scopes \ {s} : step'[x] = step[x]
  BY <1>1 DEF TypeOK
<1>4. Remembered(owner[s], s) /\ ~Remembered(owner[s], s)'
  BY <1>1, <1>2, <1>3 DEF Once, Remembered, Joins, Waits, Wakes, Owns
<1>5. Tells(owner[s], s)
  BY <1>1, <1>2, <1>3, <1>4 DEF Tells
<1> QED BY <1>2, <1>5

LEMMA StepKinds ==
  ASSUME TypeOK, Phases, Once, Over, Next
  PROVE  \/ \E t \in Threads, s \in Scopes :
              \/ CreateRootScope(t, s) \/ RegisterCleanup(t, s)
              \/ BeginActivation(t, s) \/ Drop(t, s)
              \/ \E p \in Scopes : CreateScope(t, p, s)
         \/ \E t \in Threads : CommitActivation(t)
         \/ \E s \in Scopes : Works(s)
         \/ \E c \in Caller, s \in Scopes : Asks(c, s) \/ Tells(c, s) \/ Lists(c, s)
<1>1. CASE \E t \in Threads : Use(t) \/ CommitActivation(t) \/ Destroy(t)
  BY <1>1, EndAsyncAsks, DestroyAsks DEF Use, Caller
<1>2. CASE \E s \in Scopes : End(s)
  <2>1. PICK s \in Scopes : End(s)
    BY <1>2
  <2>2. CASE EndNextChild(s)
    BY <2>2, EndNextChildAsks DEF Caller
  <2> QED BY <2>1, <2>2, CompleteWaiterTells, ReturnTells DEF End, Works
<1>3. CASE \E c \in Caller : JoinOf(c)
  BY <1>3, JoinTells DEF JoinOf, Lists
<1> QED BY <1>1, <1>2, <1>3 DEF Next

------------------------------------------------------------------------------------
(* Types.                                                                        *)

LEMMA StartTyped ==
  ASSUME TypeOK, NEW c \in Caller, NEW s \in Scopes, Start(c, s)
  PROVE  /\ state' \in [Scopes -> States]
         /\ ending' \in [Scopes -> SUBSET Scopes]
         /\ children' \in [Scopes -> SUBSET Scopes]
         /\ toRun' \in [Scopes -> Seq(1 .. MaxCleanups)]
         /\ cleanups' \in [Scopes -> Seq(1 .. MaxCleanups)]
         /\ step' \in [Scopes -> Steps]
         /\ owner' \in [Scopes -> Caller \cup {NoThread}]
         /\ joining' \subseteq Caller \X Scopes
<1>1. CASE state[s] = "Active"
  <2>1. Lockable(s) \subseteq Scopes
    BY DEF TypeOK, Lockable
  <2>2. Reverse(cleanups[s]) \in Seq(1 .. MaxCleanups)
    BY ReverseSeq DEF TypeOK
  <2>3. /\ state' = [state EXCEPT ![s] = "Ending"]
        /\ ending' = [ending EXCEPT ![s] = Lockable(s)]
        /\ children' = [children EXCEPT ![s] = {}]
        /\ toRun' = [toRun EXCEPT ![s] = Reverse(cleanups[s])]
        /\ cleanups' = [cleanups EXCEPT ![s] = <<>>]
        /\ step' = [step EXCEPT ![s] = "children"]
        /\ owner' = [owner EXCEPT ![s] = c]
        /\ joining' = joining
    BY <1>1 DEF Start
  <2>4. /\ toRun' \in [Scopes -> Seq(1 .. MaxCleanups)]
        /\ cleanups' \in [Scopes -> Seq(1 .. MaxCleanups)]
    BY <2>2, <2>3 DEF TypeOK
  <2>5. /\ ending' \in [Scopes -> SUBSET Scopes]
        /\ children' \in [Scopes -> SUBSET Scopes]
    BY <2>1, <2>3 DEF TypeOK
  <2>6. /\ state' \in [Scopes -> States] /\ step' \in [Scopes -> Steps]
        /\ owner' \in [Scopes -> Caller \cup {NoThread}]
        /\ joining' \subseteq Caller \X Scopes
    BY <2>3 DEF TypeOK, States, Steps
  <2> QED BY <2>4, <2>5, <2>6
<1>2. CASE state[s] # "Active"
  BY <1>2 DEF Start, TypeOK
<1> QED BY <1>1, <1>2

LEMMA ResumeTyped ==
  ASSUME TypeOK, NEW c \in Caller \cup {NoThread}, NEW s \in Scopes,
         Resume(c, s, failure[s])
  PROVE  /\ calls' \in [Threads -> Scopes \cup {NoScope}]
         /\ destroying' \in [Threads -> Scopes \cup {NoScope}]
         /\ answer' \in [Threads -> {"none", "ended", "failed"}]
         /\ awaiting' \in [Scopes -> Scopes \cup {NoScope}]
         /\ ending' \in [Scopes -> SUBSET Scopes]
         /\ failure' \in [Scopes -> BOOLEAN]
<1>1. CASE c \in Threads
  BY <1>1 DEF Resume, TypeOK
<1>2. CASE c \notin Threads
  <2>1. /\ awaiting' = [awaiting EXCEPT ![c] = NoScope]
        /\ ending' = [ending EXCEPT ![c] = @ \ {s}]
        /\ failure' = [failure EXCEPT ![c] = EitherFailed(@, failure[s])]
        /\ UNCHANGED <<calls, destroying, answer>>
    BY <1>2 DEF Resume, threads
  <2>2. failure' \in [Scopes -> BOOLEAN]
    BY <2>1 DEF TypeOK, EitherFailed
  <2> QED BY <2>1, <2>2 DEF TypeOK
<1> QED BY <1>1, <1>2

LEMMA UseTyped ==
  ASSUME TypeOK, NEW t \in Threads, Use(t)
  PROVE  TypeOK'
<1> USE DEF impl, ender, activation, threads
<1>1. PICK s \in Scopes : \/ CreateRootScope(t, s)
                          \/ \E p \in Scopes : CreateScope(t, p, s)
                          \/ RegisterCleanup(t, s)
                          \/ BeginActivation(t, s)
                          \/ EndAsync(t, s)
                          \/ Drop(t, s)
  BY DEF Use
<1>2. CASE CreateRootScope(t, s)
  BY <1>2 DEF TypeOK, CreateRootScope, States
<1>3. ASSUME NEW p \in Scopes, CreateScope(t, p, s) PROVE TypeOK'
  BY <1>3 DEF TypeOK, CreateScope, Lockable, States
<1>4. CASE RegisterCleanup(t, s)
  <2>1. NextCleanup(s) \in 1 .. MaxCleanups
    <3>1. registered[s] \in 0 .. MaxCleanups /\ registered[s] < MaxCleanups
      BY <1>4 DEF TypeOK, RegisterCleanup
    <3> QED BY <3>1, BoundAssumption DEF NextCleanup
  <2>2. /\ registered' \in [Scopes -> 0 .. MaxCleanups]
        /\ cleanups' \in [Scopes -> Seq(1 .. MaxCleanups)]
    BY <1>4, <2>1, BoundAssumption DEF TypeOK, RegisterCleanup, NextCleanup
  <2> QED BY <1>4, <2>2 DEF TypeOK, RegisterCleanup
<1>5. CASE BeginActivation(t, s)
  BY <1>5 DEF TypeOK, BeginActivation
<1>6. CASE EndAsync(t, s)
  <2>1. Start(t, s) /\ t \in Caller
    BY <1>6 DEF EndAsync, Caller
  <2> QED BY <1>6, <2>1, StartTyped DEF TypeOK, EndAsync
<1>7. CASE Drop(t, s)
  BY <1>7 DEF TypeOK, Drop
<1> QED BY <1>1, <1>2, <1>3, <1>4, <1>5, <1>6, <1>7

LEMMA EndTyped ==
  ASSUME TypeOK, Tasks, NEW s \in Scopes, End(s)
  PROVE  TypeOK'
<1> USE DEF impl, ender, activation, threads
<1>1. CASE EndNextChild(s)
  <2>1. PICK c \in Youngest(ending[s]) : /\ awaiting' = [awaiting EXCEPT ![s] = c]
                                         /\ Start(s, c)
    BY <1>1 DEF EndNextChild
  <2>2. c \in Scopes /\ s \in Caller
    BY DEF TypeOK, Youngest, Caller
  <2> QED BY <1>1, <2>1, <2>2, StartTyped DEF TypeOK, EndNextChild
<1>2. CASE BeginCleanup(s)
  BY <1>2 DEF TypeOK, BeginCleanup, Steps
<1>3. CASE EndCleanup(s)
  <2>1. /\ toRun[s] \in Seq(1 .. MaxCleanups) /\ toRun[s] # <<>>
        /\ ran[s] \in Seq(1 .. MaxCleanups)
    BY <1>3 DEF TypeOK, EndCleanup, Tasks
  <2>2. Tail(toRun[s]) \in Seq(1 .. MaxCleanups) /\ Head(toRun[s]) \in 1 .. MaxCleanups
    BY <2>1, HeadTailProperties
  <2>3. /\ toRun' \in [Scopes -> Seq(1 .. MaxCleanups)]
        /\ ran' \in [Scopes -> Seq(1 .. MaxCleanups)]
    BY <1>3, <2>1, <2>2 DEF EndCleanup, TypeOK
  <2>4. failure' \in [Scopes -> BOOLEAN] /\ step' \in [Scopes -> Steps]
    BY <1>3 DEF EndCleanup, TypeOK, Steps
  <2> QED BY <1>3, <2>3, <2>4 DEF TypeOK, EndCleanup
<1>4. CASE ReleaseInstances(s)
  <2>1. instances' \in [Scopes -> 0 .. MaxInstances]
    BY <1>4, BoundAssumption DEF TypeOK, ReleaseInstances
  <2> QED BY <1>4, <2>1 DEF TypeOK, ReleaseInstances, Steps
<1>5. CASE Finish(s)
  BY <1>5 DEF TypeOK, Finish, Steps, States
<1>6. CASE CompleteWaiter(s)
  <2>1. PICK c \in waking[s] : /\ waking' = [waking EXCEPT ![s] = @ \ {c}]
                               /\ Resume(c, s, failure[s])
    BY <1>6 DEF CompleteWaiter
  <2>2. c \in Caller
    BY DEF TypeOK
  <2> QED BY <1>6, <2>1, <2>2, ResumeTyped DEF TypeOK, CompleteWaiter
<1>7. CASE Return(s)
  <2>1. owner[s] \in Caller \cup {NoThread}
    BY DEF TypeOK
  <2> QED BY <1>7, <2>1, ResumeTyped DEF TypeOK, Return, Steps
<1> QED BY <1>1, <1>2, <1>3, <1>4, <1>5, <1>6, <1>7 DEF End

LEMMA TypeStep == TypeOK /\ Tasks /\ Activations /\ [Next]_vars => TypeOK'
<1> SUFFICES ASSUME TypeOK, Tasks, Activations, [Next]_vars PROVE TypeOK'
  OBVIOUS
<1> USE DEF impl, ender, activation, threads
<1>1. CASE UNCHANGED vars
  BY <1>1 DEF TypeOK, vars
<1>2. ASSUME NEW t \in Threads, CommitActivation(t) PROVE TypeOK'
  <2>1. instances' \in [Scopes -> 0 .. MaxInstances]
    <3>1. CASE MayCommit(resolving)
      <4>1. resolving \in Scopes /\ instances[resolving] < MaxInstances
        BY <3>1, AllowedIsActive, NamesAssumption DEF MayCommit, Activations
      <4> QED BY <1>2, <3>1, <4>1, BoundAssumption DEF CommitActivation, TypeOK
    <3>2. CASE ~MayCommit(resolving)
      BY <1>2, <3>2 DEF CommitActivation, TypeOK
    <3> QED BY <3>1, <3>2
  <2> QED BY <1>2, <2>1 DEF TypeOK, CommitActivation
<1>3. ASSUME NEW t \in Threads, Destroy(t) PROVE TypeOK'
  <2>1. Start(t, destroying[t]) /\ t \in Caller /\ destroying[t] \in Scopes
    BY <1>3 DEF Destroy, Caller, TypeOK
  <2> QED BY <1>3, <2>1, StartTyped DEF TypeOK, Destroy
<1>4. ASSUME NEW c \in Caller, NEW s \in Scopes, Join(c, s) PROVE TypeOK'
  <2>1. CASE AlreadyFinished(s)
    BY <1>4, <2>1, ResumeTyped DEF TypeOK, Join
  <2>2. CASE ~AlreadyFinished(s)
    <3>1. /\ waiters' = [waiters EXCEPT ![s] = @ \cup {c}]
          /\ joining' = joining \ {<<c, s>>}
          /\ UNCHANGED <<threads, awaiting, ending, failure, state, parent, children,
                         cleanups, elders, instances, alive, step, toRun, owner, waking,
                         activation, registered, ran>>
      BY <1>4, <2>2 DEF Join
    <3>2. waiters' \in [Scopes -> SUBSET Caller] /\ joining' \subseteq Caller \X Scopes
      BY <3>1 DEF TypeOK
    <3> QED BY <3>1, <3>2 DEF TypeOK
  <2> QED BY <2>1, <2>2
<1> QED BY <1>1, <1>2, <1>3, <1>4, UseTyped, EndTyped DEF Next, JoinOf

------------------------------------------------------------------------------------
(* The phases of an ending, the tree of scopes, and what is left to do.          *)

LEMMA PhasesStep ==
  ASSUME TypeOK, Phases, Once, Over, Next
  PROVE  Phases'
<1>1. ASSUME NEW t \in Threads, NEW s \in Scopes,
             \/ CreateRootScope(t, s) \/ RegisterCleanup(t, s)
             \/ BeginActivation(t, s) \/ Drop(t, s)
             \/ \E p \in Scopes : CreateScope(t, p, s)
      PROVE  Phases'
  <2>1. UNCHANGED <<step, owner>>
    BY <1>1 DEF CreateRootScope, RegisterCleanup, BeginActivation, Drop, CreateScope, ender
  <2>2. \/ state' = state
        \/ state[s] = "Unborn" /\ state' = [state EXCEPT ![s] = "Active"]
    BY <1>1 DEF CreateRootScope, RegisterCleanup, BeginActivation, Drop, CreateScope, impl
  <2> QED BY <2>1, <2>2 DEF Phases, TypeOK
<1>2. ASSUME NEW t \in Threads, CommitActivation(t) PROVE Phases'
  BY <1>2 DEF Phases, CommitActivation, impl, ender
<1>3. ASSUME NEW s \in Scopes, Works(s) PROVE Phases'
  <2>1. CASE Finish(s)
    BY <2>1 DEF Finish, Phases, TypeOK
  <2>2. CASE BeginCleanup(s) \/ EndCleanup(s) \/ ReleaseInstances(s)
    <3>1. /\ step[s] \in {"children", "cleanups", "running"}
          /\ \E k \in {"running", "cleanups", "finish"} : step' = [step EXCEPT ![s] = k]
          /\ UNCHANGED <<state, owner>>
      BY <2>2 DEF BeginCleanup, EndCleanup, ReleaseInstances, impl
    <3> QED BY <3>1 DEF Phases, TypeOK
  <2> QED BY <1>3, <2>1, <2>2 DEF Works
<1>4. ASSUME NEW c \in Caller, NEW s \in Scopes, Asks(c, s) PROVE Phases'
  <2>1. Start(c, s)
    BY <1>4 DEF Asks
  <2> QED BY <2>1, StartEffect DEF Phases
<1>5. ASSUME NEW c \in Caller, NEW s \in Scopes, Tells(c, s) PROVE Phases'
  BY <1>5 DEF Tells, Phases
<1>6. ASSUME NEW c \in Caller, NEW s \in Scopes, Lists(c, s) PROVE Phases'
  BY <1>6 DEF Lists, Join, Phases
<1> QED BY <1>1, <1>2, <1>3, <1>4, <1>5, <1>6, StepKinds

LEMMA BirthsStep ==
  ASSUME TypeOK, Phases, Births, Once, Over, Next
  PROVE  Births'
<1>1. ASSUME NEW t \in Threads, NEW s \in Scopes, CreateRootScope(t, s) PROVE Births'
  BY <1>1 DEF CreateRootScope, Births, TypeOK
<1>2. ASSUME NEW t \in Threads, NEW p \in Scopes, NEW s \in Scopes, CreateScope(t, p, s)
      PROVE  Births'
  <2>1. state[p] = "Active"
    BY <1>2, AllowedIsActive DEF CreateScope
  <2> QED BY <1>2, <2>1 DEF CreateScope, Births, TypeOK
<1>3. ASSUME NEW t \in Threads, NEW s \in Scopes, Drop(t, s) PROVE Births'
  BY <1>3 DEF Drop, Births, TypeOK, impl
<1>4. ASSUME NEW c \in Caller, NEW s \in Scopes, Asks(c, s) PROVE Births'
  <2>1. Start(c, s) /\ UNCHANGED <<parent, alive>>
    BY <1>4 DEF Asks
  <2>2. \A x \in Scopes : state'[x] = "Unborn" => state[x] = "Unborn"
    BY <2>1, StartEffect
  <2> QED BY <2>1, <2>2 DEF Births
<1>5. ASSUME NEW s \in Scopes, Works(s) PROVE Births'
  <2>1. /\ UNCHANGED <<parent, alive>>
        /\ \A x \in Scopes : state'[x] = "Unborn" => state[x] = "Unborn"
    BY <1>5 DEF Works, BeginCleanup, EndCleanup, ReleaseInstances, Finish, impl, TypeOK
  <2> QED BY <2>1 DEF Births
<1>6. CASE UNCHANGED <<state, parent, alive>>
  BY <1>6 DEF Births
<1>7. ASSUME NEW c \in Caller, NEW s \in Scopes, Tells(c, s) \/ Lists(c, s)
      PROVE  UNCHANGED <<state, parent, alive>>
  BY <1>7 DEF Tells, Lists, Join
<1>8. ASSUME NEW t \in Threads, NEW s \in Scopes,
             RegisterCleanup(t, s) \/ BeginActivation(t, s) \/ CommitActivation(t)
      PROVE  UNCHANGED <<state, parent, alive>>
  BY <1>8 DEF RegisterCleanup, BeginActivation, CommitActivation, impl
<1>9. ASSUME NEW t \in Threads, CommitActivation(t)
      PROVE  UNCHANGED <<state, parent, alive>>
  BY <1>9 DEF CommitActivation, impl
<1> QED BY <1>1, <1>2, <1>3, <1>4, <1>5, <1>6, <1>7, <1>8, <1>9, StepKinds

(* Whoever is told of an end, if it is a parent, is still ending its children.   *)
LEMMA ToldIsEnding ==
  ASSUME TypeOK, Phases, Tasks, Held, NEW c \in Scopes, NEW s \in Scopes, Tells(c, s)
  PROVE  s \in ending[c] /\ awaiting[c] = s /\ step[c] = "children" /\ state[c] = "Ending"
<1>1. awaiting[c] = s /\ s # NoScope
  BY NamesAssumption DEF Tells, Held, Awaits, Caller
<1>2. s \in ending[c] /\ step[c] = "children"
  BY <1>1 DEF Tasks
<1> QED BY <1>1, <1>2 DEF Phases, TypeOK, States

LEMMA FamiliesStep ==
  ASSUME TypeOK, Phases, Births, Families, Tasks, Memory, Next
  PROVE  Families'
<1>1. ASSUME NEW t \in Threads, NEW s \in Scopes, CreateRootScope(t, s) PROVE Families'
  <2>1. \A c \in Scopes : parent[c] # s /\ parent[s] = NoScope
    BY <1>1 DEF CreateRootScope, Births
  <2> QED BY <1>1, <2>1, NamesAssumption DEF CreateRootScope, Families, TypeOK, ender
<1>2. ASSUME NEW t \in Threads, NEW p \in Scopes, NEW s \in Scopes, CreateScope(t, p, s)
      PROVE  Families'
  <2>1. state[p] = "Active" /\ state[s] = "Unborn" /\ p # s
    BY <1>2, AllowedIsActive DEF CreateScope
  <2>2. \A c \in Scopes : parent[c] # s /\ ~alive[s]
    BY <2>1 DEF Births
  <2>3. /\ \A x \in Scopes \ {s} : /\ state'[x] = state[x] /\ parent'[x] = parent[x]
                                   /\ alive'[x] = alive[x]
        /\ state'[s] = "Active" /\ parent'[s] = p /\ alive'[s] = TRUE
        /\ children'[p] = {c \in children[p] : alive[c]} \cup {s}
        /\ \A x \in Scopes \ {p} : children'[x] = children[x]
        /\ UNCHANGED <<ending, failure>>
    BY <1>2 DEF CreateScope, TypeOK, ender, Lockable
  <2> QED BY <2>1, <2>2, <2>3 DEF Families
<1>3. ASSUME NEW t \in Threads, NEW s \in Scopes, Drop(t, s) PROVE Families'
  <2>1. \A c \in Scopes : alive'[c] => alive[c]
    BY <1>3 DEF Drop, TypeOK
  <2> QED BY <1>3, <2>1 DEF Drop, Families, impl, ender
<1>4. ASSUME NEW c \in Caller, NEW s \in Scopes, Asks(c, s) PROVE Families'
  <2>1. Start(c, s) /\ UNCHANGED <<parent, alive, failure>>
    BY <1>4 DEF Asks
  <2>2. CASE state[s] = "Active"
    <3>1. /\ \A x \in Scopes \ {s} : /\ state'[x] = state[x] /\ children'[x] = children[x]
                                     /\ ending'[x] = ending[x]
          /\ state'[s] = "Ending" /\ ending'[s] = {d \in children[s] : alive[d]}
      BY <2>1, <2>2, StartEffect DEF Lockable
    <3> QED BY <2>1, <2>2, <3>1 DEF Families
  <2>3. CASE state[s] # "Active"
    BY <2>1, <2>3, StartEffect DEF Families
  <2> QED BY <2>2, <2>3
<1>5. ASSUME NEW c \in Caller, NEW s \in Scopes, Tells(c, s) PROVE Families'
  <2>1. /\ Resume(c, s, failure[s]) /\ state[s] = "Ended"
        /\ UNCHANGED <<state, parent, alive, children>>
    BY <1>5 DEF Tells
  <2>2. CASE c \in Threads
    <3>1. c \notin Scopes
      BY <2>2, NamesAssumption
    <3>2. \A x \in Scopes : ending'[x] = ending[x] /\ failure'[x] = failure[x]
      BY <2>1, <3>1, ResumeEffect
    <3> QED BY <2>1, <3>2 DEF Families
  <2>3. CASE c \in Scopes
    <3>1. state[c] = "Ending"
      BY <1>5, <2>3, ToldIsEnding DEF Memory
    <3>2. /\ \A x \in Scopes \ {c} : ending'[x] = ending[x] /\ failure'[x] = failure[x]
          /\ ending'[c] = ending[c] \ {s} /\ failure'[c] = (failure[c] \/ failure[s])
      BY <2>1, <2>3, ResumeEffect
    <3>3. s # c
      BY <2>1, <3>1
    <3>4. ASSUME NEW p \in Scopes, NEW d \in Scopes, parent[d] = p, alive[d],
                 state[p] \in {"Ending", "Ended"}
          PROVE  d \in ending'[p] \/ (state[d] = "Ended" /\ (failure'[d] => failure'[p]))
      <4>1. d \in ending[p] \/ (state[d] = "Ended" /\ (failure[d] => failure[p]))
        BY <3>4 DEF Families
      <4>2. state[d] = "Ended" => d # c /\ failure'[d] = failure[d]
        BY <3>1, <3>2
      <4>3. CASE d \in ending[p]
        BY <2>1, <3>2, <4>2, <4>3
      <4>4. CASE d \notin ending[p]
        BY <3>2, <4>1, <4>2, <4>4
      <4> QED BY <4>3, <4>4
    <3> QED BY <2>1, <3>4 DEF Families
  <2> QED BY <2>2, <2>3 DEF Caller
<1>6. ASSUME NEW s \in Scopes, Works(s) PROVE Families'
  <2>1. UNCHANGED <<parent, alive, children, ending>>
    BY <1>6 DEF Works, BeginCleanup, EndCleanup, ReleaseInstances, Finish, impl
  <2>2. CASE EndCleanup(s)
    <3>1. state[s] = "Ending"
      BY <2>2 DEF EndCleanup, Phases, TypeOK, States
    <3>2. /\ state' = state /\ (failure[s] => failure'[s])
          /\ \A x \in Scopes \ {s} : failure'[x] = failure[x]
      BY <2>2 DEF EndCleanup, TypeOK
    <3>3. ASSUME NEW p \in Scopes, NEW d \in Scopes, parent[d] = p, alive[d],
                 state[p] \in {"Ending", "Ended"}, d \notin ending[p]
          PROVE  state[d] = "Ended" /\ (failure'[d] => failure'[p])
      <4>1. state[d] = "Ended" /\ (failure[d] => failure[p])
        BY <3>3 DEF Families
      <4> QED BY <3>1, <3>2, <4>1
    <3> QED BY <2>1, <3>2, <3>3 DEF Families
  <2>3. CASE Finish(s)
    <3>1. state[s] = "Ending"
      BY <2>3 DEF Finish, Phases, TypeOK, States
    <3>2. /\ \A x \in Scopes \ {s} : state'[x] = state[x]
          /\ state'[s] = "Ended" /\ failure' = failure
      BY <2>3 DEF Finish, TypeOK
    <3> QED BY <2>1, <3>1, <3>2 DEF Families
  <2>4. CASE BeginCleanup(s) \/ ReleaseInstances(s)
    BY <2>1, <2>4 DEF BeginCleanup, ReleaseInstances, impl, Families
  <2> QED BY <1>6, <2>2, <2>3, <2>4 DEF Works
<1>7. CASE UNCHANGED <<state, parent, alive, children, ending, failure>>
  BY <1>7 DEF Families
<1>8. ASSUME NEW t \in Threads, NEW s \in Scopes,
             RegisterCleanup(t, s) \/ BeginActivation(t, s)
      PROVE  UNCHANGED <<state, parent, alive, children, ending, failure>>
  BY <1>8 DEF RegisterCleanup, BeginActivation, impl, ender
<1>9. ASSUME NEW t \in Threads, CommitActivation(t)
      PROVE  UNCHANGED <<state, parent, alive, children, ending, failure>>
  BY <1>9 DEF CommitActivation, impl, ender
<1>10. ASSUME NEW c \in Caller, NEW s \in Scopes, Lists(c, s)
       PROVE  UNCHANGED <<state, parent, alive, children, ending, failure>>
  BY <1>10 DEF Lists, Join
<1> QED BY <1>1, <1>2, <1>3, <1>4, <1>5, <1>6, <1>7, <1>8, <1>9, <1>10, StepKinds DEF Memory

LEMMA TasksStep ==
  ASSUME TypeOK, Phases, Births, Tasks, Memory, Next
  PROVE  Tasks'
<1>1. ASSUME NEW t \in Threads, NEW s \in Scopes, CreateRootScope(t, s) PROVE Tasks'
  BY <1>1 DEF CreateRootScope, Tasks, TypeOK, ender
<1>2. ASSUME NEW t \in Threads, NEW p \in Scopes, NEW s \in Scopes, CreateScope(t, p, s)
      PROVE  Tasks'
  <2>1. state[p] = "Active" /\ state[s] = "Unborn" /\ p # s
    BY <1>2, AllowedIsActive DEF CreateScope
  <2>2. /\ \A x \in Scopes \ {s} : state'[x] = state[x]
        /\ state'[s] = "Active"
        /\ \A x \in Scopes \ {p} : children'[x] = children[x]
        /\ UNCHANGED <<step, ending, awaiting, toRun, ran, instances, cleanups, waiters>>
    BY <1>2 DEF CreateScope, TypeOK, ender
  <2> QED BY <2>1, <2>2 DEF Tasks
<1>3. ASSUME NEW t \in Threads, NEW s \in Scopes, RegisterCleanup(t, s) PROVE Tasks'
  <2>1. state[s] = "Active"
    BY <1>3, AllowedIsActive DEF RegisterCleanup, MayRegister
  <2>2. /\ \A x \in Scopes \ {s} : cleanups'[x] = cleanups[x]
        /\ UNCHANGED <<state, step, ending, awaiting, toRun, ran, instances, children, waiters>>
    BY <1>3 DEF RegisterCleanup, TypeOK, ender
  <2> QED BY <2>1, <2>2 DEF Tasks
<1>4. ASSUME NEW t \in Threads, CommitActivation(t) PROVE Tasks'
  <2>1. UNCHANGED <<state, step, ending, awaiting, toRun, ran, children, cleanups, waiters>>
    BY <1>4 DEF CommitActivation, impl, ender
  <2>2. \A x \in Scopes : instances'[x] # instances[x] => state[x] = "Active"
    BY <1>4, AllowedIsActive DEF CommitActivation, MayCommit, TypeOK
  <2>3. \A x \in Scopes : state[x] = "Active" => step[x] = "none"
    BY DEF Phases
  <2> QED BY <2>1, <2>2, <2>3 DEF Tasks
<1>5. ASSUME NEW c \in Caller, NEW s \in Scopes, Asks(c, s) PROVE Tasks'
  <2>1. /\ Start(c, s) /\ (c \in Scopes => s \in ending[c])
        /\ UNCHANGED <<waiters, instances, ran>>
    BY <1>5 DEF Asks
  <2>2. \A x \in Scopes : awaiting'[x] # awaiting[x] => x = c /\ awaiting'[x] = s /\ s \in ending[x]
    <3>1. \A x \in Scopes : x \notin Threads /\ x \in Caller
      BY NamesAssumption DEF Caller
    <3> QED BY <1>5, <3>1 DEF Asks, Awaits
  <2>3. CASE state[s] = "Active"
    <3>1. step[s] = "none" /\ ending[s] = {} /\ awaiting[s] = NoScope
      BY <2>3 DEF Phases, Tasks
    <3>2. \A x \in Scopes \ {s} : awaiting'[x] # NoScope => awaiting'[x] \in ending[x]
      BY <2>2 DEF Tasks
    <3>3. awaiting'[s] = NoScope
      BY <2>2, <3>1
    <3>4. /\ \A x \in Scopes \ {s} :
               /\ state'[x] = state[x] /\ step'[x] = step[x]
               /\ children'[x] = children[x] /\ ending'[x] = ending[x]
               /\ cleanups'[x] = cleanups[x] /\ toRun'[x] = toRun[x]
          /\ state'[s] = "Ending" /\ step'[s] = "children"
          /\ children'[s] = {} /\ cleanups'[s] = <<>>
      BY <2>1, <2>3, StartEffect
    <3> QED BY <2>1, <3>2, <3>3, <3>4 DEF Tasks
  <2>4. CASE state[s] # "Active"
    <3>1. UNCHANGED <<state, step, children, ending, cleanups, toRun>>
      BY <2>1, <2>4, StartEffect
    <3> QED BY <2>1, <2>2, <3>1 DEF Tasks
  <2> QED BY <2>3, <2>4
<1>6. ASSUME NEW c \in Caller, NEW s \in Scopes, Tells(c, s) PROVE Tasks'
  <2>1. /\ Resume(c, s, failure[s])
        /\ UNCHANGED <<state, children, cleanups, waiters, instances, toRun, ran>>
        /\ \A x \in Scopes : step'[x] = step[x] \/ (step[x] = "notify" /\ step'[x] = "done")
    BY <1>6 DEF Tells
  <2>2. \A x \in Scopes : x # c => ending'[x] = ending[x] /\ awaiting'[x] = awaiting[x]
    <3>1. \A x \in Scopes : x \notin Threads /\ x \in Caller
      BY NamesAssumption DEF Caller
    <3> QED BY <2>1, <3>1, ResumeEffect DEF Awaits
  <2>3. c \in Scopes => /\ ending'[c] = ending[c] \ {s} /\ awaiting'[c] = NoScope
                        /\ step[c] = "children"
    <3>1. c \in Scopes => c \notin Threads
      BY NamesAssumption
    <3> QED BY <1>6, <2>1, <3>1, ResumeEffect, ToldIsEnding DEF Awaits, Memory
  <2> QED BY <2>1, <2>2, <2>3 DEF Tasks
<1>7. ASSUME NEW s \in Scopes, Works(s) PROVE Tasks'
  <2>1. UNCHANGED <<children, cleanups, ending, awaiting>>
    BY <1>7 DEF Works, BeginCleanup, EndCleanup, ReleaseInstances, Finish, impl
  <2>2. step[s] \in {"children", "cleanups", "running", "finish"}
    BY <1>7 DEF Works, BeginCleanup, EndCleanup, ReleaseInstances, Finish
  <2>3. CASE BeginCleanup(s)
    <3>1. /\ ending[s] = {} /\ toRun[s] # <<>>
          /\ \A x \in Scopes \ {s} : step'[x] = step[x]
          /\ step'[s] = "running"
          /\ UNCHANGED <<state, toRun, ran, instances, waiters>>
      BY <2>3 DEF BeginCleanup, StillWaits, TypeOK, impl
    <3> QED BY <2>1, <3>1 DEF Tasks
  <2>4. CASE EndCleanup(s)
    <3>1. /\ step[s] = "running"
          /\ \A x \in Scopes \ {s} : /\ step'[x] = step[x] /\ toRun'[x] = toRun[x]
                                     /\ ran'[x] = ran[x]
          /\ step'[s] = "cleanups"
          /\ UNCHANGED <<state, instances, waiters>>
      BY <2>4 DEF EndCleanup, TypeOK
    <3> QED BY <2>1, <3>1 DEF Tasks
  <2>5. CASE ReleaseInstances(s)
    <3>1. /\ ending[s] = {} /\ toRun[s] = <<>>
          /\ \A x \in Scopes \ {s} : step'[x] = step[x] /\ instances'[x] = instances[x]
          /\ step'[s] = "finish" /\ instances'[s] = 0
          /\ UNCHANGED <<state, toRun, ran, waiters>>
      BY <2>5 DEF ReleaseInstances, StillWaits, TypeOK, impl
    <3> QED BY <2>1, <3>1 DEF Tasks
  <2>6. CASE Finish(s)
    <3>1. /\ step[s] = "finish"
          /\ \A x \in Scopes \ {s} : /\ step'[x] = step[x] /\ state'[x] = state[x]
                                     /\ waiters'[x] = waiters[x]
          /\ step'[s] = "notify" /\ state'[s] = "Ended" /\ waiters'[s] = {}
          /\ UNCHANGED <<toRun, ran, instances>>
      BY <2>6 DEF Finish, TypeOK
    <3>2. state[s] # "Active"
      BY <3>1 DEF Phases
    <3> QED BY <2>1, <3>1, <3>2 DEF Tasks
  <2> QED BY <1>7, <2>3, <2>4, <2>5, <2>6 DEF Works
<1>8. ASSUME NEW c \in Caller, NEW s \in Scopes, Lists(c, s) PROVE Tasks'
  <2>1. /\ state[s] # "Ended"
        /\ \A x \in Scopes \ {s} : waiters'[x] = waiters[x]
        /\ UNCHANGED <<state, step, children, ending, awaiting, cleanups, toRun, ran, instances>>
    BY <1>8 DEF Lists, Join, AlreadyFinished, TypeOK
  <2> QED BY <2>1 DEF Tasks
<1>9. ASSUME NEW t \in Threads, NEW s \in Scopes, BeginActivation(t, s) \/ Drop(t, s)
      PROVE  Tasks'
  BY <1>9 DEF BeginActivation, Drop, impl, ender, Tasks
<1> QED BY <1>1, <1>2, <1>3, <1>4, <1>5, <1>6, <1>7, <1>8, <1>9, StepKinds DEF Memory

(* A cleanup that is registered goes to the end of those accepted ...            *)
LEMMA AppendInOrder ==
  ASSUME NEW S, NEW q \in Seq(S), NEW n, n + 1 \in S, InOrder(q, <<>>, <<>>, n)
  PROVE  InOrder(Append(q, n + 1), <<>>, <<>>, n + 1)
<1>1. Len(q) \in Nat /\ n = Len(q) /\ \A i \in 1 .. Len(q) : q[i] = i
  BY DEF InOrder
<1>2. /\ Len(Append(q, n + 1)) = n + 1
      /\ \A i \in 1 .. n + 1 : Append(q, n + 1)[i] = i
  BY <1>1
<1>3. Len(<<>>) = 0
  OBVIOUS
<1> QED BY <1>1, <1>2, <1>3 DEF InOrder

(* ... the ending takes them, the youngest first ...                             *)
LEMMA ReverseInOrder ==
  ASSUME NEW S, NEW q \in Seq(S), NEW n, InOrder(q, <<>>, <<>>, n)
  PROVE  InOrder(<<>>, Reverse(q), <<>>, n)
<1>1. Len(q) \in Nat /\ n = Len(q) /\ \A i \in 1 .. Len(q) : q[i] = i
  BY DEF InOrder
<1>2. \A i \in 1 .. Len(q) : /\ Len(q) - i + 1 \in 1 .. Len(q)
                            /\ Len(q) - i + 1 = Len(q) + 1 - i
  BY <1>1
<1>3. /\ Len(Reverse(q)) = Len(q)
      /\ \A i \in 1 .. Len(q) : Reverse(q)[i] = Len(q) + 1 - i
  BY <1>1, <1>2, ReverseSeq
<1>4. Len(<<>>) = 0
  OBVIOUS
<1> QED BY <1>1, <1>3, <1>4 DEF InOrder

(* ... and runs one after the other.                                             *)
LEMMA RunInOrder ==
  ASSUME NEW S, NEW left \in Seq(S), NEW done \in Seq(S), NEW n, left # <<>>,
         InOrder(<<>>, left, done, n)
  PROVE  InOrder(<<>>, Tail(left), Append(done, Head(left)), n)
<1>1. /\ Len(left) \in Nat /\ Len(left) > 0 /\ Len(done) \in Nat
      /\ Head(left) = left[1]
  BY EmptySeq
<1>2. /\ n = Len(left) + Len(done)
      /\ \A i \in 1 .. Len(left) : left[i] = Len(left) + 1 - i
      /\ \A i \in 1 .. Len(done) : done[i] = n + 1 - i
  BY <1>1 DEF InOrder
<1>3. /\ Len(Tail(left)) = Len(left) - 1
      /\ \A i \in 1 .. Len(left) - 1 : Tail(left)[i] = left[i + 1]
  BY HeadTailProperties
<1>4. /\ Len(Append(done, Head(left))) = Len(done) + 1
      /\ \A i \in 1 .. Len(done) : Append(done, Head(left))[i] = done[i]
      /\ Append(done, Head(left))[Len(done) + 1] = left[1]
  BY <1>1, HeadTailProperties, AppendProperties
<1>5. \A i \in 1 .. Len(Tail(left)) : Tail(left)[i] = Len(Tail(left)) + 1 - i
  BY <1>1, <1>2, <1>3
<1>6. \A i \in 1 .. Len(Append(done, Head(left))) :
        Append(done, Head(left))[i] = n + 1 - i
  BY <1>1, <1>2, <1>4
<1>7. Len(<<>>) = 0
  OBVIOUS
<1>8. n = Len(<<>>) + Len(Tail(left)) + Len(Append(done, Head(left)))
  BY <1>1, <1>2, <1>3, <1>4, <1>7
<1> QED BY <1>5, <1>6, <1>7, <1>8 DEF InOrder

LEMMA RegisterAccepts ==
  ASSUME TypeOK, Phases, Tasks, Accepted, NEW t \in Threads, NEW s \in Scopes,
         RegisterCleanup(t, s)
  PROVE  Accepted'
<1>1. state[s] = "Active"
  BY AllowedIsActive DEF RegisterCleanup, MayRegister
<1>2. toRun[s] = <<>> /\ ran[s] = <<>>
  BY <1>1 DEF Phases, Tasks
<1>3. /\ \A x \in Scopes \ {s} : cleanups'[x] = cleanups[x] /\ registered'[x] = registered[x]
      /\ registered'[s] = registered[s] + 1
      /\ cleanups'[s] = Append(cleanups[s], registered[s] + 1)
      /\ UNCHANGED <<toRun, ran>>
  BY DEF RegisterCleanup, NextCleanup, TypeOK, ender
<1>4. cleanups[s] \in Seq(1 .. MaxCleanups) /\ registered[s] + 1 \in 1 .. MaxCleanups
  BY BoundAssumption DEF RegisterCleanup, TypeOK
<1>5. InOrder(cleanups'[s], toRun'[s], ran'[s], registered'[s])
  BY <1>2, <1>3, <1>4, AppendInOrder DEF Accepted
<1> QED BY <1>3, <1>5 DEF Accepted

LEMMA StartTakes ==
  ASSUME TypeOK, Phases, Tasks, Accepted, NEW c \in Caller, NEW s \in Scopes, Asks(c, s)
  PROVE  Accepted'
<1>1. Start(c, s) /\ UNCHANGED <<registered, ran>>
  BY DEF Asks
<1>2. CASE state[s] = "Active"
  <2>1. toRun[s] = <<>> /\ ran[s] = <<>>
    BY <1>2 DEF Phases, Tasks
  <2>2. /\ \A x \in Scopes \ {s} : cleanups'[x] = cleanups[x] /\ toRun'[x] = toRun[x]
        /\ cleanups'[s] = <<>> /\ toRun'[s] = Reverse(cleanups[s])
    BY <1>1, <1>2, StartEffect
  <2>3. cleanups[s] \in Seq(1 .. MaxCleanups)
    BY DEF TypeOK
  <2>4. InOrder(cleanups'[s], toRun'[s], ran'[s], registered'[s])
    BY <1>1, <2>1, <2>2, <2>3, ReverseInOrder DEF Accepted
  <2> QED BY <1>1, <2>2, <2>4 DEF Accepted
<1>3. CASE state[s] # "Active"
  <2>1. UNCHANGED <<cleanups, toRun>>
    BY <1>1, <1>3, StartEffect
  <2> QED BY <1>1, <2>1 DEF Accepted
<1> QED BY <1>2, <1>3

LEMMA CleanupRuns ==
  ASSUME TypeOK, Phases, Tasks, Accepted, NEW s \in Scopes, EndCleanup(s)
  PROVE  Accepted'
<1>1. /\ toRun[s] \in Seq(1 .. MaxCleanups) /\ toRun[s] # <<>>
      /\ ran[s] \in Seq(1 .. MaxCleanups) /\ cleanups[s] = <<>>
  BY DEF EndCleanup, TypeOK, Tasks, Phases
<1>2. /\ \A x \in Scopes \ {s} : toRun'[x] = toRun[x] /\ ran'[x] = ran[x]
      /\ toRun'[s] = Tail(toRun[s]) /\ ran'[s] = Append(ran[s], Head(toRun[s]))
      /\ UNCHANGED <<cleanups, registered>>
  BY DEF EndCleanup, TypeOK
<1>3. InOrder(cleanups'[s], toRun'[s], ran'[s], registered'[s])
  BY <1>1, <1>2, RunInOrder DEF Accepted
<1> QED BY <1>2, <1>3 DEF Accepted

LEMMA AcceptedStep ==
  ASSUME TypeOK, Phases, Tasks, Accepted, Once, Over, Next
  PROVE  Accepted'
<1>1. CASE UNCHANGED <<cleanups, toRun, ran, registered>>
  BY <1>1 DEF Accepted
<1>2. ASSUME NEW t \in Threads, NEW s \in Scopes,
             \/ CreateRootScope(t, s) \/ BeginActivation(t, s) \/ Drop(t, s)
             \/ \E p \in Scopes : CreateScope(t, p, s)
      PROVE  UNCHANGED <<cleanups, toRun, ran, registered>>
  BY <1>2 DEF CreateRootScope, BeginActivation, Drop, CreateScope, impl, ender
<1>3. ASSUME NEW t \in Threads, CommitActivation(t)
      PROVE  UNCHANGED <<cleanups, toRun, ran, registered>>
  BY <1>3 DEF CommitActivation, impl, ender
<1>4. ASSUME NEW s \in Scopes, BeginCleanup(s) \/ ReleaseInstances(s) \/ Finish(s)
      PROVE  UNCHANGED <<cleanups, toRun, ran, registered>>
  BY <1>4 DEF BeginCleanup, ReleaseInstances, Finish, impl
<1>5. ASSUME NEW c \in Caller, NEW s \in Scopes, Tells(c, s) \/ Lists(c, s)
      PROVE  UNCHANGED <<cleanups, toRun, ran, registered>>
  BY <1>5 DEF Tells, Lists, Join
<1> QED BY <1>1, <1>2, <1>3, <1>4, <1>5, RegisterAccepts, StartTakes, CleanupRuns, StepKinds
        DEF Works

LEMMA ActivationsStep ==
  ASSUME TypeOK, Phases, Activations, Once, Over, Next
  PROVE  Activations'
<1>1. ASSUME NEW t \in Threads, NEW s \in Scopes, BeginActivation(t, s) PROVE Activations'
  BY <1>1 DEF BeginActivation, Activations
<1>2. ASSUME NEW t \in Threads, CommitActivation(t) PROVE Activations'
  BY <1>2 DEF CommitActivation, Activations
<1>3. ASSUME NEW s \in Scopes, ReleaseInstances(s) PROVE Activations'
  <2>1. /\ instances' = [instances EXCEPT ![s] = 0] /\ resolving' = resolving
    BY <1>3 DEF ReleaseInstances, activation
  <2>2. \A x \in Scopes : instances'[x] <= instances[x]
    BY <2>1, BoundAssumption DEF TypeOK
  <2>3. \A x \in Scopes : instances[x] \in Int /\ instances'[x] \in Int
    BY <2>1, BoundAssumption DEF TypeOK
  <2> QED BY <2>1, <2>2, <2>3, BoundAssumption DEF Activations, TypeOK
<1>4. CASE UNCHANGED <<resolving, instances>>
  BY <1>4 DEF Activations
<1>5. ASSUME NEW t \in Threads, NEW s \in Scopes,
             \/ CreateRootScope(t, s) \/ RegisterCleanup(t, s) \/ Drop(t, s)
             \/ \E p \in Scopes : CreateScope(t, p, s)
      PROVE  UNCHANGED <<resolving, instances>>
  BY <1>5 DEF CreateRootScope, RegisterCleanup, Drop, CreateScope, activation
<1>6. ASSUME NEW s \in Scopes, BeginCleanup(s) \/ EndCleanup(s) \/ Finish(s)
      PROVE  UNCHANGED <<resolving, instances>>
  BY <1>6 DEF BeginCleanup, EndCleanup, Finish, activation
<1>7. ASSUME NEW c \in Caller, NEW s \in Scopes, Asks(c, s) \/ Tells(c, s) \/ Lists(c, s)
      PROVE  UNCHANGED <<resolving, instances>>
  BY <1>7 DEF Asks, Tells, Lists, Join, activation
<1> QED BY <1>1, <1>2, <1>3, <1>4, <1>5, <1>6, <1>7, StepKinds DEF Works

------------------------------------------------------------------------------------
(* Who is remembered where, and who is answered.                                 *)

LEMMA AsksStep ==
  ASSUME TypeOK, Phases, Memory, NEW c \in Caller, NEW s \in Scopes, Asks(c, s)
  PROVE  Memory'
<1>1. /\ Start(c, s) /\ UNCHANGED <<waiters, waking>>
      /\ Awaits(c) = NoScope /\ Awaits(c)' = s
      /\ \A d \in Caller \ {c} : Awaits(d)' = Awaits(d)
  BY DEF Asks
<1>2. \A x \in Scopes : ~Remembered(c, x)
  BY <1>1, NamesAssumption DEF Memory, Held
<1>3. CASE state[s] = "Active"
  <2>1. /\ \A x \in Scopes \ {s} : /\ state'[x] = state[x] /\ step'[x] = step[x]
                                   /\ owner'[x] = owner[x]
        /\ step'[s] = "children" /\ owner'[s] = c /\ joining' = joining
    BY <1>1, <1>3, StartEffect
  <2>2. \A d \in Caller, x \in Scopes : /\ Joins(d, x)' <=> Joins(d, x)
                                        /\ Waits(d, x)' <=> Waits(d, x)
                                        /\ Wakes(d, x)' <=> Wakes(d, x)
                                        /\ Owns(d, x)' => Owns(d, x) \/ (d = c /\ x = s)
    BY <1>1, <2>1 DEF Joins, Waits, Wakes, Owns
  <2>3. \A d \in Caller, x \in Scopes :
          Remembered(d, x)' => Remembered(d, x) \/ (d = c /\ x = s)
    BY <2>2 DEF Remembered
  <2>4. Held'
    BY <1>1, <1>2, <2>3 DEF Memory, Held
  <2>5. Once'
    BY <1>2, <2>2 DEF Memory, Once, Remembered
  <2>6. waking[s] = {}
    BY <1>3 DEF Memory, Over
  <2>7. Over'
    BY <1>1, <2>1, <2>6 DEF Memory, Over
  <2> QED BY <2>4, <2>5, <2>7 DEF Memory
<1>4. CASE state[s] # "Active"
  <2>1. joining' = joining \cup {<<c, s>>} /\ UNCHANGED <<state, step, owner>>
    BY <1>1, <1>4, StartEffect
  <2>2. \A d \in Caller, x \in Scopes : /\ Waits(d, x)' <=> Waits(d, x)
                                        /\ Wakes(d, x)' <=> Wakes(d, x)
                                        /\ Owns(d, x)' <=> Owns(d, x)
                                        /\ Joins(d, x)' => Joins(d, x) \/ (d = c /\ x = s)
    BY <1>1, <2>1 DEF Joins, Waits, Wakes, Owns
  <2>3. \A d \in Caller, x \in Scopes :
          Remembered(d, x)' => Remembered(d, x) \/ (d = c /\ x = s)
    BY <2>2 DEF Remembered
  <2>4. Held'
    BY <1>1, <1>2, <2>3 DEF Memory, Held
  <2>5. Once'
    BY <1>2, <2>2 DEF Memory, Once, Remembered
  <2>6. Over'
    BY <1>1, <2>1 DEF Memory, Over
  <2> QED BY <2>4, <2>5, <2>6 DEF Memory
<1> QED BY <1>3, <1>4

LEMMA TellsStep ==
  ASSUME TypeOK, Phases, Memory, NEW c \in Caller, NEW s \in Scopes, Tells(c, s)
  PROVE  Memory'
<1>1. /\ Resume(c, s, failure[s]) /\ Remembered(c, s) /\ ~Remembered(c, s)'
      /\ joining' \subseteq joining /\ \A x \in Scopes : waking'[x] \subseteq waking[x]
      /\ \A x \in Scopes : \/ step'[x] = step[x]
                           \/ step[x] = "notify" /\ step'[x] = "done"
      /\ UNCHANGED <<state, waiters, owner>>
  BY DEF Tells
<1>2. \A d \in Caller, x \in Scopes : /\ Joins(d, x)' => Joins(d, x)
                                      /\ Waits(d, x)' => Waits(d, x)
                                      /\ Wakes(d, x)' => Wakes(d, x)
                                      /\ Owns(d, x)' => Owns(d, x)
  BY <1>1 DEF Joins, Waits, Wakes, Owns
<1>3. \A d \in Caller, x \in Scopes : Remembered(d, x)' => Remembered(d, x)
  BY <1>2 DEF Remembered
<1>4. \A d \in Caller \ {c} : Awaits(d)' = Awaits(d)
  BY <1>1, ResumeEffect
<1>5. Awaits(c) = s
  BY <1>1 DEF Memory, Held
<1>6. \A x \in Scopes : ~Remembered(c, x)'
  BY <1>1, <1>3, <1>5 DEF Memory, Held
<1>7. Held'
  BY <1>3, <1>4, <1>6 DEF Memory, Held
<1>8. Once'
  BY <1>2 DEF Memory, Once
<1>9. Over'
  BY <1>1 DEF Memory, Over
<1> QED BY <1>7, <1>8, <1>9 DEF Memory

LEMMA ListsStep ==
  ASSUME TypeOK, Phases, Memory, NEW c \in Caller, NEW s \in Scopes, Lists(c, s)
  PROVE  Memory'
<1>1. /\ <<c, s>> \in joining /\ joining' = joining \ {<<c, s>>}
      /\ waiters'[s] = waiters[s] \cup {c}
      /\ \A x \in Scopes \ {s} : waiters'[x] = waiters[x]
      /\ UNCHANGED <<state, step, owner, waking, calls, awaiting>>
  BY DEF Lists, Join, threads, TypeOK
<1>2. \A d \in Caller, x \in Scopes :
        /\ Wakes(d, x)' <=> Wakes(d, x)
        /\ Owns(d, x)' <=> Owns(d, x)
        /\ Joins(d, x)' => Joins(d, x) /\ ~(d = c /\ x = s)
        /\ Waits(d, x)' => Waits(d, x) \/ (d = c /\ x = s)
        /\ Awaits(d)' = Awaits(d)
  BY <1>1 DEF Joins, Waits, Wakes, Owns, Awaits
<1>3. Joins(c, s)
  BY <1>1 DEF Joins
<1>4. Held'
  BY <1>2, <1>3 DEF Memory, Held, Remembered
<1>5. Once'
  BY <1>2, <1>3 DEF Memory, Once
<1>6. Over'
  BY <1>1 DEF Memory, Over
<1> QED BY <1>4, <1>5, <1>6 DEF Memory

(* An ending is over: its waiters change hands.                                  *)
LEMMA FinishStep ==
  ASSUME TypeOK, Phases, Memory, NEW s \in Scopes, Finish(s)
  PROVE  Memory'
<1>1. /\ step[s] = "finish" /\ step'[s] = "notify" /\ state'[s] = "Ended"
      /\ waking'[s] = waiters[s] /\ waiters'[s] = {}
      /\ \A x \in Scopes \ {s} : /\ state'[x] = state[x] /\ step'[x] = step[x]
                                 /\ waking'[x] = waking[x] /\ waiters'[x] = waiters[x]
      /\ UNCHANGED <<joining, owner, calls, awaiting>>
  BY DEF Finish, threads, TypeOK
<1>2. \A d \in Caller, x \in Scopes :
        /\ Joins(d, x)' <=> Joins(d, x)
        /\ Owns(d, x)' <=> Owns(d, x)
        /\ Waits(d, x)' => x # s /\ Waits(d, x)
        /\ x # s => (Wakes(d, x)' <=> Wakes(d, x))
        /\ x = s => (Wakes(d, x)' <=> Waits(d, x))
        /\ Awaits(d)' = Awaits(d)
  BY <1>1 DEF Joins, Waits, Wakes, Owns, Awaits
<1>3. Held'
  BY <1>2 DEF Memory, Held, Remembered
<1>4. Once'
  BY <1>2 DEF Memory, Once
<1>5. Over'
  BY <1>1 DEF Memory, Over
<1> QED BY <1>3, <1>4, <1>5 DEF Memory

(* Steps that neither ask nor answer.                                            *)
LEMMA QuietStep ==
  ASSUME TypeOK, Memory, UNCHANGED <<joining, waiters, waking, owner, calls, awaiting>>,
         \A s \in Scopes : state[s] = "Ended" => state'[s] = "Ended",
         \A s \in Scopes : \/ step'[s] = step[s]
                           \/ step[s] \notin {"none", "done"}
  PROVE  Memory'
<1>1. \A d \in Caller, x \in Scopes : /\ Joins(d, x)' <=> Joins(d, x)
                                      /\ Waits(d, x)' <=> Waits(d, x)
                                      /\ Wakes(d, x)' <=> Wakes(d, x)
                                      /\ Owns(d, x)' => Owns(d, x)
                                      /\ Awaits(d)' = Awaits(d)
  BY DEF Joins, Waits, Wakes, Owns, Awaits
<1>2. Held'
  BY <1>1 DEF Memory, Held, Remembered
<1>3. Once'
  BY <1>1 DEF Memory, Once
<1>4. Over'
  BY DEF Memory, Over
<1> QED BY <1>2, <1>3, <1>4 DEF Memory

LEMMA MemoryStep ==
  ASSUME TypeOK, Phases, Memory, Next
  PROVE  Memory'
<1>1. ASSUME NEW t \in Threads, NEW s \in Scopes,
             \/ CreateRootScope(t, s) \/ RegisterCleanup(t, s)
             \/ BeginActivation(t, s) \/ Drop(t, s)
             \/ \E p \in Scopes : CreateScope(t, p, s)
      PROVE  Memory'
  <2>1. UNCHANGED <<joining, waiters, waking, owner, calls, awaiting, step>>
    BY <1>1 DEF CreateRootScope, RegisterCleanup, BeginActivation, Drop, CreateScope,
                impl, ender, threads
  <2>2. \/ state' = state
        \/ state[s] = "Unborn" /\ state' = [state EXCEPT ![s] = "Active"]
    BY <1>1 DEF CreateRootScope, RegisterCleanup, BeginActivation, Drop, CreateScope, impl
  <2>3. \A x \in Scopes : state[x] = "Ended" => state'[x] = "Ended"
    BY <2>2 DEF TypeOK
  <2> QED BY <2>1, <2>3, QuietStep
<1>2. ASSUME NEW t \in Threads, CommitActivation(t) PROVE Memory'
  BY <1>2, QuietStep DEF CommitActivation, impl, ender, threads
<1>3. ASSUME NEW s \in Scopes, BeginCleanup(s) \/ EndCleanup(s) \/ ReleaseInstances(s)
      PROVE  Memory'
  <2>1. /\ UNCHANGED <<joining, waiters, waking, owner, calls, awaiting, state>>
        /\ step[s] \in {"children", "cleanups", "running"}
        /\ \E k \in Steps : step' = [step EXCEPT ![s] = k]
    BY <1>3 DEF BeginCleanup, EndCleanup, ReleaseInstances, impl, threads, Steps
  <2>2. \A x \in Scopes : step'[x] = step[x] \/ step[x] \notin {"none", "done"}
    BY <2>1 DEF TypeOK
  <2> QED BY <2>1, <2>2, QuietStep
<1> QED BY <1>1, <1>2, <1>3, AsksStep, TellsStep, ListsStep, FinishStep, StepKinds
        DEF Memory, Works

------------------------------------------------------------------------------------
(* The invariant.                                                                *)

LEMMA InvInit == Init => ScopeInv
<1> SUFFICES ASSUME Init PROVE ScopeInv
  OBVIOUS
<1>1. TypeOK
  BY BoundAssumption DEF Init, TypeOK, States, Steps
<1>2. Phases /\ Births /\ Families /\ Tasks /\ Activations
  BY NamesAssumption DEF Init, Phases, Births, Families, Tasks, Activations
<1>3. Accepted
  BY DEF Init, Accepted, InOrder
<1>4. Memory
  BY DEF Init, Memory, Held, Once, Over, Remembered, Joins, Waits, Wakes, Owns
<1> QED BY <1>1, <1>2, <1>3, <1>4 DEF ScopeInv

LEMMA InvStep == ScopeInv /\ [Next]_vars => ScopeInv'
<1> SUFFICES ASSUME ScopeInv, [Next]_vars PROVE ScopeInv'
  OBVIOUS
<1>1. TypeOK'
  BY TypeStep DEF ScopeInv
<1>2. CASE Next
  BY <1>1, <1>2, PhasesStep, BirthsStep, FamiliesStep, TasksStep, AcceptedStep,
     ActivationsStep, MemoryStep DEF ScopeInv, Memory
<1>3. CASE UNCHANGED vars
  <2> USE <1>3 DEF vars, impl, ender, activation, threads
  <2>1. Phases' /\ Births'
    BY DEF ScopeInv, Phases, Births
  <2>2. Families' /\ Activations'
    BY DEF ScopeInv, Families, Activations
  <2>3. Tasks' /\ Accepted'
    BY DEF ScopeInv, Tasks, Accepted
  <2>4. Memory'
    BY DEF ScopeInv, Memory, Held, Once, Over, Remembered, Joins, Waits, Wakes, Owns, Awaits
  <2> QED BY <1>1, <2>1, <2>2, <2>3, <2>4 DEF ScopeInv
<1> QED BY <1>2, <1>3

LEMMA InvHolds == Spec => []ScopeInv
BY InvInit, InvStep, PTL DEF Spec

(* A scope counts as ended only when every cleanup it accepted has run, once and *)
(* the youngest first, and nothing is left in it: no service, whatever activated *)
(* it meanwhile, no child, no waiter (RegisterCleanup, ResolveInternal,          *)
(* EndCoreAsync).                                                                *)
THEOREM EndIsCompleteHolds == Spec => []EndIsComplete
<1>1. ScopeInv => EndIsComplete
  <2> SUFFICES ASSUME ScopeInv PROVE EndIsComplete
    OBVIOUS
  <2>1. ASSUME NEW s \in Scopes, state[s] = "Ended"
        PROVE  /\ step[s] \in {"notify", "done"}
               /\ toRun[s] = <<>> /\ instances[s] = 0 /\ waiters[s] = {}
               /\ cleanups[s] = <<>> /\ children[s] = {}
    BY <2>1 DEF ScopeInv, Phases, Tasks
  <2>2. NothingAfterEnd
    BY <2>1 DEF NothingAfterEnd
  <2>3. ASSUME NEW s \in Scopes, state[s] = "Ended"
        PROVE  ran[s] = [i \in 1 .. registered[s] |-> registered[s] + 1 - i]
    <3>1. ran[s] \in Seq(1 .. MaxCleanups)
      BY DEF ScopeInv, TypeOK
    <3>2. /\ registered[s] = Len(ran[s])
          /\ \A i \in 1 .. Len(ran[s]) : ran[s][i] = registered[s] + 1 - i
      <4>1. Len(cleanups[s]) = 0 /\ Len(toRun[s]) = 0 /\ Len(ran[s]) \in Nat
        BY <2>1, <2>3, <3>1
      <4>2. InOrder(<<>>, <<>>, ran[s], registered[s])
        BY <2>1, <2>3 DEF ScopeInv, Accepted
      <4>3. registered[s] = Len(<<>>) + Len(<<>>) + Len(ran[s]) /\ Len(<<>>) = 0
        BY <4>2 DEF InOrder
      <4> QED BY <4>1, <4>2, <4>3 DEF InOrder
    <3>3. ran[s] = [i \in 1 .. Len(ran[s]) |-> ran[s][i]]
      BY <3>1
    <3> QED BY <3>2, <3>3
  <2>4. AcceptedCleanupsRan
    BY <2>3 DEF AcceptedCleanupsRan
  <2> QED BY <2>2, <2>4 DEF EndIsComplete, ScopeInv
<1> QED BY <1>1, InvHolds, PTL

(* The cleanups and services of a scope wait for the end of every child that is  *)
(* still referenced, and the outcome of the scope reports what failed in one     *)
(* (EndCoreAsync).                                                               *)
THEOREM ParentsEndLastHolds == Spec => []ParentsEndLast
<1>1. ScopeInv => ParentsEndLast
  <2> SUFFICES ASSUME ScopeInv, NEW p \in Scopes, NEW c \in Scopes,
                      parent[c] = p, alive[c],
                      step[p] \in {"running", "finish", "notify", "done"}
               PROVE  state[c] = "Ended" /\ (failure[c] => failure[p])
    BY DEF ParentsEndLast, ChildrenEndFirst, FailuresReachParent, ScopeInv, Phases
  <2>1. state[p] \in {"Ending", "Ended"}
    BY DEF ScopeInv, Phases, TypeOK, States
  <2>2. ending[p] = {}
    BY DEF ScopeInv, Tasks
  <2> QED BY <2>1, <2>2 DEF ScopeInv, Families
<1> QED BY <1>1, InvHolds, PTL

(* Every caller of EndAsync, the one that does the work and those that join, and *)
(* every destructor is answered after the ending and with its one outcome        *)
(* (EndCoreAsync, CompletionSender).                                             *)
THEOREM SharedOutcomeHolds == Spec => SharedOutcome
<1> DEFINE Answers == \A t \in Threads : calls[t] # NoScope /\ calls'[t] = NoScope =>
                        /\ state[calls[t]] = "Ended"
                        /\ answer'[t] = IF failure[calls[t]] THEN "failed" ELSE "ended"
<1>1. ScopeInv /\ Next => Answers
  <2> SUFFICES ASSUME ScopeInv, Next, NEW t \in Threads,
                      calls[t] # NoScope, calls'[t] = NoScope
               PROVE  /\ state[calls[t]] = "Ended"
                      /\ answer'[t] = IF failure[calls[t]] THEN "failed" ELSE "ended"
    OBVIOUS
  <2>1. ASSUME NEW c \in Caller, NEW s \in Scopes, Tells(c, s)
        PROVE  /\ state[calls[t]] = "Ended"
               /\ answer'[t] = IF failure[calls[t]] THEN "failed" ELSE "ended"
    <3>1. Resume(c, s, failure[s]) /\ state[s] = "Ended" /\ Awaits(c) = s
      BY <2>1 DEF Tells, ScopeInv, Memory, Held
    <3>2. c = t
      <4>1. t \in Caller \ {c} => Awaits(t)' = Awaits(t)
        BY <3>1, ResumeEffect DEF ScopeInv
      <4> QED BY <4>1 DEF Awaits, Caller
    <3>3. calls[t] = s
      BY <3>1, <3>2 DEF Awaits
    <3> QED BY <3>1, <3>2, <3>3, ResumeEffect DEF ScopeInv
  <2>2. ASSUME NEW c \in Caller, NEW s \in Scopes, Asks(c, s) PROVE FALSE
    <3>1. Awaits(t)' \in {Awaits(t), s}
      BY <2>2 DEF Asks, Caller
    <3> QED BY <3>1, NamesAssumption DEF Awaits
  <2>3. calls' # calls
    OBVIOUS
  <2>4. ASSUME NEW u \in Threads, NEW s \in Scopes,
               \/ CreateRootScope(u, s) \/ RegisterCleanup(u, s)
               \/ BeginActivation(u, s) \/ Drop(u, s)
               \/ \E p \in Scopes : CreateScope(u, p, s)
        PROVE  FALSE
    BY <2>3, <2>4 DEF CreateRootScope, RegisterCleanup, BeginActivation, Drop, CreateScope,
                      threads
  <2>5. ASSUME NEW u \in Threads, CommitActivation(u) PROVE FALSE
    BY <2>3, <2>5 DEF CommitActivation, threads
  <2>6. ASSUME NEW s \in Scopes, Works(s) PROVE FALSE
    BY <2>3, <2>6 DEF Works, BeginCleanup, EndCleanup, ReleaseInstances, Finish, threads
  <2>7. ASSUME NEW c \in Caller, NEW s \in Scopes, Lists(c, s) PROVE FALSE
    BY <2>3, <2>7 DEF Lists, Join, threads
  <2> QED BY <2>1, <2>2, <2>4, <2>5, <2>6, <2>7, StepKinds DEF ScopeInv, Memory
<1>2. SharedOutcome <=> [][Answers]_vars
  BY DEF SharedOutcome
<1>3. ScopeInv /\ [Next]_vars => [Answers]_vars
  BY <1>1
<1> QED BY <1>2, <1>3, InvHolds, PTL DEF Spec
===================================================================================
