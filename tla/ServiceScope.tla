----------------------------- MODULE ServiceScope -----------------------------
(***************************************************************************)
(* The lifetime of service scopes (ServiceProvider.cpp): a tree of scopes  *)
(* made at any time, cleanups registered and services activated in them,   *)
(* and their ending, asked for by any number of callers at once, by a      *)
(* parent that ends, or by a destructor.  EndAsync is a coroutine: a       *)
(* caller of it goes on and is answered later.  The provider's recursive   *)
(* transaction mutex is held for one step, except by an activation, which  *)
(* runs the service's factory between two steps.                           *)
(***************************************************************************)
EXTENDS Naturals, Sequences, FiniteSets, SequencesExt

CONSTANTS
  Scopes, NoScope,       (* the scopes that may be made                     *)
  Threads, NoThread,     (* the threads of the process                      *)
  MaxCleanups,           (* bound: cleanups registered in a scope           *)
  MaxInstances           (* bound: activated services of a scope            *)

ASSUME NamesAssumption == /\ NoScope \notin Scopes
                          /\ NoThread \notin Threads
                          /\ Scopes \cap Threads = {}
                          /\ NoThread \notin Scopes
ASSUME BoundAssumption == MaxCleanups \in Nat /\ MaxInstances \in Nat

Caller == Scopes \cup Threads      (* who can be waiting for EndAsync *)

VARIABLES
  state, parent, children, cleanups, waiters, failure,  (* struct Impl      *)
  elders,                (* the children of its parent made before a scope  *)
  instances,             (* how many scoped instances are cached            *)
  alive,                 (* a strong reference to the scope exists          *)
  step, ending, toRun, awaiting, owner,  (* the coroutine that ends a scope: *)
                         (* where it is, the children and cleanups it has   *)
                         (* left, the child it awaits, and who called it    *)
  waking,                (* its local vector of waiters to complete         *)
  joining,               (* calls that found the scope ending already       *)
  transaction, resolving,(* the thread inside a factory, and for which scope *)
  calls,                 (* the scope each thread has called EndAsync on    *)
  destroying,            (* the scope whose destructor each thread runs     *)
  answer,                (* how the thread's call ended                     *)
  registered, ran        (* history: cleanups accepted and cleanups run     *)

impl == <<state, parent, children, cleanups, waiters, failure, elders>>
ender == <<step, ending, toRun, awaiting, owner, waking>>
activation == <<transaction, resolving>>
threads == <<calls, destroying, answer>>
vars == <<impl, instances, alive, ender, joining, activation, threads, registered, ran>>

States == {"Unborn", "Active", "Ending", "Ended"}
Steps == {"none", "children", "cleanups", "running", "finish", "notify", "done"}

Init == /\ state = [s \in Scopes |-> "Unborn"]
        /\ parent = [s \in Scopes |-> NoScope]
        /\ children = [s \in Scopes |-> {}]
        /\ cleanups = [s \in Scopes |-> <<>>]
        /\ waiters = [s \in Scopes |-> {}]
        /\ failure = [s \in Scopes |-> FALSE]
        /\ elders = [s \in Scopes |-> {}]
        /\ instances = [s \in Scopes |-> 0]
        /\ alive = [s \in Scopes |-> FALSE]
        /\ step = [s \in Scopes |-> "none"]
        /\ ending = [s \in Scopes |-> {}]
        /\ toRun = [s \in Scopes |-> <<>>]
        /\ awaiting = [s \in Scopes |-> NoScope]
        /\ owner = [s \in Scopes |-> NoThread]
        /\ waking = [s \in Scopes |-> {}]
        /\ joining = {}
        /\ transaction = NoThread /\ resolving = NoScope
        /\ calls = [t \in Threads |-> NoScope]
        /\ destroying = [t \in Threads |-> NoScope]
        /\ answer = [t \in Threads |-> "none"]
        /\ registered = [s \in Scopes |-> 0]
        /\ ran = [s \in Scopes |-> <<>>]

------------------------------------------------------------------------------
(* A thread holds the transaction mutex while it runs a factory; coroutines  *)
(* it started run on it too.                                                 *)

Root(c) == LET root[x \in Caller] == IF x \in Threads THEN x ELSE root[owner[x]]
           IN root[c]

MayLock(c) == transaction = NoThread \/ Root(c) = transaction

(* A scope and all its ancestors are active.  A parent whose last reference  *)
(* is gone cannot be locked: its child counts as one without a parent.       *)
IsResolutionAllowed(s) ==
  \E line \in SUBSET Scopes :
    /\ s \in line
    /\ \A x \in line : /\ state[x] = "Active"
                       /\ parent[x] # NoScope /\ alive[parent[x]] => parent[x] \in line

(* The children the scope can lock.  Its vector of them is in the order of   *)
(* their creation.                                                           *)
Lockable(p) == {c \in children[p] : alive[c]}

Free(t) == destroying[t] = NoScope /\ MayLock(t)

CreateRootScope(t, s) ==
  /\ Free(t)
  /\ state[s] = "Unborn"
  /\ state' = [state EXCEPT ![s] = "Active"]
  /\ alive' = [alive EXCEPT ![s] = TRUE]
  /\ UNCHANGED <<parent, children, cleanups, waiters, failure, elders, instances, ender,
                 joining, activation, threads, registered, ran>>

CreateScope(t, p, s) ==
  /\ Free(t)
  /\ alive[p]
  /\ state[s] = "Unborn"
  /\ IsResolutionAllowed(p)
  /\ state' = [state EXCEPT ![s] = "Active"]
  /\ parent' = [parent EXCEPT ![s] = p]
  /\ children' = [children EXCEPT ![p] = Lockable(p) \cup {s}]
  /\ elders' = [elders EXCEPT ![s] = Lockable(p)]
  /\ alive' = [alive EXCEPT ![s] = TRUE]
  /\ UNCHANGED <<cleanups, waiters, failure, instances, ender,
                 joining, activation, threads, registered, ran>>

MayRegister(s) == IsResolutionAllowed(s)

NextCleanup(s) == registered[s] + 1

RegisterCleanup(t, s) ==
  /\ Free(t)
  /\ alive[s]
  /\ registered[s] < MaxCleanups
  /\ MayRegister(s)
  /\ registered' = [registered EXCEPT ![s] = @ + 1]
  /\ cleanups' = [cleanups EXCEPT ![s] = Append(@, NextCleanup(s))]
  /\ UNCHANGED <<state, parent, children, waiters, failure, elders, instances, alive, ender,
                 joining, activation, threads, ran>>

(* Resolve: the factory runs under the lock, and may itself end the scope.   *)
BeginActivation(t, s) ==
  /\ Free(t)
  /\ transaction = NoThread
  /\ alive[s]
  /\ instances[s] < MaxInstances
  /\ IsResolutionAllowed(s)
  /\ transaction' = t
  /\ resolving' = s
  /\ UNCHANGED <<impl, instances, alive, ender, joining, threads, registered, ran>>

CommitsAlways(s) == TRUE

MayCommit(s) == IsResolutionAllowed(s)

CommitActivation(t) ==
  /\ transaction = t
  /\ instances' = IF MayCommit(resolving) THEN [instances EXCEPT ![resolving] = @ + 1]
                                          ELSE instances
  /\ transaction' = NoThread
  /\ resolving' = NoScope
  /\ UNCHANGED <<impl, alive, ender, joining, threads, registered, ran>>

------------------------------------------------------------------------------
(* EndCoreAsync: the first critical section.  The caller either becomes the  *)
(* owner of the ending or joins it.                                          *)

Start(c, s) ==
  IF state[s] = "Active"
  THEN /\ state' = [state EXCEPT ![s] = "Ending"]
       /\ ending' = [ending EXCEPT ![s] = Lockable(s)]
       /\ children' = [children EXCEPT ![s] = {}]
       /\ toRun' = [toRun EXCEPT ![s] = Reverse(cleanups[s])]
       /\ cleanups' = [cleanups EXCEPT ![s] = <<>>]
       /\ step' = [step EXCEPT ![s] = "children"]
       /\ owner' = [owner EXCEPT ![s] = c]
       /\ UNCHANGED joining
  ELSE /\ joining' = joining \cup {<<c, s>>}
       /\ UNCHANGED <<state, ending, children, toRun, cleanups, step, owner>>

EndAsync(t, s) ==
  /\ Free(t)
  /\ alive[s]
  /\ calls[t] = NoScope
  /\ calls' = [calls EXCEPT ![t] = s]
  /\ answer' = [answer EXCEPT ![t] = "none"]
  /\ Start(t, s)
  /\ UNCHANGED <<parent, waiters, failure, elders, instances, alive, awaiting, waking,
                 activation, destroying, registered, ran>>

EitherFailed(own, childs) == own \/ childs

(* What the end of scope s means for who awaits it. *)
Resume(c, s, failed) ==
  IF c \in Threads
  THEN /\ calls' = [calls EXCEPT ![c] = NoScope]
       /\ destroying' = [destroying EXCEPT ![c] = NoScope]
       /\ answer' = [answer EXCEPT ![c] = IF failed THEN "failed" ELSE "ended"]
       /\ UNCHANGED <<awaiting, ending, failure>>
  ELSE /\ awaiting' = [awaiting EXCEPT ![c] = NoScope]
       /\ ending' = [ending EXCEPT ![c] = @ \ {s}]
       /\ failure' = [failure EXCEPT ![c] = EitherFailed(@, failed)]
       /\ UNCHANGED threads

(* CompletionSender: the check for a finished ending and the registration of *)
(* the waiter are one critical section of completionMutex.                   *)
NoLongerActive(s) == state[s] # "Active"

NeverFinished(s) == FALSE

AlreadyFinished(s) == state[s] = "Ended"

Join(c, s) ==
  /\ <<c, s>> \in joining
  /\ joining' = joining \ {<<c, s>>}
  /\ IF AlreadyFinished(s)
     THEN Resume(c, s, failure[s]) /\ UNCHANGED waiters
     ELSE /\ waiters' = [waiters EXCEPT ![s] = @ \cup {c}]
          /\ UNCHANGED <<threads, awaiting, ending, failure>>
  /\ UNCHANGED <<state, parent, children, cleanups, elders, instances, alive, step, toRun,
                 owner, waking, activation, registered, ran>>

(* The owner's coroutine: children first, one after the other, the youngest  *)
(* left first ...                                                            *)
Youngest(family) == {c \in family : \A d \in family : c \notin elders[d]}

EndNextChild(s) ==
  /\ step[s] = "children"
  /\ awaiting[s] = NoScope
  /\ MayLock(s)
  /\ \E c \in Youngest(ending[s]) : /\ awaiting' = [awaiting EXCEPT ![s] = c]
                                    /\ Start(s, c)
  /\ UNCHANGED <<parent, waiters, failure, elders, instances, alive, waking,
                 activation, threads, registered, ran>>

(* ... then cleanups, each of which completes, fails or is cancelled ...     *)
OnlyAwaits(s) == awaiting[s] # NoScope

StillWaits(s) == ending[s] # {}

BeginCleanup(s) ==
  /\ step[s] \in {"children", "cleanups"}
  /\ ~StillWaits(s)
  /\ toRun[s] # <<>>
  /\ step' = [step EXCEPT ![s] = "running"]
  /\ UNCHANGED <<impl, instances, alive, ending, toRun, awaiting, owner, waking,
                 joining, activation, threads, registered, ran>>

EndCleanup(s) ==
  /\ step[s] = "running"
  /\ step' = [step EXCEPT ![s] = "cleanups"]
  /\ toRun' = [toRun EXCEPT ![s] = Tail(@)]
  /\ ran' = [ran EXCEPT ![s] = Append(@, Head(toRun[s]))]
  /\ \E failed \in BOOLEAN : failure' = [failure EXCEPT ![s] = @ \/ failed]
  /\ UNCHANGED <<state, parent, children, cleanups, waiters, elders, instances, alive, ending,
                 awaiting, owner, waking, joining, activation, threads, registered>>

(* ... then the cached instances, in one critical section.                   *)
ReleaseInstances(s) ==
  /\ step[s] \in {"children", "cleanups"}
  /\ ~StillWaits(s)
  /\ toRun[s] = <<>>
  /\ MayLock(s)
  /\ instances' = [instances EXCEPT ![s] = 0]
  /\ step' = [step EXCEPT ![s] = "finish"]
  /\ UNCHANGED <<impl, alive, ending, toRun, awaiting, owner, waking,
                 joining, activation, threads, registered, ran>>

(* The outcome is published and the waiters are taken in one critical        *)
(* section; they are completed one by one after it, the owner last.          *)
Finish(s) ==
  /\ step[s] = "finish"
  /\ step' = [step EXCEPT ![s] = "notify"]
  /\ state' = [state EXCEPT ![s] = "Ended"]
  /\ waking' = [waking EXCEPT ![s] = waiters[s]]
  /\ waiters' = [waiters EXCEPT ![s] = {}]
  /\ UNCHANGED <<parent, children, cleanups, failure, elders, instances, alive, ending, toRun,
                 awaiting, owner, joining, activation, threads, registered, ran>>

CompleteWaiter(s) ==
  /\ \E c \in waking[s] : /\ waking' = [waking EXCEPT ![s] = @ \ {c}]
                          /\ Resume(c, s, failure[s])
  /\ UNCHANGED <<state, parent, children, cleanups, waiters, elders, instances, alive, step,
                 toRun, owner, joining, activation, registered, ran>>

Return(s) ==
  /\ step[s] = "notify"
  /\ waking[s] = {}
  /\ step' = [step EXCEPT ![s] = "done"]
  /\ Resume(owner[s], s, failure[s])
  /\ UNCHANGED <<state, parent, children, cleanups, waiters, elders, instances, alive, toRun,
                 owner, waking, joining, activation, registered, ran>>

------------------------------------------------------------------------------
(* The destructor.  Callers of EndAsync, the ending of a parent and an       *)
(* activation hold references, so the last one is dropped without them.  A   *)
(* factory that drops the last reference to a scope is left out.             *)

(* The parent clears its vector of children when the last of them has ended. *)
HeldByParent(s) == parent[s] # NoScope /\ step[parent[s]] = "children"

Drop(t, s) ==
  /\ Free(t)
  /\ transaction # t
  /\ calls[t] = NoScope
  /\ alive[s]
  /\ resolving # s
  /\ \A u \in Threads : calls[u] # s
  /\ ~HeldByParent(s)
  /\ alive' = [alive EXCEPT ![s] = FALSE]
  /\ destroying' = [destroying EXCEPT ![t] = IF state[s] = "Ended" THEN NoScope ELSE s]
  /\ UNCHANGED <<impl, instances, ender, joining, activation, calls, answer,
                 registered, ran>>

Destroy(t) ==
  /\ destroying[t] # NoScope
  /\ calls[t] = NoScope
  /\ MayLock(t)
  /\ calls' = [calls EXCEPT ![t] = destroying[t]]
  /\ Start(t, destroying[t])
  /\ UNCHANGED <<parent, waiters, failure, elders, instances, alive, awaiting, waking,
                 activation, destroying, answer, registered, ran>>

------------------------------------------------------------------------------
Use(t) == \E s \in Scopes : \/ CreateRootScope(t, s)
                           \/ \E p \in Scopes : CreateScope(t, p, s)
                           \/ RegisterCleanup(t, s)
                           \/ BeginActivation(t, s)
                           \/ EndAsync(t, s)
                           \/ Drop(t, s)

End(s) == \/ EndNextChild(s) \/ BeginCleanup(s) \/ EndCleanup(s)
          \/ ReleaseInstances(s) \/ Finish(s) \/ CompleteWaiter(s) \/ Return(s)

JoinOf(c) == \E s \in Scopes : Join(c, s)

Next == \/ \E t \in Threads : Use(t) \/ CommitActivation(t) \/ Destroy(t)
        \/ \E s \in Scopes : End(s)
        \/ \E c \in Caller : JoinOf(c)

Spec == Init /\ [][Next]_vars

(* Coroutines that can go on do, factories return and cleanups complete.     *)
FairSpec == /\ Spec
            /\ \A t \in Threads : WF_vars(CommitActivation(t)) /\ WF_vars(Destroy(t))
            /\ \A s \in Scopes : WF_vars(End(s))
            /\ \A c \in Caller : WF_vars(JoinOf(c))

------------------------------------------------------------------------------
(* Every variable has its type.                                              *)
TypeOK == /\ state \in [Scopes -> States]
          /\ parent \in [Scopes -> Scopes \cup {NoScope}]
          /\ children \in [Scopes -> SUBSET Scopes]
          /\ cleanups \in [Scopes -> Seq(1 .. MaxCleanups)]
          /\ waiters \in [Scopes -> SUBSET Caller]
          /\ failure \in [Scopes -> BOOLEAN]
          /\ elders \in [Scopes -> SUBSET Scopes]
          /\ instances \in [Scopes -> 0 .. MaxInstances]
          /\ alive \in [Scopes -> BOOLEAN]
          /\ step \in [Scopes -> Steps]
          /\ ending \in [Scopes -> SUBSET Scopes]
          /\ toRun \in [Scopes -> Seq(1 .. MaxCleanups)]
          /\ awaiting \in [Scopes -> Scopes \cup {NoScope}]
          /\ owner \in [Scopes -> Caller \cup {NoThread}]
          /\ waking \in [Scopes -> SUBSET Caller]
          /\ joining \subseteq Caller \X Scopes
          /\ transaction \in Threads \cup {NoThread}
          /\ resolving \in Scopes \cup {NoScope}
          /\ calls \in [Threads -> Scopes \cup {NoScope}]
          /\ destroying \in [Threads -> Scopes \cup {NoScope}]
          /\ answer \in [Threads -> {"none", "ended", "failed"}]
          /\ registered \in [Scopes -> 0 .. MaxCleanups]
          /\ ran \in [Scopes -> Seq(1 .. MaxCleanups)]

(* No cleanup of a scope runs, and none of its services is released, before  *)
(* every child that is still referenced has ended, whoever ended it and      *)
(* whenever it was made.                                                     *)
ChildrenEndFirst ==
  \A p, c \in Scopes :
    (parent[c] = p /\ alive[c] /\ step[p] \in {"running", "finish", "notify", "done"})
      => state[c] = "Ended"

(* A cleanup that was accepted runs exactly once, in reverse order, before   *)
(* the scope counts as ended, however registration races with the ending.    *)
AcceptedCleanupsRan ==
  \A s \in Scopes : state[s] = "Ended" =>
    ran[s] = [i \in 1 .. registered[s] |-> registered[s] + 1 - i]

(* An ended scope holds nothing: no service activated while the ending was   *)
(* on its way has been cached in it, no child is left to it.                 *)
NothingAfterEnd ==
  \A s \in Scopes : state[s] = "Ended" =>
    instances[s] = 0 /\ cleanups[s] = <<>> /\ children[s] = {} /\ waiters[s] = {}

(* Every caller of EndAsync, the one that does the work and those that join, *)
(* is answered after the ending and with the same outcome.                   *)
SharedOutcome ==
  [][\A t \in Threads : calls[t] # NoScope /\ calls'[t] = NoScope =>
       /\ state[calls[t]] = "Ended"
       /\ answer'[t] = IF failure[calls[t]] THEN "failed" ELSE "ended"]_vars

(* A scope's outcome reports the failures of its children as well.           *)
FailuresReachParent ==
  \A p \in Scopes : state[p] = "Ended" /\ ~failure[p] =>
    \A c \in Scopes : parent[c] = p /\ alive[c] => ~failure[c]

(* An ending is an ending of the whole subtree: the scope's own cleanups and *)
(* services wait for the children, and what failed there is reported         *)
(* (EndCoreAsync).                                                           *)
ParentsEndLast == ChildrenEndFirst /\ FailuresReachParent

(* A scope that counts as ended has done all it accepted and holds nothing   *)
(* (RegisterCleanup, ResolveInternal, EndCoreAsync).                         *)
EndIsComplete == TypeOK /\ AcceptedCleanupsRan /\ NothingAfterEnd

(* Every call of EndAsync, and every destructor, is answered.                *)
EndingEnds ==
  \A t \in Threads : /\ (calls[t] # NoScope) ~> (calls[t] = NoScope)
                     /\ (destroying[t] # NoScope) ~> (destroying[t] = NoScope)

(* The header's promise that the lifetime of a child is bounded by that of   *)
(* its parent: nothing of the child is left when the parent has ended.       *)
BoundedByParent ==
  \A c \in Scopes : parent[c] # NoScope /\ state[parent[c]] = "Ended" => state[c] = "Ended"
===============================================================================
