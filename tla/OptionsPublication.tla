-------------------------- MODULE OptionsPublication --------------------------
(***************************************************************************)
(* The writing side of OptionsMonitor (OptionsMonitor.inl): sources and    *)
(* validators, the transactions that publish a new value or reject it, and *)
(* the WatchGate between the monitor and an observable provider, here one  *)
(* MemoryOptionsProvider.  A transaction runs under updateMutex from its   *)
(* first read to the publication and is one step.  The gate works with two *)
(* atomics and no lock: each access of them is a step.                     *)
(*                                                                         *)
(* The store of pending is a release store and the load of active that     *)
(* follows it an acquire load, which lets the processor make the store     *)
(* visible after the load (x86 store buffers, and any weaker machine).     *)
(* With StoreBuffers the thread's store stays in its buffer until an       *)
(* arbitrary later moment, at the latest its next read-modify-write.       *)
(***************************************************************************)
EXTENDS Naturals, Sequences, FiniteSets, SequencesExt

CONSTANTS
  Threads,               (* the threads that set the provider's value       *)
  Values,                (* the values of the options type                  *)
  DefaultValue,          (* the value of a default constructed TOptions     *)
  Provider,              (* the source step of the provider                 *)
  NoValue,               (* the provider has no override                    *)
  Predicates,            (* validators, as the values each accepts          *)
  StoreBuffers,          (* whether a store may be delayed after a load     *)
  MaxVersion, MaxSources, MaxValidators, MaxRevision        (* bounds       *)

ASSUME ValueAssumption == /\ DefaultValue \in Values
                          /\ Provider \notin Values
                          /\ NoValue \notin Values
                          /\ Predicates \subseteq SUBSET Values
ASSUME BoundAssumption == /\ StoreBuffers \in BOOLEAN
                          /\ {MaxVersion, MaxSources, MaxValidators, MaxRevision} \subseteq Nat

VARIABLES
  value, version,        (* PublishedState                                  *)
  failed,                (* lastError is set                                *)
  sources, validators,
  override,              (* MemoryOptionsProvider::value                    *)
  watching,              (* the provider holds the gate's callback          *)
  active, gatePending,   (* struct WatchGate                                *)
  buffered,              (* threads whose store of pending is not visible   *)
  registration,          (* where AddProvider is                            *)
  pc,                    (* where each thread is inside the provider's Set  *)
  revision,              (* history: how often the override has changed     *)
  applied,               (* history: the revision at the latest build that  *)
                         (* has the provider                                *)
  result                 (* history: what the callback told each thread and *)
                         (* for which revision                              *)

options == <<value, version, failed, sources, validators>>
provider == <<override, revision, watching>>
gate == <<active, gatePending, buffered>>
history == <<applied, result>>
vars == <<options, provider, gate, registration, pc, history>>

Registrations == {"none", "watched", "rejected", "activate", "exchange", "reload", "done"}
Places == {"idle", "snapshot", "store", "load", "exchange", "reload"}

Init == /\ value = DefaultValue /\ version = 0 /\ failed = FALSE
        /\ sources = <<>> /\ validators = <<>>
        /\ override = NoValue /\ revision = 0 /\ watching = FALSE
        /\ active = FALSE /\ gatePending = FALSE /\ buffered = {}
        /\ registration = "none"
        /\ pc = [t \in Threads |-> "idle"]
        /\ applied = 0
        /\ result = [t \in Threads |-> [said |-> "none", revision |-> 0]]

------------------------------------------------------------------------------
(* Transactions.  User code (a source, a predicate, the serializer) may fail *)
(* or throw at any call, with the same effect.                               *)

ApplyProvider(candidate) == IF override = NoValue THEN candidate ELSE override

ApplyStep(candidate, step) == IF step = Provider THEN ApplyProvider(candidate) ELSE step

BuildCandidate == FoldLeft(ApplyStep, DefaultValue, sources)

ReadsProvider == Provider \in Range(sources)

Accepts(candidate, steps) == \A p \in Range(steps) : candidate \in p

PublishAs(candidate) ==
  /\ value' = candidate
  /\ version' = IF candidate = value THEN version ELSE version + 1
  /\ failed' = FALSE

Rejected == failed' = TRUE /\ UNCHANGED <<value, version>>

Fail == Rejected /\ UNCHANGED <<sources, validators>>

(* A registration puts its step at the end of a list, so that PublishLocked  *)
(* runs with it there, and takes it out again when the candidate is rejected. *)
LeftBehind(steps) == steps

RolledBack(steps) == Front(steps)

(* What a finished build means for the history variable. *)
Built(reads) == applied' = IF reads THEN revision ELSE applied

MayPublish == version < MaxVersion

Reload(ok) ==
  /\ MayPublish
  /\ ok => Accepts(BuildCandidate, validators)
  /\ IF ok THEN PublishAs(BuildCandidate) /\ UNCHANGED <<sources, validators>> ELSE Fail
  /\ Built(ReadsProvider)

UserReload == /\ \E ok \in BOOLEAN : Reload(ok)
              /\ UNCHANGED <<provider, gate, registration, pc, result>>

(* Set, and Update with whatever its callback made of the current value. *)
Replace ==
  /\ MayPublish
  /\ \/ \E v \in Values : /\ Accepts(v, validators)
                          /\ PublishAs(v)
                          /\ UNCHANGED <<sources, validators>>
     \/ Fail
  /\ UNCHANGED <<provider, gate, registration, pc, history>>

AddConfigure ==
  /\ MayPublish
  /\ Len(sources) < MaxSources
  /\ \E v \in Values : LET during == Append(sources, v)
     IN \/ Accepts(v, validators) /\ PublishAs(v) /\ sources' = during /\ UNCHANGED validators
        \/ Rejected /\ sources' = RolledBack(during) /\ UNCHANGED validators
        \/ Fail
  /\ Built(ReadsProvider)
  /\ UNCHANGED <<provider, gate, registration, pc, result>>

AddValidator ==
  /\ MayPublish
  /\ Len(validators) < MaxValidators
  /\ \E p \in Predicates : LET during == Append(validators, p)
     IN \/ /\ Accepts(BuildCandidate, during) /\ PublishAs(BuildCandidate)
           /\ validators' = during /\ UNCHANGED sources
        \/ Rejected /\ validators' = RolledBack(during) /\ UNCHANGED sources
        \/ Fail
  /\ Built(ReadsProvider)
  /\ UNCHANGED <<provider, gate, registration, pc, result>>

------------------------------------------------------------------------------
(* AddProvider: watch, apply and publish under the lock, then open the gate. *)

Watch == /\ registration = "none"
         /\ \/ /\ watching' = TRUE
               /\ registration' = "watched"
               /\ UNCHANGED options
            \/ Fail /\ UNCHANGED <<watching, registration>>
         /\ UNCHANGED <<override, revision, gate, pc, history>>

PublishProvider ==
  /\ registration = "watched"
  /\ MayPublish
  /\ LET candidate == ApplyProvider(BuildCandidate)
         during == Append(sources, Provider)
     IN \/ /\ Accepts(candidate, validators) /\ PublishAs(candidate)
           /\ sources' = during /\ registration' = "activate"
        \/ Rejected /\ sources' \in {sources, RolledBack(during)} /\ registration' = "rejected"
  /\ Built(TRUE)
  /\ UNCHANGED <<validators, provider, gate, pc, result>>

(* The rejected subscription is reset once the lock is released. *)
Unwatch == /\ registration = "rejected"
           /\ watching
           /\ watching' = FALSE
           /\ UNCHANGED <<options, override, revision, gate, registration, pc, history>>

Activate == /\ registration = "activate"
            /\ active' = TRUE
            /\ registration' = "exchange"
            /\ UNCHANGED <<options, provider, gatePending, buffered, pc, history>>

TakeDeferred == /\ registration = "exchange"
                /\ gatePending' = FALSE
                /\ registration' = IF gatePending THEN "reload" ELSE "done"
                /\ UNCHANGED <<options, provider, active, buffered, pc, history>>

ReloadDeferred == /\ registration = "reload"
                  /\ \E ok \in BOOLEAN : Reload(ok)
                  /\ registration' = "done"
                  /\ UNCHANGED <<provider, gate, pc, result>>

------------------------------------------------------------------------------
(* MemoryOptionsProvider::Set (with a value) and Clear (without), and the    *)
(* gate's callback that they call.                                           *)

SetOverride(t) ==
  /\ pc[t] = "idle"
  /\ revision < MaxRevision
  /\ \E v \in Values \cup {NoValue} : override' = v
  /\ revision' = revision + 1
  /\ result' = [result EXCEPT ![t] = [said |-> "none", revision |-> revision + 1]]
  /\ pc' = [pc EXCEPT ![t] = "snapshot"]
  /\ UNCHANGED <<options, watching, gate, registration, applied>>

(* The callbacks are copied under the provider's lock. *)
CopyCallbacks(t) ==
  /\ pc[t] = "snapshot"
  /\ pc' = [pc EXCEPT ![t] = IF watching THEN "store" ELSE "idle"]
  /\ UNCHANGED <<options, provider, gate, registration, history>>

SkipsStore(t) == /\ pc[t] = "store"
                 /\ pc' = [pc EXCEPT ![t] = "load"]
                 /\ UNCHANGED <<options, provider, gate, registration, history>>

StorePending(t) ==
  /\ pc[t] = "store"
  /\ IF StoreBuffers
     THEN buffered' = buffered \cup {t} /\ UNCHANGED gatePending
     ELSE gatePending' = TRUE /\ UNCHANGED buffered
  /\ pc' = [pc EXCEPT ![t] = "load"]
  /\ UNCHANGED <<options, provider, active, registration, history>>

StoreBecomesVisible(t) ==
  /\ t \in buffered
  /\ buffered' = buffered \ {t}
  /\ gatePending' = TRUE
  /\ UNCHANGED <<options, provider, active, registration, pc, history>>

Tells(t, answer) == /\ pc' = [pc EXCEPT ![t] = "idle"]
                    /\ result' = [result EXCEPT ![t].said = answer]

LoadActive(t) ==
  /\ pc[t] = "load"
  /\ IF active THEN pc' = [pc EXCEPT ![t] = "exchange"] /\ UNCHANGED result
               ELSE Tells(t, "no")
  /\ UNCHANGED <<options, provider, gate, registration, applied>>

ExchangePending(t) ==
  /\ pc[t] = "exchange"
  /\ t \notin buffered
  /\ gatePending' = FALSE
  /\ IF gatePending THEN pc' = [pc EXCEPT ![t] = "reload"] /\ UNCHANGED result
                    ELSE Tells(t, "yes")
  /\ UNCHANGED <<options, provider, active, buffered, registration, applied>>

ReloadPending(t) ==
  /\ pc[t] = "reload"
  /\ \E ok \in BOOLEAN : Reload(ok) /\ Tells(t, IF ok THEN "yes" ELSE "no")
  /\ UNCHANGED <<provider, gate, registration>>

------------------------------------------------------------------------------
Transactions == UserReload \/ Replace \/ AddConfigure \/ AddValidator

AddProvider == \/ Watch \/ PublishProvider \/ Unwatch
               \/ Activate \/ TakeDeferred \/ ReloadDeferred

Notify(t) == \/ SetOverride(t) \/ CopyCallbacks(t)
             \/ StorePending(t) \/ StoreBecomesVisible(t)
             \/ LoadActive(t) \/ ExchangePending(t) \/ ReloadPending(t)

Next == Transactions \/ AddProvider \/ \E t \in Threads : Notify(t)

Spec == Init /\ [][Next]_vars

------------------------------------------------------------------------------
(* Every variable has its type.                                              *)
TypeOK == /\ value \in Values /\ version \in 0 .. MaxVersion
          /\ failed \in BOOLEAN
          /\ sources \in Seq(Values \cup {Provider})
          /\ validators \in Seq(Predicates)
          /\ override \in Values \cup {NoValue}
          /\ {watching, active, gatePending} \subseteq BOOLEAN
          /\ buffered \subseteq Threads
          /\ registration \in Registrations
          /\ pc \in [Threads -> Places]
          /\ {revision, applied} \subseteq 0 .. MaxRevision
          /\ result \in [Threads -> [said : {"none", "yes", "no"}, revision : 0 .. MaxRevision]]

(* A value that some registered validator rejects is never the published     *)
(* one, however transactions that add validators, add sources, override and  *)
(* reload the value follow each other.                                       *)
ValidatorsHold == Accepts(value, validators)

(* A transaction publishes what all validators accept or leaves everything   *)
(* as it was: whichever source, validator or serializer fails, with or       *)
(* without the new step in its list, a failure is recorded and neither a     *)
(* value nor a version nor a step of the rejected registration stays         *)
(* (AddConfigure, AddValidator, AddProvider, PublishLocked).                 *)
AllOrNothing ==
  /\ []ValidatorsHold
  /\ [][failed' => UNCHANGED <<value, version, sources, validators>>]_vars

Quiescent == /\ \A t \in Threads : pc[t] = "idle"
             /\ buffered = {}
             /\ registration = "done"

(* The promise in the comment of IOptionsProvider::Watch: whatever moment of *)
(* the registration a provider changes at, the registration or a reload      *)
(* began after the change when everything is at rest; none stays behind in   *)
(* the gate.                                                                 *)
NoChangeLeftBehind == Quiescent => applied = revision

(* A thread whose callback returned true was not turned away: a reload began *)
(* after its change, whether its own, another thread's or the registration's. *)
YesMeansReloaded ==
  Quiescent => \A t \in Threads :
    result[t].said = "yes" => applied >= result[t].revision
===============================================================================
