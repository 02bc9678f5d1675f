------------------------ MODULE OptionsPublicationProofs -----------------------
(* Proofs about OptionsPublication for any number of threads, values,         *)
(* validators and sources, with store buffers or without.                     *)
EXTENDS OptionsPublication, SequenceTheorems, TLAPS

(* What the lists hold after a registration, accepted or taken back.          *)
LEMMA Appended ==
  ASSUME NEW S, NEW s \in Seq(S), NEW e \in S
  PROVE  /\ Append(s, e) \in Seq(S)
         /\ Range(Append(s, e)) = Range(s) \cup {e}
         /\ RolledBack(Append(s, e)) = s
<1>1. /\ Append(s, e) \in Seq(S)
      /\ DOMAIN Append(s, e) = 1 .. Len(s) + 1
      /\ DOMAIN s = 1 .. Len(s)
      /\ Len(s) \in Nat /\ Len(Append(s, e)) = Len(s) + 1
      /\ \A i \in 1 .. Len(s) : Append(s, e)[i] = s[i]
      /\ Append(s, e)[Len(s) + 1] = e
  OBVIOUS
<1>2. Range(Append(s, e)) = Range(s) \cup {e}
  <2>1. ASSUME NEW x \in Range(s) PROVE x \in Range(Append(s, e))
    BY <1>1, <2>1 DEF Range
  <2>2. ASSUME NEW x \in Range(Append(s, e)) PROVE x \in Range(s) \cup {e}
    <3>1. PICK i \in 1 .. Len(s) + 1 : Append(s, e)[i] = x
      BY <1>1, <2>2 DEF Range
    <3> QED BY <1>1, <3>1 DEF Range
  <2>3. e \in Range(Append(s, e))
    BY <1>1 DEF Range
  <2> QED BY <2>1, <2>2, <2>3
<1>3. RolledBack(Append(s, e)) = s
  <2> DEFINE q == Append(s, e)
  <2>1. RolledBack(q) = SubSeq(q, 1, Len(s))
    BY <1>1 DEF RolledBack, Front
  <2>2. /\ SubSeq(q, 1, Len(s)) \in Seq(S) /\ Len(SubSeq(q, 1, Len(s))) = Len(s)
        /\ \A i \in 1 .. Len(s) : SubSeq(q, 1, Len(s))[i] = q[i]
    BY <1>1
  <2>3. SubSeq(q, 1, Len(s)) = s
    BY <1>1, <2>2, SeqEqual
  <2> QED BY <2>1, <2>3
<1> QED BY <1>1, <1>2, <1>3

Lists == validators \in Seq(Predicates) /\ sources \in Seq(Values \cup {Provider})

ListInv == Lists /\ ValidatorsHold

Unchanged == UNCHANGED <<value, version, sources, validators>>

(* A transaction publishes or takes back what it has added.                   *)
LEMMA TransactionEffect ==
  ASSUME ListInv, [Next]_vars
  PROVE  ListInv' /\ (failed' => Unchanged)
<1>0. Lists /\ ValidatorsHold
  BY DEF ListInv
<1>1. ASSUME Unchanged PROVE ListInv' /\ (failed' => Unchanged)
  BY <1>0, <1>1 DEF ListInv, Lists, ValidatorsHold, Accepts, Unchanged
<1>2. ASSUME NEW candidate, Accepts(candidate, validators'), PublishAs(candidate), Lists'
      PROVE  ListInv' /\ (failed' => Unchanged)
  BY <1>2 DEF ListInv, ValidatorsHold, PublishAs, Accepts
<1>3. ASSUME NEW ok \in BOOLEAN, Reload(ok) PROVE ListInv' /\ (failed' => Unchanged)
  <2>1. CASE ok
    <3>1. /\ Accepts(BuildCandidate, validators) /\ PublishAs(BuildCandidate)
          /\ UNCHANGED <<sources, validators>>
      BY <1>3, <2>1 DEF Reload
    <3> QED BY <1>0, <1>2, <3>1 DEF Accepts, Lists
  <2>2. CASE ~ok
    BY <1>1, <1>3, <2>2 DEF Reload, Fail, Rejected, Unchanged
  <2> QED BY <2>1, <2>2
<1>4. CASE Replace
  <2>1. CASE Fail
    BY <1>1, <2>1 DEF Fail, Rejected, Unchanged
  <2>2. ASSUME NEW v \in Values, Accepts(v, validators), PublishAs(v), UNCHANGED <<sources, validators>>
        PROVE  ListInv' /\ (failed' => Unchanged)
    BY <1>0, <1>2, <2>2 DEF Accepts, Lists
  <2> QED BY <1>4, <2>1, <2>2 DEF Replace
<1>5. CASE AddConfigure
  <2>1. PICK v \in Values :
          \/ /\ Accepts(v, validators) /\ PublishAs(v)
             /\ sources' = Append(sources, v) /\ UNCHANGED validators
          \/ Rejected /\ sources' = RolledBack(Append(sources, v)) /\ UNCHANGED validators
          \/ Fail
    BY <1>5 DEF AddConfigure
  <2>2. /\ RolledBack(Append(sources, v)) = sources
        /\ Append(sources, v) \in Seq(Values \cup {Provider})
    BY <1>0, Appended DEF Lists
  <2>3. CASE Accepts(v, validators) /\ PublishAs(v) /\ sources' = Append(sources, v) /\ UNCHANGED validators
    BY <1>0, <1>2, <2>2, <2>3 DEF Accepts, Lists
  <2>4. CASE Fail \/ (Rejected /\ sources' = RolledBack(Append(sources, v)) /\ UNCHANGED validators)
    BY <1>1, <2>2, <2>4 DEF Fail, Rejected, Unchanged
  <2> QED BY <2>1, <2>3, <2>4
<1>6. CASE AddValidator
  <2>1. PICK p \in Predicates :
          \/ /\ Accepts(BuildCandidate, Append(validators, p)) /\ PublishAs(BuildCandidate)
             /\ validators' = Append(validators, p) /\ UNCHANGED sources
          \/ Rejected /\ validators' = RolledBack(Append(validators, p)) /\ UNCHANGED sources
          \/ Fail
    BY <1>6 DEF AddValidator
  <2>2. RolledBack(Append(validators, p)) = validators /\ Append(validators, p) \in Seq(Predicates)
    BY <1>0, Appended DEF Lists
  <2>3. CASE /\ Accepts(BuildCandidate, Append(validators, p)) /\ PublishAs(BuildCandidate)
             /\ validators' = Append(validators, p) /\ UNCHANGED sources
    BY <1>0, <1>2, <2>2, <2>3 DEF Accepts, Lists
  <2>4. CASE Fail \/ (Rejected /\ validators' = RolledBack(Append(validators, p)) /\ UNCHANGED sources)
    BY <1>1, <2>2, <2>4 DEF Fail, Rejected, Unchanged
  <2> QED BY <2>1, <2>3, <2>4
<1>7. CASE PublishProvider
  <2> DEFINE candidate == ApplyProvider(BuildCandidate)
  <2>1. /\ RolledBack(Append(sources, Provider)) = sources
        /\ Append(sources, Provider) \in Seq(Values \cup {Provider})
    BY <1>0, Appended DEF Lists
  <2>2. CASE Accepts(candidate, validators) /\ PublishAs(candidate) /\ sources' = Append(sources, Provider)
    BY <1>0, <1>2, <1>7, <2>1, <2>2 DEF PublishProvider, Accepts, Lists
  <2>3. CASE Rejected /\ sources' \in {sources, RolledBack(Append(sources, Provider))}
    BY <1>1, <1>7, <2>1, <2>3 DEF PublishProvider, Rejected, Unchanged
  <2> QED BY <1>7, <2>2, <2>3 DEF PublishProvider
<1>8. CASE UserReload \/ ReloadDeferred
  BY <1>8, <1>3 DEF UserReload, ReloadDeferred
<1>9. CASE Watch \/ Unwatch \/ Activate \/ TakeDeferred \/ UNCHANGED vars
  BY <1>9, <1>1 DEF Watch, Unwatch, Activate, TakeDeferred, Fail, Rejected, vars, options, Unchanged
<1>10. ASSUME NEW t \in Threads, Notify(t) PROVE ListInv' /\ (failed' => Unchanged)
  <2>1. CASE ReloadPending(t)
    BY <2>1, <1>3 DEF ReloadPending
  <2>2. CASE \/ SetOverride(t) \/ CopyCallbacks(t) \/ StorePending(t)
             \/ StoreBecomesVisible(t) \/ LoadActive(t) \/ ExchangePending(t)
    BY <2>2, <1>1 DEF SetOverride, CopyCallbacks, StorePending, StoreBecomesVisible,
                      LoadActive, ExchangePending, options, Unchanged
  <2> QED BY <1>10, <2>1, <2>2 DEF Notify
<1> QED BY <1>4, <1>5, <1>6, <1>7, <1>8, <1>9, <1>10 DEF Next, Transactions, AddProvider

(* A transaction publishes what every registered validator accepts or leaves  *)
(* value, version, sources and validators as they were (PublishLocked and the *)
(* operations that add a step before it).                                     *)
THEOREM AllOrNothingHolds == Spec => AllOrNothing
<1>1. Init => ListInv
  <2>1. ASSUME NEW S PROVE <<>> \in Seq(S) /\ Range(<<>>) = {}
    BY DEF Range
  <2> QED BY <2>1 DEF Init, ListInv, Lists, ValidatorsHold, Accepts
<1>2. ListInv /\ [Next]_vars => ListInv' /\ [failed' => Unchanged]_vars
  BY TransactionEffect
<1>3. ListInv => ValidatorsHold
  BY DEF ListInv
<1> QED BY <1>1, <1>2, <1>3, PTL DEF Spec, AllOrNothing, Unchanged

------------------------------------------------------------------------------
(* Why a thread that was told "yes" may rely on it.  What it changed is read  *)
(* by a build that has begun since, or somebody has taken the flag it set and *)
(* is about to reload; the flag alone is enough until the thread is answered. *)

Shape == /\ sources \in Seq(Values \cup {Provider})
         /\ {revision, applied} \subseteq Nat
         /\ pc \in [Threads -> Places]
         /\ result \in [Threads -> [said : {"none", "yes", "no"}, revision : Nat]]
         /\ gatePending \in BOOLEAN

Latest == /\ applied <= revision
          /\ \A t \in Threads : result[t].revision <= revision

Registered == registration \in {"activate", "exchange", "reload", "done"}

Opened == /\ Registered => ReadsProvider
          /\ active => Registered
          /\ \A t \in Threads : pc[t] \in {"exchange", "reload"} => active

ReloadIsNext == registration = "reload" \/ \E u \in Threads : pc[u] = "reload"

Seen(t) == applied >= result[t].revision \/ ReloadIsNext

Waits(t) == pc[t] \in {"load", "exchange"} /\ t \notin buffered

Covered == \A t \in Threads : /\ Waits(t) => Seen(t) \/ gatePending
                              /\ result[t].said = "yes" => Seen(t)

GateInv == Shape /\ Latest /\ Opened /\ Covered

(* A step that only publishes, or builds, or both, and leaves the gate, the   *)
(* threads and the registration alone.                                        *)
LEMMA BuildStep ==
  ASSUME GateInv,
         sources' \in Seq(Values \cup {Provider}),
         ReadsProvider => ReadsProvider',
         applied' \in {applied, revision},
         UNCHANGED <<revision, gate, registration, pc, result>>
  PROVE  GateInv'
<1>1. applied' \in Nat /\ applied' >= applied /\ applied' <= revision
  BY DEF GateInv, Shape, Latest
<1>2. Shape'
  BY <1>1 DEF GateInv, Shape, gate
<1>3. Latest'
  BY <1>1 DEF GateInv, Latest
<1>4. Opened'
  BY DEF GateInv, Opened, Registered, gate
<1>5. ASSUME NEW t \in Threads, Seen(t) PROVE Seen(t)'
  <2>1. result[t].revision \in Nat /\ applied \in Nat
    BY DEF GateInv, Shape
  <2> QED BY <1>1, <1>5, <2>1 DEF Seen, ReloadIsNext
<1>6. Covered'
  BY <1>5 DEF GateInv, Covered, Waits, gate
<1> QED BY <1>2, <1>3, <1>4, <1>6 DEF GateInv

LEMMA TransactionStep ==
  ASSUME GateInv, Transactions \/ Watch \/ Unwatch
  PROVE  GateInv'
<1>1. sources \in Seq(Values \cup {Provider})
  BY DEF GateInv, Shape
<1>2. CASE UserReload
  <2>1. sources' = sources /\ applied' \in {applied, revision}
    BY <1>2 DEF UserReload, Reload, Fail, Built
  <2> QED BY <1>1, <1>2, <2>1, BuildStep DEF UserReload, provider, gate, ReadsProvider
<1>3. CASE Replace
  <2>1. sources' = sources /\ applied' = applied
    BY <1>3 DEF Replace, Fail, history
  <2> QED BY <1>1, <1>3, <2>1, BuildStep DEF Replace, provider, gate, history, ReadsProvider
<1>4. CASE AddConfigure
  <2>1. applied' \in {applied, revision}
    BY <1>4 DEF AddConfigure, Built
  <2>2. sources' = sources \/ \E v \in Values : sources' = Append(sources, v)
    BY <1>1, <1>4, Appended DEF AddConfigure, Fail
  <2>3. sources' \in Seq(Values \cup {Provider})
    BY <1>1, <2>2, Appended
  <2>4. Provider \in Range(sources) => Provider \in Range(sources')
    <3>1. \A v \in Values : Range(Append(sources, v)) = Range(sources) \cup {v}
      BY <1>1, Appended
    <3> QED BY <2>2, <3>1
  <2>5. ReadsProvider => ReadsProvider'
    BY <2>4 DEF ReadsProvider
  <2> QED BY <1>4, <2>1, <2>3, <2>5, BuildStep DEF AddConfigure, provider, gate
<1>5. CASE AddValidator
  <2>1. sources' = sources /\ applied' \in {applied, revision}
    BY <1>5 DEF AddValidator, Fail, Built
  <2> QED BY <1>1, <1>5, <2>1, BuildStep DEF AddValidator, provider, gate, ReadsProvider
<1>6. CASE Unwatch
  BY <1>1, <1>6, BuildStep DEF Unwatch, options, history, ReadsProvider
<1>7. CASE Watch
  <2>1. registration' \in {registration, "watched"} /\ registration = "none"
    BY <1>7 DEF Watch
  <2>2. /\ sources' = sources
        /\ UNCHANGED <<revision, active, gatePending, buffered, pc, applied, result>>
    BY <1>7 DEF Watch, Fail, options, gate, history
  <2>3. Shape' /\ Latest'
    BY <2>2 DEF GateInv, Shape, Latest
  <2>4. Opened'
    BY <2>1, <2>2 DEF GateInv, Opened, Registered, ReadsProvider
  <2>5. \A t \in Threads : Seen(t) => Seen(t)'
    BY <2>1, <2>2 DEF Seen, ReloadIsNext
  <2>6. Covered'
    BY <2>2, <2>5 DEF GateInv, Covered, Waits
  <2> QED BY <2>3, <2>4, <2>6 DEF GateInv
<1> QED BY <1>2, <1>3, <1>4, <1>5, <1>6, <1>7 DEF Transactions

(* A build that reads the provider answers for every change made so far.      *)
LEMMA EverythingSeen ==
  ASSUME Latest', Shape', applied' = revision'
  PROVE  Covered'
<1>1. ASSUME NEW t \in Threads PROVE Seen(t)'
  BY DEF Latest, Shape, Seen
<1> QED BY <1>1 DEF Covered

LEMMA RegistrationStep ==
  ASSUME GateInv, PublishProvider \/ Activate \/ TakeDeferred \/ ReloadDeferred
  PROVE  GateInv'
<1>1. sources \in Seq(Values \cup {Provider})
  BY DEF GateInv, Shape
<1>2. CASE PublishProvider
  <2>1. applied' = revision /\ UNCHANGED <<revision, active, gatePending, pc, result>>
    BY <1>2 DEF PublishProvider, Built, provider, gate
  <2>2. \/ sources' = Append(sources, Provider) /\ registration' = "activate"
        \/ sources' = sources /\ registration' = "rejected"
    BY <1>1, <1>2, Appended DEF PublishProvider
  <2>3. sources' \in Seq(Values \cup {Provider})
    BY <1>1, <2>2, Appended
  <2>4. Shape' /\ Latest'
    BY <2>1, <2>3 DEF GateInv, Shape, Latest
  <2>5. registration' = "activate" => Provider \in Range(sources')
    <3>1. Range(Append(sources, Provider)) = Range(sources) \cup {Provider}
      BY <1>1, Appended
    <3> QED BY <2>2, <3>1
  <2>6. registration = "watched"
    BY <1>2 DEF PublishProvider
  <2>7. Opened'
    BY <2>1, <2>2, <2>5, <2>6 DEF GateInv, Opened, Registered, ReadsProvider
  <2> QED BY <2>1, <2>4, <2>7, EverythingSeen DEF GateInv
<1>3. CASE Activate
  <2>1. /\ registration = "activate" /\ registration' = "exchange" /\ active' = TRUE
        /\ UNCHANGED <<sources, revision, gatePending, buffered, pc, applied, result>>
    BY <1>3 DEF Activate, options, provider, history
  <2>2. Shape' /\ Latest'
    BY <2>1 DEF GateInv, Shape, Latest
  <2>3. Opened'
    BY <2>1 DEF GateInv, Opened, Registered, ReadsProvider
  <2>4. \A t \in Threads : Seen(t) => Seen(t)'
    BY <2>1 DEF Seen, ReloadIsNext
  <2>5. Covered'
    BY <2>1, <2>4 DEF GateInv, Covered, Waits
  <2> QED BY <2>2, <2>3, <2>5 DEF GateInv
<1>4. CASE TakeDeferred
  <2>1. /\ registration = "exchange" /\ gatePending' = FALSE
        /\ registration' = IF gatePending THEN "reload" ELSE "done"
        /\ UNCHANGED <<sources, revision, active, buffered, pc, applied, result>>
    BY <1>4 DEF TakeDeferred, options, provider, history
  <2>2. Shape' /\ Latest'
    BY <2>1 DEF GateInv, Shape, Latest
  <2>3. Opened'
    BY <2>1 DEF GateInv, Opened, Registered, ReadsProvider
  <2>4. \A t \in Threads : Seen(t) => Seen(t)'
    BY <2>1 DEF Seen, ReloadIsNext
  <2>5. gatePending => ReloadIsNext'
    BY <2>1 DEF ReloadIsNext
  <2>6. Covered'
    BY <2>1, <2>4, <2>5 DEF GateInv, Covered, Waits, Seen
  <2> QED BY <2>2, <2>3, <2>6 DEF GateInv
<1>5. CASE ReloadDeferred
  <2>1. /\ registration = "reload" /\ registration' = "done"
        /\ UNCHANGED <<sources, revision, active, gatePending, buffered, pc, result>>
    BY <1>5 DEF ReloadDeferred, Reload, Fail, provider, gate
  <2>2. applied' = revision
    BY <1>5, <2>1 DEF ReloadDeferred, Reload, Built, GateInv, Opened, Registered
  <2>3. Shape' /\ Latest'
    BY <2>1, <2>2 DEF GateInv, Shape, Latest
  <2>4. Opened'
    BY <2>1 DEF GateInv, Opened, Registered, ReadsProvider
  <2> QED BY <2>1, <2>2, <2>3, <2>4, EverythingSeen DEF GateInv
<1> QED BY <1>2, <1>3, <1>4, <1>5

LEMMA NotifyStep ==
  ASSUME GateInv, NEW t \in Threads, Notify(t)
  PROVE  GateInv'
<1>1. CASE SetOverride(t)
  <2>1. /\ pc[t] = "idle" /\ pc' = [pc EXCEPT ![t] = "snapshot"]
        /\ revision' = revision + 1
        /\ result' = [result EXCEPT ![t] = [said |-> "none", revision |-> revision + 1]]
        /\ UNCHANGED <<sources, active, gatePending, buffered, registration, applied>>
    BY <1>1 DEF SetOverride, options, gate
  <2>2. Shape'
    BY <2>1 DEF GateInv, Shape, Places
  <2>3. \A u \in Threads : u # t => result'[u] = result[u] /\ pc'[u] = pc[u]
    BY <2>1 DEF GateInv, Shape
  <2>4. result'[t] = [said |-> "none", revision |-> revision + 1] /\ pc'[t] = "snapshot"
    BY <2>1 DEF GateInv, Shape
  <2>5. Latest'
    BY <2>1, <2>3, <2>4 DEF GateInv, Shape, Latest
  <2>6. Opened'
    BY <2>1, <2>3, <2>4 DEF GateInv, Opened, Registered, ReadsProvider
  <2>7. ReloadIsNext => ReloadIsNext'
    BY <2>1, <2>3 DEF ReloadIsNext
  <2>8. \A u \in Threads : u # t /\ Seen(u) => Seen(u)'
    BY <2>1, <2>3, <2>7 DEF Seen
  <2>9. ~Waits(t)' /\ result'[t].said # "yes"
    BY <2>4 DEF Waits
  <2>10. Covered'
    BY <2>1, <2>3, <2>8, <2>9 DEF GateInv, Covered, Waits
  <2> QED BY <2>2, <2>5, <2>6, <2>10 DEF GateInv
<1>2. CASE CopyCallbacks(t) \/ StorePending(t)
  <2>1. /\ pc[t] \in {"snapshot", "store"}
        /\ \E p \in {"store", "idle", "load"} : pc' = [pc EXCEPT ![t] = p]
        /\ UNCHANGED <<sources, revision, active, registration, applied, result>>
    BY <1>2 DEF CopyCallbacks, StorePending, options, provider, history, gate
  <2>2. PICK p \in {"store", "idle", "load"} : pc' = [pc EXCEPT ![t] = p]
    BY <2>1
  <2>3. \/ UNCHANGED <<gatePending, buffered>> /\ p # "load"
        \/ gatePending' = gatePending /\ buffered' = buffered \cup {t}
        \/ gatePending' = TRUE /\ buffered' = buffered
    BY <1>2, <2>2 DEF CopyCallbacks, StorePending, gate, GateInv, Shape
  <2>4. Shape'
    BY <2>1, <2>2, <2>3 DEF GateInv, Shape, Places
  <2>5. Latest'
    BY <2>1 DEF GateInv, Latest
  <2>6. \A u \in Threads : u # t => pc'[u] = pc[u]
    BY <2>2 DEF GateInv, Shape
  <2>7. pc'[t] = p
    BY <2>2 DEF GateInv, Shape
  <2>8. Opened'
    BY <2>1, <2>6, <2>7 DEF GateInv, Opened, Registered, ReadsProvider
  <2>9. \A u \in Threads : Seen(u) => Seen(u)'
    BY <2>1, <2>6 DEF Seen, ReloadIsNext
  <2>10. gatePending => gatePending'
    BY <2>3
  <2>11. Waits(t)' => gatePending'
    BY <2>3, <2>7 DEF Waits
  <2>12. \A u \in Threads : u # t /\ Waits(u)' => Waits(u)
    BY <2>3, <2>6 DEF Waits
  <2>13. Covered'
    BY <2>1, <2>9, <2>10, <2>11, <2>12 DEF GateInv, Covered
  <2> QED BY <2>4, <2>5, <2>8, <2>13 DEF GateInv
<1>3. CASE StoreBecomesVisible(t)
  <2>1. /\ gatePending' = TRUE
        /\ UNCHANGED <<sources, revision, active, registration, pc, applied, result>>
    BY <1>3 DEF StoreBecomesVisible, options, provider, history
  <2>2. Shape' /\ Latest' /\ Opened'
    BY <2>1 DEF GateInv, Shape, Latest, Opened, Registered, ReadsProvider
  <2>3. Covered'
    BY <2>1 DEF GateInv, Covered, Seen, ReloadIsNext
  <2> QED BY <2>2, <2>3 DEF GateInv
<1>4. CASE LoadActive(t)
  <2>1. /\ pc[t] = "load"
        /\ UNCHANGED <<sources, revision, active, gatePending, buffered, registration, applied>>
    BY <1>4 DEF LoadActive, options, provider, gate
  <2>2. \/ active /\ pc' = [pc EXCEPT ![t] = "exchange"] /\ result' = result
        \/ pc' = [pc EXCEPT ![t] = "idle"] /\ result' = [result EXCEPT ![t].said = "no"]
    BY <1>4 DEF LoadActive, Tells
  <2>3. Shape'
    BY <2>1, <2>2 DEF GateInv, Shape, Places
  <2>4. \A u \in Threads : /\ u # t => pc'[u] = pc[u]
                           /\ result'[u].revision = result[u].revision
                           /\ result'[u].said = "yes" => result[u].said = "yes"
    BY <2>2 DEF GateInv, Shape
  <2>5. Latest'
    BY <2>1, <2>4 DEF GateInv, Latest
  <2>6. \/ active /\ pc'[t] = "exchange"
        \/ pc'[t] = "idle"
    BY <2>2 DEF GateInv, Shape
  <2>7. Opened'
    BY <2>1, <2>4, <2>6 DEF GateInv, Opened, Registered, ReadsProvider
  <2>8. \A u \in Threads : Seen(u) => Seen(u)'
    BY <2>1, <2>4 DEF Seen, ReloadIsNext
  <2>9. \A u \in Threads : Waits(u)' => Waits(u)
    BY <2>1, <2>4 DEF Waits
  <2>10. Covered'
    BY <2>1, <2>4, <2>8, <2>9 DEF GateInv, Covered
  <2> QED BY <2>3, <2>5, <2>7, <2>10 DEF GateInv
<1>5. CASE ExchangePending(t)
  <2>1. /\ pc[t] = "exchange" /\ t \notin buffered /\ gatePending' = FALSE
        /\ UNCHANGED <<sources, revision, active, buffered, registration, applied>>
    BY <1>5 DEF ExchangePending, options, provider
  <2>2. \/ gatePending /\ pc' = [pc EXCEPT ![t] = "reload"] /\ result' = result
        \/ /\ ~gatePending
           /\ pc' = [pc EXCEPT ![t] = "idle"]
           /\ result' = [result EXCEPT ![t].said = "yes"]
    BY <1>5 DEF ExchangePending, Tells
  <2>3. Shape'
    BY <2>1, <2>2 DEF GateInv, Shape, Places
  <2>4. \A u \in Threads : /\ u # t => pc'[u] = pc[u] /\ result'[u] = result[u]
                           /\ result'[u].revision = result[u].revision
    BY <2>2 DEF GateInv, Shape
  <2>5. Latest'
    BY <2>1, <2>4 DEF GateInv, Latest
  <2>6. pc'[t] \in {"reload", "idle"}
    BY <2>2 DEF GateInv, Shape
  <2>7. Opened'
    BY <2>1, <2>4, <2>6 DEF GateInv, Opened, Registered, ReadsProvider
  <2>8. \A u \in Threads : Seen(u) => Seen(u)'
    BY <2>1, <2>4 DEF Seen, ReloadIsNext
  <2>9. CASE gatePending
    <3>1. pc'[t] = "reload"
      BY <2>2, <2>9 DEF GateInv, Shape
    <3>2. ReloadIsNext'
      BY <3>1 DEF ReloadIsNext
    <3> QED BY <2>3, <2>5, <2>7, <3>2 DEF GateInv, Covered, Seen
  <2>10. CASE ~gatePending
    <3>1. Waits(t)
      BY <2>1 DEF Waits
    <3>2. Seen(t)
      BY <2>10, <3>1 DEF GateInv, Covered
    <3>3. \A u \in Threads : Waits(u)' => u # t /\ Waits(u)
      BY <2>1, <2>4, <2>6 DEF Waits
    <3>4. \A u \in Threads : Waits(u)' => Seen(u)'
      BY <2>8, <2>10, <3>3 DEF GateInv, Covered
    <3>5. \A u \in Threads : result'[u].said = "yes" => Seen(u)'
      BY <2>4, <2>8, <3>2 DEF GateInv, Covered
    <3> QED BY <2>3, <2>5, <2>7, <3>4, <3>5 DEF GateInv, Covered
  <2> QED BY <2>9, <2>10
<1>6. CASE ReloadPending(t)
  <2>1. pc[t] = "reload" /\ active
    BY <1>6 DEF ReloadPending, GateInv, Opened
  <2>2. /\ UNCHANGED <<sources, revision, active, gatePending, buffered, registration>>
        /\ pc' = [pc EXCEPT ![t] = "idle"]
        /\ \E answer \in {"yes", "no"} : result' = [result EXCEPT ![t].said = answer]
    BY <1>6 DEF ReloadPending, Reload, Fail, Tells, provider, gate
  <2>3. applied' = revision
    BY <1>6, <2>1 DEF ReloadPending, Reload, Built, GateInv, Opened
  <2>4. Shape'
    BY <2>2, <2>3 DEF GateInv, Shape, Places
  <2>5. \A u \in Threads : /\ u # t => pc'[u] = pc[u]
                           /\ result'[u].revision = result[u].revision
    BY <2>2 DEF GateInv, Shape
  <2>6. Latest'
    BY <2>2, <2>3, <2>5 DEF GateInv, Shape, Latest
  <2>7. pc'[t] = "idle"
    BY <2>2 DEF GateInv, Shape
  <2>8. Opened'
    BY <2>2, <2>5, <2>7 DEF GateInv, Opened, Registered, ReadsProvider
  <2> QED BY <2>2, <2>3, <2>4, <2>6, <2>8, EverythingSeen DEF GateInv
<1> QED BY <1>1, <1>2, <1>3, <1>4, <1>5, <1>6 DEF Notify

THEOREM YesMeansReloadedHolds == Spec => []YesMeansReloaded
<1>1. Init => GateInv
  <2> SUFFICES ASSUME Init PROVE GateInv
    OBVIOUS
  <2>1. Shape
    <3>1. sources \in Seq(Values \cup {Provider})
      BY DEF Init
    <3>2. pc \in [Threads -> Places]
      BY DEF Init, Places
    <3>3. result \in [Threads -> [said : {"none", "yes", "no"}, revision : Nat]]
      BY DEF Init
    <3>4. {revision, applied} \subseteq Nat
      <4>1. revision = 0 /\ applied = 0
        BY DEF Init
      <4> QED BY <4>1
    <3>5. gatePending \in BOOLEAN
      BY DEF Init
    <3> QED BY <3>1, <3>2, <3>3, <3>4, <3>5 DEF Shape
  <2>2. Latest /\ Opened /\ Covered
    BY DEF Init, Latest, Opened, Registered, Covered, Waits
  <2> QED BY <2>1, <2>2 DEF GateInv
<1>2. GateInv /\ [Next]_vars => GateInv'
  <2> SUFFICES ASSUME GateInv, [Next]_vars PROVE GateInv'
    OBVIOUS
  <2>1. CASE UNCHANGED vars
    <3>1. sources' \in Seq(Values \cup {Provider}) /\ UNCHANGED <<sources, applied>>
      BY <2>1 DEF GateInv, Shape, vars, options, history
    <3> QED BY <2>1, <3>1, BuildStep DEF vars, provider, history, ReadsProvider
  <2> QED BY <2>1, TransactionStep, RegistrationStep, NotifyStep DEF Next, AddProvider
<1>3. GateInv => YesMeansReloaded
  <2> SUFFICES ASSUME GateInv, Quiescent, NEW t \in Threads, result[t].said = "yes"
               PROVE  applied >= result[t].revision
    BY DEF YesMeansReloaded
  <2> QED BY DEF GateInv, Covered, Seen, ReloadIsNext, Quiescent
<1> QED BY <1>1, <1>2, <1>3, PTL DEF Spec
===============================================================================
