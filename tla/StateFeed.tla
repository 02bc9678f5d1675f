------------------------------ MODULE StateFeed ------------------------------
(***************************************************************************)
(* What a live options value promises its observers, without threads,      *)
(* locks or queues: a version that only grows, and observers that are told *)
(* of ever newer versions, perhaps skipping some, until they unsubscribe.  *)
(* IOptionsMonitor.hpp and the notification part of the options guide      *)
(* describe the monitor in these terms.                                    *)
(***************************************************************************)
EXTENDS Integers

CONSTANT Observers

NothingSeen == -1     (* an observer that was not given any version yet     *)

VARIABLES
  version,     (* the version of the published snapshot                     *)
  seen,        (* the newest version each observer knows                    *)
  subscribed   (* "no", "yes" or "over" for each observer                   *)

vars == <<version, seen, subscribed>>

Init == /\ version = 0
        /\ seen = [o \in Observers |-> NothingSeen]
        /\ subscribed = [o \in Observers |-> "no"]

Publish == /\ version' = version + 1
           /\ UNCHANGED <<seen, subscribed>>

(* An observer either waits for the current version (Observe) or counts it  *)
(* as known (OnChange).                                                      *)
Subscribe(o) == /\ subscribed[o] = "no"
                /\ subscribed' = [subscribed EXCEPT ![o] = "yes"]
                /\ \E v \in {NothingSeen, version} : seen' = [seen EXCEPT ![o] = v]
                /\ UNCHANGED version

Deliver(o) == /\ subscribed[o] = "yes"
              /\ \E v \in (seen[o] + 1) .. version : seen' = [seen EXCEPT ![o] = v]
              /\ UNCHANGED <<version, subscribed>>

Unsubscribe(o) == /\ subscribed[o] = "yes"
                  /\ subscribed' = [subscribed EXCEPT ![o] = "over"]
                  /\ UNCHANGED <<version, seen>>

Next == \/ Publish
        \/ \E o \in Observers : Subscribe(o) \/ Deliver(o) \/ Unsubscribe(o)

SafeSpec == Init /\ [][Next]_vars

Spec == SafeSpec /\ \A o \in Observers : WF_vars(Deliver(o))
==============================================================================
