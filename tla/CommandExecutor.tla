--------------------------- MODULE CommandExecutor ---------------------------
(***************************************************************************)
(* What the desktop event runtime promises to the code that hands it work, *)
(* without its threads, locks, pump or wake-ups.                           *)
(*                                                                         *)
(* Work is admitted while the executor is open.  Admitted work waits in    *)
(* one queue, runs in the order in which it was admitted and runs exactly  *)
(* once; work the executor's own thread submits runs at once, nested in    *)
(* whatever that thread is doing.  Work that arrives after the executor    *)
(* closed is refused.  Waiting work is discarded in one case only: when    *)
(* the executor will never serve its queue.                                *)
(***************************************************************************)
EXTENDS Naturals, Sequences, Functions

CONSTANT Op              (* the pieces of work that are ever handed over *)

VARIABLES
  open,                  (* work is still admitted                        *)
  mode,                  (* waiting, serving or over                      *)
  queue,                 (* admitted work, oldest first                   *)
  active,                (* nested work that is being run, innermost last *)
  outcome                (* how each piece of work ended                  *)

vars == <<open, mode, queue, active, outcome>>

Fresh(op) == /\ outcome[op] = "none"
             /\ op \notin Range(queue) \cup Range(active)

Init == /\ open = TRUE
        /\ mode = "waiting"
        /\ queue = <<>>
        /\ active = <<>>
        /\ outcome = [op \in Op |-> "none"]

Admit(op) == /\ open
             /\ Fresh(op)
             /\ queue' = Append(queue, op)
             /\ UNCHANGED <<open, mode, active, outcome>>

Refuse(op) == /\ ~open
              /\ Fresh(op)
              /\ outcome' = [outcome EXCEPT ![op] = "refused"]
              /\ UNCHANGED <<open, mode, queue, active>>

RunInline(op) == /\ open
                 /\ Fresh(op)
                 /\ active' = Append(active, op)
                 /\ UNCHANGED <<open, mode, queue, outcome>>

Serve == /\ mode = "waiting"
         /\ mode' = "serving"
         /\ UNCHANGED <<open, queue, active, outcome>>

Begin == /\ mode = "serving"
         /\ active = <<>>
         /\ queue # <<>>
         /\ active' = <<Head(queue)>>
         /\ queue' = Tail(queue)
         /\ UNCHANGED <<open, mode, outcome>>

End == /\ active # <<>>
       /\ outcome' = [outcome EXCEPT ![active[Len(active)]] = "executed"]
       /\ active' = SubSeq(active, 1, Len(active) - 1)
       /\ UNCHANGED <<open, mode, queue>>

Close == /\ open
         /\ open' = FALSE
         /\ UNCHANGED <<mode, queue, active, outcome>>

Fail == /\ mode = "waiting"
        /\ active = <<>>
        /\ mode' = "over"
        /\ open' = FALSE
        /\ UNCHANGED <<queue, active, outcome>>

Discard == /\ mode = "over"
           /\ queue # <<>>
           /\ outcome' = [outcome EXCEPT ![Head(queue)] = "discarded"]
           /\ queue' = Tail(queue)
           /\ UNCHANGED <<open, mode, active>>

Finish == /\ mode = "serving"
          /\ ~open
          /\ queue = <<>>
          /\ active = <<>>
          /\ mode' = "over"
          /\ UNCHANGED <<open, queue, active, outcome>>

Next == \/ \E op \in Op : Admit(op) \/ Refuse(op) \/ RunInline(op)
        \/ Serve \/ Begin \/ End \/ Close \/ Fail \/ Discard \/ Finish

Spec == Init /\ [][Next]_vars
==============================================================================
