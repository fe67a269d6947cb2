---------------------------- MODULE JobDelivery ----------------------------
(***************************************************************************)
(* What the worker and its queue promise to whoever dispatches a job: an   *)
(* accepted job is answered for until it has finished, or until a retry of *)
(* it was given up after a run; and its handler is called no more often    *)
(* than its retries allow, once over for every delivery whose ack did not  *)
(* arrive.  JobWorker implements it.                                       *)
(***************************************************************************)
EXTENDS Integers

CONSTANTS
  Jobs,
  Runnable,    \* the jobs that have a handler
  Allowance    \* Allowance[j]: the handler calls the retries of j come to

VARIABLES
  accepted,    \* jobs that were taken over
  pending,     \* jobs someone still answers for
  finished,    \* jobs that succeeded or were given up for good
  dropped,     \* jobs a retry of which was given up
  runs,        \* runs[j]: calls of the handler
  again        \* again[j]: deliveries of j whose ack did not arrive

deliveryVars == <<accepted, pending, finished, dropped, runs, again>>

HasRun == {j \in Jobs : runs[j] > 0}
MayRun(j, spare) == runs[j] < Allowance[j] * (1 + spare)

DeliveryInit ==
  /\ accepted = {} /\ pending = {} /\ finished = {} /\ dropped = {}
  /\ runs = [j \in Jobs |-> 0]
  /\ again = [j \in Jobs |-> 0]

Accept(j) ==
  /\ j \notin accepted
  /\ accepted' = accepted \cup {j}
  /\ pending' = pending \cup {j}
  /\ UNCHANGED <<finished, dropped, runs, again>>

(* Someone takes j up, or a copy of j that was put back meanwhile. *)
TakeUp(j) ==
  \/ j \in pending /\ UNCHANGED again
  \/ again' = [again EXCEPT ![j] = @ + 1]

Run(j) ==
  /\ j \in accepted \cap Runnable
  /\ TakeUp(j)
  /\ MayRun(j, again'[j])
  /\ runs' = [runs EXCEPT ![j] = @ + 1]
  /\ UNCHANGED <<accepted, pending, finished, dropped>>

(* A job without a handler is given up. *)
Refuse(j) ==
  /\ j \in accepted \ Runnable
  /\ TakeUp(j)
  /\ finished' = finished \cup {j}
  /\ UNCHANGED <<accepted, pending, dropped, runs>>

(* The handler succeeded, or failed for the last time. *)
Finish(j) ==
  /\ j \in HasRun
  /\ finished' = finished \cup {j}
  /\ UNCHANGED <<accepted, pending, dropped, runs, again>>

(* The handler failed and j is to run again. *)
Retry(j) ==
  /\ j \in HasRun /\ MayRun(j, again[j])
  /\ pending' = pending \cup {j}
  /\ UNCHANGED <<accepted, finished, dropped, runs, again>>

(* The last copy is acknowledged. *)
Settle(j) ==
  /\ j \in finished \cup dropped
  /\ pending' = pending \ {j}
  /\ UNCHANGED <<accepted, finished, dropped, runs, again>>

(* A channel or a process goes: deliveries that were handled come again,   *)
(* and retries are given up.                                               *)
Interrupt ==
  /\ again' \in [Jobs -> Nat]
  /\ \A j \in Jobs : again'[j] >= again[j] /\ (again'[j] > again[j] => j \in HasRun \cup finished)
  /\ dropped \subseteq dropped' /\ dropped' \ dropped \subseteq HasRun
  /\ pending' \subseteq pending /\ pending \ pending' \subseteq dropped'
  /\ UNCHANGED <<accepted, finished, runs>>

DeliveryNext ==
  \/ \E j \in Jobs : Accept(j) \/ Run(j) \/ Refuse(j) \/ Finish(j) \/ Retry(j) \/ Settle(j)
  \/ Interrupt

DeliverySpec == DeliveryInit /\ [][DeliveryNext]_deliveryVars

(* What follows from it at every moment: an accepted job is answered for,  *)
(* has finished, or had a retry given up; no job is dropped, and none with *)
(* a handler is finished, before it has run; and the calls of a handler    *)
(* stay within the allowance, once over for every lost ack.                *)
Promise ==
  /\ accepted \subseteq pending \cup finished \cup dropped
  /\ dropped \cup (finished \cap Runnable) \subseteq HasRun
  /\ \A j \in Jobs : runs[j] <= Allowance[j] * (1 + again[j])
=============================================================================
