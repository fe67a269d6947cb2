---------------------------- MODULE MCJobWorker ----------------------------
(* JobWorker on small instances. *)
EXTENDS JobWorker, TLC

CONSTANTS j1, j2, c1, c2

Type1 == j1 :> "registered"
MaxRetry1 == j1 :> 2

ConsumerSymmetry == Permutations(Consumers)

(* Bound: handled deliveries of a job that come again.  The steps that lose *)
(* one more ack are still checked, and not followed further.               *)
MaxLostAcks == 3
LostAcksBound == \A j \in Jobs : lostAcks[j] <= MaxLostAcks
=============================================================================
