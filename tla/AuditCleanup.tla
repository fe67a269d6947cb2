---------------------------- MODULE AuditCleanup ----------------------------
(***************************************************************************)
(* AuditCleanupHandler.Handle: several cleanup jobs, of different          *)
(* retention or redelivered, delete old audit rows in batches at the same  *)
(* time, while new rows arrive.                                            *)
(*                                                                         *)
(* A batch is one DELETE whose subquery picks ids from its snapshot; the   *)
(* rows another job has deleted by then do not count (READ COMMITTED).     *)
(***************************************************************************)
EXTENDS Naturals, FiniteSets

CONSTANTS
  LogRows,        \* audit rows
  AgeOf,          \* AgeOf[r]: days since created_at
  Jobs,           \* cleanup jobs
  RetentionOf,    \* RetentionOf[j]: retention_days of the payload, 0 when missing
  DefaultDays,    \* 90
  BatchSize       \* 1000

ASSUME CleanupInputs ==
  /\ AgeOf \in [LogRows -> Nat] /\ RetentionOf \in [Jobs -> Nat]
  /\ DefaultDays \in Nat \ {0} /\ BatchSize \in Nat \ {0}
  /\ IsFiniteSet(LogRows)

VARIABLES
  logs,           \* the rows of audit_logs
  picked,         \* picked[j]: the ids its running statement has picked
  jobState,       \* jobState[j]
  purged          \* history: purged[j]: the rows job j has deleted

cleanupVars == <<logs, picked, jobState, purged>>

CleanupTypeOK ==
  /\ logs \subseteq LogRows
  /\ picked \in [Jobs -> SUBSET LogRows]
  /\ jobState \in [Jobs -> {"waiting", "running", "deleting", "done", "failed"}]
  /\ purged \in [Jobs -> SUBSET LogRows]

CleanupInit ==
  /\ logs \in SUBSET LogRows
  /\ picked = [j \in Jobs |-> {}]
  /\ jobState = [j \in Jobs |-> "waiting"]
  /\ purged = [j \in Jobs |-> {}]

RetentionDays(j) == IF RetentionOf[j] <= 0 THEN DefaultDays ELSE RetentionOf[j]
OldRows(j) == { r \in LogRows : AgeOf[r] > RetentionDays(j) }

(* LIMIT without an order: any ids, as many as there are up to BatchSize. *)
Batches(j) ==
  { S \in SUBSET (OldRows(j) \cap logs) :
      \/ S = OldRows(j) \cap logs /\ Cardinality(S) <= BatchSize
      \/ Cardinality(S) = BatchSize }

StartJob(j) ==
  /\ jobState[j] = "waiting"
  /\ jobState' = [jobState EXCEPT ![j] = "running"]
  /\ UNCHANGED <<logs, picked, purged>>

PickBatch(j) ==
  /\ jobState[j] = "running"
  /\ \E S \in Batches(j) : picked' = [picked EXCEPT ![j] = S]
  /\ jobState' = [jobState EXCEPT ![j] = "deleting"]
  /\ UNCHANGED <<logs, purged>>

(* Faulty variant: a batch that was not full is taken for the last one. *)
DeleteBatchShort(j) ==
  /\ jobState[j] = "deleting"
  /\ logs' = logs \ picked[j]
  /\ purged' = [purged EXCEPT ![j] = @ \cup (picked[j] \cap logs)]
  /\ jobState' = [jobState EXCEPT ![j] =
                    IF Cardinality(picked[j] \cap logs) < BatchSize THEN "done" ELSE "running"]
  /\ picked' = [picked EXCEPT ![j] = {}]

(* The loop ends with the first statement that deletes no row. *)
DeleteBatch(j) ==
  /\ jobState[j] = "deleting"
  /\ logs' = logs \ picked[j]
  /\ purged' = [purged EXCEPT ![j] = @ \cup (picked[j] \cap logs)]
  /\ jobState' = [jobState EXCEPT ![j] =
                    IF picked[j] \cap logs = {} THEN "done" ELSE "running"]
  /\ picked' = [picked EXCEPT ![j] = {}]

(* The statement fails; the batches before it stay deleted. *)
BatchFails(j) ==
  /\ jobState[j] = "deleting"
  /\ jobState' = [jobState EXCEPT ![j] = "failed"]
  /\ picked' = [picked EXCEPT ![j] = {}]
  /\ UNCHANGED <<logs, purged>>

CleanupStep(j) == StartJob(j) \/ PickBatch(j) \/ DeleteBatch(j)
CleanupNext == \E j \in Jobs : CleanupStep(j) \/ BatchFails(j)
CleanupFairness == \A j \in Jobs : WF_cleanupVars(CleanupStep(j))
CleanupSpec == CleanupInit /\ [][CleanupNext]_cleanupVars /\ CleanupFairness

(***************************************************************************)
(* Properties.                                                             *)
(***************************************************************************)
(* The jobs delete what their retention says.  A statement that deletes    *)
(* nothing because another job was faster ends its job early; but when all *)
(* jobs have succeeded, the ones of the longest retention leave none of    *)
(* their rows, so jobs of one retention, as redelivered ones are, complete *)
(* each other.  (A job of a shorter retention that one of a longer ended   *)
(* early leaves the rows between the two.)  And no job ever deletes a row  *)
(* younger than its retention, the default when the payload names none.    *)
CleanupExact ==
  /\ (\A j \in Jobs : jobState[j] = "done") =>
       \A j \in Jobs : \/ OldRows(j) \cap logs = {}
                       \/ \E k \in Jobs : RetentionDays(k) > RetentionDays(j)
  /\ \A j \in Jobs : \A r \in purged[j] :
       AgeOf[r] > (IF RetentionOf[j] = 0 THEN DefaultDays ELSE RetentionOf[j])

(* "No more rows to delete": a job that ended had nothing left to delete.  *)
DoneMeansClean ==
  [][\A j \in Jobs : jobState[j] = "deleting" /\ jobState'[j] = "done"
                       => OldRows(j) \cap logs' = {}]_cleanupVars
=============================================================================
