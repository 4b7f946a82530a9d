------------------------- MODULE SigvCoreRefinement -------------------------
(***************************************************************************)
(* SigvCore implements SigvBatch, edge for edge.  A job is judged as soon  *)
(* as it was handed to the loader and is no longer in the loader, the      *)
(* shadow slot or an engine.                                               *)
(***************************************************************************)
EXTENDS SigvCoreInv

Batch == INSTANCE SigvBatch WITH
  BatchConfigs  <- Configs,
  BatchVerdicts <- {[j \in JobIndex |-> kinds[j] = "good"] : kinds \in Images},
  phase    <- IF state = "RUN" THEN "running" ELSE IF status.done THEN "done" ELSE "idle",
  accepted <- accepted_job_count,
  judged   <- {j \in JobIndex : state = "RUN" /\ j < loader.nextJob /\ ~Outstanding(j)},
  mask     <- result_mask,
  code     <- status.code,
  report   <- [batch_id |-> snapshot.batch_id, accepted |-> snapshot.accepted,
               code |-> snapshot.code],
  verdicts <- [j \in JobIndex |-> JobVerdict(j)],
  stable   <- ramStable

(* The clocked core, with its loader, shadow slot and engines, keeps every  *)
(* promise of the batch unit: each accepted job is judged once and by its   *)
(* own image, and the batch ends exactly when nothing is outstanding.       *)
ImplementsBatch == Batch!BatchSpec

=============================================================================
