----------------------------- MODULE MCSigvRegs -----------------------------
(* Values for model checking SigvRegs. *)
EXTENDS SigvRegs

MCBatchConfigs ==
  { [message_length |-> 0, job_count |-> 0, limit |-> 0, timeout |-> 0] }

MCBatchVerdicts == { [j \in JobIndex |-> j = 0] }

MCConfigWrites ==
  { [field |-> "message_length", value |-> 2], [field |-> "job_count", value |-> 0],
    [field |-> "job_count", value |-> 1], [field |-> "timeout", value |-> 1] }

=============================================================================
