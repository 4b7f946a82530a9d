----------------------------- MODULE MCSigvCore -----------------------------
(* Values for model checking SigvCore and its refinement. *)
EXTENDS SigvCoreRefinement

Cfg(len, jobs, lim, timeout) ==
  [message_length |-> len, job_count |-> jobs, limit |-> lim, timeout |-> timeout]

(* A full batch without watchdog, one of a job per lane with a limit long   *)
(* enough for both to work at a time, and a rejected launch.                *)
MCConfigs == { Cfg(1, 3, 0, 0), Cfg(1, 2, 0, 5), Cfg(2, 1, 1, 0) }

MCImages == { [j \in JobIndex |-> IF j \in G THEN "good" ELSE "bad"] :
                G \in {{0, 2}, {1}} }
=============================================================================
