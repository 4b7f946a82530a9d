----------------------------- MODULE SigvBatch ------------------------------
(***************************************************************************)
(* What the batch core promises to the register block and the host, one    *)
(* clock edge per step, with no loader, no engines and no cycle counts:    *)
(*   - every launch consumes a batch id, and rejects the configuration or  *)
(*     runs the accepted jobs;                                             *)
(*   - each accepted job is judged once, with the verdict of its image in  *)
(*     the job RAM;                                                        *)
(*   - a batch ends when all its jobs are judged, or by the watchdog while *)
(*     some job is not, and then reports its id, its size and its error.   *)
(* SigvCore implements it (SigvCoreRefinement).                            *)
(***************************************************************************)
EXTENDS SigvLaunch

CONSTANTS
  BatchConfigs,  (* the configurations the host writes                      *)
  BatchVerdicts  (* the verdicts of the job RAM contents it writes, as      *)
                 (* functions from job index to BOOLEAN                     *)

VARIABLES
  phase,      (* "idle", "running" or "done"                                *)
  batch_id,
  accepted,   (* jobs of the current batch                                  *)
  judged,     (* those already judged, while it runs                        *)
  mask,       (* verdict per job                                            *)
  code,       (* error code of the finished batch                           *)
  report,     (* id, size and error code of the last finished batch         *)
  verdicts,   (* the verdict of each job in the RAM                         *)
  cfg,
  stable      (* history: no RAM write since the last launch                *)

batchVars == <<phase, batch_id, accepted, judged, mask, code, report, verdicts, cfg, stable>>

NoVerdicts == [j \in JobIndex |-> FALSE]

Jobs == 0 .. accepted - 1

Reset ==
  /\ phase' = "idle"
  /\ accepted' = 0
  /\ judged' = {}
  /\ mask' = NoVerdicts
  /\ code' = ERR_NONE
  /\ UNCHANGED <<batch_id, report, stable>>

Launch ==
  /\ batch_id' = Inc(batch_id, 1)
  /\ mask' = NoVerdicts
  /\ judged' = {}
  /\ code' = LaunchError(cfg)
  /\ stable' = TRUE
  /\ \/ /\ LaunchError(cfg) = ERR_NONE
        /\ phase' = "running"
        /\ accepted' = DispatchCount(cfg)
        /\ UNCHANGED report
     \/ /\ LaunchError(cfg) # ERR_NONE
        /\ phase' = "done"
        /\ accepted' = 0
        /\ report' = [batch_id |-> batch_id', accepted |-> 0, code |-> code']

(* The batch ends with the given error. *)
End(error) ==
  /\ phase' = "done"
  /\ judged' = {}
  /\ code' = error
  /\ report' = [batch_id |-> batch_id, accepted |-> accepted, code |-> error]

(* The jobs in J are judged at this edge. *)
Judge(J) ==
  /\ phase = "running"
  /\ \E v \in [JobIndex -> BOOLEAN] :
       /\ mask' = [j \in JobIndex |-> IF j \in J THEN v[j] ELSE mask[j]]
       /\ stable => \A j \in J : v[j] = verdicts[j]
  /\ \/ /\ judged \cup J # Jobs
        /\ judged' = judged \cup J
        /\ UNCHANGED <<phase, code, report>>
     \/ judged \cup J = Jobs /\ End(ERR_NONE)
     \/ judged \cup J # Jobs /\ cfg.timeout # 0 /\ End(ERR_JOB_TIMEOUT)
  /\ UNCHANGED <<batch_id, accepted, stable>>

Rest == phase # "running" /\ UNCHANGED <<phase, batch_id, accepted, judged, mask, code, report, stable>>

(* One clock edge with the given inputs. *)
BatchStep(start, soft_reset) ==
  \/ soft_reset /\ start /\ Launch
  \/ soft_reset /\ ~start /\ Reset
  \/ ~soft_reset /\ start /\ phase # "running" /\ Launch
  \/ ~soft_reset /\ ~start /\ Rest
  \/ ~soft_reset /\ \E J \in SUBSET (Jobs \ judged) : Judge(J)

RamWrite ==
  /\ verdicts' \in BatchVerdicts
  /\ stable' = FALSE
  /\ UNCHANGED <<phase, batch_id, accepted, judged, mask, code, report, cfg>>

Configure ==
  /\ phase # "running"
  /\ cfg' \in BatchConfigs
  /\ UNCHANGED <<phase, batch_id, accepted, judged, mask, code, report, verdicts, stable>>

BatchInit ==
  /\ phase = "idle"
  /\ batch_id = 0
  /\ accepted = 0
  /\ judged = {}
  /\ mask = NoVerdicts
  /\ code = ERR_NONE
  /\ report = [batch_id |-> 0, accepted |-> 0, code |-> ERR_NONE]
  /\ verdicts \in BatchVerdicts
  /\ cfg \in BatchConfigs
  /\ stable = FALSE

BatchNext ==
  \/ /\ \E start, soft_reset \in BOOLEAN : BatchStep(start, soft_reset)
     /\ UNCHANGED <<verdicts, cfg>>
  \/ RamWrite
  \/ Configure

BatchSpec == BatchInit /\ [][BatchNext]_batchVars

=============================================================================
