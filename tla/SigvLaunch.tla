----------------------------- MODULE SigvLaunch -----------------------------
(***************************************************************************)
(* The launch arithmetic of sigv_kv260_core.v: how many of the requested   *)
(* jobs a batch accepts, how many it drops, and which requests are         *)
(* rejected before a single job is loaded.  Shared by the cycle-level core *)
(* (SigvCore), by the abstract batch unit (SigvBatch) and by the modules   *)
(* built on top of it.                                                     *)
(***************************************************************************)
EXTENDS Naturals

CONSTANTS
  MaxMessage,  (* MAX_MESSAGE_BYTES, the size of the message RAM            *)
  MaxJobs,     (* MAX_JOB_COUNT, also the largest value of an 8-bit count   *)
  RamJobs,     (* JOB_RAM_DEPTH in jobs                                     *)
  WordMod      (* 2^32 in the code: the 32-bit counters and ids wrap at it  *)

ASSUME LaunchAssumption ==
  /\ MaxMessage \in Nat
  /\ MaxJobs \in Nat \ {0}
  /\ RamJobs \in Nat
  /\ WordMod \in Nat \ {0, 1}

(* The inputs the register block holds stable for a batch.  A timeout of 0  *)
(* disables the per-job watchdog, a limit of 0 means "no limit".            *)
Config ==
  [message_length : Nat, job_count : Nat, limit : 0 .. MaxJobs, timeout : Nat]

ERR_NONE        == 0
ERR_MESSAGE_LEN == 1
ERR_JOB_COUNT   == 2
ERR_JOB_RANGE   == 3
ERR_JOB_TIMEOUT == 4

JobIndex == 0 .. MaxJobs - 1

Inc(n, k) == (n + k) % WordMod

(* requested_job_count[7:0] *)
RequestedU8(c) == c.job_count % (MaxJobs + 1)

LimitEffective(c) == IF c.limit = 0 THEN MaxJobs ELSE c.limit

DispatchCount(c) ==
  IF RequestedU8(c) > LimitEffective(c) THEN LimitEffective(c) ELSE RequestedU8(c)

DroppedCount(c) == RequestedU8(c) - DispatchCount(c)

(* The first check of launch_batch that a configuration fails. *)
LaunchError(c) ==
  IF c.message_length > MaxMessage THEN ERR_MESSAGE_LEN
  ELSE IF c.job_count = 0 \/ c.job_count > MaxJobs THEN ERR_JOB_COUNT
  ELSE IF DispatchCount(c) > RamJobs THEN ERR_JOB_RANGE
  ELSE ERR_NONE

=============================================================================
