------------------------------ MODULE SigvCore ------------------------------
(***************************************************************************)
(* sigv_kv260_core.v, one clock edge per step: the launch and soft-reset   *)
(* logic, the job loader with its shadow slot, the dispatch of loaded jobs *)
(* to one or two verify engines, the per-job watchdog, the abort of the    *)
(* engines and the completion snapshot.                                    *)
(*                                                                         *)
(* Around it: the job RAM the host fills (a registered read port), and the *)
(* verify engines as the core sees them, which take a start pulse, work    *)
(* for any number of cycles and raise done for one cycle.                  *)
(***************************************************************************)
EXTENDS SigvLaunch

CONSTANTS
  EngineCount,  (* VERIFY_ENGINE_COUNT, 1 or 2                              *)
  JobWords,     (* 32-bit words per job, 24 in the code                     *)
  Configs,      (* the configurations the host writes                       *)
  Images,       (* the job RAM contents it writes, as functions             *)
                (* from job index to "good" or "bad"                        *)
  CycleCap      (* bound: the per-job cycle counters saturate here          *)

Lanes     == {0, 1}
WordIndex == 0 .. JobWords - 1
Address   == 0 .. MaxJobs * JobWords - 1

(* A word of a job: what it contributes to the verdict and its position.    *)
(* "none" is the content of a cleared operand register.                     *)
Word      == [kind : {"good", "bad", "none"}, word : WordIndex]
NoWord    == [kind |-> "none", word |-> 0]
NoOperand == [k \in WordIndex |-> NoWord]

ASSUME CoreAssumption ==
  /\ EngineCount \in {1, 2}
  /\ JobWords \in Nat \ {0}
  /\ Configs \subseteq Config
  /\ Images \subseteq [JobIndex -> {"good", "bad"}]
  /\ CycleCap \in Nat
  /\ \A c \in Configs : c.timeout <= CycleCap

VARIABLES
  state,                  (* "IDLE" or "RUN"; the busy output is state = RUN *)
  status,                 (* done, error, result_valid, error_code           *)
  result_mask,            (* one bit per job                                 *)
  accepted_job_count,     (* also scheduled_job_count: assigned together     *)
  current_job_index,
  counters,               (* jobs_started, jobs_completed, jobs_dropped      *)
  batch_id,
  snapshot,               (* the snapshot_* registers                        *)
  loader,                 (* loader_state, its word cursor, the next job     *)
  shadow,                 (* the shadow slot: one loaded job                 *)
  lane,                   (* per engine: job slot, start pulse, cycles       *)
  batch_completed_count,
  verifier_abort,
  engine,                 (* the verify engines                              *)
  job_bram_dout,
  ram,                    (* the job RAM                                     *)
  cfg,                    (* the configuration inputs                        *)
  ramStable               (* history: no host write since the last launch    *)

coreVars == <<state, status, result_mask, accepted_job_count, current_job_index,
              counters, batch_id, snapshot, loader, shadow, lane,
              batch_completed_count, verifier_abort>>
vars == <<coreVars, engine, job_bram_dout, ram, cfg, ramStable>>

NoResults    == [j \in JobIndex |-> FALSE]
QuietStatus  == [done |-> FALSE, error |-> FALSE, result_valid |-> FALSE, code |-> ERR_NONE]
ZeroCounters == [started |-> 0, completed |-> 0, dropped |-> 0]
IdleLoader   == [state |-> "IDLE", word |-> 0, base |-> 0, nextJob |-> 0, nextBase |-> 0]
EmptyShadow  == [valid |-> FALSE, job |-> 0, words |-> NoOperand]
IdleLane     == [busy |-> FALSE, start |-> FALSE, job |-> 0, operand |-> NoOperand, cycles |-> 0]
IdleEngine   == [st |-> "idle", operand |-> NoOperand, verified |-> FALSE]

(***************************************************************************)
(* The verify engines, outside this module: the verdict on an operand is   *)
(* that of the job it is the image of.                                     *)
(***************************************************************************)
Verifies(operand) == \A k \in WordIndex : operand[k] = [kind |-> "good", word |-> k]

(* The engines whose computation may end at the next edge. *)
Working == {l \in Lanes : engine[l].st = "work"}

(* One edge of engine l; fin is the set of engines that end at this edge.   *)
EngineNext(l, fin) ==
  CASE engine[l].st = "idle" /\ lane[l].start ->
         [st |-> "work", operand |-> lane[l].operand, verified |-> FALSE]
    [] engine[l].st = "work" /\ l \in fin ->
         [engine[l] EXCEPT !.st = "done", !.verified = Verifies(engine[l].operand)]
    [] engine[l].st = "done" -> [engine[l] EXCEPT !.st = "idle"]
    [] OTHER -> engine[l]

(* The engines share the asynchronous reset engine_rst_n = rst_n && !abort: *)
(* an abort raised at this edge, or still up at it, leaves them idle.       *)
(* Mutant: an abort that does not reach them.                               *)
NotAborted == FALSE
EngineReset == verifier_abort \/ verifier_abort'

EnginesEdge(fin) ==
  engine' = [l \in Lanes |-> IF EngineReset THEN IdleEngine ELSE EngineNext(l, fin)]

(* The registered read port of the job RAM, enabled in LD_REQ. *)
JobRamEdge ==
  job_bram_dout' = IF loader.state = "REQ" THEN ram[loader.base + loader.word]
                   ELSE job_bram_dout
-----------------------------------------------------------------------------
(* The loader, and the task that ends a batch. *)

(* One edge of the loader: three edges per word, LD_CAPTURE stores it. *)
LoaderStep ==
  CASE loader.state = "REQ"  -> [loader EXCEPT !.state = "WAIT"]
    [] loader.state = "WAIT" -> [loader EXCEPT !.state = "CAPTURE"]
    [] loader.state = "CAPTURE" /\ loader.word = JobWords - 1 -> [loader EXCEPT !.state = "IDLE"]
    [] loader.state = "CAPTURE" /\ loader.word # JobWords - 1 ->
         [loader EXCEPT !.state = "REQ", !.word = @ + 1]
    [] OTHER -> loader

ShadowStep ==
  IF loader.state = "CAPTURE"
  THEN [shadow EXCEPT !.words[loader.word] = job_bram_dout,
                      !.valid = @ \/ loader.word = JobWords - 1]
  ELSE shadow

KickedShadow(job) == [valid |-> FALSE, job |-> job, words |-> NoOperand]

(* Mutant: the snapshot takes the id before the launch increments it. *)
SnapshotOldId(id, accepted, completed, dropped, code, valid) ==
  [batch_id |-> batch_id, accepted |-> accepted, completed |-> completed,
   dropped |-> dropped, error |-> code # ERR_NONE, result_valid |-> valid, code |-> code]
Snapshot(id, accepted, completed, dropped, code, valid) ==
  [batch_id |-> id, accepted |-> accepted, completed |-> completed,
   dropped |-> dropped, error |-> code # ERR_NONE, result_valid |-> valid, code |-> code]

FinalizeBatch(code, completed) ==
  /\ state' = "IDLE"
  /\ status' = [done |-> TRUE, error |-> code # ERR_NONE, result_valid |-> TRUE, code |-> code]
  /\ loader' = [LoaderStep EXCEPT !.state = "IDLE"]
  /\ shadow' = [ShadowStep EXCEPT !.valid = FALSE]
  /\ lane' = [l \in Lanes |-> [lane[l] EXCEPT !.busy = FALSE, !.start = FALSE, !.cycles = 0]]
  /\ snapshot' = Snapshot(batch_id, accepted_job_count, completed, counters.dropped, code, TRUE)
-----------------------------------------------------------------------------
(* Launch and soft reset. *)

RejectBatch(clear) ==
  LET code == LaunchError(cfg) IN
  /\ code # ERR_NONE
  /\ state' = "IDLE"
  /\ status' = [done |-> TRUE, error |-> TRUE, result_valid |-> FALSE, code |-> code]
  /\ snapshot' = Snapshot(Inc(batch_id, 1), 0, 0, 0, code, FALSE)
  /\ accepted_job_count' = 0
  /\ counters' = IF clear THEN ZeroCounters ELSE counters
  /\ loader' = IdleLoader
  /\ shadow' = EmptyShadow

AcceptBatch(clear) ==
  /\ LaunchError(cfg) = ERR_NONE
  /\ state' = "RUN"
  /\ status' = QuietStatus
  /\ accepted_job_count' = DispatchCount(cfg)
  /\ counters' = IF clear
                 THEN [ZeroCounters EXCEPT !.dropped = DroppedCount(cfg) % WordMod]
                 ELSE [counters EXCEPT !.dropped = Inc(@, DroppedCount(cfg))]
  /\ loader' = [state |-> "REQ", word |-> 0, base |-> 0, nextJob |-> 1, nextBase |-> JobWords]
  /\ shadow' = KickedShadow(0)
  /\ UNCHANGED snapshot

LaunchBatch(clear) ==
  /\ batch_id' = Inc(batch_id, 1)
  /\ result_mask' = NoResults
  /\ current_job_index' = 0
  /\ batch_completed_count' = 0
  /\ lane' = [l \in Lanes |-> IdleLane]
  /\ RejectBatch(clear) \/ AcceptBatch(clear)
  /\ ramStable' = TRUE

ResetThenStart ==
  /\ verifier_abort' = TRUE
  /\ LaunchBatch(TRUE)

SoftReset ==
  /\ verifier_abort' = TRUE
  /\ state' = "IDLE"
  /\ status' = QuietStatus
  /\ result_mask' = NoResults
  /\ accepted_job_count' = 0
  /\ current_job_index' = 0
  /\ counters' = ZeroCounters
  /\ loader' = IdleLoader
  /\ shadow' = EmptyShadow
  /\ lane' = [l \in Lanes |-> IdleLane]
  /\ batch_completed_count' = 0
  /\ UNCHANGED <<batch_id, snapshot, ramStable>>

IdleStart ==
  /\ state = "IDLE"
  /\ verifier_abort' = FALSE
  /\ LaunchBatch(FALSE)

Idle ==
  /\ state = "IDLE"
  /\ verifier_abort' = FALSE
  /\ UNCHANGED <<state, status, result_mask, accepted_job_count, current_job_index, counters,
                 batch_id, snapshot, loader, shadow, lane, batch_completed_count, ramStable>>
-----------------------------------------------------------------------------
(* ST_RUN.  A done event frees the lane and stores the verdict at the same  *)
(* edge; the watchdog, the end of the batch and the dispatch follow in this *)
(* order of priority.                                                       *)

DoneEvt(l) == lane[l].busy /\ engine[l].st = "done"

Bit(b) == IF b THEN 1 ELSE 0

(* Mutant: two completions at one edge count once. *)
NumDoneOnce == Bit(DoneEvt(0) \/ DoneEvt(1))
NumDone == Bit(DoneEvt(0)) + Bit(DoneEvt(1))

(* Mutant: lane 0 shadows the result of lane 1. *)
PostMaskOneLane ==
  [j \in JobIndex |->
     IF DoneEvt(0) THEN IF lane[0].job = j THEN engine[0].verified ELSE result_mask[j]
     ELSE IF DoneEvt(1) /\ lane[1].job = j THEN engine[1].verified
     ELSE result_mask[j]]
PostMask ==
  [j \in JobIndex |->
     IF DoneEvt(1) /\ lane[1].job = j THEN engine[1].verified
     ELSE IF DoneEvt(0) /\ lane[0].job = j THEN engine[0].verified
     ELSE result_mask[j]]

PostCompleted == Inc(counters.completed, NumDone)

PostBatchCompleted == batch_completed_count + NumDone

(* Mutants: a limit one cycle late, a watchdog on lane 0 only, and one that *)
(* ignores a result that arrives at its edge.                               *)
TimedOutLate(l) ==
  /\ cfg.timeout # 0
  /\ lane[l].busy
  /\ ~DoneEvt(l)
  /\ lane[l].cycles >= cfg.timeout
TimedOutLaneZero(l) ==
  /\ cfg.timeout # 0
  /\ l = 0
  /\ lane[l].busy
  /\ ~DoneEvt(l)
  /\ lane[l].cycles + 1 >= cfg.timeout
TimedOutDespiteDone(l) ==
  /\ cfg.timeout # 0
  /\ lane[l].busy
  /\ lane[l].cycles + 1 >= cfg.timeout
TimedOut(l) ==
  /\ cfg.timeout # 0
  /\ lane[l].busy
  /\ ~DoneEvt(l)
  /\ lane[l].cycles + 1 >= cfg.timeout

SomeTimedOut == \E l \in Lanes : TimedOut(l)

CountCycle(n) == IF n < CycleCap THEN n + 1 ELSE n

LaneStep(l) ==
  [lane[l] EXCEPT !.busy   = @ /\ ~DoneEvt(l),
                  !.start  = FALSE,
                  !.cycles = IF DoneEvt(l) THEN 0
                             ELSE IF lane[l].busy THEN CountCycle(@) ELSE @]

FreeLane(l) == ~lane[l].busy \/ DoneEvt(l)

(* Engine 0 has priority for the job in the shadow slot. *)
DispatchesTo(l) ==
  /\ shadow.valid
  /\ IF l = 0 THEN FreeLane(0) ELSE ~FreeLane(0) /\ EngineCount > 1 /\ FreeLane(1)

RunCommon ==
  /\ state = "RUN"
  /\ result_mask' = PostMask
  /\ batch_completed_count' = PostBatchCompleted
  /\ UNCHANGED <<batch_id, accepted_job_count, ramStable>>

RunTimeout ==
  /\ RunCommon
  /\ SomeTimedOut
  /\ verifier_abort' = TRUE
  /\ FinalizeBatch(ERR_JOB_TIMEOUT, PostCompleted)
  /\ counters' = [counters EXCEPT !.completed = PostCompleted]
  /\ UNCHANGED current_job_index

RunFinish ==
  /\ RunCommon
  /\ ~SomeTimedOut
  /\ PostBatchCompleted = accepted_job_count
  /\ verifier_abort' = FALSE
  /\ FinalizeBatch(ERR_NONE, PostCompleted)
  /\ counters' = [counters EXCEPT !.completed = PostCompleted]
  /\ UNCHANGED current_job_index

(* Mutant: a snapshot that follows the running batch. *)
RunContinueLatching ==
  /\ RunCommon
  /\ ~SomeTimedOut
  /\ PostBatchCompleted # accepted_job_count
  /\ verifier_abort' = FALSE
  /\ snapshot' = Snapshot(batch_id, accepted_job_count, PostCompleted, counters.dropped,
                          ERR_NONE, FALSE)
  /\ UNCHANGED <<state, status>>
RunContinue ==
  /\ RunCommon
  /\ ~SomeTimedOut
  /\ PostBatchCompleted # accepted_job_count
  /\ verifier_abort' = FALSE
  /\ UNCHANGED <<state, status, snapshot>>

(* Mutants: the loader runs one job too far, and stops one job too early.  *)
MoreToLoadPastEnd == loader.nextJob <= accepted_job_count
MoreToLoadShort   == loader.nextJob + 1 < accepted_job_count
MoreToLoad        == loader.nextJob < accepted_job_count

RunDispatch(l) ==
  /\ RunContinue
  /\ DispatchesTo(l)
  /\ lane' = [x \in Lanes |->
                IF x = l THEN [busy |-> TRUE, start |-> TRUE, job |-> shadow.job,
                               operand |-> shadow.words, cycles |-> 0]
                ELSE LaneStep(x)]
  /\ counters' = [counters EXCEPT !.completed = PostCompleted, !.started = Inc(@, 1)]
  /\ current_job_index' = shadow.job
  /\ \/ /\ MoreToLoad
        /\ loader' = [state |-> "REQ", word |-> 0, base |-> loader.nextBase,
                      nextJob |-> loader.nextJob + 1, nextBase |-> loader.nextBase + JobWords]
        /\ shadow' = KickedShadow(loader.nextJob)
     \/ /\ ~MoreToLoad
        /\ loader' = LoaderStep
        /\ shadow' = [ShadowStep EXCEPT !.valid = FALSE]

RunWait ==
  /\ RunContinue
  /\ \A l \in Lanes : ~DispatchesTo(l)
  /\ lane' = [l \in Lanes |-> LaneStep(l)]
  /\ counters' = [counters EXCEPT !.completed = PostCompleted]
  /\ loader' = LoaderStep
  /\ shadow' = ShadowStep
  /\ UNCHANGED current_job_index

Run == RunTimeout \/ RunFinish \/ (\E l \in Lanes : RunDispatch(l)) \/ RunWait
-----------------------------------------------------------------------------
(* One clock edge with the given inputs.  A start without soft_reset while  *)
(* a batch runs reaches none of the branches that read it: it is dropped.   *)
CoreEdge(start, soft_reset) ==
  \/ soft_reset /\ start /\ ResetThenStart
  \/ soft_reset /\ ~start /\ SoftReset
  \/ ~soft_reset /\ start /\ IdleStart
  \/ ~soft_reset /\ ~start /\ Idle
  \/ ~soft_reset /\ Run

Edge(start, soft_reset, fin) ==
  /\ CoreEdge(start, soft_reset)
  /\ EnginesEdge(fin)
  /\ JobRamEdge
  /\ UNCHANGED <<ram, cfg>>

Tick == \E start, soft_reset \in BOOLEAN, fin \in SUBSET Working :
          Edge(start, soft_reset, fin)

(* The host fills the job RAM through a port of its own, at any time: after *)
(* a request timed out in the daemon the next one does so during a batch.   *)
JobImage(kinds) == [a \in Address |-> [kind |-> kinds[a \div JobWords], word |-> a % JobWords]]

HostWriteJobs ==
  /\ \E kinds \in Images : ram' = JobImage(kinds)
  /\ ramStable' = FALSE
  /\ UNCHANGED <<coreVars, engine, job_bram_dout, cfg>>

(* The register block ignores configuration writes while busy. *)
HostConfigure ==
  /\ state = "IDLE"
  /\ cfg' \in Configs
  /\ UNCHANGED <<coreVars, engine, job_bram_dout, ram, ramStable>>

Init ==
  /\ state = "IDLE"
  /\ status = QuietStatus
  /\ result_mask = NoResults
  /\ accepted_job_count = 0
  /\ current_job_index = 0
  /\ counters = ZeroCounters
  /\ batch_id = 0
  /\ snapshot = Snapshot(0, 0, 0, 0, ERR_NONE, FALSE)
  /\ loader = IdleLoader
  /\ shadow = EmptyShadow
  /\ lane = [l \in Lanes |-> IdleLane]
  /\ batch_completed_count = 0
  /\ verifier_abort = FALSE
  /\ engine = [l \in Lanes |-> IdleEngine]
  /\ job_bram_dout = NoWord
  /\ ram \in {JobImage(kinds) : kinds \in Images}
  /\ cfg \in Configs
  /\ ramStable = FALSE

Next == Tick \/ HostWriteJobs \/ HostConfigure

(* An edge at which no command arrives and no engine ends.  Commands are    *)
(* pulses of one edge and the bus commits the next two edges later at the   *)
(* earliest; an engine needs several edges between one end and the next.    *)
QuietTick == Edge(FALSE, FALSE, {})

(* The clock never stops.  Neither a command nor an answer of an engine is  *)
(* ever forced.                                                             *)
Spec == Init /\ [][Next]_vars /\ WF_vars(QuietTick)
-----------------------------------------------------------------------------
(***************************************************************************)
(* Properties                                                              *)
(***************************************************************************)

StatusType   == [done : BOOLEAN, error : BOOLEAN, result_valid : BOOLEAN, code : 0 .. 4]
CounterRange == 0 .. WordMod - 1
CountersType == [started : CounterRange, completed : CounterRange, dropped : CounterRange]
SnapshotType == [batch_id : CounterRange, accepted : 0 .. MaxJobs, completed : CounterRange,
                 dropped : CounterRange, error : BOOLEAN, result_valid : BOOLEAN, code : 0 .. 4]
LoaderType   == [state : {"IDLE", "REQ", "WAIT", "CAPTURE"}, word : WordIndex,
                 base : Nat, nextJob : 0 .. MaxJobs, nextBase : Nat]
Operand      == [WordIndex -> Word]
ShadowType   == [valid : BOOLEAN, job : JobIndex, words : Operand]
LaneType     == [busy : BOOLEAN, start : BOOLEAN, job : JobIndex, operand : Operand,
                 cycles : 0 .. CycleCap]
EngineType   == [st : {"idle", "work", "done"}, operand : Operand, verified : BOOLEAN]

(* Every register keeps its width and its set of values: no job index, word *)
(* address or count of the batch ever leaves its range.                     *)
TypeOK ==
  /\ state \in {"IDLE", "RUN"}
  /\ status \in StatusType
  /\ result_mask \in [JobIndex -> BOOLEAN]
  /\ accepted_job_count \in 0 .. MaxJobs
  /\ current_job_index \in JobIndex
  /\ counters \in CountersType
  /\ batch_id \in CounterRange
  /\ snapshot \in SnapshotType
  /\ loader \in LoaderType
  /\ shadow \in ShadowType
  /\ lane \in [Lanes -> LaneType]
  /\ batch_completed_count \in 0 .. MaxJobs
  /\ verifier_abort \in BOOLEAN
  /\ engine \in [Lanes -> EngineType]
  /\ job_bram_dout \in Word
  /\ ram \in [Address -> Word]
  /\ cfg \in Configs
  /\ ramStable \in BOOLEAN

(* What the RAM says of job j: the verdict an engine gives on its image. *)
JobVerdict(j) == Verifies([k \in WordIndex |-> ram[j * JobWords + k]])

(* A bit of the result mask is never set for a job that was not accepted or *)
(* does not verify, at any point of a batch, whatever batch was aborted     *)
(* before it and whatever engine was still at work for it.                  *)
ResultMaskSound ==
  ramStable => \A j \in JobIndex : result_mask[j] => j < accepted_job_count /\ JobVerdict(j)

(* When a batch completes without error the mask tells the verdict of every *)
(* accepted job: none was skipped, run twice or stored under another index. *)
ResultMaskComplete ==
  ramStable /\ status.done /\ ~status.error =>
    \A j \in 0 .. accepted_job_count - 1 : result_mask[j] = JobVerdict(j)

(* Every job handed to the loader is in exactly one place: completed, in an *)
(* engine, or in the loader or shadow slot; the loader stops only when it   *)
(* has loaded all of them.                                                  *)
Loading == loader.state # "IDLE" \/ shadow.valid

JobConservation ==
  state = "RUN" =>
    /\ loader.nextJob = batch_completed_count + Bit(lane[0].busy) + Bit(lane[1].busy)
                          + Bit(Loading)
    /\ loader.nextJob <= accepted_job_count
    /\ ~Loading => loader.nextJob = accepted_job_count

(* While done is up the snapshot describes this very batch, and agrees with *)
(* the live status the host polled before it reads the snapshot.            *)
SnapshotCoherent ==
  status.done =>
    /\ snapshot = [batch_id |-> batch_id, accepted |-> accepted_job_count,
                   completed |-> IF status.result_valid THEN counters.completed ELSE 0,
                   dropped |-> IF status.result_valid THEN counters.dropped ELSE 0,
                   error |-> status.error, result_valid |-> status.result_valid,
                   code |-> status.code]
    /\ state = "IDLE"

(* No lane reaches the watchdog limit without the batch ending: a job that  *)
(* is still in an engine has used fewer cycles than the limit.              *)
WatchdogInTime ==
  cfg.timeout # 0 => \A l \in Lanes : lane[l].busy /\ state = "RUN" => lane[l].cycles < cfg.timeout

(* The snapshot is written once per batch id: from the edge that completes  *)
(* or rejects a batch until the next one completes it does not change.      *)
SnapshotOncePerBatch ==
  [][snapshot' # snapshot => /\ snapshot'.batch_id = batch_id' /\ status'.done
                             /\ batch_id' = batch_id => ~status.done]_vars

(* The host may start batch after batch before one ends.                    *)
Superseded == []<><<batch_id' # batch_id>>_vars

(* With the watchdog on, a batch ends or is superseded even if an engine    *)
(* never answers.                                                           *)
WatchdogEndsBatch == []<>(state = "IDLE" \/ cfg.timeout = 0) \/ Superseded

(* With engines that answer, every batch ends or is superseded, watchdog or *)
(* not: the dispatcher never waits for a job it did not start.              *)
EnginesAnswer == \A l \in Lanes : []<>(engine[l].st # "work")

EnginesEndBatch == EnginesAnswer => []<>(state = "IDLE") \/ Superseded

=============================================================================
