--------------------------- MODULE SigvCoreProofs ---------------------------
(***************************************************************************)
(* Proofs about SigvCore, for every number of jobs, words per job, image,  *)
(* configuration and counter width; at the end, that every step of it is a *)
(* step of the batch unit of SigvBatch, or changes nothing it sees.        *)
(***************************************************************************)
EXTENDS SigvCoreRefinement, Integers, TLAPS

(***************************************************************************)
(* Arithmetic                                                              *)
(***************************************************************************)

(* A 32-bit sum stays in its range. *)
LEMMA IncType ==
  ASSUME NEW n \in Nat, NEW k \in Nat
  PROVE  Inc(n, k) \in CounterRange
BY LaunchAssumption DEF Inc, CounterRange

(* The next batch id differs from this one. *)
LEMMA IncDiffers ==
  ASSUME NEW n \in CounterRange
  PROVE  Inc(n, 1) # n
<1>1. CASE n + 1 < WordMod
  BY <1>1, LaunchAssumption DEF Inc, CounterRange
<1>2. CASE n + 1 = WordMod
  BY <1>2, LaunchAssumption DEF Inc, CounterRange
<1> QED BY <1>1, <1>2, LaunchAssumption DEF CounterRange

(* A batch accepts at least one job and at most MaxJobs; it drops no more   *)
(* than were requested.                                                     *)
LEMMA DispatchType ==
  ASSUME NEW c \in Config
  PROVE  /\ DispatchCount(c) \in 0 .. MaxJobs
         /\ DroppedCount(c) \in 0 .. MaxJobs
         /\ LaunchError(c) \in 0 .. 4
         /\ LaunchError(c) = ERR_NONE => DispatchCount(c) \in 1 .. MaxJobs
<1> DEFINE u == RequestedU8(c)
           e == LimitEffective(c)
<1>1. c.job_count \in Nat /\ c.limit \in 0 .. MaxJobs
  BY DEF Config
<1>2. u \in 0 .. MaxJobs
  BY <1>1, LaunchAssumption DEF RequestedU8
<1>3. e \in 1 .. MaxJobs
  BY <1>1, LaunchAssumption DEF LimitEffective
<1>4. c.job_count \in 1 .. MaxJobs => u = c.job_count
  BY <1>1, LaunchAssumption DEF RequestedU8
<1>5. LaunchError(c) \in 0 .. 4
  BY DEF LaunchError, ERR_NONE, ERR_MESSAGE_LEN, ERR_JOB_COUNT, ERR_JOB_RANGE
<1>6. LaunchError(c) = ERR_NONE => c.job_count \in 1 .. MaxJobs
  BY <1>1, LaunchAssumption
     DEF LaunchError, ERR_NONE, ERR_MESSAGE_LEN, ERR_JOB_COUNT, ERR_JOB_RANGE
<1>7. DispatchCount(c) = IF u > e THEN e ELSE u
  BY DEF DispatchCount
<1>8. DroppedCount(c) = u - DispatchCount(c)
  BY DEF DroppedCount
<1> HIDE DEF u, e
<1> QED BY <1>2, <1>3, <1>4, <1>5, <1>6, <1>7, <1>8, LaunchAssumption

(* Every word of every job lies in the job RAM. *)
LEMMA AddressInRange ==
  ASSUME NEW j \in JobIndex, NEW k \in WordIndex
  PROVE  j * JobWords + k \in Address
<1>1. /\ MaxJobs \in Nat \ {0} /\ JobWords \in Nat \ {0}
      /\ j \in Nat /\ j <= MaxJobs - 1 /\ k \in Nat /\ k <= JobWords - 1
  BY LaunchAssumption, CoreAssumption DEF JobIndex, WordIndex
<1>2. (MaxJobs - 1 - j) * JobWords >= 0
  BY <1>1
<1>3. (MaxJobs - 1 - j) * JobWords = MaxJobs * JobWords - JobWords - j * JobWords
  BY <1>1
<1>4. j * JobWords \in Nat /\ MaxJobs * JobWords \in Nat
  BY <1>1
<1> QED BY <1>1, <1>2, <1>3, <1>4 DEF Address

(* The base address of the next job. *)
LEMMA NextBase ==
  ASSUME NEW n \in Nat
  PROVE  /\ n * JobWords \in Nat
         /\ n * JobWords + JobWords = (n + 1) * JobWords
<1>1. JobWords \in Nat
  BY CoreAssumption
<1> QED BY <1>1

(* Machine words.                                                           *)
LEMMA WordFacts ==
  /\ 0 \in WordIndex
  /\ NoWord \in Word
  /\ NoOperand \in Operand
  /\ 0 \in JobIndex
  /\ 0 \in 0 .. CycleCap
  /\ 0 \in CounterRange
<1>1. 0 \in WordIndex
  BY CoreAssumption DEF WordIndex
<1>2. NoWord \in Word
  BY <1>1 DEF NoWord, Word
<1> QED BY <1>1, <1>2, LaunchAssumption, CoreAssumption DEF NoOperand, Operand, JobIndex, CounterRange

(***************************************************************************)
(* The reset values have their types.                                      *)
(***************************************************************************)
LEMMA ResetTypes ==
  /\ QuietStatus \in StatusType
  /\ NoResults \in [JobIndex -> BOOLEAN]
  /\ ZeroCounters \in CountersType
  /\ IdleLoader \in LoaderType
  /\ EmptyShadow \in ShadowType
  /\ IdleLane \in LaneType
  /\ IdleEngine \in EngineType
BY WordFacts, LaunchAssumption
   DEF QuietStatus, StatusType, ERR_NONE, NoResults, ZeroCounters, CountersType, IdleLoader,
       LoaderType, EmptyShadow, ShadowType, IdleLane, LaneType, IdleEngine, EngineType

(* The job RAM holds words, whatever the host wrote. *)
LEMMA JobImageType ==
  ASSUME NEW kinds \in Images
  PROVE  JobImage(kinds) \in [Address -> Word]
<1>1. SUFFICES ASSUME NEW a \in Address
              PROVE  [kind |-> kinds[a \div JobWords], word |-> a % JobWords] \in Word
  BY DEF JobImage
<1>2. /\ JobWords \in Nat \ {0} /\ MaxJobs \in Nat \ {0}
      /\ a \in Nat /\ a <= MaxJobs * JobWords - 1
  <2>1. MaxJobs * JobWords \in Nat
    BY LaunchAssumption, CoreAssumption
  <2> QED BY <2>1, LaunchAssumption, CoreAssumption DEF Address
<1>3. a % JobWords \in WordIndex
  BY <1>2 DEF WordIndex
<1>4. a \div JobWords \in JobIndex
  <2> DEFINE q == a \div JobWords
             r == a % JobWords
  <2>1. q \in Nat /\ r \in Nat /\ a = q * JobWords + r
    BY <1>2
  <2>2. CASE q >= MaxJobs
    <3>1. (q - MaxJobs) * JobWords >= 0
      BY <1>2, <2>1, <2>2
    <3>2. (q - MaxJobs) * JobWords = q * JobWords - MaxJobs * JobWords
      BY <1>2, <2>1
    <3>3. q * JobWords \in Nat /\ MaxJobs * JobWords \in Nat
      BY <1>2, <2>1
    <3> HIDE DEF q, r
    <3> QED BY <1>2, <2>1, <3>1, <3>2, <3>3
  <2> QED BY <1>2, <2>1, <2>2 DEF JobIndex
<1>5. kinds \in [JobIndex -> {"good", "bad"}]
  BY CoreAssumption
<1> QED BY <1>3, <1>4, <1>5 DEF Word

(***************************************************************************)
(* The control part of the invariant.  The types of the core's registers   *)
(* are proved action by action, together with the accounting of the jobs   *)
(* they rest on: a batch never completes more jobs than it accepted.       *)
(***************************************************************************)
CoreTypes ==
  /\ state \in {"IDLE", "RUN"}
  /\ status \in StatusType
  /\ result_mask \in [JobIndex -> BOOLEAN]
  /\ accepted_job_count \in 0 .. MaxJobs
  /\ current_job_index \in JobIndex
  /\ counters \in CountersType
  /\ batch_id \in CounterRange
  /\ snapshot \in SnapshotType
  /\ loader \in LoaderType
  /\ shadow \in ShadowType
  /\ lane \in [Lanes -> LaneType]
  /\ batch_completed_count \in 0 .. MaxJobs
  /\ verifier_abort \in BOOLEAN
  /\ ramStable \in BOOLEAN

EnvTypes ==
  /\ engine \in [Lanes -> EngineType]
  /\ job_bram_dout \in Word
  /\ ram \in [Address -> Word]
  /\ cfg \in Configs

CoreControl == CoreTypes /\ JobConservation /\ Quiescent /\ LoaderInv

(* The core's half and the environment's half.                              *)
LEMMA ControlSplit == ControlInv <=> CoreControl /\ EnvTypes
BY DEF ControlInv, CoreControl, TypeOK, CoreTypes, EnvTypes

(* It holds after reset.                                                    *)
LEMMA InitControl == Init => ControlInv
<1> SUFFICES ASSUME Init PROVE ControlInv
  OBVIOUS
<1>1. /\ job_bram_dout \in Word /\ ram \in [Address -> Word] /\ cfg \in Configs
  BY WordFacts, JobImageType DEF Init
<1>2. engine \in [Lanes -> EngineType] /\ lane \in [Lanes -> LaneType]
  BY ResetTypes DEF Init
<1>3. snapshot \in SnapshotType
  BY LaunchAssumption DEF Init, Snapshot, SnapshotType, CounterRange, ERR_NONE
<1>4. CoreTypes
  <2>1. batch_id \in CounterRange /\ accepted_job_count \in 0 .. MaxJobs
        /\ batch_completed_count \in 0 .. MaxJobs /\ current_job_index \in JobIndex
    BY WordFacts, LaunchAssumption DEF Init
  <2>2. /\ status \in StatusType /\ result_mask \in [JobIndex -> BOOLEAN]
        /\ counters \in CountersType /\ loader \in LoaderType /\ shadow \in ShadowType
    BY ResetTypes DEF Init
  <2>3. state = "IDLE" /\ verifier_abort = FALSE /\ ramStable = FALSE
    BY DEF Init
  <2> QED BY <1>2, <1>3, <2>1, <2>2, <2>3 DEF CoreTypes
<1>5. Quiescent
  BY DEF Init, Quiescent, Loading, IdleLoader, EmptyShadow, IdleLane
<1>6. JobConservation /\ LoaderInv
  BY DEF Init, JobConservation, LoaderInv
<1> QED BY <1>1, <1>2, <1>4, <1>5, <1>6, ControlSplit DEF CoreControl, EnvTypes

(* The configuration inputs of a reachable state. *)
LEMMA ConfigType ==
  ASSUME EnvTypes
  PROVE  cfg \in Config /\ cfg.timeout \in Nat
<1>1. cfg \in Config
  BY CoreAssumption DEF EnvTypes
<1> QED BY <1>1 DEF Config

(* A launch keeps it.                                                       *)
LEMMA LaunchControl ==
  ASSUME CoreControl, EnvTypes, NEW clear \in BOOLEAN, LaunchBatch(clear),
         verifier_abort' \in BOOLEAN
  PROVE  CoreControl'
<1>1. /\ DispatchCount(cfg) \in 0 .. MaxJobs
      /\ DroppedCount(cfg) \in 0 .. MaxJobs
      /\ LaunchError(cfg) \in 0 .. 4
      /\ LaunchError(cfg) = ERR_NONE => DispatchCount(cfg) \in 1 .. MaxJobs
  BY ConfigType, DispatchType
<1>2. batch_id' \in CounterRange
  BY IncType DEF LaunchBatch, CoreControl, CoreTypes, CounterRange
<1>3. /\ result_mask' \in [JobIndex -> BOOLEAN]
      /\ current_job_index' \in JobIndex
      /\ batch_completed_count' \in 0 .. MaxJobs
      /\ lane' \in [Lanes -> LaneType]
      /\ ramStable' \in BOOLEAN
  BY ResetTypes, WordFacts, LaunchAssumption DEF LaunchBatch
<1>4. \A l \in Lanes : ~lane'[l].busy
  BY DEF LaunchBatch, IdleLane
<1>5. CASE RejectBatch(clear)
  <2>1. state' = "IDLE" /\ accepted_job_count' = 0 /\ loader' = IdleLoader /\ shadow' = EmptyShadow
    BY <1>5 DEF RejectBatch
  <2>2. status' \in StatusType
    BY <1>1, <1>5 DEF RejectBatch, StatusType
  <2>3. snapshot' \in SnapshotType
    BY <1>1, <1>2, <1>5, LaunchAssumption
       DEF RejectBatch, Snapshot, SnapshotType, CounterRange, LaunchBatch
  <2>4. counters' \in CountersType
    BY <1>5, ResetTypes DEF RejectBatch, CoreControl, CoreTypes
  <2>5. CoreTypes'
    BY <1>2, <1>3, <2>1, <2>2, <2>3, <2>4, ResetTypes, LaunchAssumption DEF CoreTypes
  <2>6. ~Loading'
    BY <2>1 DEF Loading, IdleLoader, EmptyShadow
  <2> QED BY <1>4, <2>1, <2>5, <2>6 DEF CoreControl, JobConservation, Quiescent, LoaderInv
<1>6. CASE AcceptBatch(clear)
  <2>1. /\ state' = "RUN"
        /\ accepted_job_count' \in 1 .. MaxJobs
        /\ loader' = [state |-> "REQ", word |-> 0, base |-> 0, nextJob |-> 1,
                      nextBase |-> JobWords]
        /\ shadow' = KickedShadow(0)
        /\ snapshot' = snapshot
        /\ status' = QuietStatus
    BY <1>1, <1>6 DEF AcceptBatch
  <2>2. loader' \in LoaderType
    BY <2>1, WordFacts, CoreAssumption, LaunchAssumption DEF LoaderType
  <2>3. shadow' \in ShadowType
    BY <2>1, WordFacts DEF ShadowType, KickedShadow
  <2>4. counters' \in CountersType
    <3>1. counters \in CountersType /\ DroppedCount(cfg) \in Nat
      BY <1>1 DEF CoreControl, CoreTypes
    <3>2. DroppedCount(cfg) % WordMod \in CounterRange
      BY <3>1, LaunchAssumption DEF CounterRange
    <3>3. Inc(counters.dropped, DroppedCount(cfg)) \in CounterRange
      BY <3>1, IncType DEF CountersType, CounterRange
    <3> QED BY <1>6, <3>1, <3>2, <3>3, ResetTypes DEF AcceptBatch, CountersType
  <2>5. CoreTypes'
    BY <1>2, <1>3, <2>1, <2>2, <2>3, <2>4, ResetTypes DEF CoreTypes, CoreControl
  <2>6. Loading' /\ ~shadow'.valid /\ shadow'.job = 0
    BY <2>1 DEF Loading, KickedShadow
  <2>7. JobConservation'
    <3>1. batch_completed_count' = 0 /\ ~lane'[0].busy /\ ~lane'[1].busy
      BY <1>4 DEF LaunchBatch, Lanes
    <3>2. loader'.nextJob = 1
      BY <2>1
    <3> QED BY <2>1, <2>6, <3>1, <3>2 DEF JobConservation, Bit
  <2>8. LoaderInv'
    BY <2>1, <2>6, CoreAssumption DEF LoaderInv
  <2> QED BY <2>1, <2>5, <2>7, <2>8 DEF CoreControl, Quiescent
<1> QED BY <1>5, <1>6 DEF LaunchBatch

(* A soft reset keeps it.                                                   *)
LEMMA SoftResetControl ==
  ASSUME CoreControl, SoftReset
  PROVE  CoreControl'
<1>1. CoreTypes'
  BY ResetTypes, WordFacts, LaunchAssumption DEF SoftReset, CoreControl, CoreTypes
<1>2. ~Loading' /\ (\A l \in Lanes : ~lane'[l].busy)
  BY DEF SoftReset, Loading, IdleLoader, EmptyShadow, IdleLane
<1>3. state' = "IDLE"
  BY DEF SoftReset
<1> QED BY <1>1, <1>2, <1>3 DEF CoreControl, JobConservation, Quiescent, LoaderInv

(* An edge without a batch keeps it.                                        *)
LEMMA IdleControl ==
  ASSUME CoreControl, Idle
  PROVE  CoreControl'
BY DEF Idle, CoreControl, CoreTypes, JobConservation, Quiescent, LoaderInv, Loading

(* One edge of the loader and of a lane keeps their types. *)
LEMMA LoaderStepType ==
  ASSUME CoreTypes, EnvTypes
  PROVE  /\ LoaderStep \in LoaderType
         /\ ShadowStep \in ShadowType
         /\ LoaderStep.nextJob = loader.nextJob
         /\ LoaderStep.nextBase = loader.nextBase
         /\ LoaderStep.base = loader.base
         /\ ShadowStep.job = shadow.job
<1>1. loader \in LoaderType /\ shadow \in ShadowType /\ job_bram_dout \in Word
  BY DEF CoreTypes, EnvTypes
<1>2. loader.word # JobWords - 1 => loader.word + 1 \in WordIndex
  BY <1>1, CoreAssumption DEF LoaderType, WordIndex
<1>3. /\ LoaderStep \in LoaderType
      /\ LoaderStep.nextJob = loader.nextJob
      /\ LoaderStep.nextBase = loader.nextBase
      /\ LoaderStep.base = loader.base
  BY <1>1, <1>2 DEF LoaderStep, LoaderType
<1>4. ShadowStep \in ShadowType /\ ShadowStep.job = shadow.job
  BY <1>1 DEF ShadowStep, ShadowType, LoaderType, Operand
<1> QED BY <1>3, <1>4

(* One edge of a lane keeps its types.                                      *)
LEMMA LaneStepType ==
  ASSUME CoreTypes, NEW l \in Lanes
  PROVE  /\ LaneStep(l) \in LaneType
         /\ LaneStep(l).busy <=> lane[l].busy /\ ~DoneEvt(l)
         /\ LaneStep(l).start = FALSE
         /\ LaneStep(l).job = lane[l].job
         /\ LaneStep(l).operand = lane[l].operand
<1>1. lane[l] \in LaneType
  BY DEF CoreTypes
<1>2. \A n \in 0 .. CycleCap : CountCycle(n) \in 0 .. CycleCap
  BY CoreAssumption DEF CountCycle
<1>3. DoneEvt(l) \in BOOLEAN
  BY <1>1 DEF DoneEvt, LaneType
<1> QED BY <1>1, <1>2, <1>3, WordFacts DEF LaneStep, LaneType

(* The sums a running batch stores at an edge stay in range. *)
LEMMA RunSums ==
  ASSUME CoreControl, EnvTypes, state = "RUN"
  PROVE  /\ NumDone \in 0 .. 2
         /\ DoneEvt(0) \in BOOLEAN /\ DoneEvt(1) \in BOOLEAN
         /\ NumDone = Bit(DoneEvt(0)) + Bit(DoneEvt(1))
         /\ PostBatchCompleted \in 0 .. accepted_job_count
         /\ PostBatchCompleted \in 0 .. MaxJobs
         /\ PostCompleted \in CounterRange
         /\ PostMask \in [JobIndex -> BOOLEAN]
<1>1. 0 \in Lanes /\ 1 \in Lanes
  BY DEF Lanes
<1>2. /\ lane[0] \in LaneType /\ lane[1] \in LaneType
      /\ engine[0] \in EngineType /\ engine[1] \in EngineType
      /\ batch_completed_count \in 0 .. MaxJobs /\ accepted_job_count \in 0 .. MaxJobs
      /\ counters \in CountersType /\ result_mask \in [JobIndex -> BOOLEAN]
      /\ loader \in LoaderType
  BY <1>1 DEF CoreControl, CoreTypes, EnvTypes
<1>3. DoneEvt(0) \in BOOLEAN /\ DoneEvt(1) \in BOOLEAN
  BY <1>2 DEF DoneEvt, LaneType
<1>4. NumDone \in 0 .. 2
  BY DEF NumDone, Bit
<1>5. DoneEvt(0) => lane[0].busy
  BY DEF DoneEvt
<1>6. DoneEvt(1) => lane[1].busy
  BY DEF DoneEvt
<1>7. NumDone <= Bit(lane[0].busy) + Bit(lane[1].busy)
  BY <1>2, <1>5, <1>6 DEF NumDone, Bit, LaneType
<1>8. /\ loader.nextJob = batch_completed_count + Bit(lane[0].busy) + Bit(lane[1].busy)
                            + Bit(Loading)
      /\ loader.nextJob <= accepted_job_count
  BY DEF CoreControl, JobConservation
<1>9. Bit(Loading) \in 0 .. 1 /\ Bit(lane[0].busy) \in 0 .. 1 /\ Bit(lane[1].busy) \in 0 .. 1
  BY DEF Bit
<1>10. /\ PostBatchCompleted \in 0 .. accepted_job_count
       /\ PostBatchCompleted \in 0 .. MaxJobs
  BY <1>2, <1>4, <1>7, <1>8, <1>9, LaunchAssumption DEF PostBatchCompleted, LoaderType
<1>11. PostCompleted \in CounterRange
  <2>1. counters.completed \in Nat /\ NumDone \in Nat
    BY <1>2, <1>4, LaunchAssumption DEF CountersType, CounterRange
  <2> QED BY <2>1, IncType DEF PostCompleted
<1>12. PostMask \in [JobIndex -> BOOLEAN]
  BY <1>2 DEF PostMask, EngineType
<1> QED BY <1>3, <1>4, <1>10, <1>11, <1>12 DEF NumDone

(* The end of a batch, with or without error, leaves nothing behind. *)
LEMMA FinalizeControl ==
  ASSUME CoreControl, EnvTypes, RunCommon, NEW code \in {ERR_NONE, ERR_JOB_TIMEOUT},
         FinalizeBatch(code, PostCompleted), verifier_abort' \in BOOLEAN,
         counters' = [counters EXCEPT !.completed = PostCompleted],
         UNCHANGED current_job_index
  PROVE  CoreControl'
<1>1. state = "RUN" /\ state' = "IDLE"
  BY DEF RunCommon, FinalizeBatch
<1>2. /\ result_mask' \in [JobIndex -> BOOLEAN]
      /\ batch_completed_count' \in 0 .. MaxJobs
      /\ batch_id' = batch_id /\ accepted_job_count' = accepted_job_count
      /\ ramStable' = ramStable
  BY <1>1, RunSums DEF RunCommon
<1>3. counters' \in CountersType
  BY <1>1, RunSums DEF CoreControl, CoreTypes, CountersType
<1>4. /\ loader' \in LoaderType /\ shadow' \in ShadowType
      /\ loader'.state = "IDLE" /\ ~shadow'.valid
  <2>1. LoaderStep \in LoaderType /\ ShadowStep \in ShadowType
    BY LoaderStepType DEF CoreControl
  <2> QED BY <2>1 DEF FinalizeBatch, LoaderType, ShadowType
<1>5. lane' \in [Lanes -> LaneType] /\ (\A l \in Lanes : ~lane'[l].busy)
  <2>1. lane \in [Lanes -> LaneType]
    BY DEF CoreControl, CoreTypes
  <2> QED BY <2>1, WordFacts DEF FinalizeBatch, LaneType
<1>6. code \in 0 .. 4
  BY DEF ERR_NONE, ERR_JOB_TIMEOUT
<1>7. status' \in StatusType
  BY <1>6 DEF FinalizeBatch, StatusType
<1>8. snapshot' \in SnapshotType
  <2>1. /\ batch_id \in CounterRange /\ accepted_job_count \in 0 .. MaxJobs
        /\ counters.dropped \in CounterRange /\ PostCompleted \in CounterRange
    BY <1>1, RunSums DEF CoreControl, CoreTypes, CountersType
  <2> QED BY <1>6, <2>1 DEF FinalizeBatch, Snapshot, SnapshotType
<1>9. CoreTypes'
  BY <1>1, <1>2, <1>3, <1>4, <1>5, <1>7, <1>8 DEF CoreTypes, CoreControl
<1>10. ~Loading'
  BY <1>4 DEF Loading
<1> QED BY <1>1, <1>5, <1>9, <1>10 DEF CoreControl, JobConservation, Quiescent, LoaderInv

(* The end of a batch by the watchdog keeps it.                             *)
LEMMA TimeoutControl ==
  ASSUME CoreControl, EnvTypes, RunTimeout
  PROVE  CoreControl'
BY FinalizeControl DEF RunTimeout

(* The end of a batch keeps it.                                             *)
LEMMA FinishControl ==
  ASSUME CoreControl, EnvTypes, RunFinish
  PROVE  CoreControl'
BY FinalizeControl DEF RunFinish

(* The loader goes on: it is idle with a valid shadow slot, or not yet done. *)
LEMMA LoaderProgress ==
  ASSUME CoreControl, EnvTypes, state = "RUN"
  PROVE  /\ ShadowStep.valid => LoaderStep.state = "IDLE"
         /\ (LoaderStep.state # "IDLE" \/ ShadowStep.valid) <=> Loading
         /\ LoaderStep.state # "IDLE" => loader.state # "IDLE"
         /\ shadow.valid => LoaderStep = loader /\ ShadowStep = shadow
<1>1. loader \in LoaderType /\ shadow \in ShadowType
  BY DEF CoreControl, CoreTypes
<1>2. shadow.valid => loader.state = "IDLE"
  BY DEF CoreControl, LoaderInv
<1> QED BY <1>1, <1>2 DEF LoaderStep, ShadowStep, Loading, LoaderType, ShadowType

(* An edge that waits for lanes keeps it.                                   *)
LEMMA WaitControl ==
  ASSUME CoreControl, EnvTypes, RunWait
  PROVE  CoreControl'
<1>1. /\ state = "RUN" /\ state' = "RUN"
      /\ loader' = LoaderStep /\ shadow' = ShadowStep
      /\ accepted_job_count' = accepted_job_count
      /\ batch_completed_count' = PostBatchCompleted
      /\ lane' = [l \in Lanes |-> LaneStep(l)]
  BY DEF RunWait, RunContinue, RunCommon
<1>2. CoreTypes'
  <2>1. counters' \in CountersType
    BY <1>1, RunSums DEF RunWait, CoreControl, CoreTypes, CountersType
  <2>2. lane' \in [Lanes -> LaneType]
    BY <1>1, LaneStepType DEF CoreControl
  <2>3. loader' \in LoaderType /\ shadow' \in ShadowType
    BY <1>1, LoaderStepType DEF CoreControl
  <2> QED BY <1>1, <2>1, <2>2, <2>3, RunSums
          DEF RunWait, RunContinue, RunCommon, CoreControl, CoreTypes
<1>3. JobConservation'
  <2>1. Loading' <=> Loading
    BY <1>1, LoaderProgress DEF Loading
  <2>2. loader'.nextJob = loader.nextJob
    BY <1>1, LoaderStepType DEF CoreControl
  <2>3. \A l \in Lanes : lane'[l].busy <=> lane[l].busy /\ ~DoneEvt(l)
    BY <1>1, LaneStepType DEF CoreControl
  <2>4. Bit(lane'[0].busy) + Bit(lane'[1].busy) + NumDone = Bit(lane[0].busy) + Bit(lane[1].busy)
    BY <2>3 DEF NumDone, Bit, DoneEvt, Lanes
  <2>5. /\ loader.nextJob = batch_completed_count + Bit(lane[0].busy) + Bit(lane[1].busy)
                            + Bit(Loading)
        /\ loader.nextJob <= accepted_job_count
        /\ ~Loading => loader.nextJob = accepted_job_count
    BY <1>1 DEF CoreControl, JobConservation
  <2>6. batch_completed_count' = batch_completed_count + NumDone
    BY <1>1 DEF PostBatchCompleted
  <2>7. /\ batch_completed_count \in Nat /\ NumDone \in Nat
        /\ Bit(lane[0].busy) \in Nat /\ Bit(lane[1].busy) \in Nat
        /\ Bit(lane'[0].busy) \in Nat /\ Bit(lane'[1].busy) \in Nat /\ Bit(Loading) \in Nat
    BY DEF CoreControl, CoreTypes, NumDone, Bit
  <2>8. Bit(Loading') = Bit(Loading)
    BY <2>1 DEF Bit
  <2>9. loader'.nextJob = batch_completed_count' + Bit(lane'[0].busy) + Bit(lane'[1].busy)
                            + Bit(Loading')
    BY <2>2, <2>4, <2>5, <2>6, <2>7, <2>8
  <2> QED BY <1>1, <2>1, <2>2, <2>5, <2>9 DEF JobConservation
<1>4. LoaderInv'
  BY <1>1, LoaderProgress, LoaderStepType DEF CoreControl, LoaderInv, Loading
<1> QED BY <1>1, <1>2, <1>3, <1>4 DEF CoreControl, Quiescent

(* The job in the shadow slot moves to lane l, which is free; the loader    *)
(* takes the next one, if there is one.                                     *)
LEMMA DispatchControl ==
  ASSUME CoreControl, EnvTypes, NEW l \in Lanes, RunDispatch(l)
  PROVE  CoreControl'
<1>1. /\ state = "RUN" /\ state' = "RUN"
      /\ accepted_job_count' = accepted_job_count
      /\ batch_completed_count' = PostBatchCompleted
      /\ shadow.valid /\ FreeLane(l)
      /\ current_job_index' = shadow.job
  BY DEF RunDispatch, RunContinue, RunCommon, DispatchesTo, Lanes
<1>2. lane' = [x \in Lanes |->
                 IF x = l THEN [busy |-> TRUE, start |-> TRUE, job |-> shadow.job,
                                operand |-> shadow.words, cycles |-> 0]
                 ELSE LaneStep(x)]
  BY DEF RunDispatch
<1>3. /\ loader \in LoaderType /\ shadow \in ShadowType /\ lane \in [Lanes -> LaneType]
      /\ accepted_job_count \in 0 .. MaxJobs /\ counters \in CountersType
      /\ batch_completed_count \in 0 .. MaxJobs
  BY DEF CoreControl, CoreTypes
<1>4. /\ loader.state = "IDLE"
      /\ LoaderStep = loader /\ ShadowStep = shadow
      /\ loader.nextBase = loader.nextJob * JobWords
      /\ loader.nextJob = shadow.job + 1
  BY <1>1, LoaderProgress DEF CoreControl, LoaderInv, Loading
<1>5. \/ /\ loader.nextJob < accepted_job_count
         /\ loader' = [state |-> "REQ", word |-> 0, base |-> loader.nextBase,
                       nextJob |-> loader.nextJob + 1, nextBase |-> loader.nextBase + JobWords]
         /\ shadow' = KickedShadow(loader.nextJob)
      \/ /\ loader.nextJob >= accepted_job_count
         /\ loader' = loader
         /\ shadow' = [shadow EXCEPT !.valid = FALSE]
  BY <1>3, <1>4 DEF RunDispatch, MoreToLoad, LoaderType
<1>6. CoreTypes'
  <2>1. counters' \in CountersType
    <3>1. Inc(counters.started, 1) \in CounterRange
      <4>1. counters.started \in Nat
        BY <1>3, LaunchAssumption DEF CountersType, CounterRange
      <4> QED BY <4>1, IncType
    <3> QED BY <1>1, <1>3, <3>1, RunSums DEF RunDispatch, CountersType
  <2>2. lane' \in [Lanes -> LaneType]
    <3>1. [busy |-> TRUE, start |-> TRUE, job |-> shadow.job,
           operand |-> shadow.words, cycles |-> 0] \in LaneType
      BY <1>3, WordFacts DEF LaneType, ShadowType
    <3> QED BY <1>2, <3>1, LaneStepType DEF CoreControl
  <2>3. loader' \in LoaderType /\ shadow' \in ShadowType
    <3>1. loader.nextBase + JobWords \in Nat
      BY <1>3, CoreAssumption DEF LoaderType
    <3>2. loader.nextJob < accepted_job_count =>
            loader.nextJob \in JobIndex /\ loader.nextJob + 1 \in 0 .. MaxJobs
      BY <1>3, LaunchAssumption DEF LoaderType, JobIndex
    <3>3. CASE loader.nextJob < accepted_job_count
      <4>1. /\ loader' = [state |-> "REQ", word |-> 0, base |-> loader.nextBase,
                          nextJob |-> loader.nextJob + 1,
                          nextBase |-> loader.nextBase + JobWords]
            /\ shadow' = KickedShadow(loader.nextJob)
        BY <1>3, <1>5, <3>3 DEF LoaderType
      <4>2. loader.nextBase \in Nat
        BY <1>3 DEF LoaderType
      <4>3. loader' \in LoaderType
        BY <3>1, <3>2, <3>3, <4>1, <4>2, WordFacts DEF LoaderType
      <4>4. shadow' \in ShadowType
        BY <3>2, <3>3, <4>1, WordFacts DEF ShadowType, KickedShadow
      <4> QED BY <4>3, <4>4
    <3>4. CASE ~(loader.nextJob < accepted_job_count)
      BY <1>3, <1>5, <3>4 DEF LoaderType, ShadowType
    <3> QED BY <3>3, <3>4
  <2> QED BY <1>1, <1>3, <2>1, <2>2, <2>3, RunSums
          DEF RunDispatch, RunContinue, RunCommon, CoreControl, CoreTypes, ShadowType
<1>7. JobConservation'
  <2>1. /\ loader.nextJob = batch_completed_count + Bit(lane[0].busy) + Bit(lane[1].busy) + 1
        /\ loader.nextJob <= accepted_job_count
    BY <1>1 DEF CoreControl, JobConservation, Loading, Bit
  <2>2. \A x \in Lanes : lane'[x].busy <=> x = l \/ (lane[x].busy /\ ~DoneEvt(x))
    BY <1>2, LaneStepType DEF CoreControl
  <2>3. ~(lane[l].busy /\ ~DoneEvt(l))
    BY <1>1 DEF FreeLane
  <2>4. Bit(lane'[0].busy) + Bit(lane'[1].busy) + NumDone
          = Bit(lane[0].busy) + Bit(lane[1].busy) + 1
    BY <2>2, <2>3 DEF NumDone, Bit, DoneEvt, Lanes
  <2>5. batch_completed_count' = batch_completed_count + NumDone
    BY <1>1 DEF PostBatchCompleted
  <2>6. /\ NumDone \in Nat /\ batch_completed_count \in Nat
        /\ Bit(lane[0].busy) \in Nat /\ Bit(lane[1].busy) \in Nat
        /\ Bit(lane'[0].busy) \in Nat /\ Bit(lane'[1].busy) \in Nat
    BY <1>3 DEF NumDone, Bit
  <2>7. CASE loader.nextJob < accepted_job_count
    <3>1. loader'.nextJob = loader.nextJob + 1 /\ Loading'
      BY <1>5, <2>1, <2>7, <1>3 DEF Loading, LoaderType
    <3>2. Bit(Loading') = 1
      BY <3>1 DEF Bit
    <3>3. loader'.nextJob = batch_completed_count' + Bit(lane'[0].busy) + Bit(lane'[1].busy)
                              + Bit(Loading')
      <4> DEFINE a  == Bit(lane[0].busy)
                 b  == Bit(lane[1].busy)
                 a2 == Bit(lane'[0].busy)
                 b2 == Bit(lane'[1].busy)
      <4>1. /\ loader.nextJob = batch_completed_count + a + b + 1
            /\ a2 + b2 + NumDone = a + b + 1
            /\ a \in Nat /\ b \in Nat /\ a2 \in Nat /\ b2 \in Nat
        BY <2>1, <2>4, <2>6
      <4> HIDE DEF a, b, a2, b2
      <4>2. loader'.nextJob = batch_completed_count' + a2 + b2 + 1
        BY <2>5, <2>6, <3>1, <4>1
      <4> QED BY <3>2, <4>2 DEF a2, b2
    <3>4. loader'.nextJob <= accepted_job_count
      BY <1>3, <2>7, <3>1 DEF LoaderType
    <3> QED BY <1>1, <3>1, <3>3, <3>4 DEF JobConservation
  <2>8. CASE ~(loader.nextJob < accepted_job_count)
    <3>1. loader' = loader /\ ~shadow'.valid
      BY <1>3, <1>5, <2>8 DEF ShadowType
    <3>2. ~Loading' /\ loader'.nextJob = loader.nextJob
      BY <1>4, <3>1 DEF Loading
    <3>3. Bit(Loading') = 0
      BY <3>2 DEF Bit
    <3>4. loader.nextJob = accepted_job_count
      BY <1>3, <2>1, <2>8 DEF LoaderType
    <3>5. loader'.nextJob = batch_completed_count' + Bit(lane'[0].busy) + Bit(lane'[1].busy)
                              + Bit(Loading')
      BY <2>1, <2>4, <2>5, <2>6, <3>2, <3>3
    <3> QED BY <1>1, <2>1, <3>2, <3>4, <3>5 DEF JobConservation
  <2> QED BY <2>7, <2>8
<1>8. LoaderInv'
  <2>1. CASE loader.nextJob < accepted_job_count
    <3>1. /\ loader'.nextBase = loader.nextJob * JobWords + JobWords
          /\ loader'.nextJob = loader.nextJob + 1
          /\ loader'.base = loader.nextJob * JobWords
          /\ shadow'.job = loader.nextJob /\ ~shadow'.valid
      BY <1>3, <1>4, <1>5, <2>1 DEF KickedShadow, LoaderType
    <3>2. loader.nextJob * JobWords + JobWords = (loader.nextJob + 1) * JobWords
      BY <1>3, NextBase DEF LoaderType
    <3> QED BY <3>1, <3>2 DEF LoaderInv
  <2>2. CASE ~(loader.nextJob < accepted_job_count)
    BY <1>3, <1>4, <1>5, <2>2 DEF LoaderInv, Loading, ShadowType
  <2> QED BY <2>1, <2>2
<1> QED BY <1>1, <1>6, <1>7, <1>8 DEF CoreControl, Quiescent

(* Hence every clock edge of the core keeps it.                             *)
LEMMA CoreEdgeControl ==
  ASSUME CoreControl, EnvTypes, NEW start \in BOOLEAN, NEW soft_reset \in BOOLEAN,
         CoreEdge(start, soft_reset)
  PROVE  CoreControl'
<1>1. CASE ResetThenStart
  BY <1>1, LaunchControl DEF ResetThenStart
<1>2. CASE SoftReset
  BY <1>2, SoftResetControl
<1>3. CASE IdleStart
  BY <1>3, LaunchControl DEF IdleStart
<1>4. CASE Idle
  BY <1>4, IdleControl
<1>5. CASE RunTimeout
  BY <1>5, TimeoutControl
<1>6. CASE RunFinish
  BY <1>6, FinishControl
<1>7. ASSUME NEW l \in Lanes, RunDispatch(l) PROVE CoreControl'
  BY <1>7, DispatchControl
<1>8. CASE RunWait
  BY <1>8, WaitControl
<1> QED BY <1>1, <1>2, <1>3, <1>4, <1>5, <1>6, <1>7, <1>8 DEF CoreEdge, Run

(* The engines, the job RAM's output and the host's inputs keep their types;*)
(* the address the loader presents lies in the RAM.                         *)
LEMMA EnvEdge ==
  ASSUME CoreControl, EnvTypes, NEW fin, EnginesEdge(fin), JobRamEdge, UNCHANGED <<ram, cfg>>
  PROVE  EnvTypes'
<1>1. engine' \in [Lanes -> EngineType]
  <2>1. ASSUME NEW l \in Lanes PROVE EngineNext(l, fin) \in EngineType
    <3>1. engine[l] \in EngineType /\ lane[l].operand \in Operand
      BY DEF CoreControl, CoreTypes, EnvTypes, LaneType
    <3>2. Verifies(engine[l].operand) \in BOOLEAN
      BY DEF Verifies
    <3> QED BY <3>1, <3>2 DEF EngineNext, EngineType
  <2> QED BY <2>1, ResetTypes DEF EnginesEdge
<1>2. job_bram_dout' \in Word
  <2>1. CASE loader.state = "REQ"
    <3>1. /\ state = "RUN" /\ loader.base = shadow.job * JobWords
          /\ shadow.job \in JobIndex /\ loader.word \in WordIndex
      BY <2>1 DEF CoreControl, CoreTypes, Quiescent, LoaderInv, Loading, ShadowType, LoaderType
    <3>2. loader.base + loader.word \in Address
      BY <3>1, AddressInRange
    <3> QED BY <2>1, <3>2 DEF JobRamEdge, EnvTypes
  <2> QED BY <2>1 DEF JobRamEdge, EnvTypes
<1> QED BY <1>1, <1>2 DEF EnvTypes

(* Every step of the system keeps it.                                       *)
LEMMA StepControl == ControlInv /\ [Next]_vars => ControlInv'
<1> SUFFICES ASSUME CoreControl, EnvTypes, [Next]_vars
             PROVE  CoreControl' /\ EnvTypes'
  BY ControlSplit DEF ControlInv, CoreControl, EnvTypes, TypeOK, CoreTypes
<1>1. CASE Tick
  <2>1. PICK start \in BOOLEAN, soft_reset \in BOOLEAN, fin \in SUBSET Working :
          Edge(start, soft_reset, fin)
    BY <1>1 DEF Tick
  <2>2. CoreControl'
    BY <2>1, CoreEdgeControl DEF Edge
  <2>3. EnvTypes'
    BY <2>1, EnvEdge DEF Edge
  <2> QED BY <2>2, <2>3
<1>2. CASE HostWriteJobs
  <2>1. ram' \in [Address -> Word]
    BY <1>2, JobImageType DEF HostWriteJobs
  <2> QED BY <1>2, <2>1
          DEF HostWriteJobs, coreVars, CoreControl, CoreTypes, EnvTypes, JobConservation,
              Quiescent, LoaderInv, Loading
<1>3. CASE HostConfigure
  BY <1>3 DEF HostConfigure, coreVars, CoreControl, CoreTypes, EnvTypes, JobConservation,
              Quiescent, LoaderInv, Loading
<1>4. CASE UNCHANGED vars
  BY <1>4 DEF vars, coreVars, CoreControl, CoreTypes, EnvTypes, JobConservation,
              Quiescent, LoaderInv, Loading
<1> QED BY <1>1, <1>2, <1>3, <1>4 DEF Next

(* The control half of the inductive invariant.                             *)
THEOREM ControlInvariant == Spec => []ControlInv
<1>1. Init => ControlInv
  BY InitControl
<1>2. ControlInv /\ [Next]_vars => ControlInv'
  BY StepControl
<1> QED BY <1>1, <1>2, PTL DEF Spec

(* Every register of the core stays in its range: the loader never reads    *)
(* past the job RAM and no job index leaves the result mask.                *)
THEOREM TypeCorrect == Spec => []TypeOK
<1>1. ControlInv => TypeOK
  BY DEF ControlInv
<1> QED BY <1>1, ControlInvariant, PTL

(* While a batch runs every job handed to the loader is completed, in a     *)
(* lane, or in the loader, and the loader stops only when none is left.     *)
THEOREM NoJobLost == Spec => []JobConservation
<1>1. ControlInv => JobConservation
  BY DEF ControlInv
<1> QED BY <1>1, ControlInvariant, PTL

(***************************************************************************)
(* The data part: what the engines compute, and where their verdicts go.   *)
(***************************************************************************)

(* With no lane busy the engines are idle after the edge: aborted, or never *)
(* started.                                                                 *)
LEMMA EnginesRest ==
  ASSUME EngineInv, EnvTypes, NEW fin, EnginesEdge(fin),
         EngineReset \/ \A l \in Lanes : ~lane[l].busy \/ DoneEvt(l)
  PROVE  \A l \in Lanes : engine'[l].st = "idle"
<1>1. CASE EngineReset
  BY <1>1 DEF EnginesEdge, IdleEngine
<1>2. CASE ~EngineReset
  <2>1. ASSUME NEW l \in Lanes PROVE engine'[l].st = "idle"
    <3>1. engine'[l] = EngineNext(l, fin) /\ engine[l] \in EngineType
      BY <1>2 DEF EnginesEdge, EnvTypes
    <3>2. CASE DoneEvt(l)
      BY <3>1, <3>2 DEF DoneEvt, EngineNext, EngineType
    <3>3. CASE ~lane[l].busy
      <4>1. engine[l].st = "idle" /\ ~lane[l].start
        BY <3>3 DEF EngineInv
      <4> QED BY <3>1, <4>1 DEF EngineNext
    <3> QED BY <1>2, <3>2, <3>3
  <2> QED BY <2>1
<1> QED BY <1>1, <1>2

(* A launch, accepted or rejected. *)
LEMMA LaunchData ==
  ASSUME ControlInv, DataInv, NEW clear \in BOOLEAN, LaunchBatch(clear),
         state = "IDLE" \/ verifier_abort', NEW fin, EnginesEdge(fin)
  PROVE  DataInv'
<1>1. \A l \in Lanes : lane'[l] = IdleLane
  BY DEF LaunchBatch
<1>2. \A l \in Lanes : ~lane'[l].busy /\ ~lane'[l].start
  BY <1>1 DEF IdleLane
<1>3. \A l \in Lanes : engine'[l].st = "idle"
  <2>1. EngineReset \/ \A l \in Lanes : ~lane[l].busy
    BY DEF EngineReset, ControlInv, Quiescent
  <2> QED BY <2>1, EnginesRest, ControlSplit DEF DataInv
<1>4. ~shadow'.valid
  <2>1. shadow' = EmptyShadow \/ shadow' = KickedShadow(0)
    BY DEF LaunchBatch, RejectBatch, AcceptBatch
  <2> QED BY <2>1 DEF EmptyShadow, KickedShadow
<1>5. AbortInv' /\ EngineInv' /\ LaneInv'
  BY <1>2, <1>3, <1>4 DEF AbortInv, EngineInv, LaneInv
<1>6. \A j \in JobIndex : ~result_mask'[j]
  BY DEF LaunchBatch, NoResults
<1>7. CASE RejectBatch(clear)
  <2>1. state' = "IDLE"
    BY <1>7 DEF RejectBatch
  <2>2. /\ status'.done /\ status'.error /\ ~status'.result_valid
        /\ status'.code = LaunchError(cfg) /\ LaunchError(cfg) # ERR_NONE
    BY <1>7 DEF RejectBatch
  <2>3. SnapshotCoherent'
    <3>1. snapshot' = [batch_id |-> batch_id', accepted |-> 0, completed |-> 0, dropped |-> 0,
                       error |-> TRUE, result_valid |-> FALSE, code |-> LaunchError(cfg)]
      BY <1>7, <2>2 DEF RejectBatch, LaunchBatch, Snapshot
    <3>2. accepted_job_count' = 0 /\ status'.error = TRUE /\ status'.result_valid = FALSE
      BY <1>7 DEF RejectBatch
    <3> QED BY <2>1, <2>2, <3>1, <3>2 DEF SnapshotCoherent
  <2> QED BY <1>5, <1>6, <2>1, <2>2, <2>3
          DEF DataInv, LoadedInv, JudgedInv, ResultMaskSound, ResultMaskComplete
<1>8. CASE AcceptBatch(clear)
  <2>1. /\ loader'.state = "REQ" /\ loader'.word = 0 /\ loader'.nextJob = 1
        /\ shadow'.job = 0 /\ ~status'.done
    BY <1>8 DEF AcceptBatch, KickedShadow, QuietStatus
  <2>2. LoadedInv'
    BY <1>4, <2>1, CoreAssumption DEF LoadedInv, WordIndex
  <2>3. JudgedInv'
    <3>1. SUFFICES ASSUME NEW j \in JobIndex, j < 1 PROVE Outstanding(j)'
      BY <2>1 DEF JudgedInv
    <3>2. j = 0
      BY <3>1, LaunchAssumption DEF JobIndex
    <3> QED BY <2>1, <3>2 DEF Outstanding, Loading
  <2> QED BY <1>5, <1>6, <2>1, <2>2, <2>3
          DEF DataInv, ResultMaskSound, ResultMaskComplete, SnapshotCoherent
<1> QED BY <1>7, <1>8 DEF LaunchBatch

(* A soft reset forgets the batch.                                          *)
LEMMA SoftResetData ==
  ASSUME ControlInv, DataInv, SoftReset, NEW fin, EnginesEdge(fin)
  PROVE  DataInv'
<1>1. \A l \in Lanes : ~lane'[l].busy /\ ~lane'[l].start
  BY DEF SoftReset, IdleLane
<1>2. \A l \in Lanes : engine'[l].st = "idle"
  BY DEF SoftReset, EngineReset, EnginesEdge, IdleEngine
<1>3. AbortInv' /\ EngineInv'
  BY <1>1, <1>2 DEF AbortInv, EngineInv, SoftReset, EmptyShadow
<1>4. state' = "IDLE" /\ ~status'.done /\ (\A j \in JobIndex : ~result_mask'[j])
  BY DEF SoftReset, QuietStatus, NoResults
<1> QED BY <1>3, <1>4
        DEF DataInv, LoadedInv, LaneInv, JudgedInv, ResultMaskSound, ResultMaskComplete,
            SnapshotCoherent

(* Without a batch nothing changes.                                         *)
LEMMA IdleData ==
  ASSUME ControlInv, DataInv, Idle, NEW fin, EnginesEdge(fin), UNCHANGED <<ram, cfg>>
  PROVE  DataInv'
<1>1. \A l \in Lanes : ~lane[l].busy /\ ~lane[l].start
  BY DEF Idle, ControlInv, Quiescent, DataInv, EngineInv
<1>2. \A l \in Lanes : engine'[l].st = "idle"
  BY <1>1, EnginesRest, ControlSplit DEF DataInv
<1>3. EngineInv' /\ AbortInv'
  BY <1>1, <1>2 DEF Idle, EngineInv, AbortInv
<1>4. state' = "IDLE"
  BY DEF Idle
<1>5. ResultMaskSound' /\ ResultMaskComplete' /\ SnapshotCoherent'
  BY DEF DataInv, Idle, ResultMaskSound, ResultMaskComplete, SnapshotCoherent, JobVerdict,
         Verifies
<1> QED BY <1>3, <1>4, <1>5 DEF DataInv, LoadedInv, LaneInv, JudgedInv

(* Verdicts of the engines that end at this edge, and the mask they leave.  *)
LEMMA Verdicts ==
  ASSUME ControlInv, DataInv, state = "RUN", ramStable
  PROVE  /\ \A l \in Lanes : DoneEvt(l) => /\ engine[l].verified = JobVerdict(lane[l].job)
                                          /\ lane[l].job < accepted_job_count
         /\ \A j \in JobIndex :
              IF \E l \in Lanes : DoneEvt(l) /\ lane[l].job = j
              THEN PostMask[j] = JobVerdict(j) /\ j < accepted_job_count
              ELSE PostMask[j] = result_mask[j]
<1>1. ASSUME NEW l \in Lanes, DoneEvt(l)
      PROVE  /\ engine[l].verified = JobVerdict(lane[l].job)
             /\ lane[l].job < accepted_job_count
  <2>1. lane[l].busy /\ engine[l].st = "done"
    BY <1>1 DEF DoneEvt
  <2>2. /\ engine[l].operand = lane[l].operand
        /\ engine[l].verified = Verifies(engine[l].operand)
    BY <2>1 DEF DataInv, EngineInv
  <2>3. lane[l].operand = Image(lane[l].job) /\ lane[l].job < loader.nextJob
    BY <2>1 DEF DataInv, LaneInv
  <2>4. loader.nextJob <= accepted_job_count
    BY DEF ControlInv, JobConservation
  <2>5. lane[l].job < accepted_job_count
    <3>1. /\ lane[l].job \in Nat /\ loader.nextJob \in Nat /\ accepted_job_count \in Nat
      BY LaunchAssumption DEF ControlInv, TypeOK, LaneType, LoaderType, JobIndex
    <3> QED BY <2>3, <2>4, <3>1
  <2>6. JobVerdict(lane[l].job) = Verifies(Image(lane[l].job))
    BY DEF JobVerdict, Image
  <2> QED BY <2>2, <2>3, <2>5, <2>6
<1>2. ASSUME NEW j \in JobIndex
      PROVE  IF \E l \in Lanes : DoneEvt(l) /\ lane[l].job = j
             THEN PostMask[j] = JobVerdict(j) /\ j < accepted_job_count
             ELSE PostMask[j] = result_mask[j]
  <2>1. PostMask[j] = IF DoneEvt(1) /\ lane[1].job = j THEN engine[1].verified
                      ELSE IF DoneEvt(0) /\ lane[0].job = j THEN engine[0].verified
                      ELSE result_mask[j]
    BY DEF PostMask
  <2>2. Lanes = {0, 1}
    BY DEF Lanes
  <2> QED BY <1>1, <2>1, <2>2
<1> QED BY <1>1, <1>2

(* The mask after a wait confirms only jobs that are genuine.               *)
LEMMA PostMaskSound ==
  ASSUME ControlInv, DataInv, state = "RUN", ramStable, NEW j \in JobIndex, PostMask[j]
  PROVE  j < accepted_job_count /\ JobVerdict(j)
<1>1. result_mask[j] => j < accepted_job_count /\ JobVerdict(j)
  BY DEF DataInv, ResultMaskSound
<1> QED BY <1>1, Verdicts

(* When every accepted job is completed each busy lane ends at this edge    *)
(* and nothing is loading.                                                  *)
LEMMA AllDone ==
  ASSUME ControlInv, state = "RUN", PostBatchCompleted = accepted_job_count
  PROVE  /\ \A l \in Lanes : ~lane[l].busy \/ DoneEvt(l)
         /\ ~Loading
         /\ loader.nextJob = accepted_job_count
<1> DEFINE a == Bit(lane[0].busy)
           b == Bit(lane[1].busy)
           d == Bit(DoneEvt(0))
           e == Bit(DoneEvt(1))
           w == Bit(Loading)
<1>1. /\ loader.nextJob = batch_completed_count + a + b + w
      /\ loader.nextJob <= accepted_job_count
  BY DEF ControlInv, JobConservation
<1>2. batch_completed_count + (d + e) = accepted_job_count
  BY DEF PostBatchCompleted, NumDone
<1>3. d <= a /\ e <= b
  BY DEF DoneEvt, Bit
<1>4. a \in 0 .. 1 /\ b \in 0 .. 1 /\ d \in 0 .. 1 /\ e \in 0 .. 1 /\ w \in 0 .. 1
  BY DEF Bit
<1>5. loader.nextJob \in Nat /\ accepted_job_count \in Nat /\ batch_completed_count \in Nat
  BY DEF ControlInv, TypeOK, LoaderType
<1>6. a = d /\ b = e /\ w = 0 /\ loader.nextJob = accepted_job_count
  <2> HIDE DEF a, b, d, e, w
  <2> QED BY <1>1, <1>2, <1>3, <1>4, <1>5
<1>7. ~Loading
  BY <1>6 DEF Bit
<1>8. (lane[0].busy => DoneEvt(0)) /\ (lane[1].busy => DoneEvt(1))
  BY <1>6 DEF Bit
<1> QED BY <1>6, <1>7, <1>8 DEF Lanes

(* The end of a batch. *)
LEMMA FinalizeData ==
  ASSUME ControlInv, DataInv, RunCommon, NEW code \in {ERR_NONE, ERR_JOB_TIMEOUT},
         FinalizeBatch(code, PostCompleted),
         counters' = [counters EXCEPT !.completed = PostCompleted],
         verifier_abort' \/ (code = ERR_NONE /\ PostBatchCompleted = accepted_job_count),
         code = ERR_NONE => PostBatchCompleted = accepted_job_count,
         NEW fin, EnginesEdge(fin), UNCHANGED <<ram, cfg>>
  PROVE  DataInv'
<1>1. /\ state = "RUN" /\ state' = "IDLE" /\ ramStable' = ramStable
      /\ accepted_job_count' = accepted_job_count /\ batch_id' = batch_id
      /\ result_mask' = PostMask
  BY DEF RunCommon, FinalizeBatch
<1>2. \A l \in Lanes : ~lane'[l].busy /\ ~lane'[l].start
  BY DEF FinalizeBatch, ControlInv, TypeOK, LaneType
<1>3. \A l \in Lanes : engine'[l].st = "idle"
  <2>1. EngineReset \/ \A l \in Lanes : ~lane[l].busy \/ DoneEvt(l)
    BY <1>1, AllDone DEF EngineReset
  <2> QED BY <2>1, EnginesRest, ControlSplit DEF DataInv
<1>4. ~shadow'.valid
  <2>1. ShadowStep \in ShadowType
    BY LoaderStepType, ControlSplit DEF CoreControl
  <2> QED BY <2>1 DEF FinalizeBatch, ShadowType
<1>5. AbortInv' /\ EngineInv'
  BY <1>2, <1>3, <1>4 DEF AbortInv, EngineInv
<1>6. \A j : JobVerdict(j)' <=> JobVerdict(j)
  BY DEF JobVerdict, Verifies
<1>7. ResultMaskSound'
  BY <1>1, <1>6, PostMaskSound DEF ResultMaskSound
<1>8. status' = [done |-> TRUE, error |-> code # ERR_NONE, result_valid |-> TRUE, code |-> code]
  BY DEF FinalizeBatch
<1>9. ResultMaskComplete'
  <2>1. SUFFICES ASSUME ramStable, code = ERR_NONE, NEW j \in 0 .. accepted_job_count - 1
                 PROVE  PostMask[j] = JobVerdict(j)
    BY <1>1, <1>6, <1>8 DEF ResultMaskComplete
  <2>2. /\ loader.nextJob = accepted_job_count /\ ~Loading
        /\ \A l \in Lanes : ~lane[l].busy \/ DoneEvt(l)
    BY <1>1, <2>1, AllDone
  <2>3. accepted_job_count \in 0 .. MaxJobs
    BY DEF ControlInv, TypeOK
  <2>4. j \in JobIndex /\ j < loader.nextJob
    BY <2>1, <2>2, <2>3, LaunchAssumption DEF JobIndex
  <2>5. Outstanding(j) \/ result_mask[j] = JobVerdict(j)
    BY <1>1, <2>1, <2>4 DEF DataInv, JudgedInv
  <2>6. Outstanding(j) => \E l \in Lanes : DoneEvt(l) /\ lane[l].job = j
    BY <2>2 DEF Outstanding
  <2> QED BY <1>1, <2>1, <2>4, <2>5, <2>6, Verdicts
<1>10. SnapshotCoherent'
  <2>1. snapshot' = [batch_id |-> batch_id, accepted |-> accepted_job_count,
                     completed |-> PostCompleted, dropped |-> counters.dropped,
                     error |-> code # ERR_NONE, result_valid |-> TRUE, code |-> code]
    BY DEF FinalizeBatch, Snapshot
  <2>2. counters'.completed = PostCompleted /\ counters'.dropped = counters.dropped
    BY DEF ControlInv, TypeOK, CountersType
  <2>3. /\ status'.error = (code # ERR_NONE)
        /\ status'.result_valid = TRUE /\ status'.code = code
    BY <1>8
  <2> QED BY <1>1, <2>1, <2>2, <2>3 DEF SnapshotCoherent
<1> QED BY <1>1, <1>5, <1>7, <1>9, <1>10 DEF DataInv, LoadedInv, LaneInv, JudgedInv

(* The watchdog ends a batch with what has been judged.                     *)
LEMMA TimeoutData ==
  ASSUME ControlInv, DataInv, RunTimeout, NEW fin, EnginesEdge(fin), UNCHANGED <<ram, cfg>>
  PROVE  DataInv'
<1>1. ERR_JOB_TIMEOUT # ERR_NONE
  BY DEF ERR_JOB_TIMEOUT, ERR_NONE
<1> QED BY <1>1, FinalizeData DEF RunTimeout

(* The last verdict ends it with all of them.                               *)
LEMMA FinishData ==
  ASSUME ControlInv, DataInv, RunFinish, NEW fin, EnginesEdge(fin), UNCHANGED <<ram, cfg>>
  PROVE  DataInv'
BY FinalizeData DEF RunFinish

(* An engine and its lane over an edge at which the batch goes on and the   *)
(* lane takes no job.                                                       *)
LEMMA EngineKeeps ==
  ASSUME ControlInv, DataInv, state = "RUN", verifier_abort' = FALSE,
         NEW fin, EnginesEdge(fin), NEW l \in Lanes, lane'[l] = LaneStep(l)
  PROVE  /\ lane'[l].start => lane'[l].busy
         /\ engine'[l].st # "idle" <=> lane'[l].busy /\ ~lane'[l].start
         /\ engine'[l].st # "idle" => engine'[l].operand = lane'[l].operand
         /\ engine'[l].st = "done" => engine'[l].verified = Verifies(engine'[l].operand)
<1>1. /\ lane'[l].busy <=> lane[l].busy /\ ~DoneEvt(l)
      /\ lane'[l].start = FALSE
      /\ lane'[l].operand = lane[l].operand
  BY LaneStepType, ControlSplit DEF CoreControl
<1>2. /\ lane[l].start => lane[l].busy
      /\ engine[l].st # "idle" <=> lane[l].busy /\ ~lane[l].start
      /\ engine[l].st # "idle" => engine[l].operand = lane[l].operand
      /\ engine[l].st = "done" => engine[l].verified = Verifies(engine[l].operand)
  BY DEF DataInv, EngineInv
<1>3. CASE verifier_abort
  <2>1. engine'[l].st = "idle" /\ ~lane[l].busy
    BY <1>3 DEF EnginesEdge, EngineReset, IdleEngine, DataInv, AbortInv
  <2> QED BY <1>1, <2>1
<1>4. CASE ~verifier_abort
  <2>1. engine'[l] = EngineNext(l, fin)
    BY <1>4 DEF EnginesEdge, EngineReset
  <2>2. engine[l] \in EngineType
    BY DEF ControlInv, TypeOK
  <2>3. CASE engine[l].st = "idle" /\ lane[l].start
    <3>1. engine'[l] = [st |-> "work", operand |-> lane[l].operand, verified |-> FALSE]
      BY <2>1, <2>3 DEF EngineNext
    <3>2. lane'[l].busy
      BY <1>1, <1>2, <2>3 DEF DoneEvt
    <3> QED BY <1>1, <3>1, <3>2
  <2>4. CASE engine[l].st = "idle" /\ ~lane[l].start
    <3>1. engine'[l] = engine[l] /\ ~lane[l].busy
      BY <1>2, <2>1, <2>4 DEF EngineNext
    <3> QED BY <1>1, <2>4, <3>1
  <2>5. CASE engine[l].st = "work"
    <3>1. /\ engine'[l].st \in {"work", "done"}
          /\ engine'[l].operand = engine[l].operand
          /\ engine'[l].st = "done" => engine'[l].verified = Verifies(engine[l].operand)
      BY <2>1, <2>2, <2>5 DEF EngineNext, EngineType
    <3>2. lane'[l].busy
      BY <1>1, <1>2, <2>5 DEF DoneEvt
    <3> QED BY <1>1, <1>2, <2>5, <3>1, <3>2
  <2>6. CASE engine[l].st = "done"
    <3>1. engine'[l].st = "idle" /\ ~lane'[l].busy
      BY <1>1, <1>2, <2>1, <2>2, <2>6 DEF EngineNext, EngineType, DoneEvt
    <3> QED BY <1>1, <3>1
  <2> QED BY <2>2, <2>3, <2>4, <2>5, <2>6 DEF EngineType
<1> QED BY <1>3, <1>4

(* The engine of a free lane is idle after the edge. *)
LEMMA EngineFrees ==
  ASSUME ControlInv, DataInv, NEW fin, EnginesEdge(fin), NEW l \in Lanes, FreeLane(l)
  PROVE  engine'[l].st = "idle"
<1>1. engine[l].st # "idle" <=> lane[l].busy /\ ~lane[l].start
  BY DEF DataInv, EngineInv
<1>2. lane[l].start => lane[l].busy
  BY DEF DataInv, EngineInv
<1>3. engine[l] \in EngineType
  BY DEF ControlInv, TypeOK
<1>4. CASE EngineReset
  BY <1>4 DEF EnginesEdge, IdleEngine
<1>5. CASE ~EngineReset /\ ~lane[l].busy
  BY <1>1, <1>2, <1>5 DEF EnginesEdge, EngineNext
<1>6. CASE ~EngineReset /\ DoneEvt(l)
  BY <1>3, <1>6 DEF EnginesEdge, EngineNext, DoneEvt, EngineType
<1> QED BY <1>4, <1>5, <1>6 DEF FreeLane

(* A job whose lane ends at this edge, or that had its verdict, has it. *)
LEMMA Settled ==
  ASSUME ControlInv, DataInv, state = "RUN", ramStable, NEW j \in JobIndex,
         result_mask[j] = JobVerdict(j) \/ \E l \in Lanes : DoneEvt(l) /\ lane[l].job = j
  PROVE  PostMask[j] = JobVerdict(j)
BY Verdicts

(* What the mask and the snapshot promise holds while the batch goes on. *)
LEMMA ContinueResults ==
  ASSUME ControlInv, DataInv, RunContinue, UNCHANGED <<ram, cfg>>
  PROVE  ResultMaskSound' /\ ResultMaskComplete' /\ SnapshotCoherent'
<1>1. /\ state = "RUN" /\ ramStable' = ramStable /\ status' = status
      /\ accepted_job_count' = accepted_job_count /\ result_mask' = PostMask
  BY DEF RunContinue, RunCommon
<1>2. ~status.done
  BY <1>1 DEF DataInv, SnapshotCoherent
<1>3. \A j : JobVerdict(j)' <=> JobVerdict(j)
  BY DEF JobVerdict, Verifies
<1>4. ResultMaskSound'
  BY <1>1, <1>3, PostMaskSound DEF ResultMaskSound
<1> QED BY <1>1, <1>2, <1>4 DEF ResultMaskComplete, SnapshotCoherent

(* The loader copies the image of its job, word by word. *)
LEMMA LoadedKeeps ==
  ASSUME ControlInv, DataInv, state = "RUN", state' = "RUN", ramStable' = ramStable,
         loader' = LoaderStep, shadow' = ShadowStep, JobRamEdge, UNCHANGED <<ram, cfg>>
  PROVE  LoadedInv'
<1> SUFFICES ASSUME ramStable
             PROVE  /\ loader'.state # "IDLE" =>
                         \A k \in WordIndex : k < loader'.word =>
                           shadow'.words[k] = ram[shadow'.job * JobWords + k]
                    /\ loader'.state \in {"WAIT", "CAPTURE"} =>
                         job_bram_dout' = ram[shadow'.job * JobWords + loader'.word]
                    /\ shadow'.valid => shadow'.words = Image(shadow'.job)
  BY DEF LoadedInv, Image
<1>1. /\ loader.state # "IDLE" =>
           \A k \in WordIndex : k < loader.word =>
             shadow.words[k] = ram[shadow.job * JobWords + k]
      /\ loader.state \in {"WAIT", "CAPTURE"} =>
           job_bram_dout = ram[shadow.job * JobWords + loader.word]
      /\ shadow.valid => shadow.words = Image(shadow.job)
  BY DEF DataInv, LoadedInv
<1>2. /\ loader \in LoaderType /\ shadow \in ShadowType
      /\ shadow'.job = shadow.job
  BY LoaderStepType, ControlSplit DEF CoreControl, CoreTypes
<1>3. /\ shadow.valid => loader.state = "IDLE"
      /\ loader.state # "IDLE" => loader.base = shadow.job * JobWords
  BY DEF ControlInv, LoaderInv
<1>4. CASE loader.state = "IDLE"
  <2>1. loader' = loader /\ shadow' = shadow
    BY <1>4 DEF LoaderStep, ShadowStep
  <2> QED BY <1>1, <1>4, <2>1
<1>5. CASE loader.state = "REQ"
  <2>1. /\ loader'.state = "WAIT" /\ loader'.word = loader.word /\ shadow' = shadow
        /\ job_bram_dout' = ram[loader.base + loader.word]
    BY <1>2, <1>5 DEF LoaderStep, ShadowStep, JobRamEdge, LoaderType
  <2> QED BY <1>1, <1>3, <1>5, <2>1
<1>6. CASE loader.state = "WAIT"
  <2>1. /\ loader'.state = "CAPTURE" /\ loader'.word = loader.word /\ shadow' = shadow
        /\ job_bram_dout' = job_bram_dout
    BY <1>2, <1>6 DEF LoaderStep, ShadowStep, JobRamEdge, LoaderType
  <2> QED BY <1>1, <1>3, <1>6, <2>1
<1>7. CASE loader.state = "CAPTURE"
  <2>1. /\ loader.word \in WordIndex
        /\ shadow.words \in [WordIndex -> Word]
    BY <1>2 DEF LoaderType, ShadowType, Operand
  <2>2. /\ shadow'.words = [shadow.words EXCEPT ![loader.word] = job_bram_dout]
        /\ ~shadow.valid
        /\ shadow'.valid <=> loader.word = JobWords - 1
    BY <1>2, <1>3, <1>7 DEF ShadowStep, ShadowType
  <2>3. \A k \in WordIndex : k < loader.word \/ k = loader.word =>
          shadow'.words[k] = ram[shadow.job * JobWords + k]
    BY <1>1, <1>7, <2>1, <2>2
  <2>4. CASE loader.word = JobWords - 1
    <3>1. loader'.state = "IDLE"
      BY <1>2, <1>7, <2>4 DEF LoaderStep, LoaderType
    <3>2. \A k \in WordIndex : k < loader.word \/ k = loader.word
      BY <2>4, CoreAssumption DEF WordIndex
    <3>3. \A k \in WordIndex : shadow'.words[k] = ram[shadow.job * JobWords + k]
      BY <2>3, <3>2
    <3>4. shadow'.words \in [WordIndex -> Word]
      BY <2>1, <2>2, ControlSplit DEF EnvTypes
    <3>5. shadow'.words = Image(shadow.job)
      BY <3>3, <3>4 DEF Image
    <3> QED BY <1>2, <3>1, <3>5
  <2>5. CASE loader.word # JobWords - 1
    <3>1. loader'.state = "REQ" /\ loader'.word = loader.word + 1
      BY <1>2, <1>7, <2>5 DEF LoaderStep, LoaderType
    <3>2. \A k \in WordIndex : k < loader.word + 1 => k < loader.word \/ k = loader.word
      BY <2>1, CoreAssumption DEF WordIndex
    <3> QED BY <1>2, <2>2, <2>3, <2>5, <3>1, <3>2
  <2> QED BY <2>4, <2>5
<1> QED BY <1>2, <1>4, <1>5, <1>6, <1>7 DEF LoaderType

(* A wait collects the verdicts of the lanes that answered.                 *)
LEMMA WaitData ==
  ASSUME ControlInv, DataInv, RunWait, NEW fin, EnginesEdge(fin), JobRamEdge,
         UNCHANGED <<ram, cfg>>
  PROVE  DataInv'
<1>1. /\ state = "RUN" /\ state' = "RUN" /\ ramStable' = ramStable
      /\ verifier_abort' = FALSE /\ result_mask' = PostMask
      /\ loader' = LoaderStep /\ shadow' = ShadowStep
      /\ \A l \in Lanes : lane'[l] = LaneStep(l)
  BY DEF RunWait, RunContinue, RunCommon
<1>2. \A l \in Lanes : /\ lane'[l].busy <=> lane[l].busy /\ ~DoneEvt(l)
                       /\ lane'[l].job = lane[l].job
                       /\ lane'[l].operand = lane[l].operand
  BY <1>1, LaneStepType, ControlSplit DEF CoreControl
<1>3. loader'.nextJob = loader.nextJob /\ shadow'.job = shadow.job
  BY <1>1, LoaderStepType, ControlSplit DEF CoreControl
<1>4. AbortInv'
  BY <1>1 DEF AbortInv
<1>5. EngineInv'
  BY <1>1, EngineKeeps DEF EngineInv
<1>6. LoadedInv'
  BY <1>1, LoadedKeeps
<1>7. LaneInv'
  <2>1. SUFFICES ASSUME NEW l \in Lanes, lane'[l].busy
                 PROVE  /\ lane'[l].job < loader'.nextJob
                        /\ ramStable => lane'[l].operand = Image(lane'[l].job)
    BY <1>1 DEF LaneInv, Image
  <2> QED BY <1>1, <1>2, <1>3, <2>1 DEF DataInv, LaneInv
<1>8. JudgedInv'
  <2>1. SUFFICES ASSUME ramStable, NEW j \in JobIndex, j < loader.nextJob
                 PROVE  Outstanding(j)' \/ PostMask[j] = JobVerdict(j)
    BY <1>1, <1>3 DEF JudgedInv, JobVerdict, Verifies
  <2>2. CASE Loading /\ shadow.job = j
    <3>1. Loading'
      BY <1>1, <2>2, LoaderProgress, ControlSplit DEF Loading
    <3> QED BY <1>3, <2>2, <3>1 DEF Outstanding
  <2>3. ASSUME NEW l \in Lanes, lane[l].busy, lane[l].job = j
        PROVE  Outstanding(j)' \/ PostMask[j] = JobVerdict(j)
    BY <1>1, <1>2, <2>1, <2>3, Settled DEF Outstanding
  <2>4. CASE result_mask[j] = JobVerdict(j)
    BY <1>1, <2>1, <2>4, Settled
  <2> QED BY <1>1, <2>1, <2>2, <2>3, <2>4 DEF DataInv, JudgedInv, Outstanding
<1>9. ResultMaskSound' /\ ResultMaskComplete' /\ SnapshotCoherent'
  BY ContinueResults DEF RunWait
<1> QED BY <1>4, <1>5, <1>6, <1>7, <1>8, <1>9 DEF DataInv

(* A dispatch hands out the next job.                                       *)
LEMMA DispatchData ==
  ASSUME ControlInv, DataInv, NEW l \in Lanes, RunDispatch(l), NEW fin, EnginesEdge(fin),
         UNCHANGED <<ram, cfg>>
  PROVE  DataInv'
<1>1. /\ state = "RUN" /\ state' = "RUN" /\ ramStable' = ramStable
      /\ verifier_abort' = FALSE /\ result_mask' = PostMask
      /\ shadow.valid /\ FreeLane(l)
  BY DEF RunDispatch, RunContinue, RunCommon, DispatchesTo, Lanes
<1>2. lane'[l] = [busy |-> TRUE, start |-> TRUE, job |-> shadow.job,
                  operand |-> shadow.words, cycles |-> 0]
  BY DEF RunDispatch
<1>3. \A x \in Lanes \ {l} : /\ lane'[x] = LaneStep(x)
                             /\ lane'[x].busy <=> lane[x].busy /\ ~DoneEvt(x)
                             /\ lane'[x].job = lane[x].job
                             /\ lane'[x].operand = lane[x].operand
  BY LaneStepType, ControlSplit DEF RunDispatch, CoreControl
<1>4. loader \in LoaderType /\ shadow \in ShadowType /\ accepted_job_count \in 0 .. MaxJobs
  BY ControlSplit DEF CoreControl, CoreTypes
<1>5. LoaderStep = loader /\ ShadowStep = shadow /\ loader.state = "IDLE"
  BY <1>1, LoaderProgress, ControlSplit DEF CoreControl, LoaderInv
<1>6. shadow.job \in Nat /\ loader.nextJob = shadow.job + 1
  BY <1>1, <1>4, LaunchAssumption DEF ControlInv, LoaderInv, Loading, ShadowType, JobIndex
<1>7. \/ /\ loader'.state = "REQ" /\ loader'.word = 0 /\ loader'.nextJob = loader.nextJob + 1
         /\ shadow'.job = loader.nextJob /\ ~shadow'.valid
      \/ /\ loader'.state = "IDLE" /\ loader'.nextJob = loader.nextJob /\ ~shadow'.valid
  <2>1. CASE MoreToLoad
    BY <2>1 DEF RunDispatch, KickedShadow
  <2>2. CASE ~MoreToLoad
    <3>1. loader' = loader /\ shadow' = [shadow EXCEPT !.valid = FALSE]
      BY <1>5, <2>2 DEF RunDispatch
    <3> QED BY <1>4, <1>5, <3>1 DEF ShadowType
  <2> QED BY <2>1, <2>2
<1>8. AbortInv'
  BY <1>1 DEF AbortInv
<1>9. EngineInv'
  <2>1. engine'[l].st = "idle"
    BY <1>1, EngineFrees
  <2>2. ASSUME NEW x \in Lanes \ {l}
        PROVE  /\ lane'[x].start => lane'[x].busy
               /\ engine'[x].st # "idle" <=> lane'[x].busy /\ ~lane'[x].start
               /\ engine'[x].st # "idle" => engine'[x].operand = lane'[x].operand
               /\ engine'[x].st = "done" => engine'[x].verified = Verifies(engine'[x].operand)
    BY <1>1, <1>3, <2>2, EngineKeeps
  <2> QED BY <1>2, <2>1, <2>2 DEF EngineInv
<1>10. LoadedInv'
  BY <1>7, CoreAssumption DEF LoadedInv, WordIndex
<1>11. ramStable => shadow.words = Image(shadow.job)
  BY <1>1 DEF DataInv, LoadedInv
<1>12. LaneInv'
  <2>1. SUFFICES ASSUME NEW x \in Lanes, lane'[x].busy
                 PROVE  /\ lane'[x].job < loader'.nextJob
                        /\ ramStable => lane'[x].operand = Image(lane'[x].job)
    BY <1>1 DEF LaneInv, Image
  <2>2. CASE x = l
    <3>1. lane'[x].job = shadow.job /\ lane'[x].operand = shadow.words
      BY <1>2, <2>2
    <3>2. shadow.job < loader'.nextJob
      BY <1>6, <1>7
    <3> QED BY <1>11, <3>1, <3>2
  <2>3. CASE x # l
    <3>1. /\ lane[x].busy /\ lane'[x].job = lane[x].job /\ lane'[x].operand = lane[x].operand
      BY <1>3, <2>1, <2>3
    <3>2. lane[x].job < loader.nextJob /\ (ramStable => lane[x].operand = Image(lane[x].job))
      BY <1>1, <3>1 DEF DataInv, LaneInv
    <3>3. lane[x].job \in Nat
      BY LaunchAssumption DEF ControlInv, TypeOK, LaneType, JobIndex
    <3>4. lane[x].job < loader'.nextJob
      BY <1>6, <1>7, <3>2, <3>3
    <3> QED BY <3>1, <3>2, <3>4
  <2> QED BY <2>2, <2>3
<1>13. JudgedInv'
  <2>1. SUFFICES ASSUME ramStable, NEW j \in JobIndex, j < loader'.nextJob
                 PROVE  Outstanding(j)' \/ PostMask[j] = JobVerdict(j)
    BY <1>1 DEF JudgedInv, JobVerdict, Verifies
  <2>2. j \in Nat
    BY LaunchAssumption DEF JobIndex
  <2>3. CASE j < loader.nextJob
    <3>1. CASE shadow.job = j
      BY <1>2, <3>1 DEF Outstanding
    <3>2. ASSUME NEW x \in Lanes, lane[x].busy, lane[x].job = j
          PROVE  Outstanding(j)' \/ PostMask[j] = JobVerdict(j)
      <4>1. CASE DoneEvt(x)
        BY <1>1, <2>1, <3>2, <4>1, Settled
      <4>2. CASE ~DoneEvt(x)
        <5>1. x # l
          BY <1>1, <3>2, <4>2 DEF FreeLane
        <5> QED BY <1>3, <3>2, <4>2, <5>1 DEF Outstanding
      <4> QED BY <4>1, <4>2
    <3>3. CASE result_mask[j] = JobVerdict(j)
      BY <1>1, <2>1, <3>3, Settled
    <3> QED BY <1>1, <2>1, <2>3, <3>1, <3>2, <3>3 DEF DataInv, JudgedInv, Outstanding
  <2>4. CASE ~(j < loader.nextJob)
    <3>1. /\ loader'.state = "REQ" /\ loader'.nextJob = loader.nextJob + 1
          /\ shadow'.job = loader.nextJob
      BY <1>7, <2>1, <2>4
    <3>2. j = loader.nextJob
      BY <1>6, <2>1, <2>2, <2>4, <3>1
    <3> QED BY <3>1, <3>2 DEF Outstanding, Loading
  <2> QED BY <2>3, <2>4
<1>14. ResultMaskSound' /\ ResultMaskComplete' /\ SnapshotCoherent'
  BY ContinueResults DEF RunDispatch
<1> QED BY <1>8, <1>9, <1>10, <1>12, <1>13, <1>14 DEF DataInv

(* Hence every clock edge of the core keeps the data half.                  *)
LEMMA CoreEdgeData ==
  ASSUME ControlInv, DataInv, NEW start \in BOOLEAN, NEW soft_reset \in BOOLEAN,
         NEW fin, Edge(start, soft_reset, fin)
  PROVE  DataInv'
<1>1. /\ CoreEdge(start, soft_reset) /\ EnginesEdge(fin) /\ JobRamEdge
      /\ UNCHANGED <<ram, cfg>>
  BY DEF Edge
<1>2. CASE ResetThenStart
  BY <1>1, <1>2, LaunchData DEF ResetThenStart
<1>3. CASE SoftReset
  BY <1>1, <1>3, SoftResetData
<1>4. CASE IdleStart
  BY <1>1, <1>4, LaunchData DEF IdleStart
<1>5. CASE Idle
  BY <1>1, <1>5, IdleData
<1>6. CASE RunTimeout
  BY <1>1, <1>6, TimeoutData
<1>7. CASE RunFinish
  BY <1>1, <1>7, FinishData
<1>8. ASSUME NEW l \in Lanes, RunDispatch(l) PROVE DataInv'
  BY <1>1, <1>8, DispatchData
<1>9. CASE RunWait
  BY <1>1, <1>9, WaitData
<1> QED BY <1>1, <1>2, <1>3, <1>4, <1>5, <1>6, <1>7, <1>8, <1>9 DEF CoreEdge, Run

(* The data half holds after reset.                                         *)
LEMMA InitData == Init => DataInv
<1> SUFFICES ASSUME Init PROVE DataInv
  OBVIOUS
<1>1. \A l \in Lanes : ~lane[l].busy /\ ~lane[l].start /\ engine[l].st = "idle"
  BY DEF Init, IdleLane, IdleEngine
<1>2. state = "IDLE" /\ ~status.done /\ ~verifier_abort /\ (\A j \in JobIndex : ~result_mask[j])
  BY DEF Init, QuietStatus, NoResults
<1> QED BY <1>1, <1>2
        DEF DataInv, AbortInv, EngineInv, LoadedInv, LaneInv, JudgedInv, ResultMaskSound,
            ResultMaskComplete, SnapshotCoherent

(* The host rewrites the job RAM: ramStable falls, and with it every claim  *)
(* about what the RAM holds.                                                *)
LEMMA WriteJobsData ==
  ASSUME DataInv, HostWriteJobs
  PROVE  DataInv'
BY DEF HostWriteJobs, coreVars, DataInv, AbortInv, EngineInv, LoadedInv, LaneInv, JudgedInv,
       ResultMaskSound, ResultMaskComplete, SnapshotCoherent, Verifies

(* The environment's own steps leave it alone.                              *)
LEMMA KeepData ==
  ASSUME DataInv, UNCHANGED <<coreVars, engine, job_bram_dout, ram, ramStable>>
  PROVE  DataInv'
<1>1. AbortInv' /\ EngineInv' /\ LaneInv'
  BY DEF coreVars, DataInv, AbortInv, EngineInv, LaneInv, Image, Verifies
<1>2. LoadedInv'
  BY DEF coreVars, DataInv, LoadedInv, Image
<1>3. \A j : (JobVerdict(j)' <=> JobVerdict(j)) /\ (Outstanding(j)' <=> Outstanding(j))
  BY DEF coreVars, JobVerdict, Verifies, Outstanding, Loading
<1>4. /\ state' = state /\ status' = status /\ loader' = loader /\ ramStable' = ramStable
      /\ result_mask' = result_mask /\ accepted_job_count' = accepted_job_count
  BY DEF coreVars
<1>5. JudgedInv'
  BY <1>3, <1>4 DEF DataInv, JudgedInv, JobVerdict
<1>6. ResultMaskSound' /\ ResultMaskComplete'
  BY <1>3, <1>4 DEF DataInv, ResultMaskSound, ResultMaskComplete, JobVerdict
<1>7. SnapshotCoherent'
  BY DEF coreVars, DataInv, SnapshotCoherent
<1> QED BY <1>1, <1>2, <1>5, <1>6, <1>7 DEF DataInv

(* Every step keeps the data half.                                          *)
LEMMA StepData == ControlInv /\ DataInv /\ [Next]_vars => DataInv'
<1> SUFFICES ASSUME ControlInv, DataInv, [Next]_vars PROVE DataInv'
  OBVIOUS
<1>1. CASE Tick
  BY <1>1, CoreEdgeData DEF Tick
<1>2. CASE HostWriteJobs
  BY <1>2, WriteJobsData
<1>3. CASE HostConfigure
  BY <1>3, KeepData DEF HostConfigure
<1>4. CASE UNCHANGED vars
  BY <1>4, KeepData DEF vars
<1> QED BY <1>1, <1>2, <1>3, <1>4 DEF Next

(* The registers of the loader, the lanes and the engines agree between any *)
(* two clock edges, through launches, aborts, timeouts and host writes.     *)
THEOREM IndInvariant == Spec => []IndInv
<1>1. Init => IndInv
  BY InitControl, InitData DEF IndInv
<1>2. IndInv /\ [Next]_vars => IndInv'
  BY StepControl, StepData DEF IndInv
<1> QED BY <1>1, <1>2, PTL DEF Spec

(* A bit of the result mask is set only for an accepted job whose operands  *)
(* verify: no aborted engine and no earlier batch ever writes it.           *)
THEOREM MaskSound == Spec => []ResultMaskSound
<1>1. IndInv => ResultMaskSound
  BY DEF IndInv, DataInv
<1> QED BY <1>1, IndInvariant, PTL

(* A batch that completes without error has the verdict of every accepted   *)
(* job in its mask.                                                         *)
THEOREM MaskComplete == Spec => []ResultMaskComplete
<1>1. IndInv => ResultMaskComplete
  BY DEF IndInv, DataInv
<1> QED BY <1>1, IndInvariant, PTL

(* While done is up the snapshot is that of this batch, and agrees with the *)
(* live status the host has polled.                                         *)
THEOREM SnapshotOfThisBatch == Spec => []SnapshotCoherent
<1>1. IndInv => SnapshotCoherent
  BY DEF IndInv, DataInv
<1> QED BY <1>1, IndInvariant, PTL

(***************************************************************************)
(* The watchdog, which needs the control part alone.                       *)
(***************************************************************************)

(* A job that stays in its lane at an edge without a timeout is still under *)
(* the limit after it.                                                      *)
LEMMA StaysInTime ==
  ASSUME TypeOK, cfg.timeout # 0, NEW l \in Lanes, ~TimedOut(l), LaneStep(l).busy
  PROVE  LaneStep(l).cycles < cfg.timeout
<1>1. lane[l] \in LaneType /\ cfg.timeout \in Nat
  BY CoreAssumption DEF TypeOK, Config
<1>2. LaneStep(l).busy <=> lane[l].busy /\ ~DoneEvt(l)
  BY <1>1 DEF LaneStep, LaneType, DoneEvt
<1>3. LaneStep(l).cycles = CountCycle(lane[l].cycles)
  BY <1>1, <1>2 DEF LaneStep, LaneType
<1>4. lane[l].cycles \in Nat /\ ~(lane[l].cycles + 1 >= cfg.timeout)
  BY <1>1, <1>2, CoreAssumption DEF TimedOut, LaneType
<1>5. CountCycle(lane[l].cycles) < cfg.timeout
  BY <1>1, <1>4, CoreAssumption DEF CountCycle
<1> QED BY <1>3, <1>5

(* The watchdog's bound is kept by every step.                              *)
LEMMA StepWatchdog == ControlInv /\ WatchdogInTime /\ [Next]_vars => WatchdogInTime'
<1> SUFFICES ASSUME ControlInv, WatchdogInTime, [Next]_vars,
                    cfg'.timeout # 0, NEW l \in Lanes, lane'[l].busy, state' = "RUN"
             PROVE  lane'[l].cycles < cfg'.timeout
  BY DEF WatchdogInTime
<1>1. CASE Tick
  <2>1. PICK start \in BOOLEAN, soft_reset \in BOOLEAN, fin \in SUBSET Working :
          Edge(start, soft_reset, fin)
    BY <1>1 DEF Tick
  <2>2. cfg' = cfg /\ CoreEdge(start, soft_reset)
    BY <2>1 DEF Edge
  <2>3. (\E x \in Lanes : RunDispatch(x)) \/ RunWait
    <3>1. ASSUME NEW clear \in BOOLEAN, LaunchBatch(clear) PROVE FALSE
      BY <3>1 DEF LaunchBatch, IdleLane
    <3>2. ~ResetThenStart /\ ~IdleStart
      BY <3>1 DEF ResetThenStart, IdleStart
    <3>3. ~SoftReset /\ ~Idle /\ ~RunTimeout /\ ~RunFinish
      BY DEF SoftReset, Idle, RunTimeout, RunFinish, FinalizeBatch
    <3> QED BY <2>2, <3>2, <3>3 DEF CoreEdge, Run
  <2>4. ~TimedOut(l)
    BY <2>3 DEF RunDispatch, RunWait, RunContinue, SomeTimedOut
  <2>5. CASE lane'[l] = LaneStep(l)
    BY <2>2, <2>4, <2>5, StaysInTime DEF ControlInv
  <2>6. CASE lane'[l].cycles = 0
    BY <2>2, <2>6, CoreAssumption DEF ControlInv, TypeOK, Config
  <2> QED BY <2>3, <2>5, <2>6 DEF RunDispatch, RunWait
<1>2. CASE HostWriteJobs
  BY <1>2 DEF HostWriteJobs, coreVars, WatchdogInTime
<1>3. CASE HostConfigure
  BY <1>3 DEF HostConfigure, coreVars
<1>4. CASE UNCHANGED vars
  BY <1>4 DEF vars, coreVars, WatchdogInTime
<1> QED BY <1>1, <1>2, <1>3, <1>4 DEF Next

(* No job reaches the watchdog limit in a batch that goes on. *)
THEOREM WatchdogNeverLate == Spec => []WatchdogInTime
<1>1. Init => WatchdogInTime
  BY DEF Init, WatchdogInTime
<1>2. ControlInv /\ WatchdogInTime /\ [Next]_vars => WatchdogInTime'
  BY StepWatchdog
<1> QED BY <1>1, <1>2, ControlInvariant, PTL DEF Spec

(***************************************************************************)
(* How long a batch lasts with the watchdog on: every edge of it leaves    *)
(* fewer to come, whatever the engines do.                                 *)
(***************************************************************************)

(* A job takes three edges per word in the loader, one in the shadow slot   *)
(* and at most the limit in its lane.                                       *)
JobEdges == 3 * JobWords + 1 + cfg.timeout

(* The edges the loader has to go before its job is in the shadow slot.     *)
LoadLeft ==
  CASE loader.state = "REQ"     -> 3 * (JobWords - loader.word)
    [] loader.state = "WAIT"    -> 3 * (JobWords - loader.word) - 1
    [] loader.state = "CAPTURE" -> 3 * (JobWords - loader.word) - 2
    [] OTHER                    -> 0

SlotLeft    == IF Loading THEN LoadLeft + 1 + cfg.timeout ELSE 0
LaneLeft(l) == IF lane[l].busy THEN cfg.timeout - lane[l].cycles ELSE 0

(* An upper bound of the edges a batch with a watchdog can still take.      *)
EdgesLeft ==
  IF state = "RUN"
  THEN (accepted_job_count - loader.nextJob) * JobEdges + SlotLeft + LaneLeft(0) + LaneLeft(1)
  ELSE 0

(* A batch that runs has a job to complete: its last one ends it.           *)
Unended == state = "RUN" => batch_completed_count < accepted_job_count

(* Every step keeps it.                                                     *)
LEMMA StepUnended == ControlInv /\ Unended /\ [Next]_vars => Unended'
<1> SUFFICES ASSUME ControlInv, Unended, [Next]_vars, state' = "RUN"
             PROVE  batch_completed_count' < accepted_job_count'
  BY DEF Unended
<1>1. CASE Tick
  <2>1. PICK start \in BOOLEAN, soft_reset \in BOOLEAN : CoreEdge(start, soft_reset)
    BY <1>1 DEF Tick, Edge
  <2>2. ASSUME NEW clear \in BOOLEAN, LaunchBatch(clear)
        PROVE  batch_completed_count' < accepted_job_count'
    <3>1. batch_completed_count' = 0 /\ AcceptBatch(clear)
      BY <2>2 DEF LaunchBatch, RejectBatch
    <3>2. cfg \in Config
      BY CoreAssumption DEF ControlInv, TypeOK
    <3> QED BY <3>1, <3>2, DispatchType, LaunchAssumption DEF AcceptBatch
  <2>3. ASSUME RunContinue
        PROVE  batch_completed_count' < accepted_job_count'
    <3>1. /\ state = "RUN" /\ batch_completed_count' = PostBatchCompleted
          /\ accepted_job_count' = accepted_job_count /\ PostBatchCompleted # accepted_job_count
      BY <2>3 DEF RunContinue, RunCommon
    <3>2. PostBatchCompleted \in 0 .. accepted_job_count /\ accepted_job_count \in 0 .. MaxJobs
      BY <3>1, ControlSplit, RunSums DEF CoreControl, CoreTypes
    <3> QED BY <3>1, <3>2
  <2>4. ~SoftReset /\ ~Idle /\ ~RunTimeout /\ ~RunFinish
    BY DEF SoftReset, Idle, RunTimeout, RunFinish, FinalizeBatch
  <2> QED BY <2>1, <2>2, <2>3, <2>4
          DEF CoreEdge, Run, ResetThenStart, IdleStart, RunDispatch, RunWait
<1>2. CASE HostWriteJobs
  BY <1>2 DEF HostWriteJobs, coreVars, Unended
<1>3. CASE HostConfigure
  BY <1>3 DEF HostConfigure, coreVars
<1>4. CASE UNCHANGED vars
  BY <1>4 DEF vars, coreVars, Unended
<1> QED BY <1>1, <1>2, <1>3, <1>4 DEF Next

(* Jobs cost the same wherever they are counted.                            *)
LEMMA OneMoreJob ==
  ASSUME NEW n \in Nat, NEW c \in Nat
  PROVE  (n + 1) * c = n * c + c /\ n * c \in Nat
OBVIOUS

(* The ranges of what is left in the slot and in a lane. *)
LEMMA PartsLeft ==
  ASSUME ControlInv, WatchdogInTime, cfg.timeout # 0, state = "RUN"
  PROVE  /\ cfg.timeout \in Nat \ {0} /\ JobEdges \in Nat
         /\ SlotLeft \in 0 .. JobEdges
         /\ Loading => SlotLeft >= 1 + cfg.timeout
         /\ ~Loading => SlotLeft = 0
         /\ loader.state = "IDLE" => LoadLeft = 0
         /\ \A l \in Lanes : /\ LaneLeft(l) \in 0 .. cfg.timeout
                             /\ LaneLeft(l) = 0 <=> ~lane[l].busy
<1>1. cfg.timeout \in Nat \ {0} /\ JobWords \in Nat \ {0}
  BY CoreAssumption DEF ControlInv, TypeOK, Config
<1>2. loader.word \in 0 .. JobWords - 1 /\ loader.state \in {"IDLE", "REQ", "WAIT", "CAPTURE"}
  BY DEF ControlInv, TypeOK, LoaderType, WordIndex
<1>3. LoadLeft \in 0 .. 3 * JobWords /\ (loader.state = "IDLE" => LoadLeft = 0)
  BY <1>1, <1>2 DEF LoadLeft
<1>4. ASSUME NEW l \in Lanes
      PROVE  LaneLeft(l) \in 0 .. cfg.timeout /\ (LaneLeft(l) = 0 <=> ~lane[l].busy)
  <2>1. lane[l].cycles \in Nat /\ lane[l].busy \in BOOLEAN
    BY CoreAssumption DEF ControlInv, TypeOK, LaneType
  <2>2. lane[l].busy => lane[l].cycles < cfg.timeout
    BY DEF WatchdogInTime
  <2> QED BY <1>1, <2>1, <2>2 DEF LaneLeft
<1> QED BY <1>1, <1>3, <1>4 DEF SlotLeft, JobEdges

(* What is left of a batch is no more than its open jobs cost, and only a   *)
(* batch that has ended has nothing left.                                   *)
LEMMA BatchBound ==
  ASSUME ControlInv, WatchdogInTime, Unended, cfg.timeout # 0
  PROVE  /\ EdgesLeft \in 0 .. accepted_job_count * JobEdges
         /\ EdgesLeft = 0 <=> state = "IDLE"
<1>1. accepted_job_count \in Nat /\ state \in {"IDLE", "RUN"}
  BY DEF ControlInv, TypeOK
<1>2. JobEdges \in Nat
  BY CoreAssumption DEF ControlInv, TypeOK, Config, JobEdges
<1>3. accepted_job_count * JobEdges \in Nat
  BY <1>1, <1>2, OneMoreJob
<1>4. CASE state = "RUN"
  <2> DEFINE open   == accepted_job_count - loader.nextJob
             a      == Bit(lane[0].busy)
             b      == Bit(lane[1].busy)
             s      == Bit(Loading)
             closed == batch_completed_count
             c      == JobEdges
  <2>1. 0 \in Lanes /\ 1 \in Lanes
    BY DEF Lanes
  <2>2. /\ SlotLeft \in 0 .. c /\ (SlotLeft = 0 <=> s = 0)
        /\ LaneLeft(0) \in 0 .. c /\ (LaneLeft(0) = 0 <=> a = 0)
        /\ LaneLeft(1) \in 0 .. c /\ (LaneLeft(1) = 0 <=> b = 0)
    <3>1. cfg.timeout \in Nat \ {0} /\ JobWords \in Nat /\ c = 3 * JobWords + 1 + cfg.timeout
      BY <1>4, PartsLeft, CoreAssumption DEF JobEdges
    <3>2. /\ SlotLeft \in 0 .. c
          /\ Loading => SlotLeft >= 1 + cfg.timeout
          /\ ~Loading => SlotLeft = 0
      BY <1>4, PartsLeft
    <3>3. /\ LaneLeft(0) \in 0 .. cfg.timeout /\ (LaneLeft(0) = 0 <=> ~lane[0].busy)
          /\ LaneLeft(1) \in 0 .. cfg.timeout /\ (LaneLeft(1) = 0 <=> ~lane[1].busy)
      BY <1>4, <2>1, PartsLeft
    <3> HIDE DEF c
    <3> QED BY <3>1, <3>2, <3>3 DEF Bit
  <2>3. /\ open \in Nat /\ closed \in Nat /\ closed < accepted_job_count
        /\ accepted_job_count = open + closed + a + b + s
        /\ s = 0 => open = 0
        /\ a \in {0, 1} /\ b \in {0, 1} /\ s \in {0, 1}
    BY <1>4 DEF ControlInv, JobConservation, Unended, TypeOK, LoaderType, Bit
  <2>4. EdgesLeft = open * c + SlotLeft + LaneLeft(0) + LaneLeft(1)
    BY <1>4 DEF EdgesLeft
  <2>5. open * c \in Nat /\ closed * c \in Nat /\ c \in Nat
    BY <1>2, <2>3, OneMoreJob
  <2> HIDE DEF open, a, b, s, closed, c
  <2>6. accepted_job_count * c = open * c + closed * c + a * c + b * c + s * c
    BY <2>3, <2>5
  <2>7. /\ SlotLeft <= s * c /\ LaneLeft(0) <= a * c /\ LaneLeft(1) <= b * c
        /\ a * c \in Nat /\ b * c \in Nat /\ s * c \in Nat
    BY <2>2, <2>3, <2>5
  <2>8. EdgesLeft \in 0 .. accepted_job_count * c
    BY <2>2, <2>4, <2>5, <2>6, <2>7
  <2>9. EdgesLeft # 0
    <3>1. a # 0 \/ b # 0 \/ s # 0
      BY <1>1, <2>3
    <3> QED BY <2>2, <2>4, <2>5, <3>1
  <2> QED BY <1>4, <2>8, <2>9 DEF c
<1>5. CASE state = "IDLE"
  BY <1>3, <1>5 DEF EdgesLeft
<1> QED BY <1>1, <1>4, <1>5

(* A lane that is not given a job has less left, or nothing as before.      *)
LEMMA LaneFewer ==
  ASSUME ControlInv, WatchdogInTime, cfg.timeout # 0, cfg' = cfg, state = "RUN",
         NEW l \in Lanes, ~TimedOut(l), lane'[l] = LaneStep(l)
  PROVE  /\ LaneLeft(l)' \in Nat /\ LaneLeft(l)' <= LaneLeft(l)
         /\ lane[l].busy => LaneLeft(l)' < LaneLeft(l)
<1>1. /\ lane[l] \in LaneType /\ cfg.timeout \in Nat \ {0} /\ cfg.timeout <= CycleCap
      /\ CycleCap \in Nat
  BY CoreAssumption DEF ControlInv, TypeOK, Config
<1>2. /\ LaneLeft(l) \in 0 .. cfg.timeout /\ (LaneLeft(l) = 0 <=> ~lane[l].busy)
      /\ lane[l].busy => lane[l].cycles < cfg.timeout
  BY PartsLeft DEF WatchdogInTime
<1>3. LaneLeft(l)' = IF lane'[l].busy THEN cfg.timeout - lane'[l].cycles ELSE 0
  BY DEF LaneLeft
<1>4. lane'[l].busy <=> lane[l].busy /\ ~DoneEvt(l)
  BY LaneStepType, ControlSplit DEF CoreControl
<1>5. CASE lane'[l].busy
  <2>1. lane'[l].cycles = lane[l].cycles + 1
    BY <1>1, <1>2, <1>4, <1>5 DEF LaneStep, LaneType, CountCycle
  <2>2. lane'[l].cycles < cfg.timeout
    BY <1>5, StaysInTime DEF ControlInv
  <2>3. LaneLeft(l) = cfg.timeout - lane[l].cycles /\ lane[l].cycles \in Nat
    BY <1>1, <1>4, <1>5 DEF LaneLeft, LaneType
  <2> QED BY <1>1, <1>3, <1>5, <2>1, <2>2, <2>3
<1>6. CASE ~lane'[l].busy
  BY <1>1, <1>2, <1>3, <1>6
<1> QED BY <1>5, <1>6

(* The loader that is not idle has an edge less to go.                      *)
LEMMA SlotFewer ==
  ASSUME ControlInv, WatchdogInTime, cfg.timeout # 0, cfg' = cfg, state = "RUN",
         loader' = LoaderStep, shadow' = ShadowStep
  PROVE  /\ SlotLeft' \in Int /\ SlotLeft' <= SlotLeft
         /\ loader.state # "IDLE" => SlotLeft' < SlotLeft
<1>1. Loading' <=> Loading
  BY ControlSplit, LoaderProgress DEF Loading
<1>2. cfg.timeout \in Nat /\ JobWords \in Nat \ {0} /\ loader \in LoaderType
  BY CoreAssumption DEF ControlInv, TypeOK, Config
<1>3. loader.word \in 0 .. JobWords - 1 /\ loader.state \in {"IDLE", "REQ", "WAIT", "CAPTURE"}
  BY <1>2 DEF LoaderType, WordIndex
<1>4. /\ LoadLeft \in Int /\ LoadLeft' \in Int /\ LoadLeft' <= LoadLeft
      /\ loader.state # "IDLE" => LoadLeft' = LoadLeft - 1
  <2>1. CASE loader.state = "REQ"
    BY <1>2, <1>3, <2>1 DEF LoaderStep, LoadLeft, LoaderType
  <2>2. CASE loader.state = "WAIT"
    BY <1>2, <1>3, <2>2 DEF LoaderStep, LoadLeft, LoaderType
  <2>3. CASE loader.state = "CAPTURE"
    BY <1>2, <1>3, <2>3 DEF LoaderStep, LoadLeft, LoaderType
  <2>4. CASE loader.state = "IDLE"
    BY <1>2, <1>3, <2>4 DEF LoaderStep, LoadLeft, LoaderType
  <2> QED BY <1>3, <2>1, <2>2, <2>3, <2>4
<1>5. loader.state # "IDLE" => Loading
  BY DEF Loading
<1> QED BY <1>1, <1>2, <1>4, <1>5 DEF SlotLeft

(* An edge that dispatches nothing finds a lane or the loader at work.      *)
LEMMA WaitFewer ==
  ASSUME ControlInv, WatchdogInTime, Unended, cfg.timeout # 0, cfg' = cfg, RunWait
  PROVE  EdgesLeft' < EdgesLeft
<1>1. /\ state = "RUN" /\ state' = "RUN" /\ accepted_job_count' = accepted_job_count
      /\ loader' = LoaderStep /\ shadow' = ShadowStep
  BY DEF RunWait, RunContinue, RunCommon
<1>2. 0 \in Lanes /\ 1 \in Lanes
  BY DEF Lanes
<1>3. /\ ~TimedOut(0) /\ ~TimedOut(1)
      /\ lane'[0] = LaneStep(0) /\ lane'[1] = LaneStep(1)
  BY <1>2 DEF RunWait, RunContinue, SomeTimedOut
<1>4. lane[0].busy \/ lane[1].busy \/ loader.state # "IDLE"
  <2> SUFFICES ASSUME ~lane[0].busy, ~lane[1].busy, loader.state = "IDLE"
               PROVE  FALSE
    OBVIOUS
  <2>1. ~DispatchesTo(0)
    BY <1>2 DEF RunWait
  <2>2. ~shadow.valid
    BY <2>1 DEF DispatchesTo, FreeLane
  <2>3. ~Loading
    BY <2>2 DEF Loading
  <2> QED BY <1>1, <2>3 DEF ControlInv, JobConservation, Unended, TypeOK, Bit
<1>5. loader'.nextJob = loader.nextJob
  BY <1>1, LoaderStepType, ControlSplit DEF CoreControl
<1> DEFINE jobs == (accepted_job_count - loader.nextJob) * JobEdges
<1>6. /\ EdgesLeft = jobs + SlotLeft + LaneLeft(0) + LaneLeft(1)
      /\ EdgesLeft' = jobs + SlotLeft' + LaneLeft(0)' + LaneLeft(1)'
  BY <1>1, <1>5 DEF EdgesLeft, JobEdges
<1>7. jobs \in Int
  <2>1. accepted_job_count \in Int /\ loader.nextJob \in Int /\ JobEdges \in Int
    BY <1>1, PartsLeft DEF ControlInv, TypeOK, LoaderType
  <2> QED BY <2>1
<1>8. SlotLeft \in Int /\ LaneLeft(0) \in Int /\ LaneLeft(1) \in Int
  BY <1>1, <1>2, PartsLeft
<1>9. /\ SlotLeft' \in Int /\ SlotLeft' <= SlotLeft
      /\ loader.state # "IDLE" => SlotLeft' < SlotLeft
  BY <1>1, SlotFewer
<1>10. /\ LaneLeft(0)' \in Nat /\ LaneLeft(0)' <= LaneLeft(0)
       /\ lane[0].busy => LaneLeft(0)' < LaneLeft(0)
       /\ LaneLeft(1)' \in Nat /\ LaneLeft(1)' <= LaneLeft(1)
       /\ lane[1].busy => LaneLeft(1)' < LaneLeft(1)
  BY <1>1, <1>2, <1>3, LaneFewer
<1> HIDE DEF jobs
<1> QED BY <1>4, <1>6, <1>7, <1>8, <1>9, <1>10

(* An edge that dispatches moves a job from the slot to a lane, where it    *)
(* has an edge less, and an open job to the loader.                         *)
LEMMA DispatchFewer ==
  ASSUME ControlInv, WatchdogInTime, cfg.timeout # 0, cfg' = cfg,
         NEW l \in Lanes, NEW other \in Lanes, other # l, RunDispatch(l)
  PROVE  EdgesLeft' < EdgesLeft
<1>1. /\ state = "RUN" /\ state' = "RUN" /\ accepted_job_count' = accepted_job_count
      /\ shadow.valid
  BY DEF RunDispatch, RunContinue, RunCommon, DispatchesTo, Lanes
<1>2. /\ accepted_job_count \in Nat /\ loader.nextJob \in Nat /\ loader \in LoaderType
      /\ shadow \in ShadowType /\ loader.nextJob <= accepted_job_count
      /\ JobWords \in Nat \ {0}
  BY <1>1, CoreAssumption DEF ControlInv, TypeOK, LoaderType, JobConservation
<1>3. cfg.timeout \in Nat \ {0} /\ JobEdges \in Nat /\ JobEdges' = JobEdges
  BY <1>1, PartsLeft DEF JobEdges
<1>4. loader.state = "IDLE" /\ LoaderStep = loader /\ ShadowStep = shadow
  BY <1>1, ControlSplit, LoaderProgress DEF ControlInv, LoaderInv
<1>5. SlotLeft = 1 + cfg.timeout
  BY <1>1, <1>3, <1>4 DEF SlotLeft, Loading, LoadLeft
<1> DEFINE open == accepted_job_count - loader.nextJob
<1>0. (l = 0 /\ other = 1) \/ (l = 1 /\ other = 0)
  BY DEF Lanes
<1>6. ~TimedOut(other) /\ lane'[other] = LaneStep(other)
  BY <1>0 DEF RunDispatch, RunContinue, SomeTimedOut
<1>7. /\ LaneLeft(other)' \in Nat /\ LaneLeft(other)' <= LaneLeft(other)
      /\ LaneLeft(other) \in Nat /\ LaneLeft(l) \in Nat
  BY <1>1, <1>6, LaneFewer, PartsLeft
<1>8. LaneLeft(l)' = cfg.timeout
  BY <1>3 DEF LaneLeft, RunDispatch
<1>9. open' * JobEdges + SlotLeft' = open * JobEdges
  <2>1. CASE MoreToLoad
    <3>1. /\ loader' = [state |-> "REQ", word |-> 0, base |-> loader.nextBase,
                        nextJob |-> loader.nextJob + 1, nextBase |-> loader.nextBase + JobWords]
      BY <2>1 DEF RunDispatch
    <3>2. SlotLeft' = JobEdges
      BY <1>2, <1>3, <3>1 DEF SlotLeft, Loading, LoadLeft, JobEdges
    <3>3. open' \in Nat /\ open = open' + 1
      BY <1>1, <1>2, <2>1, <3>1 DEF MoreToLoad
    <3> HIDE DEF open
    <3> QED BY <1>3, <3>2, <3>3, OneMoreJob
  <2>2. CASE ~MoreToLoad
    <3>1. loader' = loader /\ ~shadow'.valid
      BY <1>2, <1>4, <2>2 DEF RunDispatch, ShadowType
    <3>2. SlotLeft' = 0 /\ open' = open
      BY <1>1, <1>4, <3>1 DEF SlotLeft, Loading
    <3>3. open \in Nat
      BY <1>2
    <3> HIDE DEF open
    <3> QED BY <1>3, <3>2, <3>3, OneMoreJob
  <2> QED BY <2>1, <2>2
<1>10. open * JobEdges \in Nat /\ SlotLeft' \in Nat /\ open' * JobEdges \in Nat
  <2>1. open \in Nat /\ open' \in Nat
    BY <1>1, <1>2, <1>4 DEF RunDispatch, MoreToLoad
  <2>2. open * JobEdges \in Nat /\ open' * JobEdges \in Nat
    <3> HIDE DEF open
    <3> QED BY <1>3, <2>1, OneMoreJob
  <2> QED BY <1>2, <1>3, <1>4, <2>2 DEF SlotLeft, Loading, LoadLeft, RunDispatch, LoaderType
<1>11. /\ EdgesLeft = open * JobEdges + SlotLeft + LaneLeft(l) + LaneLeft(other)
       /\ EdgesLeft' = open' * JobEdges + SlotLeft' + LaneLeft(l)' + LaneLeft(other)'
  <2>1. /\ EdgesLeft = open * JobEdges + SlotLeft + LaneLeft(0) + LaneLeft(1)
        /\ EdgesLeft' = open' * JobEdges + SlotLeft' + LaneLeft(0)' + LaneLeft(1)'
    BY <1>1, <1>3 DEF EdgesLeft
  <2> HIDE DEF open
  <2>3. CASE l = 0 /\ other = 1
    BY <1>3, <1>5, <1>7, <1>8, <1>10, <2>1, <2>3
  <2>4. CASE l = 1 /\ other = 0
    BY <1>3, <1>5, <1>7, <1>8, <1>10, <2>1, <2>4
  <2> QED BY <1>0, <2>3, <2>4
<1> HIDE DEF open
<1> QED BY <1>3, <1>5, <1>7, <1>8, <1>9, <1>10, <1>11

(* With the watchdog on, a batch of the core ends within as many clock      *)
(* edges as its jobs cost, even if no engine ever answers: each edge that   *)
(* does not launch another batch leaves fewer, and only an idle core none.  *)
THEOREM BatchesAreBounded ==
  Spec => /\ [](cfg.timeout # 0 => /\ EdgesLeft \in 0 .. accepted_job_count * JobEdges
                                   /\ EdgesLeft = 0 <=> state = "IDLE")
          /\ [][Tick /\ state = "RUN" /\ cfg.timeout # 0 /\ batch_id' = batch_id
                  => EdgesLeft' < EdgesLeft]_vars
<1> DEFINE Inv == ControlInv /\ WatchdogInTime /\ Unended
           Bounded == cfg.timeout # 0 => /\ EdgesLeft \in 0 .. accepted_job_count * JobEdges
                                         /\ EdgesLeft = 0 <=> state = "IDLE"
           Fewer == Tick /\ state = "RUN" /\ cfg.timeout # 0 /\ batch_id' = batch_id
                      => EdgesLeft' < EdgesLeft
<1>1. Init => Unended
  BY DEF Init, Unended
<1>2. ControlInv /\ Unended /\ [Next]_vars => Unended'
  BY StepUnended
<1>3. Inv => Bounded
  BY BatchBound
<1>4. Inv /\ [Next]_vars => [Fewer]_vars
  <2> SUFFICES ASSUME Inv, Tick, state = "RUN", cfg.timeout # 0, batch_id' = batch_id
               PROVE  EdgesLeft' < EdgesLeft
    OBVIOUS
  <2>1. PICK start \in BOOLEAN, soft_reset \in BOOLEAN, fin \in SUBSET Working :
          Edge(start, soft_reset, fin)
    BY DEF Tick
  <2>2. cfg' = cfg /\ CoreEdge(start, soft_reset)
    BY <2>1 DEF Edge
  <2>3. ASSUME state' = "IDLE" PROVE EdgesLeft' < EdgesLeft
    <3>1. EdgesLeft' = 0
      BY <2>3 DEF EdgesLeft
    <3>2. EdgesLeft \in 0 .. accepted_job_count * JobEdges /\ EdgesLeft # 0
      BY BatchBound
    <3> QED BY <3>1, <3>2
  <2>4. ~ResetThenStart
    <3>1. batch_id \in CounterRange
      BY DEF ControlInv, TypeOK
    <3> QED BY <3>1, IncDiffers DEF ResetThenStart, LaunchBatch
  <2>5. CASE SoftReset \/ RunTimeout \/ RunFinish
    BY <2>3, <2>5 DEF SoftReset, RunTimeout, RunFinish, FinalizeBatch
  <2>6. CASE RunWait
    BY <2>2, <2>6, WaitFewer
  <2>7. ASSUME NEW l \in Lanes, RunDispatch(l) PROVE EdgesLeft' < EdgesLeft
    <3>1. 0 \in Lanes /\ 1 \in Lanes /\ (l # 0 \/ l # 1)
      BY DEF Lanes
    <3> QED BY <2>2, <2>7, <3>1, DispatchFewer
  <2> QED BY <2>2, <2>4, <2>5, <2>6, <2>7 DEF CoreEdge, IdleStart, Idle, Run
<1> HIDE DEF Bounded, Fewer
<1>5. Spec => []Inv
  BY <1>1, <1>2, ControlInvariant, WatchdogNeverLate, PTL DEF Spec
<1>6. Spec => []Bounded
  BY <1>3, <1>5, PTL
<1>7. Spec => [][Fewer]_vars
  BY <1>4, <1>5, PTL DEF Spec
<1> QED BY <1>6, <1>7 DEF Bounded, Fewer

(***************************************************************************)
(* The snapshot changes only where a batch completes or is rejected.       *)
(***************************************************************************)
LEMMA StepSnapshot ==
  IndInv /\ [Next]_vars =>
    [snapshot' # snapshot => /\ snapshot'.batch_id = batch_id' /\ status'.done
                             /\ batch_id' = batch_id => ~status.done]_vars
<1> SUFFICES ASSUME IndInv, [Next]_vars, snapshot' # snapshot
             PROVE  /\ snapshot'.batch_id = batch_id' /\ status'.done
                    /\ batch_id' = batch_id => ~status.done
  OBVIOUS
<1>1. PICK start \in BOOLEAN, soft_reset \in BOOLEAN : CoreEdge(start, soft_reset)
  BY DEF Next, Tick, Edge, HostWriteJobs, HostConfigure, vars, coreVars
<1>2. batch_id \in CounterRange
  BY DEF IndInv, ControlInv, TypeOK
<1>3. ASSUME NEW clear \in BOOLEAN, LaunchBatch(clear)
      PROVE  snapshot'.batch_id = batch_id' /\ status'.done /\ batch_id' # batch_id
  <2>1. RejectBatch(clear) /\ batch_id' = Inc(batch_id, 1)
    BY <1>3 DEF LaunchBatch, AcceptBatch
  <2> QED BY <1>2, <2>1, IncDiffers DEF RejectBatch, Snapshot
<1>4. ASSUME NEW code, FinalizeBatch(code, PostCompleted), RunCommon
      PROVE  /\ snapshot'.batch_id = batch_id' /\ status'.done
             /\ batch_id' = batch_id => ~status.done
  <2>1. ~status.done
    BY <1>4 DEF RunCommon, IndInv, DataInv, SnapshotCoherent
  <2> QED BY <1>4, <2>1 DEF FinalizeBatch, Snapshot, RunCommon
<1>5. CASE ResetThenStart \/ IdleStart
  BY <1>3, <1>5 DEF ResetThenStart, IdleStart
<1>6. CASE RunTimeout \/ RunFinish
  BY <1>4, <1>6 DEF RunTimeout, RunFinish
<1>7. CASE SoftReset \/ Idle \/ (\E l \in Lanes : RunDispatch(l)) \/ RunWait
  BY <1>7 DEF SoftReset, Idle, RunDispatch, RunWait, RunContinue
<1> QED BY <1>1, <1>5, <1>6, <1>7 DEF CoreEdge, Run

(* The snapshot is written once per batch id. *)
THEOREM SnapshotWrittenOnce == Spec => SnapshotOncePerBatch
BY StepSnapshot, IndInvariant, PTL DEF Spec, SnapshotOncePerBatch

(***************************************************************************)
(* SigvCore implements SigvBatch.  The set of jobs that an edge judges is  *)
(* the set of jobs that stop being outstanding at it.                      *)
(***************************************************************************)

(* No job is in two places: neither in two lanes, nor in a lane and in the  *)
(* loader or shadow slot.  The verdict that one edge stores is then that of *)
(* a job which is outstanding no more.                                      *)
DistinctInv ==
  state = "RUN" =>
    /\ lane[0].busy /\ lane[1].busy => lane[0].job # lane[1].job
    /\ \A l \in Lanes : lane[l].busy /\ Loading => lane[l].job # shadow.job

AcceptedJobs == 0 .. accepted_job_count - 1

(* The mapping of SigvCoreRefinement, by name. *)
Phase == IF state = "RUN" THEN "running" ELSE IF status.done THEN "done" ELSE "idle"
Judged == {j \in JobIndex : state = "RUN" /\ j < loader.nextJob /\ ~Outstanding(j)}
Report == [batch_id |-> snapshot.batch_id, accepted |-> snapshot.accepted, code |-> snapshot.code]

(***************************************************************************)
(* Jobs are in one place                                                   *)
(***************************************************************************)

(* What an edge of a batch that goes on does to lanes and loader: lanes     *)
(* keep their jobs until they are done, and only a dispatch moves one.      *)
LEMMA WaitPlaces ==
  ASSUME ControlInv, RunWait
  PROVE  /\ Loading' <=> Loading
         /\ shadow'.job = shadow.job /\ loader'.nextJob = loader.nextJob
         /\ \A l \in Lanes : /\ lane'[l].busy <=> lane[l].busy /\ ~DoneEvt(l)
                             /\ lane'[l].job = lane[l].job
<1>1. CoreControl /\ EnvTypes /\ CoreTypes /\ state = "RUN"
  BY ControlSplit DEF CoreControl, RunWait, RunContinue, RunCommon
<1>2. loader' = LoaderStep /\ shadow' = ShadowStep /\ \A l \in Lanes : lane'[l] = LaneStep(l)
  BY DEF RunWait
<1>3. Loading' <=> (LoaderStep.state # "IDLE" \/ ShadowStep.valid)
  BY <1>2 DEF Loading
<1> QED BY <1>1, <1>2, <1>3, LoaderStepType, LaneStepType, LoaderProgress

(* A dispatch takes the job of the shadow slot to one free lane, and the     *)
(* loader goes on with the next. *)
LEMMA DispatchPlaces ==
  ASSUME ControlInv, NEW l \in Lanes, RunDispatch(l)
  PROVE  /\ Loading /\ loader.nextJob = shadow.job + 1
         /\ lane'[l].busy /\ lane'[l].job = shadow.job
         /\ ~lane[l].busy \/ DoneEvt(l)
         /\ \A x \in Lanes \ {l} : /\ lane'[x].busy <=> lane[x].busy /\ ~DoneEvt(x)
                                   /\ lane'[x].job = lane[x].job
         /\ \/ ~Loading' /\ loader'.nextJob = loader.nextJob
            \/ /\ shadow'.job = loader.nextJob /\ loader'.nextJob = loader.nextJob + 1
               /\ Loading'
<1>1. CoreControl /\ EnvTypes /\ CoreTypes /\ state = "RUN"
  BY ControlSplit DEF CoreControl, RunDispatch, RunContinue, RunCommon
<1>2. shadow.valid /\ FreeLane(l)
  BY DEF RunDispatch, DispatchesTo, Lanes
<1>3. Loading /\ loader.state = "IDLE" /\ loader.nextJob = shadow.job + 1
  BY <1>1, <1>2 DEF Loading, CoreControl, LoaderInv
<1>4. lane'[l].busy /\ lane'[l].job = shadow.job
  BY DEF RunDispatch
<1>5. \A x \in Lanes \ {l} : lane'[x] = LaneStep(x)
  BY DEF RunDispatch
<1>6. \A x \in Lanes \ {l} : /\ lane'[x].busy <=> lane[x].busy /\ ~DoneEvt(x)
                             /\ lane'[x].job = lane[x].job
  BY <1>1, <1>5, LaneStepType
<1>7. CASE MoreToLoad
  BY <1>1, <1>2, <1>3, <1>4, <1>6, <1>7 DEF RunDispatch, KickedShadow, Loading, FreeLane
<1>8. CASE ~MoreToLoad
  <2>1. loader' = loader /\ shadow' = [shadow EXCEPT !.valid = FALSE]
    BY <1>1, <1>2, <1>8, LoaderProgress DEF RunDispatch
  <2>2. ~Loading' /\ loader'.nextJob = loader.nextJob
    BY <1>1, <1>3, <2>1 DEF Loading, CoreTypes, ShadowType
  <2> QED BY <1>2, <1>3, <1>4, <1>6, <2>2 DEF FreeLane
<1> QED BY <1>7, <1>8

(* A launch or a reset leaves all lanes empty, and so nothing to collide.   *)
LEMMA StepDistinct == IndInv /\ DistinctInv /\ [Next]_vars => DistinctInv'
<1> SUFFICES ASSUME IndInv, DistinctInv, [Next]_vars PROVE DistinctInv'
  OBVIOUS
<1>1. ControlInv /\ DataInv
  BY DEF IndInv
<1>2. \A l \in Lanes : lane[l] \in LaneType
  BY <1>1 DEF ControlInv, TypeOK
<1>3. /\ loader.nextJob \in Nat /\ shadow.job \in Nat
      /\ \A l \in Lanes : lane[l].job \in Nat
  BY <1>1, <1>2, LaunchAssumption DEF ControlInv, TypeOK, LoaderType, ShadowType, LaneType, JobIndex
<1>4. ASSUME \A l \in Lanes : ~lane'[l].busy
      PROVE  DistinctInv'
  BY <1>4 DEF DistinctInv, Lanes
<1>5. ASSUME NEW clear \in BOOLEAN, LaunchBatch(clear)
      PROVE  DistinctInv'
  BY <1>4, <1>5 DEF LaunchBatch, IdleLane
<1>6. CASE SoftReset
  BY <1>4, <1>6 DEF SoftReset, IdleLane
<1>7. CASE UNCHANGED <<state, lane, loader, shadow>>
  BY <1>7 DEF DistinctInv, Loading
<1>8. CASE RunTimeout \/ RunFinish
  BY <1>8 DEF DistinctInv, RunTimeout, RunFinish, FinalizeBatch
<1>9. CASE RunWait
  <2>1. state = "RUN"
    BY <1>9 DEF RunWait, RunContinue, RunCommon
  <2> QED BY <1>1, <1>9, <2>1, WaitPlaces DEF DistinctInv, Lanes
<1>10. ASSUME NEW l \in Lanes, RunDispatch(l)
       PROVE  DistinctInv'
  <2>1. state = "RUN"
    BY <1>10 DEF RunDispatch, RunContinue, RunCommon
  <2>2. \A x \in Lanes : lane[x].busy => lane[x].job < loader.nextJob /\ lane[x].job # shadow.job
    BY <1>1, <1>10, <2>1, DispatchPlaces DEF DataInv, LaneInv, DistinctInv
  <2>3. \A x \in Lanes : lane'[x].busy => lane'[x].job < loader.nextJob
    BY <1>1, <1>3, <1>10, <2>2, DispatchPlaces
  <2>4. \A x \in Lanes : lane'[x].busy /\ Loading' => lane'[x].job # shadow'.job
    BY <1>1, <1>3, <1>10, <2>3, DispatchPlaces
  <2>5. \A x \in Lanes \ {l} : lane'[x].busy => lane'[x].job # lane'[l].job
    BY <1>1, <1>10, <2>2, DispatchPlaces
  <2> QED BY <2>4, <2>5 DEF DistinctInv, Lanes
<1>11. CASE Tick
  <2>1. PICK start \in BOOLEAN, soft_reset \in BOOLEAN : CoreEdge(start, soft_reset)
    BY <1>11 DEF Tick, Edge
  <2>2. CASE ResetThenStart \/ IdleStart
    BY <1>5, <2>2 DEF ResetThenStart, IdleStart
  <2>3. CASE Idle
    BY <1>7, <2>3 DEF Idle
  <2> QED BY <1>6, <1>8, <1>9, <1>10, <2>1, <2>2, <2>3 DEF CoreEdge, Run
<1>12. CASE HostWriteJobs \/ HostConfigure \/ UNCHANGED vars
  BY <1>7, <1>12 DEF HostWriteJobs, HostConfigure, vars, coreVars
<1> QED BY <1>11, <1>12 DEF Next

(***************************************************************************)
(* The jobs that an edge judges                                            *)
(***************************************************************************)

Ending == {j \in JobIndex : \E l \in Lanes : DoneEvt(l) /\ lane[l].job = j}

(* The mask changes only for jobs that end at this edge, and theirs is the  *)
(* verdict of their image.                                                  *)
LEMMA MaskOfEnding ==
  ASSUME IndInv, state = "RUN"
  PROVE  /\ PostMask \in [JobIndex -> BOOLEAN]
         /\ \A j \in JobIndex \ Ending : PostMask[j] = result_mask[j]
         /\ ramStable => \A j \in Ending : PostMask[j] = JobVerdict(j)
<1>1. PostMask \in [JobIndex -> BOOLEAN]
  BY ControlSplit, RunSums DEF IndInv
<1>2. ramStable => \A j \in Ending : PostMask[j] = JobVerdict(j)
  BY Verdicts DEF IndInv, Ending
<1>3. ASSUME NEW j \in JobIndex \ Ending
      PROVE  PostMask[j] = result_mask[j]
  <2>1. ~(DoneEvt(0) /\ lane[0].job = j) /\ ~(DoneEvt(1) /\ lane[1].job = j)
    BY DEF Ending, Lanes
  <2> QED BY <2>1 DEF PostMask
<1> QED BY <1>1, <1>2, <1>3

(* A job that ends was accepted, loaded, and still outstanding.             *)
LEMMA EndingOutstanding ==
  ASSUME IndInv, state = "RUN"
  PROVE  /\ Ending \subseteq AcceptedJobs \ Judged
         /\ Judged \subseteq AcceptedJobs
<1>1. /\ loader.nextJob \in Nat /\ accepted_job_count \in Nat
      /\ loader.nextJob <= accepted_job_count
      /\ \A l \in Lanes : lane[l].job \in Nat
  BY LaunchAssumption
     DEF IndInv, ControlInv, TypeOK, LoaderType, LaneType, JobIndex, JobConservation
<1>2. ASSUME NEW j \in Ending
      PROVE  j \in AcceptedJobs \ Judged
  <2>1. PICK l \in Lanes : lane[l].busy /\ lane[l].job = j
    BY DEF Ending, DoneEvt
  <2>2. j < loader.nextJob /\ Outstanding(j)
    BY <2>1 DEF IndInv, DataInv, LaneInv, Outstanding
  <2> QED BY <1>1, <2>1, <2>2 DEF AcceptedJobs, Judged
<1>3. \A j \in JobIndex : j \in Nat
  BY LaunchAssumption DEF JobIndex
<1> QED BY <1>1, <1>2, <1>3 DEF AcceptedJobs, Judged

(* While the batch goes on, the jobs that end are the ones that stop being  *)
(* outstanding.                                                             *)
LEMMA JudgedGrows ==
  ASSUME IndInv, DistinctInv, RunWait \/ \E l \in Lanes : RunDispatch(l)
  PROVE  Judged' = Judged \cup Ending
<1>1. state = "RUN" /\ state' = "RUN" /\ ControlInv
  BY DEF IndInv, RunWait, RunDispatch, RunContinue, RunCommon
<1>2. /\ loader.nextJob \in Nat /\ shadow.job \in Nat
      /\ \A l \in Lanes : lane[l].job \in Nat
      /\ JobIndex \subseteq Nat
  BY LaunchAssumption
     DEF IndInv, ControlInv, TypeOK, LoaderType, ShadowType, LaneType, JobIndex
<1>3. \A l \in Lanes : DoneEvt(l) => lane[l].busy
  BY DEF DoneEvt
<1>4. /\ Loading => loader.nextJob = shadow.job + 1
      /\ \A l \in Lanes : lane[l].busy => lane[l].job < loader.nextJob
  BY <1>1 DEF ControlInv, LoaderInv, IndInv, DataInv, LaneInv
<1>5. /\ \A l, x \in Lanes : lane[l].busy /\ lane[x].busy /\ l # x => lane[l].job # lane[x].job
      /\ \A l \in Lanes : lane[l].busy /\ Loading => lane[l].job # shadow.job
  BY <1>1 DEF DistinctInv, Lanes
<1>6. ASSUME NEW j \in JobIndex
      PROVE  /\ j \in Judged' <=> j < loader'.nextJob /\ ~Outstanding(j)'
             /\ j \in Judged \cup Ending <=>
                  \/ j < loader.nextJob /\ ~Outstanding(j)
                  \/ \E l \in Lanes : DoneEvt(l) /\ lane[l].job = j
  BY <1>1 DEF Judged, Ending
<1>7. ASSUME NEW j \in JobIndex
      PROVE  /\ Outstanding(j) <=>
                  (Loading /\ shadow.job = j) \/ \E l \in Lanes : lane[l].busy /\ lane[l].job = j
             /\ Outstanding(j)' <=>
                  (Loading' /\ shadow'.job = j) \/ \E l \in Lanes : lane'[l].busy /\ lane'[l].job = j
  BY DEF Outstanding
<1>8. CASE RunWait
  <2>1. ASSUME NEW j \in JobIndex
        PROVE  j \in Judged' <=> j \in Judged \cup Ending
    BY <1>1, <1>2, <1>3, <1>4, <1>5, <1>6, <1>7, <1>8, WaitPlaces
  <2> QED BY <2>1 DEF Judged, Ending
<1>9. ASSUME NEW l \in Lanes, RunDispatch(l)
      PROVE  Judged' = Judged \cup Ending
  <2>1. ASSUME NEW j \in JobIndex
        PROVE  j \in Judged' <=> j \in Judged \cup Ending
    BY <1>1, <1>2, <1>3, <1>4, <1>5, <1>6, <1>7, <1>9, DispatchPlaces
  <2> QED BY <2>1 DEF Judged, Ending
<1> QED BY <1>8, <1>9

(* A batch with jobs not completed has jobs not judged.                     *)
LEMMA Unfinished ==
  IndInv /\ state = "RUN" /\ batch_completed_count # accepted_job_count => Judged # AcceptedJobs
<1> SUFFICES ASSUME IndInv, state = "RUN", batch_completed_count # accepted_job_count,
                    Judged = AcceptedJobs
             PROVE  FALSE
  OBVIOUS
<1>1. /\ loader.nextJob \in Nat /\ accepted_job_count \in Nat /\ batch_completed_count \in Nat
      /\ shadow.job \in Nat
      /\ \A l \in Lanes : lane[l].job \in Nat
  BY LaunchAssumption
     DEF IndInv, ControlInv, TypeOK, LoaderType, ShadowType, LaneType, JobIndex
<1>2. /\ loader.nextJob = batch_completed_count + Bit(lane[0].busy) + Bit(lane[1].busy)
                            + Bit(Loading)
      /\ loader.nextJob <= accepted_job_count
      /\ ~Loading => loader.nextJob = accepted_job_count
      /\ Loading => loader.nextJob = shadow.job + 1
  BY DEF IndInv, ControlInv, JobConservation, LoaderInv
<1>3. ~Loading
  <2>1. SUFFICES ASSUME Loading PROVE FALSE
    OBVIOUS
  <2>2. shadow.job + 1 <= accepted_job_count
    BY <1>2, <2>1
  <2>3. shadow.job \in AcceptedJobs
    BY <1>1, <2>2 DEF AcceptedJobs
  <2>4. Outstanding(shadow.job)
    BY <2>1 DEF Outstanding
  <2> QED BY <2>3, <2>4 DEF Judged
<1>4. \A l \in Lanes : ~lane[l].busy
  <2>1. SUFFICES ASSUME NEW l \in Lanes, lane[l].busy PROVE FALSE
    OBVIOUS
  <2>2. lane[l].job < loader.nextJob
    BY <2>1 DEF IndInv, DataInv, LaneInv
  <2>3. lane[l].job \in AcceptedJobs /\ Outstanding(lane[l].job)
    BY <1>1, <1>2, <2>1, <2>2 DEF AcceptedJobs, Outstanding
  <2> QED BY <2>3 DEF Judged
<1> QED BY <1>1, <1>2, <1>3, <1>4 DEF Bit, Lanes

(* The same after a step. *)
LEMMA UnfinishedNext ==
  (IndInv /\ state = "RUN" /\ batch_completed_count # accepted_job_count => Judged # AcceptedJobs)'
BY Unfinished, PTL

(* A job that timed out is not judged at the edge of the timeout.           *)
LEMMA TimeoutUnfinished ==
  ASSUME IndInv, DistinctInv, state = "RUN", SomeTimedOut
  PROVE  Judged \cup Ending # AcceptedJobs
<1>1. PICK l \in Lanes : lane[l].busy /\ ~DoneEvt(l)
  BY DEF SomeTimedOut, TimedOut
<1>2. /\ loader.nextJob \in Nat /\ accepted_job_count \in Nat
      /\ loader.nextJob <= accepted_job_count
      /\ lane[l].job \in Nat
  BY LaunchAssumption
     DEF IndInv, ControlInv, TypeOK, LoaderType, LaneType, JobIndex, JobConservation
<1>3. lane[l].job < loader.nextJob
  BY <1>1 DEF IndInv, DataInv, LaneInv
<1>4. lane[l].job \in AcceptedJobs
  BY <1>2, <1>3 DEF AcceptedJobs
<1>5. lane[l].job \notin Judged
  BY <1>1 DEF Judged, Outstanding
<1>6. lane[l].job \notin Ending
  BY <1>1 DEF Ending, DoneEvt, DistinctInv, Lanes
<1> QED BY <1>4, <1>5, <1>6

(* When the last job completes all accepted ones are judged.                *)
LEMMA FinishJudgesAll ==
  ASSUME IndInv, state = "RUN", PostBatchCompleted = accepted_job_count
  PROVE  Judged \cup Ending = AcceptedJobs
<1>1. /\ \A l \in Lanes : ~lane[l].busy \/ DoneEvt(l)
      /\ ~Loading
      /\ loader.nextJob = accepted_job_count
  BY AllDone DEF IndInv
<1>2. AcceptedJobs \subseteq JobIndex /\ \A j \in AcceptedJobs : j < accepted_job_count
  BY LaunchAssumption DEF IndInv, ControlInv, TypeOK, AcceptedJobs, JobIndex
<1>3. \A j \in AcceptedJobs : j \in Judged \cup Ending
  BY <1>1, <1>2 DEF Judged, Ending, Outstanding
<1> QED BY <1>3, EndingOutstanding

(***************************************************************************)
(* Every edge is an edge of the batch unit                                 *)
(***************************************************************************)

(* An edge of a running batch judges the jobs that end at it.               *)
LEMMA RunJudges ==
  ASSUME IndInv, IndInv', DistinctInv, Run, cfg' = cfg
  PROVE  \E J \in SUBSET (Batch!Jobs \ Judged) : Batch!Judge(J)
<1>0. PICK J : J = Ending
  OBVIOUS
<1>1. /\ state = "RUN" /\ result_mask' = PostMask /\ batch_completed_count' = PostBatchCompleted
      /\ UNCHANGED <<batch_id, accepted_job_count, ramStable>>
  BY DEF Run, RunTimeout, RunFinish, RunDispatch, RunWait, RunContinue, RunCommon
<1>2. /\ PostMask \in [JobIndex -> BOOLEAN]
      /\ \A j \in JobIndex \ Ending : PostMask[j] = result_mask[j]
      /\ ramStable => \A j \in Ending : PostMask[j] = JobVerdict(j)
  BY <1>1, MaskOfEnding
<1>3. Ending \subseteq AcceptedJobs \ Judged /\ Ending \subseteq JobIndex /\ Judged \subseteq AcceptedJobs
  BY <1>1, EndingOutstanding DEF Ending
<1>4. /\ Batch!Jobs = AcceptedJobs /\ Batch!JobIndex = JobIndex
      /\ Batch!ERR_NONE = ERR_NONE /\ Batch!ERR_JOB_TIMEOUT = ERR_JOB_TIMEOUT
  BY DEF Batch!Jobs, AcceptedJobs, Batch!JobIndex, JobIndex, Batch!ERR_NONE, ERR_NONE,
         Batch!ERR_JOB_TIMEOUT, ERR_JOB_TIMEOUT
<1>5. ASSUME \/ /\ Judged \cup J # AcceptedJobs
                /\ Judged' = Judged \cup J
                /\ UNCHANGED <<Phase, status.code, Report>>
             \/ Judged \cup J = AcceptedJobs /\ Batch!End(ERR_NONE)
             \/ Judged \cup J # AcceptedJobs /\ cfg.timeout # 0 /\ Batch!End(ERR_JOB_TIMEOUT)
      PROVE  Batch!Judge(J)
  <2>1. /\ result_mask' = [j \in JobIndex |-> IF j \in J THEN PostMask[j] ELSE result_mask[j]]
        /\ ramStable => \A j \in J : PostMask[j] = [i \in JobIndex |-> JobVerdict(i)][j]
    <3>1. PostMask = [j \in JobIndex |-> IF j \in J THEN PostMask[j] ELSE result_mask[j]]
      BY <1>0, <1>2
    <3> QED BY <1>0, <1>1, <1>2, <1>3, <3>1
  <2>2. \E v \in [Batch!JobIndex -> BOOLEAN] :
          /\ result_mask' = [j \in Batch!JobIndex |-> IF j \in J THEN v[j] ELSE result_mask[j]]
          /\ ramStable => \A j \in J : v[j] = [i \in JobIndex |-> JobVerdict(i)][j]
    BY <1>2, <1>4, <2>1
  <2>3. Phase = "running"
    BY <1>1 DEF Phase
  <2>4. \/ /\ Judged \cup J # Batch!Jobs
           /\ Judged' = Judged \cup J
           /\ UNCHANGED <<Phase, status.code, Report>>
        \/ Judged \cup J = Batch!Jobs /\ Batch!End(Batch!ERR_NONE)
        \/ Judged \cup J # Batch!Jobs /\ cfg.timeout # 0 /\ Batch!End(Batch!ERR_JOB_TIMEOUT)
    BY <1>4, <1>5
  <2> QED BY <1>1, <2>2, <2>3, <2>4 DEF Batch!Judge, Judged, Phase, Report
<1>6. CASE RunWait \/ \E l \in Lanes : RunDispatch(l)
  <2>1. /\ UNCHANGED <<state, status, snapshot>>
        /\ batch_completed_count' # accepted_job_count'
    BY <1>1, <1>6 DEF RunWait, RunDispatch, RunContinue
  <2>2. Judged' = Judged \cup Ending
    BY <1>6, JudgedGrows
  <2>3. Judged' # AcceptedJobs
    BY <1>1, <2>1, UnfinishedNext DEF AcceptedJobs
  <2>4. Phase' = Phase /\ Report' = Report /\ status'.code = status.code
    BY <2>1 DEF Phase, Report
  <2> QED BY <1>0, <1>3, <1>4, <1>5, <2>2, <2>3, <2>4
<1>7. ASSUME NEW code, FinalizeBatch(code, PostCompleted)
      PROVE  Batch!End(code)
  <2>1. /\ state' = "IDLE" /\ status'.done /\ status'.code = code
        /\ snapshot'.batch_id = batch_id /\ snapshot'.accepted = accepted_job_count
        /\ snapshot'.code = code
    BY <1>7 DEF FinalizeBatch, Snapshot
  <2>2. Judged' = {}
    BY <2>1 DEF Judged
  <2> QED BY <1>1, <2>1, <2>2 DEF Batch!End, Judged
<1>8. CASE RunTimeout
  <2>1. Batch!End(ERR_JOB_TIMEOUT) /\ cfg.timeout # 0
    BY <1>7, <1>8 DEF RunTimeout, SomeTimedOut, TimedOut
  <2>2. Judged \cup Ending # AcceptedJobs
    BY <1>1, <1>8, TimeoutUnfinished DEF RunTimeout
  <2> QED BY <1>0, <1>3, <1>4, <1>5, <2>1, <2>2
<1>9. CASE RunFinish
  <2>1. Batch!End(ERR_NONE)
    BY <1>7, <1>9 DEF RunFinish
  <2>2. Judged \cup Ending = AcceptedJobs
    BY <1>1, <1>9, FinishJudgesAll DEF RunFinish
  <2> QED BY <1>0, <1>3, <1>4, <1>5, <2>1, <2>2
<1>10. RunTimeout \/ RunFinish \/ RunWait \/ \E l \in Lanes : RunDispatch(l)
  BY DEF Run
<1> QED BY <1>3, <1>4, <1>6, <1>8, <1>9, <1>10

(* Core and batch unit share the launch arithmetic.                         *)
LEMMA SameArithmetic ==
  /\ Batch!JobIndex = JobIndex /\ Batch!NoVerdicts = NoResults
  /\ Batch!ERR_NONE = ERR_NONE
  /\ \A n, k : Batch!Inc(n, k) = Inc(n, k)
  /\ \A c : Batch!DispatchCount(c) = DispatchCount(c) /\ Batch!LaunchError(c) = LaunchError(c)
<1>1. Batch!JobIndex = JobIndex /\ Batch!ERR_NONE = ERR_NONE /\ (\A n, k : Batch!Inc(n, k) = Inc(n, k))
  BY DEF Batch!JobIndex, JobIndex, Batch!ERR_NONE, ERR_NONE, Batch!Inc, Inc
<1>2. Batch!NoVerdicts = NoResults
  BY <1>1 DEF Batch!NoVerdicts, NoResults
<1>3. ASSUME NEW c
      PROVE  Batch!RequestedU8(c) = RequestedU8(c) /\ Batch!LimitEffective(c) = LimitEffective(c)
  BY DEF Batch!RequestedU8, RequestedU8, Batch!LimitEffective, LimitEffective
<1>4. ASSUME NEW c
      PROVE  Batch!DispatchCount(c) = DispatchCount(c)
  BY <1>3 DEF Batch!DispatchCount, DispatchCount
<1>5. ASSUME NEW c
      PROVE  Batch!LaunchError(c) = LaunchError(c)
  BY <1>4 DEF Batch!LaunchError, LaunchError, Batch!ERR_NONE, ERR_NONE, Batch!ERR_MESSAGE_LEN,
              ERR_MESSAGE_LEN, Batch!ERR_JOB_COUNT, ERR_JOB_COUNT, Batch!ERR_JOB_RANGE, ERR_JOB_RANGE
<1> QED BY <1>1, <1>2, <1>4, <1>5

(* A launch, accepted or rejected.                                          *)
LEMMA LaunchRefines ==
  ASSUME NEW clear \in BOOLEAN, LaunchBatch(clear)
  PROVE  Batch!Launch
<1>1. /\ batch_id' = Inc(batch_id, 1) /\ result_mask' = NoResults /\ ramStable' = TRUE
  BY DEF LaunchBatch
<1>2. CASE RejectBatch(clear)
  <2>1. /\ LaunchError(cfg) # ERR_NONE
        /\ state' = "IDLE" /\ status'.done /\ status'.code = LaunchError(cfg)
        /\ accepted_job_count' = 0
        /\ snapshot'.batch_id = batch_id' /\ snapshot'.accepted = 0
        /\ snapshot'.code = LaunchError(cfg)
    BY <1>1, <1>2 DEF RejectBatch, Snapshot
  <2>2. Phase' = "done" /\ Judged' = {}
        /\ Report' = [batch_id |-> batch_id', accepted |-> 0, code |-> LaunchError(cfg)]
    BY <2>1 DEF Phase, Judged, Report
  <2> QED BY <1>1, <2>1, <2>2, SameArithmetic DEF Batch!Launch, Phase, Judged, Report
<1>3. CASE AcceptBatch(clear)
  <2>1. /\ LaunchError(cfg) = ERR_NONE
        /\ state' = "RUN" /\ status'.code = ERR_NONE
        /\ accepted_job_count' = DispatchCount(cfg)
        /\ snapshot' = snapshot
        /\ loader'.state = "REQ" /\ loader'.nextJob = 1 /\ shadow'.job = 0
    BY <1>3 DEF AcceptBatch, QuietStatus, KickedShadow
  <2>2. Judged' = {}
    <3>1. Outstanding(0)'
      BY <2>1 DEF Outstanding, Loading
    <3>2. \A j \in JobIndex : j < 1 => j = 0
      BY LaunchAssumption DEF JobIndex
    <3> QED BY <2>1, <3>1, <3>2 DEF Judged
  <2>3. Phase' = "running" /\ Report' = Report
    BY <2>1 DEF Phase, Report
  <2> QED BY <1>1, <2>1, <2>2, <2>3, SameArithmetic DEF Batch!Launch, Phase, Judged, Report
<1> QED BY <1>2, <1>3 DEF LaunchBatch

(* A soft reset is the reset of the batch unit. *)
LEMMA ResetRefines ==
  ASSUME SoftReset
  PROVE  Batch!Reset
<1>1. /\ state' = "IDLE" /\ ~status'.done /\ status'.code = ERR_NONE
      /\ result_mask' = NoResults /\ accepted_job_count' = 0
      /\ UNCHANGED <<batch_id, snapshot, ramStable>>
  BY DEF SoftReset, QuietStatus
<1>2. Phase' = "idle" /\ Judged' = {} /\ Report' = Report
  BY <1>1 DEF Phase, Judged, Report
<1> QED BY <1>1, <1>2, SameArithmetic DEF Batch!Reset, Phase, Judged, Report

(* What the batch unit sees when none of the core's registers change.       *)
LEMMA SameBatch ==
  ASSUME UNCHANGED <<state, status, result_mask, accepted_job_count, batch_id, snapshot, loader,
                     shadow, lane>>
  PROVE  Phase' = Phase /\ Judged' = Judged /\ Report' = Report
BY DEF Phase, Judged, Report, Outstanding, Loading

(* Word k of job j is word j * w + k of the RAM, and no other's.            *)
LEMMA WordOfJob ==
  ASSUME NEW w \in Nat \ {0}, NEW j \in Nat, NEW k \in Nat, k < w
  PROVE  (j * w + k) \div w = j /\ (j * w + k) % w = k
<1>1. j * w \in Nat
  OBVIOUS
<1> QED BY <1>1

(* What is stored in the RAM for a job decides its verdict.                 *)
LEMMA VerdictOfImage ==
  ASSUME NEW kinds \in Images, ram = JobImage(kinds), NEW j \in JobIndex
  PROVE  JobVerdict(j) = (kinds[j] = "good")
<1>1. /\ JobWords \in Nat \ {0} /\ j \in Nat
      /\ WordIndex \subseteq Nat /\ 0 \in WordIndex /\ (\A k \in WordIndex : k < JobWords)
  BY LaunchAssumption, CoreAssumption DEF JobIndex, WordIndex
<1>2. ASSUME NEW k \in WordIndex
      PROVE  ram[j * JobWords + k] = [kind |-> kinds[j], word |-> k]
  <2>1. j * JobWords + k \in Address
    BY AddressInRange
  <2>2. (j * JobWords + k) \div JobWords = j /\ (j * JobWords + k) % JobWords = k
    <3>1. k \in Nat /\ k < JobWords
      BY <1>1
    <3> QED BY <1>1, <3>1, WordOfJob
  <2> QED BY <2>1, <2>2 DEF JobImage
<1>3. JobVerdict(j) <=> \A k \in WordIndex : ram[j * JobWords + k] = [kind |-> "good", word |-> k]
  BY DEF JobVerdict, Verifies
<1>4. ASSUME NEW k \in WordIndex
      PROVE  ram[j * JobWords + k] = [kind |-> "good", word |-> k] <=> kinds[j] = "good"
  <2>1. [kind |-> kinds[j], word |-> k] = [kind |-> "good", word |-> k] => kinds[j] = "good"
    <3>1. [kind |-> kinds[j], word |-> k].kind = kinds[j] /\ [kind |-> "good", word |-> k].kind = "good"
      OBVIOUS
    <3> QED BY <3>1
  <2> QED BY <1>2, <2>1
<1>5. JobVerdict(j) \in BOOLEAN
  BY DEF JobVerdict, Verifies
<1> QED BY <1>1, <1>3, <1>4, <1>5

(* The verdicts of the RAM are some that the host may write.                *)
LEMMA VerdictsOfImages ==
  ASSUME NEW kinds \in Images, ram = JobImage(kinds)
  PROVE  [j \in JobIndex |-> JobVerdict(j)] \in
           {[j \in JobIndex |-> ks[j] = "good"] : ks \in Images}
<1>1. [j \in JobIndex |-> JobVerdict(j)] = [j \in JobIndex |-> kinds[j] = "good"]
  BY VerdictOfImage
<1> QED BY <1>1

(* The verdicts of an image are the same after a step. *)
LEMMA VerdictsWritten ==
  (\A kinds \in Images : ram = JobImage(kinds) =>
     [j \in JobIndex |-> JobVerdict(j)] \in
       {[j \in JobIndex |-> ks[j] = "good"] : ks \in Images})'
<1>1. \A kinds \in Images : ram = JobImage(kinds) =>
        [j \in JobIndex |-> JobVerdict(j)] \in
          {[j \in JobIndex |-> ks[j] = "good"] : ks \in Images}
  BY VerdictsOfImages
<1> QED BY <1>1, PTL

(* The reset state.                                                         *)
LEMMA InitRefines == Init => Batch!BatchInit
<1> SUFFICES ASSUME Init PROVE Batch!BatchInit
  OBVIOUS
<1>1. /\ state = "IDLE" /\ ~status.done /\ status.code = ERR_NONE
      /\ result_mask = NoResults /\ accepted_job_count = 0 /\ batch_id = 0
      /\ snapshot.batch_id = 0 /\ snapshot.accepted = 0 /\ snapshot.code = ERR_NONE
      /\ cfg \in Configs /\ ramStable = FALSE
  BY DEF Init, QuietStatus, Snapshot
<1>2. Phase = "idle" /\ Judged = {} /\ Report = [batch_id |-> 0, accepted |-> 0, code |-> ERR_NONE]
  BY <1>1 DEF Phase, Judged, Report
<1>3. [j \in JobIndex |-> JobVerdict(j)] \in {[j \in JobIndex |-> ks[j] = "good"] : ks \in Images}
  BY VerdictsOfImages DEF Init
<1> QED BY <1>1, <1>2, <1>3, SameArithmetic DEF Batch!BatchInit, Phase, Judged, Report

(* One clock edge.                                                          *)
LEMMA EdgeRefines ==
  ASSUME IndInv, IndInv', DistinctInv, NEW start \in BOOLEAN, NEW soft_reset \in BOOLEAN,
         CoreEdge(start, soft_reset), cfg' = cfg
  PROVE  Batch!BatchStep(start, soft_reset)
<1>1. CASE soft_reset /\ start /\ ResetThenStart
  BY <1>1, LaunchRefines DEF ResetThenStart, Batch!BatchStep
<1>2. CASE soft_reset /\ ~start /\ SoftReset
  BY <1>2, ResetRefines DEF Batch!BatchStep
<1>3. CASE ~soft_reset /\ start /\ IdleStart
  <2>1. Batch!Launch /\ state = "IDLE"
    BY <1>3, LaunchRefines DEF IdleStart
  <2>2. Phase # "running"
    BY <2>1 DEF Phase
  <2> QED BY <1>3, <2>1, <2>2 DEF Batch!BatchStep, Phase
<1>4. CASE ~soft_reset /\ ~start /\ Idle
  <2>1. /\ state = "IDLE" /\ status' = status
        /\ UNCHANGED <<batch_id, accepted_job_count, result_mask, ramStable>>
        /\ Phase' = Phase /\ Judged' = Judged /\ Report' = Report
    BY <1>4, SameBatch DEF Idle
  <2>2. Phase # "running"
    BY <2>1 DEF Phase
  <2>3. Batch!Rest
    BY <2>1, <2>2 DEF Batch!Rest, Phase, Judged, Report
  <2> QED BY <1>4, <2>3 DEF Batch!BatchStep
<1>5. CASE ~soft_reset /\ Run
  <2>1. \E J \in SUBSET (Batch!Jobs \ Judged) : Batch!Judge(J)
    BY <1>5, RunJudges
  <2> QED BY <1>5, <2>1 DEF Batch!BatchStep, Judged
<1> QED BY <1>1, <1>2, <1>3, <1>4, <1>5 DEF CoreEdge

(* Every step is one of the batch unit's, or changes nothing it sees.       *)
LEMMA StepRefines ==
  IndInv /\ IndInv' /\ DistinctInv /\ [Next]_vars => [Batch!BatchNext]_(Batch!batchVars)
<1> SUFFICES ASSUME IndInv, IndInv', DistinctInv, [Next]_vars
             PROVE  Batch!BatchNext \/ UNCHANGED Batch!batchVars
  OBVIOUS
<1> DEFINE V == [j \in JobIndex |-> JobVerdict(j)]
<1>1. CASE Tick
  <2>1. PICK start \in BOOLEAN, soft_reset \in BOOLEAN :
          CoreEdge(start, soft_reset) /\ UNCHANGED <<ram, cfg>>
    BY <1>1 DEF Tick, Edge
  <2>2. Batch!BatchStep(start, soft_reset)
    BY <2>1, EdgeRefines
  <2>3. V' = V
    BY <2>1 DEF JobVerdict
  <2> QED BY <2>1, <2>2, <2>3 DEF Batch!BatchNext
<1>2. CASE HostWriteJobs
  <2>1. /\ UNCHANGED <<state, status, result_mask, accepted_job_count, batch_id, snapshot, loader,
                       shadow, lane, cfg>>
        /\ ramStable' = FALSE
        /\ \E kinds \in Images : ram' = JobImage(kinds)
    BY <1>2 DEF HostWriteJobs, coreVars
  <2>2. V' \in {[j \in JobIndex |-> ks[j] = "good"] : ks \in Images}
    BY <2>1, VerdictsWritten
  <2>3. Phase' = Phase /\ Judged' = Judged /\ Report' = Report
    BY <2>1, SameBatch
  <2>4. Batch!RamWrite
    BY <2>1, <2>2, <2>3 DEF Batch!RamWrite, Phase, Judged, Report
  <2> QED BY <2>4 DEF Batch!BatchNext
<1>3. CASE HostConfigure
  <2>1. /\ UNCHANGED <<state, status, result_mask, accepted_job_count, batch_id, snapshot, loader,
                       shadow, lane, ram, ramStable>>
        /\ state = "IDLE" /\ cfg' \in Configs
    BY <1>3 DEF HostConfigure, coreVars
  <2>2. Phase' = Phase /\ Judged' = Judged /\ Report' = Report /\ V' = V /\ Phase # "running"
    <3>1. V' = V
      BY <2>1 DEF JobVerdict
    <3> QED BY <2>1, <3>1, SameBatch DEF Phase
  <2>3. Batch!Configure
    BY <2>1, <2>2 DEF Batch!Configure, Phase, Judged, Report
  <2> QED BY <2>3 DEF Batch!BatchNext
<1>4. CASE UNCHANGED vars
  <2>1. UNCHANGED <<state, status, result_mask, accepted_job_count, batch_id, snapshot, loader,
                    shadow, lane, ram, ramStable, cfg>>
    BY <1>4 DEF vars, coreVars
  <2>2. Phase' = Phase /\ Judged' = Judged /\ Report' = Report /\ V' = V
    <3>1. V' = V
      BY <2>1 DEF JobVerdict
    <3> QED BY <2>1, <3>1, SameBatch
  <2> QED BY <2>1, <2>2 DEF Batch!batchVars, Phase, Judged, Report
<1> QED BY <1>1, <1>2, <1>3, <1>4 DEF Next

(* The core is a batch unit: whatever loader, shadow slot, lanes, engines,  *)
(* watchdog and aborts do, a host that sees only status, mask and snapshot  *)
(* sees each accepted job judged once, by its own image, and each batch     *)
(* ended and reported as SigvBatch says.                                    *)
THEOREM CoreImplementsBatch == Spec => ImplementsBatch
<1>1. Init => DistinctInv
  BY DEF Init, DistinctInv
<1>2. IndInv /\ DistinctInv /\ [Next]_vars => DistinctInv'
  BY StepDistinct
<1> QED BY <1>1, <1>2, IndInvariant, InitRefines, StepRefines, PTL
        DEF Spec, ImplementsBatch, Batch!BatchSpec

=============================================================================
