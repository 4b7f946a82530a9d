--------------------------- MODULE SigvRegsProofs ---------------------------
(***************************************************************************)
(* The promises of the register block, for every number of jobs, every     *)
(* width of the batch id, every configuration written and every order of   *)
(* the AXI handshakes.  A pulse is up only while the response of the write *)
(* that raised it waits, so no second write meets it.                      *)
(***************************************************************************)
EXTENDS SigvRegs, TLAPS

RegsTypes ==
  /\ phase \in {"idle", "running", "done"}
  /\ batch_id \in 0 .. WordMod - 1
  /\ accepted \in 0 .. MaxJobs
  /\ judged \in SUBSET Jobs
  /\ cfg \in Config /\ wanted \in Config
  /\ op \in ControlOps \cup ConfigOps \cup IrqOps \cup {NoOp}
  /\ start_pulse \in BOOLEAN /\ soft_reset_pulse \in BOOLEAN
  /\ expected \in 0 .. NoBatch

(* One write at a time, and its pulses before the next.                     *)
BusInv ==
  /\ (aw_seen \/ w_seen) => ~bvalid /\ op # NoOp
  /\ ~(aw_seen /\ w_seen)
  /\ start_pulse \/ soft_reset_pulse => bvalid

(* A commanded batch is about to start, runs, or is the one reported.       *)
LaunchInv ==
  expected # NoBatch =>
    \/ start_pulse /\ soft_reset_pulse /\ expected = Inc(batch_id, 1)
    \/ /\ ~start_pulse /\ ~soft_reset_pulse /\ expected = batch_id
       /\ phase \in {"running", "done"}
       /\ phase = "done" => report.batch_id = batch_id

RegsInv == RegsTypes /\ BusInv /\ LaunchInv /\ CompletionRaisesIrq /\ IgnoredWriteVisible
-----------------------------------------------------------------------------
(* The next batch id.                                                       *)
LEMMA IncRange ==
  ASSUME NEW n \in 0 .. WordMod - 1
  PROVE  Inc(n, 1) \in 0 .. WordMod - 1
<1>1. WordMod \in Nat \ {0, 1}
  BY LaunchAssumption
<1> QED BY <1>1 DEF Inc

(* Batch ids and job counts stay in range.                                  *)
LEMMA LaunchRange ==
  ASSUME RegsTypes
  PROVE  Inc(batch_id, 1) \in 0 .. WordMod - 1 /\ DispatchCount(cfg) \in 0 .. MaxJobs
<1>1. WordMod \in Nat \ {0, 1} /\ MaxJobs \in Nat \ {0}
  BY LaunchAssumption
<1>2. cfg.job_count \in Nat /\ cfg.limit \in 0 .. MaxJobs
  BY DEF RegsTypes, Config
<1>3. RequestedU8(cfg) \in 0 .. MaxJobs
  BY <1>1, <1>2 DEF RequestedU8
<1>4. LimitEffective(cfg) \in 0 .. MaxJobs
  BY <1>1, <1>2 DEF LimitEffective
<1>5. DispatchCount(cfg) \in 0 .. MaxJobs
  BY <1>3, <1>4 DEF DispatchCount
<1>6. Inc(batch_id, 1) \in 0 .. WordMod - 1
  BY IncRange DEF RegsTypes
<1> QED BY <1>5, <1>6

(* What a clock edge does to the batch.                                     *)
LEMMA BatchEdge ==
  ASSUME RegsTypes, BatchStep(start_pulse, soft_reset_pulse)
  PROVE  /\ phase' \in {"idle", "running", "done"} /\ batch_id' \in 0 .. WordMod - 1
         /\ accepted' \in 0 .. MaxJobs /\ judged' \in SUBSET Jobs'
         /\ start_pulse /\ soft_reset_pulse =>
              /\ batch_id' = Inc(batch_id, 1) /\ phase' \in {"running", "done"}
              /\ phase' = "done" => report'.batch_id = batch_id'
         /\ ~start_pulse /\ ~soft_reset_pulse =>
              /\ batch_id' = batch_id
              /\ phase \in {"running", "done"} => phase' \in {"running", "done"}
              /\ phase' = "done" => report'.batch_id = batch_id \/ (phase = "done" /\ report' = report)
<1>1. MaxJobs \in Nat \ {0} /\ WordMod \in Nat \ {0, 1}
  BY LaunchAssumption
<1>2. CASE Launch /\ start_pulse
  <2>1. batch_id' \in 0 .. WordMod - 1 /\ batch_id' = Inc(batch_id, 1)
    BY <1>2, LaunchRange DEF Launch
  <2>2. accepted' \in 0 .. MaxJobs /\ phase' \in {"running", "done"} /\ judged' = {}
    BY <1>1, <1>2, LaunchRange DEF Launch
  <2>3. phase' = "done" => report'.batch_id = batch_id'
    BY <1>2 DEF Launch
  <2> QED BY <1>2, <2>1, <2>2, <2>3
<1>3. CASE Reset /\ soft_reset_pulse /\ ~start_pulse
  BY <1>1, <1>3 DEF Reset, RegsTypes
<1>4. CASE Rest /\ ~soft_reset_pulse /\ ~start_pulse
  BY <1>4 DEF Rest, Jobs, RegsTypes
<1>5. CASE ~soft_reset_pulse /\ \E J \in SUBSET (Jobs \ judged) : Judge(J)
  <2>1. PICK J \in SUBSET (Jobs \ judged) : Judge(J)
    BY <1>5
  <2>2. /\ phase' \in {"running", "done"} /\ batch_id' = batch_id /\ accepted' = accepted
        /\ phase = "running"
        /\ phase' = "done" => report'.batch_id = batch_id
    BY <2>1 DEF Judge, End
  <2>3. judged' \in SUBSET Jobs'
    BY <2>1, <2>2 DEF Judge, End, Jobs, RegsTypes
  <2> QED BY <1>5, <2>2, <2>3 DEF RegsTypes
<1> QED BY <1>2, <1>3, <1>4, <1>5 DEF BatchStep
-----------------------------------------------------------------------------
(* A write commits when the last one is answered; until then it is held.    *)
LEMMA EdgeKinds ==
  ASSUME RegsTypes, BusInv,
         NEW awvalid \in BOOLEAN, NEW wvalid \in BOOLEAN, NEW bready \in BOOLEAN,
         CommitEdge(awvalid, wvalid) \/ QuietEdge(awvalid, wvalid, bready)
  PROVE  /\ BusInv'
         /\ \/ NoWrite /\ op' = op
            \/ /\ ControlWrite \/ ConfigWrite \/ IrqWrite
               /\ ~start_pulse /\ ~soft_reset_pulse /\ op' = NoOp
<1>1. CASE CommitEdge(awvalid, wvalid)
  BY <1>1 DEF CommitEdge, WriteCommit, Ready, BusInv
<1>2. CASE QuietEdge(awvalid, wvalid, bready)
  BY <1>2 DEF QuietEdge, WriteCommit, Ready, BusInv, NoWrite, NoPulse
<1> QED BY <1>1, <1>2

(* A configuration write gives a register a value it can hold.              *)
LEMMA WriteTypes ==
  ASSUME op \in ConfigOps, NEW c \in Config
  PROVE  [c EXCEPT ![op.write.field] = op.write.value] \in Config
<1>1. op.write \in ConfigWrites
  BY DEF ConfigOps
<1>2. \/ op.write.field \in {"message_length", "job_count", "timeout"} /\ op.write.value \in Nat
      \/ op.write.field = "limit" /\ op.write.value \in 0 .. MaxJobs
  BY <1>1, RegsAssumption
<1>3. PICK f, v :
        /\ f = op.write.field /\ v = op.write.value
        /\ \/ f \in {"message_length", "job_count", "timeout"} /\ v \in Nat
           \/ f = "limit" /\ v \in 0 .. MaxJobs
  BY <1>2
<1>4. [c EXCEPT ![f] = v] \in Config
  <2>1. CASE f = "message_length"
    BY <1>3, <2>1 DEF Config
  <2>2. CASE f = "job_count"
    BY <1>3, <2>2 DEF Config
  <2>3. CASE f = "timeout"
    BY <1>3, <2>3 DEF Config
  <2>4. CASE f = "limit"
    BY <1>3, <2>4 DEF Config
  <2> QED BY <1>3, <2>1, <2>2, <2>3, <2>4
<1> QED BY <1>3, <1>4

(* An edge on which the given write commits, or none.                       *)
LEMMA EdgeStep ==
  ASSUME RegsInv, BatchStep(start_pulse, soft_reset_pulse),
         NEW awvalid \in BOOLEAN, NEW wvalid \in BOOLEAN, NEW bready \in BOOLEAN,
         CommitEdge(awvalid, wvalid) \/ QuietEdge(awvalid, wvalid, bready)
  PROVE  RegsInv'
<1> USE DEF RegsInv
<1>1. /\ BusInv'
      /\ \/ NoWrite /\ op' = op
         \/ /\ ControlWrite \/ ConfigWrite \/ IrqWrite
            /\ ~start_pulse /\ ~soft_reset_pulse /\ op' = NoOp
  BY EdgeKinds
<1>2. /\ phase' \in {"idle", "running", "done"} /\ batch_id' \in 0 .. WordMod - 1
      /\ accepted' \in 0 .. MaxJobs /\ judged' \in SUBSET Jobs'
      /\ start_pulse /\ soft_reset_pulse =>
           /\ batch_id' = Inc(batch_id, 1) /\ phase' \in {"running", "done"}
           /\ phase' = "done" => report'.batch_id = batch_id'
      /\ ~start_pulse /\ ~soft_reset_pulse =>
           /\ batch_id' = batch_id
           /\ phase \in {"running", "done"} => phase' \in {"running", "done"}
           /\ phase' = "done" => report'.batch_id = batch_id \/ (phase = "done" /\ report' = report)
  BY BatchEdge
<1>3. NoBatch = WordMod /\ WordMod \in Nat \ {0, 1} /\ Inc(batch_id', 1) \in 0 .. WordMod - 1
  BY <1>2, LaunchAssumption, IncRange DEF NoBatch
<1>4. RegsTypes'
  <2>1. cfg' \in Config /\ wanted' \in Config
    <3>1. CASE ConfigWrite
      <4>1. op \in ConfigOps
        BY <3>1 DEF ConfigWrite, RegsTypes, ControlOps, IrqOps, NoOp
      <4> QED BY <3>1, <4>1, WriteTypes DEF ConfigWrite, RegsTypes
    <3>2. CASE NoWrite \/ ControlWrite \/ IrqWrite
      BY <3>2 DEF NoWrite, ControlWrite, IrqWrite, RegsTypes
    <3> QED BY <1>1, <3>1, <3>2
  <2>2. /\ start_pulse' \in BOOLEAN /\ soft_reset_pulse' \in BOOLEAN
        /\ expected' \in 0 .. NoBatch
    <3>1. CASE ControlWrite
      <4>1. op \in ControlOps
        BY <3>1 DEF ControlWrite, RegsTypes, ConfigOps, IrqOps, NoOp
      <4> QED BY <1>3, <3>1, <4>1 DEF ControlWrite, RegsTypes, ControlOps
    <3>2. CASE NoWrite \/ ConfigWrite \/ IrqWrite
      BY <3>2 DEF NoWrite, ConfigWrite, IrqWrite, NoPulse, RegsTypes
    <3> QED BY <1>1, <3>1, <3>2
  <2>3. op' \in ControlOps \cup ConfigOps \cup IrqOps \cup {NoOp}
    BY <1>1 DEF RegsTypes
  <2> QED BY <1>2, <2>1, <2>2, <2>3 DEF RegsTypes
<1>5. LaunchInv'
  <2>1. CASE ControlWrite /\ (op.start \/ op.reset)
    BY <1>1, <2>1 DEF ControlWrite, LaunchInv, NoWrite
  <2>2. CASE /\ ~start_pulse' /\ ~soft_reset_pulse' /\ expected' = expected
    BY <1>2, <2>2 DEF LaunchInv, RegsTypes
  <2>3. CASE ControlWrite /\ ~op.start /\ ~op.reset
    BY <2>2, <2>3 DEF ControlWrite
  <2>4. CASE NoWrite \/ ConfigWrite \/ IrqWrite
    BY <2>2, <2>4 DEF NoWrite, ConfigWrite, IrqWrite, NoPulse
  <2> QED BY <1>1, <2>1, <2>3, <2>4
<1>6. CompletionRaisesIrq'
  BY <1>1
     DEF CompletionRaisesIrq, CompletionLevel, IrqRaised, QuietIrq, NoWrite, ControlWrite, ConfigWrite,
         IrqWrite
<1>7. IgnoredWriteVisible'
  BY <1>1 DEF IgnoredWriteVisible, NoWrite, ControlWrite, ConfigWrite, IrqWrite
<1> QED BY <1>1, <1>4, <1>5, <1>6, <1>7

(* The bus master waits its turn.                                           *)
LEMMA IssueStep ==
  ASSUME RegsInv, Issue
  PROVE  RegsInv'
BY DEF RegsInv, Issue, RegsTypes, Jobs, BusInv, LaunchInv, CompletionRaisesIrq, CompletionLevel,
       IgnoredWriteVisible, batchVars, regVars

(* The inductive invariant.                                                 *)
THEOREM RegsInvariant == Spec => []RegsInv
<1>1. Init => RegsInv
  <2> SUFFICES ASSUME Init PROVE RegsInv
    OBVIOUS
  <2>1. cfg \in Config /\ wanted \in Config
    BY RegsAssumption DEF Init, BatchInit
  <2>2. 0 \in 0 .. WordMod - 1 /\ 0 \in 0 .. MaxJobs /\ NoBatch \in 0 .. NoBatch
    BY LaunchAssumption DEF NoBatch
  <2>3. RegsTypes
    BY <2>1, <2>2 DEF Init, BatchInit, RegsTypes
  <2> QED
    BY <2>3
       DEF Init, BatchInit, RegsInv, BusInv, LaunchInv, CompletionRaisesIrq, IgnoredWriteVisible
<1>2. RegsInv /\ [Next]_vars => RegsInv'
  <2> SUFFICES ASSUME RegsInv, [Next]_vars PROVE RegsInv'
    OBVIOUS
  <2>1. CASE ClockEdge
    BY <2>1, EdgeStep DEF ClockEdge
  <2>2. CASE Issue
    BY <2>2, IssueStep
  <2>3. CASE UNCHANGED vars
    BY <2>3
       DEF RegsInv, RegsTypes, Jobs, BusInv, LaunchInv, CompletionRaisesIrq, CompletionLevel,
           IgnoredWriteVisible, vars, batchVars, busVars, regVars
  <2> QED BY <2>1, <2>2, <2>3 DEF Next
<1> QED BY <1>1, <1>2, PTL DEF Spec
-----------------------------------------------------------------------------
(* Registers keep their ranges, and at most half a write is held, with no   *)
(* response waiting.                                                        *)
THEOREM RegsTyped == Spec => []RegsTypeOK
<1>1. RegsInv => RegsTypeOK
  BY DEF RegsInv, RegsTypes, BusInv, RegsTypeOK
<1> QED BY <1>1, RegsInvariant, PTL

(* From the commit of reset_then_start on, STATUS shows that very batch.    *)
THEOREM LaunchSeen == Spec => []LaunchVisible
<1>1. RegsInv => LaunchVisible
  BY DEF RegsInv, LaunchInv, LaunchVisible, StatusBusy, StatusDone, ClearHold, Busy
<1> QED BY <1>1, RegsInvariant, PTL

(* The completion of a batch is pending until software acks it.             *)
THEOREM CompletionKept == Spec => []CompletionRaisesIrq
<1>1. RegsInv => CompletionRaisesIrq
  BY DEF RegsInv
<1> QED BY <1>1, RegsInvariant, PTL

(* A configuration that is not the one written is flagged.                  *)
THEOREM IgnoredWritesSeen == Spec => []IgnoredWriteVisible
<1>1. RegsInv => IgnoredWriteVisible
  BY DEF RegsInv
<1> QED BY <1>1, RegsInvariant, PTL

(* Between the commit of a start and the end of its batch the configuration *)
(* does not change.                                                         *)
THEOREM ConfigLocked == Spec => ConfigStable
<1>1. RegsInv /\ [Next]_vars => [StatusBusy => cfg' = cfg]_vars
  <2> SUFFICES ASSUME RegsInv, Next, StatusBusy PROVE cfg' = cfg
    BY DEF vars, batchVars
  <2>1. CASE Issue
    BY <2>1 DEF Issue, batchVars
  <2>2. CASE ClockEdge
    <3>1. PICK awvalid \in BOOLEAN, wvalid \in BOOLEAN, bready \in BOOLEAN :
            CommitEdge(awvalid, wvalid) \/ QuietEdge(awvalid, wvalid, bready)
      BY <2>2 DEF ClockEdge
    <3>2. NoWrite \/ ((ControlWrite \/ ConfigWrite \/ IrqWrite) /\ ~start_pulse)
      BY <3>1, EdgeKinds DEF RegsInv
    <3> QED BY <3>2 DEF NoWrite, ControlWrite, ConfigWrite, IrqWrite, StatusBusy
  <2> QED BY <2>1, <2>2 DEF Next
<1> QED BY <1>1, RegsInvariant, PTL DEF ConfigStable, Spec
=============================================================================
