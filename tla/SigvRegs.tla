------------------------------ MODULE SigvRegs ------------------------------
(***************************************************************************)
(* sigv_axi_regs.v in front of the batch core (SigvBatch), wired as in     *)
(* kv260_sigv_top.v, one clock edge per step: the AXI-Lite write channel,  *)
(* the control pulses, the lock on the configuration registers, the masked *)
(* status bits and the completion interrupt.                               *)
(*                                                                         *)
(* Both blocks are clocked together and each reads the other's registers   *)
(* of before the edge, so the core sees a command one edge after the write *)
(* commits.  Two pairs of registers are always assigned the same value and *)
(* are one here: launch_pending is start_pulse, and status_clear_hold is   *)
(* start_pulse || soft_reset_pulse.                                        *)
(***************************************************************************)
EXTENDS SigvBatch

CONSTANT ConfigWrites  (* register writes: [field, value] *)

(* The limit register is eight bits wide, the others 32.                    *)
ASSUME RegsAssumption ==
  /\ ConfigWrites \subseteq [field : {"message_length", "job_count", "timeout"}, value : Nat]
                            \cup [field : {"limit"}, value : 0 .. MaxJobs]
  /\ BatchConfigs \subseteq Config

VARIABLES
  op,                    (* the write the bus master presents, or NoOp       *)
  aw_seen, w_seen,       (* its address or its data was accepted             *)
  bvalid,                (* write response not yet taken                     *)
  start_pulse, soft_reset_pulse,
  irq_enable, irq_pending, completion_seen,
  config_write_ignored,
  expected,              (* history: id of the batch last launched with      *)
                         (* reset_then_start, NoBatch if commanded otherwise *)
  acked,                 (* history: an ack came since the batch completed   *)
  wanted                 (* history: the configuration software wrote        *)

busVars == <<op, aw_seen, w_seen, bvalid>>
regVars == <<start_pulse, soft_reset_pulse, irq_enable, irq_pending, completion_seen,
             config_write_ignored, expected, acked, wanted>>
vars    == <<batchVars, busVars, regVars>>

NoBatch == WordMod

ControlOps == [reg : {"CONTROL"}, start : BOOLEAN, reset : BOOLEAN]
ConfigOps  == [reg : {"CONFIG"}, write : ConfigWrites]
IrqOps     == [reg : {"IRQ"}, enable : BOOLEAN, ack : BOOLEAN]
NoOp       == [reg |-> "none"]

Busy == phase = "running"

(* What a read of STATUS returns. *)
StatusBusy == Busy \/ start_pulse
(* Mutant: no status_clear_hold. *)
NoClearHold == FALSE
ClearHold  == start_pulse \/ soft_reset_pulse
StatusDone == ~ClearHold /\ phase = "done"

CompletionLevel == phase = "done"

Irq == irq_enable /\ irq_pending
-----------------------------------------------------------------------------
(* The completion flags when no command touches them. *)
IrqRaised == irq_pending \/ (CompletionLevel /\ ~completion_seen)

QuietIrq == irq_pending' = IrqRaised /\ completion_seen' = CompletionLevel

NoPulse == start_pulse' = FALSE /\ soft_reset_pulse' = FALSE

ControlWrite ==
  /\ op.reg = "CONTROL"
  /\ start_pulse' = op.start
  /\ soft_reset_pulse' = op.reset
  /\ IF op.start \/ op.reset
     THEN /\ irq_pending' = FALSE
          /\ completion_seen' = FALSE
          /\ config_write_ignored' = FALSE
          /\ expected' = IF op.start /\ op.reset THEN Inc(batch_id', 1) ELSE NoBatch
          /\ wanted' = cfg
     ELSE QuietIrq /\ UNCHANGED <<config_write_ignored, expected, wanted>>
  /\ acked' = (acked /\ CompletionLevel)
  /\ UNCHANGED <<cfg, irq_enable>>

(* The lock of the configuration registers. *)
ConfigWrite ==
  /\ op.reg = "CONFIG"
  /\ IF Busy
     THEN config_write_ignored' = TRUE /\ UNCHANGED cfg
     ELSE cfg' = [cfg EXCEPT ![op.write.field] = op.write.value] /\ UNCHANGED config_write_ignored
  /\ wanted' = [wanted EXCEPT ![op.write.field] = op.write.value]
  /\ NoPulse
  /\ QuietIrq
  /\ acked' = (acked /\ CompletionLevel)
  /\ UNCHANGED <<irq_enable, expected>>

(* Mutants: a write that loses the completion of its own edge, and one that *)
(* clears the sticky flag as a control command does.                        *)
IrqWriteLosesEdge ==
  /\ op.reg = "IRQ"
  /\ irq_enable' = op.enable
  /\ irq_pending' = (irq_pending /\ ~op.ack)
  /\ completion_seen' = CompletionLevel
  /\ acked' = (CompletionLevel /\ (acked \/ op.ack))
  /\ NoPulse
  /\ UNCHANGED <<cfg, config_write_ignored, expected, wanted>>
IrqWriteClearsSticky ==
  /\ op.reg = "IRQ"
  /\ irq_enable' = op.enable
  /\ irq_pending' = (IrqRaised /\ ~op.ack)
  /\ completion_seen' = CompletionLevel
  /\ config_write_ignored' = FALSE
  /\ acked' = (CompletionLevel /\ (acked \/ op.ack))
  /\ NoPulse
  /\ UNCHANGED <<cfg, expected, wanted>>
IrqWrite ==
  /\ op.reg = "IRQ"
  /\ irq_enable' = op.enable
  /\ irq_pending' = (IrqRaised /\ ~op.ack)
  /\ completion_seen' = CompletionLevel
  /\ acked' = (CompletionLevel /\ (acked \/ op.ack))
  /\ NoPulse
  /\ UNCHANGED <<cfg, config_write_ignored, expected, wanted>>

NoWrite ==
  /\ NoPulse
  /\ QuietIrq
  /\ acked' = (acked /\ CompletionLevel)
  /\ UNCHANGED <<cfg, irq_enable, config_write_ignored, expected, wanted>>

(* awready and wready are down while a response waits, so two writes commit *)
(* at least two edges apart.                                                *)
(* Mutant: no back-pressure. *)
ReadyAlways == op # NoOp
Ready == op # NoOp /\ ~bvalid

WriteCommit(awvalid, wvalid) == Ready /\ (aw_seen \/ awvalid) /\ (w_seen \/ wvalid)

(* Mutant: the data of a write is kept for the next one. *)
CommitEdgeKeepsData(awvalid, wvalid) ==
  /\ WriteCommit(awvalid, wvalid)
  /\ ControlWrite \/ ConfigWrite \/ IrqWrite
  /\ op' = NoOp
  /\ aw_seen' = FALSE
  /\ w_seen' = TRUE
  /\ bvalid' = TRUE
CommitEdge(awvalid, wvalid) ==
  /\ WriteCommit(awvalid, wvalid)
  /\ ControlWrite \/ ConfigWrite \/ IrqWrite
  /\ op' = NoOp
  /\ aw_seen' = FALSE
  /\ w_seen' = FALSE
  /\ bvalid' = TRUE

QuietEdge(awvalid, wvalid, bready) ==
  /\ ~WriteCommit(awvalid, wvalid)
  /\ NoWrite
  /\ aw_seen' = (aw_seen \/ (Ready /\ awvalid))
  /\ w_seen' = (w_seen \/ (Ready /\ wvalid))
  /\ bvalid' = (bvalid /\ ~bready)
  /\ UNCHANGED op

ClockEdge ==
  /\ BatchStep(start_pulse, soft_reset_pulse)
  /\ \E awvalid, wvalid, bready \in BOOLEAN :
       CommitEdge(awvalid, wvalid) \/ QuietEdge(awvalid, wvalid, bready)
  /\ UNCHANGED verdicts

(* The bus master: one write at a time. *)
Issue ==
  /\ op = NoOp
  /\ op' \in ControlOps \cup ConfigOps \cup IrqOps
  /\ UNCHANGED <<batchVars, aw_seen, w_seen, bvalid, regVars>>

Init ==
  /\ BatchInit
  /\ op = NoOp
  /\ aw_seen = FALSE /\ w_seen = FALSE /\ bvalid = FALSE
  /\ start_pulse = FALSE /\ soft_reset_pulse = FALSE
  /\ irq_enable = FALSE /\ irq_pending = FALSE /\ completion_seen = FALSE
  /\ config_write_ignored = FALSE
  /\ expected = NoBatch /\ acked = FALSE /\ wanted = cfg

Next == ClockEdge \/ Issue

Spec == Init /\ [][Next]_vars
-----------------------------------------------------------------------------
(* From the commit of a start to the end of its batch no register the core  *)
(* reads changes: neither a write that commits while busy, nor one slipped  *)
(* in between the command and the core's busy.                              *)
ConfigStable == [][StatusBusy => cfg' = cfg]_vars

(* From the commit of reset_then_start on, STATUS shows a batch under way   *)
(* or the completion of that very batch, never the previous one's, and the  *)
(* snapshot is that batch's.                                                *)
LaunchVisible ==
  expected # NoBatch =>
    /\ StatusBusy \/ StatusDone
    /\ StatusDone => batch_id = expected /\ report.batch_id = expected

(* A completed batch leaves its interrupt pending until software acks it.   *)
CompletionRaisesIrq ==
  phase = "done" /\ completion_seen => irq_pending \/ acked

(* Until the next command, STATUS tells when the configuration in force is  *)
(* not the one software wrote.                                              *)
IgnoredWriteVisible == wanted # cfg => config_write_ignored

RegsTypeOK ==
  /\ phase \in {"idle", "running", "done"}
  /\ batch_id \in 0 .. WordMod - 1
  /\ accepted \in 0 .. MaxJobs
  /\ judged \subseteq Jobs
  /\ cfg \in Config
  /\ op \in ControlOps \cup ConfigOps \cup IrqOps \cup {NoOp}
  /\ (aw_seen \/ w_seen) => ~bvalid /\ op # NoOp
  /\ ~(aw_seen /\ w_seen)
  /\ expected \in 0 .. NoBatch

=============================================================================
