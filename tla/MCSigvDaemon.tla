---------------------------- MODULE MCSigvDaemon ----------------------------
(* Values for model checking SigvDaemon. *)
EXTENDS SigvDaemon

MCWaitModes == {"irq", "poll"}

(* Once a tool has started, which it never undoes, no property speaks of    *)
(* the tags in RAMs, registers and batches, and no guard ever does: states  *)
(* that differ in them only are one.                                        *)
Untagged(b) == [owner |-> b.owner]
View ==
  IF ToolsSilent THEN vars
  ELSE <<wait_mode, busy, pc, expected, [r \in Requests |-> [seen[r] EXCEPT !.mask = Untagged(@)]],
         answer, <<dev.running, dev.done, dev.id, dev.irq_pending, dev.irq_enable>>,
         Untagged(batch), snapshot, uio, process>>

=============================================================================
