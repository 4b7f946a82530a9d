-------------------------- MODULE SigvDaemonProofs --------------------------
(***************************************************************************)
(* What the daemon promises for every number of requests and tool runs, in *)
(* both wait modes, with crashes, stops, failures and disconnections.  One *)
(* lemma per part of DaemonInv shows that every step keeps it, from the    *)
(* parts it leans on:                                                      *)
(*   the guard admits one thread (SingleFlightStep), which then owns the   *)
(*   RAMs and, after its command, the batch (OwnStep: its own steps;       *)
(*   OthersUntouched, OthersRest: everybody else's), so that what it reads *)
(*   is of that batch (MasterStep); the registers are its own too, unless  *)
(*   a batch that was left running made the device drop a write, and then  *)
(*   the thread that left it is known (AccountedStep); and the interrupt   *)
(*   of the one thread that waits is nobody else's (WaitStep, IrqStep).    *)
(* With other masters at work (RivalInv) the id is what a thread has: each *)
(* launch takes it one further (RivalKeeps), its own is where it expects   *)
(* it or past it (OwnCommandKeeps), the snapshot follows in the same order *)
(* (CompletionKeeps), so an id that matches after the error bits vouches   *)
(* for both (OwnKeeps).                                                    *)
(***************************************************************************)
EXTENDS SigvDaemonInv, FiniteSetTheorems, TLAPS

(* The next batch id is an id.                                               *)
LEMMA NextId ==
  ASSUME NEW n \in Ids
  PROVE  (n + 1) % IdMod \in Ids
<1>1. IdMod \in Nat \ {0}
  BY DaemonAssumption
<1> QED BY <1>1 DEF Ids

(* Every step keeps the types.                                               *)
LEMMA TypeStep ==
  ASSUME TypeInv, [Next]_vars
  PROVE  TypeInv'
<1> USE DEF TypeInv, Places, Writing, Launching, AfterCommand, ConfigRegs, Goto, device, process
<1>1. ASSUME NEW r \in Requests, Arrive(r) \/ Thread(r) \/ Fails(r) \/ Disconnect(r) \/ Abandon(r)
      PROVE  TypeInv'
  <2>1. CASE Acquire(r)
    BY <2>1 DEF Acquire
  <2>2. CASE Refuse(r)
    BY <2>2 DEF Refuse, Answer, Outcomes
  <2>3. CASE EnterTool(r)
    BY <2>3 DEF EnterTool
  <2>4. CASE PutMessage(r)
    BY <2>4 DEF PutMessage, WriteMessage, DevType, BatchType, Tags
  <2>5. CASE PutJobs(r)
    BY <2>5 DEF PutJobs, WriteJobs, DevType, BatchType, Tags
  <2>6. CASE PutConfig(r)
    <3>1. dev' \in DevType
      BY <2>6 DEF PutConfig, WriteConfig, DevType, Tags
    <3>2. pc' \in [Requests -> Places]
      BY <2>6 DEF PutConfig, NextReg
    <3> QED BY <2>6, <3>1, <3>2 DEF PutConfig
  <2>7. CASE ReadBatchId(r)
    BY <2>7, NextId DEF ReadBatchId, WaitsForIrq, DevType
  <2>8. CASE OpenUio(r)
    BY <2>8 DEF OpenUio
  <2>9. CASE AckIrq(r)
    BY <2>9 DEF AckIrq, AckAndEnableIrq, DevType
  <2>10. CASE Arm(r)
    BY <2>10 DEF Arm
  <2>11. CASE Command(r)
    <3>1. dev' \in DevType
      BY <2>11, NextId DEF Command, ResetThenStart, DevType
    <3>2. batch' \in BatchType
      BY <2>11 DEF Command, ResetThenStart, DevType, BatchType, Tags
    <3>3. pc' \in [Requests -> Places]
      BY <2>11 DEF Command, WaitsForIrq
    <3> QED BY <2>11, <3>1, <3>2, <3>3 DEF Command
  <2>12. CASE WaitReturns(r)
    BY <2>12 DEF WaitReturns
  <2>13. CASE WaitTimesOut(r)
    BY <2>13 DEF WaitTimesOut, Leave, DropGuard, Answer, Outcomes
  <2>14. CASE AckDone(r)
    BY <2>14 DEF AckDone, AckAndEnableIrq, DevType
  <2>15. CASE PollSeesDone(r)
    BY <2>15 DEF PollSeesDone
  <2>16. CASE PollTimesOut(r)
    BY <2>16 DEF PollTimesOut, Leave, DropGuard, Answer, Outcomes
  <2>17. CASE ReadLiveMask(r)
    BY <2>17 DEF ReadLiveMask, SeenType
  <2>18. CASE ReadErrStatus(r)
    BY <2>18 DEF ReadErrStatus, SeenType
  <2>19. CASE ReadSnapshotId(r)
    <3>1. seen[r] \in SeenType /\ snapshot.id \in Ids /\ snapshot.owner \in Tags
      OBVIOUS
    <3>2. [seen[r] EXCEPT !.id = snapshot.id, !.owner = snapshot.owner] \in SeenType
      BY <3>1 DEF SeenType
    <3>3. seen' = [seen EXCEPT ![r] = [seen[r] EXCEPT !.id = snapshot.id, !.owner = snapshot.owner]]
      BY <2>19 DEF ReadSnapshotId
    <3> QED BY <2>19, <3>2, <3>3 DEF ReadSnapshotId
  <2>20. CASE ReadCounts(r)
    BY <2>20 DEF ReadCounts, SeenType
  <2>21. CASE Mismatch(r)
    BY <2>21 DEF Mismatch, Leave, DropGuard, Answer, Outcomes
  <2>22. CASE ReadMask(r)
    BY <2>22 DEF ReadMask, SeenType
  <2>23. CASE Reply(r)
    BY <2>23 DEF Reply, Leave, DropGuard, Answer, Outcomes
  <2>24. CASE Fails(r)
    BY <2>24 DEF Fails, Leave, DropGuard, Answer, Outcomes
  <2>25. CASE Arrive(r)
    BY <2>25 DEF Arrive
  <2>26. CASE Disconnect(r)
    BY <2>26 DEF Disconnect, InProcess
  <2>27. CASE Abandon(r)
    BY <2>27 DEF Abandon, Answer, Outcomes
  <2> QED BY <1>1, <2>1, <2>2, <2>3, <2>4, <2>5, <2>6, <2>7, <2>8, <2>9, <2>10, <2>11, <2>12, <2>13, <2>14, <2>15, <2>16, <2>17, <2>18, <2>19, <2>20, <2>21, <2>22, <2>23, <2>24, <2>25, <2>26, <2>27 DEF Thread
<1>2. CASE DeviceCompletes
  BY <1>2 DEF DeviceCompletes, DevType, BatchType
<1>3. CASE InterruptFires
  BY <1>3 DEF InterruptFires
<1>4. CASE Start
  BY <1>4 DEF Start
<1>5. ASSUME NEW removed \in BOOLEAN, StopAccepting(removed)
      PROVE  TypeInv'
  BY <1>5 DEF StopAccepting, InProcess
<1>6. CASE Exit
  BY <1>6 DEF Exit
<1>7. CASE Crash
  BY <1>7 DEF Crash, Outcomes
<1>8. CASE UNCHANGED vars
  BY <1>8 DEF vars
<1> QED BY <1>1, <1>2, <1>3, <1>4, <1>5, <1>6, <1>7, <1>8 DEF Next

(* Every way into verify_batch takes the guard, and every way out drops it,  *)
(* for the thread that leaves.                                               *)
LEMMA SingleFlightStep ==
  ASSUME TypeInv, SingleFlight, [Next]_vars
  PROVE  SingleFlight'
<1> USE DEF TypeInv, SingleFlight, Active, InProcess, Goto, process
<1>1. ASSUME NEW r \in Requests, Arrive(r) \/ Thread(r) \/ Fails(r) \/ Disconnect(r) \/ Abandon(r)
      PROVE  SingleFlight'
  <2>1. CASE Acquire(r)
    BY <2>1 DEF Acquire
  <2>2. CASE Refuse(r)
    BY <2>2 DEF Refuse
  <2>3. CASE Arrive(r) \/ EnterTool(r) \/ Disconnect(r) \/ Abandon(r)
    BY <2>3 DEF Arrive, EnterTool, Disconnect, Abandon
  <2>4. ASSUME NEW from \in Places \ {"absent", "new", "end"}, NEW outcome,
               Leave(r, from, outcome)
        PROVE  SingleFlight'
    BY <2>4 DEF Leave, DropGuard
  <2>5. CASE WaitTimesOut(r) \/ PollTimesOut(r) \/ Mismatch(r) \/ Reply(r) \/ Fails(r)
    BY <2>4, <2>5 DEF WaitTimesOut, PollTimesOut, Mismatch, Reply, Fails, Places, Writing,
                      Launching, AfterCommand
  <2>7. ASSUME NEW to, Goto(r, pc[r], to), UNCHANGED busy,
               {pc[r], to} \cap {"absent", "new", "end"} = {}
        PROVE  SingleFlight'
    BY <2>7
  <2> QED
    BY <1>1, <2>1, <2>2, <2>3, <2>5, <2>7
       DEF Thread, PutMessage, PutJobs, PutConfig, ReadBatchId, OpenUio, AckIrq, Arm, Command,
           WaitReturns, AckDone, PollSeesDone, ReadLiveMask, ReadErrStatus, ReadSnapshotId,
           ReadCounts, ReadMask, ConfigRegs, NextReg
<1>2. CASE DeviceCompletes \/ InterruptFires \/ Start \/ Exit \/ UNCHANGED vars
  BY <1>2 DEF DeviceCompletes, InterruptFires, Start, Exit, vars
<1>3. ASSUME NEW removed \in BOOLEAN, StopAccepting(removed)
      PROVE  SingleFlight'
  BY <1>3 DEF StopAccepting
<1>4. CASE Crash
  BY <1>4 DEF Crash
<1> QED BY <1>1, <1>2, <1>3, <1>4 DEF Next

(* A request that was answered is at its end.                                *)
LEMMA AnswerStep ==
  ASSUME TypeInv, AnswerInv, [Next]_vars
  PROVE  AnswerInv'
<1> USE DEF TypeInv, AnswerInv, Goto, process
<1>1. ASSUME NEW r \in Requests, Arrive(r) \/ Thread(r) \/ Fails(r) \/ Disconnect(r) \/ Abandon(r)
      PROVE  AnswerInv'
  <2>1. ASSUME NEW from \in Places \ {"end"}, NEW outcome, Leave(r, from, outcome)
        PROVE  AnswerInv'
    BY <2>1 DEF Leave, Answer
  <2>2. CASE WaitTimesOut(r) \/ PollTimesOut(r) \/ Mismatch(r) \/ Reply(r) \/ Fails(r)
    BY <2>1, <2>2 DEF WaitTimesOut, PollTimesOut, Mismatch, Reply, Fails, Places, Writing,
                      Launching, AfterCommand
  <2>3. CASE Refuse(r) \/ Abandon(r)
    BY <2>3 DEF Refuse, Abandon, Answer
  <2>4. ASSUME pc[r] # "end", NEW to, Goto(r, pc[r], to), UNCHANGED answer
        PROVE  AnswerInv'
    BY <2>4
  <2>5. CASE Disconnect(r)
    BY <2>5 DEF Disconnect
  <2> QED
    BY <1>1, <2>2, <2>3, <2>4, <2>5
       DEF Thread, Arrive, Acquire, EnterTool, PutMessage, PutJobs, PutConfig, ReadBatchId,
           OpenUio, AckIrq, Arm, Command, WaitReturns, AckDone, PollSeesDone, ReadLiveMask,
           ReadErrStatus, ReadSnapshotId, ReadCounts, ReadMask, ConfigRegs
<1>2. CASE DeviceCompletes \/ InterruptFires \/ Start \/ Exit \/ UNCHANGED vars
  BY <1>2 DEF DeviceCompletes, InterruptFires, Start, Exit, vars
<1>3. ASSUME NEW removed \in BOOLEAN, StopAccepting(removed)
      PROVE  AnswerInv'
  BY <1>3 DEF StopAccepting
<1>4. CASE Crash
  BY <1>4 DEF Crash, InProcess
<1> QED BY <1>1, <1>2, <1>3, <1>4 DEF Next

(* Only a command ends the completion of a batch, and only a completion      *)
(* writes the snapshot.                                                      *)
LEMMA DeviceStep ==
  ASSUME TypeInv, DeviceInv, [Next]_vars
  PROVE  DeviceInv'
<1> USE DEF TypeInv, DeviceInv, DevType, BatchType
<1>1. ASSUME NEW r \in Requests, Arrive(r) \/ Thread(r) \/ Fails(r) \/ Disconnect(r) \/ Abandon(r)
      PROVE  DeviceInv'
  <2>1. CASE PutMessage(r) \/ PutJobs(r)
    BY <2>1 DEF PutMessage, PutJobs, WriteMessage, WriteJobs
  <2>2. CASE PutConfig(r)
    BY <2>2 DEF PutConfig, WriteConfig
  <2>3. CASE AckIrq(r) \/ AckDone(r)
    BY <2>3 DEF AckIrq, AckDone, AckAndEnableIrq
  <2>4. CASE Command(r)
    BY <2>4 DEF Command, ResetThenStart
  <2>5. CASE UNCHANGED device
    BY <2>5 DEF device
  <2> QED
    BY <1>1, <2>1, <2>2, <2>3, <2>4, <2>5
       DEF Thread, Arrive, Acquire, Refuse, EnterTool, ReadBatchId, OpenUio, Arm,
           WaitReturns, WaitTimesOut, PollSeesDone, PollTimesOut, ReadLiveMask, ReadErrStatus,
           ReadSnapshotId, ReadCounts, Mismatch, ReadMask, Reply, Leave, Fails, Disconnect, Abandon
<1>2. CASE DeviceCompletes
  BY <1>2 DEF DeviceCompletes
<1>3. CASE InterruptFires \/ Start \/ Exit \/ Crash \/ UNCHANGED vars
  BY <1>3 DEF InterruptFires, Start, Exit, Crash, vars, device
<1>4. ASSUME NEW removed \in BOOLEAN, StopAccepting(removed)
      PROVE  DeviceInv'
  BY <1>4 DEF StopAccepting, device
<1> QED BY <1>1, <1>2, <1>3, <1>4 DEF Next

(* Only a thread of a daemon in interrupt mode gets to the UIO file.         *)
LEMMA WaitStep ==
  ASSUME TypeInv, WaitInv, [Next]_vars
  PROVE  WaitInv'
<1> USE DEF TypeInv, WaitInv, WaitsForIrq, Goto, process
<1>1. ASSUME NEW r \in Requests, Arrive(r) \/ Thread(r) \/ Fails(r) \/ Disconnect(r) \/ Abandon(r)
      PROVE  WaitInv'
  <2>1. CASE Command(r) \/ ReadBatchId(r)
    BY <2>1 DEF Command, ReadBatchId
  <2>2. ASSUME NEW to, Goto(r, pc[r], to), UNCHANGED wait_mode,
               \/ to \notin {"open_uio", "ack", "arm", "wait", "ack_done"}
               \/ pc[r] \in {"open_uio", "ack", "wait"}
        PROVE  WaitInv'
    BY <2>2
  <2>3. CASE Disconnect(r)
    BY <2>3 DEF Disconnect
  <2> QED
    BY <1>1, <2>1, <2>2, <2>3
       DEF Thread, Arrive, Acquire, Refuse, EnterTool, PutMessage, PutJobs, PutConfig, NextReg,
           ConfigRegs, OpenUio, AckIrq, Arm, WaitReturns, WaitTimesOut, AckDone,
           PollSeesDone, PollTimesOut, ReadLiveMask, ReadErrStatus, ReadSnapshotId, ReadCounts,
           Mismatch, ReadMask, Reply, Leave, Fails, Abandon
<1>2. CASE DeviceCompletes \/ InterruptFires \/ Start \/ Exit \/ Crash \/ UNCHANGED vars
  BY <1>2 DEF DeviceCompletes, InterruptFires, Start, Exit, Crash, vars
<1>3. ASSUME NEW removed \in BOOLEAN, StopAccepting(removed)
      PROVE  WaitInv'
  BY <1>3 DEF StopAccepting
<1> QED BY <1>1, <1>2, <1>3 DEF Next

(* Only the thread itself masks, acknowledges or consumes its interrupt.    *)
LEMMA IrqStep ==
  ASSUME TypeInv, SingleFlight, WaitInv, IrqInv, [Next]_vars
  PROVE  IrqInv'
<1> USE DEF TypeInv, DevType, IrqInv, WaitsForIrq, Goto, process
<1>1. ASSUME NEW r \in Requests, Arrive(r) \/ Thread(r) \/ Fails(r) \/ Disconnect(r) \/ Abandon(r)
      PROVE  IrqInv'
  <2>1. CASE PutMessage(r) \/ PutJobs(r)
    BY <2>1 DEF PutMessage, PutJobs, WriteMessage, WriteJobs
  <2>2. CASE PutConfig(r)
    BY <2>2 DEF PutConfig, WriteConfig, NextReg, ConfigRegs
  <2>3. ASSUME pc[r] \in {"open_uio", "ack", "arm", "wait", "ack_done"},
               NEW s \in Requests \ Tools, pc[s] \in {"arm", "control", "wait"}
        PROVE  s = r
    BY <2>3 DEF WaitInv, SingleFlight, Active, InProcess
  <2>4. CASE AckIrq(r)
    BY <2>3, <2>4 DEF AckIrq, AckAndEnableIrq
  <2>5. CASE AckDone(r)
    BY <2>3, <2>5 DEF AckDone, AckAndEnableIrq
  <2>6. CASE OpenUio(r) \/ WaitReturns(r)
    BY <2>3, <2>6 DEF OpenUio, WaitReturns
  <2>7. CASE Arm(r)
    BY <2>3, <2>7 DEF Arm, device
  <2>8. CASE Command(r)
    BY <2>8 DEF Command, ResetThenStart
  <2>9. ASSUME NEW to, Goto(r, pc[r], to), to \notin {"arm", "control", "wait"},
               UNCHANGED <<wait_mode, device, uio>>
        PROVE  IrqInv'
    BY <2>9 DEF device
  <2>10. CASE ReadBatchId(r)
    BY <2>10 DEF ReadBatchId, device
  <2>11. CASE Disconnect(r)
    BY <2>11 DEF Disconnect, device
  <2> QED
    BY <1>1, <2>1, <2>2, <2>4, <2>5, <2>6, <2>7, <2>8, <2>9, <2>10, <2>11
       DEF Thread, Arrive, Acquire, Refuse, EnterTool, WaitTimesOut, PollSeesDone, PollTimesOut,
           ReadLiveMask, ReadErrStatus, ReadSnapshotId, ReadCounts, Mismatch, ReadMask, Reply,
           Leave, Fails, Abandon
<1>2. CASE DeviceCompletes
  BY <1>2 DEF DeviceCompletes
<1>3. CASE InterruptFires
  BY <1>3 DEF InterruptFires, device
<1>4. CASE Start \/ Exit \/ Crash \/ UNCHANGED vars
  BY <1>4 DEF Start, Exit, Crash, vars, device
<1>5. ASSUME NEW removed \in BOOLEAN, StopAccepting(removed)
      PROVE  IrqInv'
  BY <1>5 DEF StopAccepting, device
<1> QED BY <1>1, <1>2, <1>3, <1>4, <1>5 DEF Next

(* A tool that has started does not become silent again.                    *)
LEMMA SilentBefore ==
  ASSUME TypeInv, [Next]_vars, ToolsSilent'
  PROVE  ToolsSilent
<1> USE DEF TypeInv, ToolsSilent, Goto, process
<1>1. ASSUME NEW r \in Requests, Arrive(r) \/ Thread(r) \/ Fails(r) \/ Disconnect(r) \/ Abandon(r)
      PROVE  ToolsSilent
  <2>1. ASSUME NEW to, Goto(r, pc[r], to), pc[r] = "absent" \/ to \notin {"absent", "new"}
        PROVE  ToolsSilent
    BY <2>1
  <2> QED
    BY <1>1, <2>1
       DEF Thread, Arrive, Acquire, Refuse, EnterTool, PutMessage, PutJobs, PutConfig, NextReg,
           ConfigRegs, ReadBatchId, OpenUio, AckIrq, Arm, Command, WaitReturns, WaitTimesOut, AckDone,
           PollSeesDone, PollTimesOut, ReadLiveMask, ReadErrStatus, ReadSnapshotId, ReadCounts,
           Mismatch, ReadMask, Reply, Leave, Fails, Abandon, Disconnect
<1>2. CASE DeviceCompletes \/ InterruptFires \/ Start \/ Exit \/ UNCHANGED vars
  BY <1>2 DEF DeviceCompletes, InterruptFires, Start, Exit, vars
<1>3. CASE Crash
  BY <1>3, DaemonAssumption DEF Crash, InProcess
<1>4. ASSUME NEW removed \in BOOLEAN, StopAccepting(removed)
      PROVE  ToolsSilent
  BY <1>4 DEF StopAccepting
<1> QED BY <1>1, <1>2, <1>3, <1>4 DEF Next

(* While a thread is past the guard, the other threads are not.              *)
LEMMA OthersRest ==
  ASSUME SingleFlight, NEW r \in Requests \ Tools, pc[r] \notin {"absent", "new", "end"},
         NEW s \in Requests \ Tools, s # r
  PROVE  pc[s] \in {"absent", "new", "end"}
BY DEF SingleFlight, Active, InProcess

(* A thread at work keeps what concerns itself.                             *)
LEMMA OwnStep ==
  ASSUME TypeInv, DeviceInv, NEW r \in Requests \ Tools,
         RamInv(r), BatchInv(r), SnapshotInv(r), Thread(r), pc[r] # "new"
  PROVE  RamInv(r)' /\ BatchInv(r)' /\ SnapshotInv(r)'
<1> USE DEF TypeInv, DeviceInv, RamInv, BatchInv, SnapshotInv,
        DevType, BatchType, SeenType, ConfigRegs, Launching, AfterCommand, Reading, Goto
<1>1. CASE PutMessage(r)
  BY <1>1 DEF PutMessage, WriteMessage
<1>2. CASE PutJobs(r)
  BY <1>2 DEF PutJobs, WriteJobs
<1>3. CASE PutConfig(r)
  BY <1>3 DEF PutConfig, WriteConfig, NextReg
<1>4. CASE ReadBatchId(r)
  BY <1>4 DEF ReadBatchId, WaitsForIrq, device
<1>5. CASE OpenUio(r)
  BY <1>5 DEF OpenUio, device
<1>6. CASE AckIrq(r)
  BY <1>6 DEF AckIrq, AckAndEnableIrq
<1>7. CASE Arm(r)
  BY <1>7 DEF Arm, device
<1>8. CASE Command(r)
  BY <1>8 DEF Command, ResetThenStart, WaitsForIrq
<1>9. CASE WaitReturns(r)
  BY <1>9 DEF WaitReturns, device
<1>10. CASE AckDone(r)
  BY <1>10 DEF AckDone, AckAndEnableIrq
<1>11. CASE PollSeesDone(r)
  BY <1>11 DEF PollSeesDone, device
<1>12. CASE ReadErrStatus(r)
  BY <1>12 DEF ReadErrStatus, device
<1>13. CASE ReadSnapshotId(r)
  BY <1>13 DEF ReadSnapshotId, device
<1>14. CASE ReadCounts(r)
  BY <1>14 DEF ReadCounts, device
<1>15. CASE ReadMask(r)
  BY <1>15 DEF ReadMask, device
<1>16. ASSUME pc'[r] = "end"
      PROVE  RamInv(r)' /\ BatchInv(r)' /\ SnapshotInv(r)'
  BY <1>16
<1>17. CASE WaitTimesOut(r) \/ PollTimesOut(r) \/ Mismatch(r) \/ Reply(r)
  BY <1>16, <1>17 DEF WaitTimesOut, PollTimesOut, Mismatch, Reply, Leave
<1>18. ~Acquire(r) /\ ~Refuse(r) /\ ~EnterTool(r) /\ ~ReadLiveMask(r)
  BY DEF Acquire, Refuse, EnterTool, ReadLiveMask
<1> QED
  BY <1>1, <1>2, <1>3, <1>4, <1>5, <1>6, <1>7, <1>8, <1>9, <1>10, <1>11, <1>12, <1>13, <1>14,
     <1>15, <1>17, <1>18 DEF Thread

(* It changes nobody else's place, answer or readings.                      *)
LEMMA OthersUntouched ==
  ASSUME TypeInv, NEW r \in Requests,
         Arrive(r) \/ Thread(r) \/ Fails(r) \/ Disconnect(r) \/ Abandon(r),
         NEW s \in Requests, s # r
  PROVE  pc'[s] = pc[s] /\ answer'[s] = answer[s] /\ seen'[s] = seen[s]
BY DEF TypeInv, Goto, process, Thread, Arrive, Acquire, Refuse, EnterTool, PutMessage, PutJobs,
       PutConfig, ReadBatchId, OpenUio, AckIrq, Arm, Command, WaitReturns, WaitTimesOut, AckDone,
       PollSeesDone, PollTimesOut, ReadLiveMask, ReadErrStatus, ReadSnapshotId, ReadCounts,
       Mismatch, ReadMask, Reply, Leave, Answer, Fails, Abandon, Disconnect

(* A thread gives one answer, and a good one only for its own batch.        *)
LEMMA ResultStep ==
  ASSUME TypeInv, AnswerInv, NEW r \in Requests \ Tools, BatchInv(r), SnapshotInv(r), ResultInv(r),
         Arrive(r) \/ Thread(r) \/ Fails(r) \/ Disconnect(r) \/ Abandon(r)
  PROVE  ResultInv(r)'
<1> USE DEF TypeInv, ResultInv, Goto
<1>1. CASE Reply(r)
  BY <1>1 DEF Reply, Leave, Answer, BatchInv, SnapshotInv, AfterCommand, Reading
<1>2. ~Mismatch(r)
  BY DEF Mismatch, Leave, IdMatches, BatchInv, SnapshotInv, AfterCommand
<1>3. CASE WaitTimesOut(r) \/ PollTimesOut(r) \/ Fails(r) \/ Refuse(r) \/ Abandon(r)
  BY <1>3 DEF WaitTimesOut, PollTimesOut, Fails, Refuse, Abandon, Leave, Answer
<1>4. CASE answer' = answer /\ pc[r] # "end"
  BY <1>4, DaemonAssumption DEF AnswerInv, Outcomes
<1>5. CASE Disconnect(r)
  BY <1>5 DEF Disconnect
<1> QED
  BY <1>1, <1>2, <1>3, <1>4, <1>5
     DEF Thread, Arrive, Acquire, EnterTool, PutMessage, PutJobs, PutConfig, ConfigRegs, ReadBatchId,
         OpenUio, AckIrq, Arm, Command, WaitReturns, AckDone, PollSeesDone, ReadLiveMask,
         ReadErrStatus, ReadSnapshotId, ReadCounts, ReadMask

(* A command is the only step that replaces a batch, and the thread past the *)
(* guard the only one that gives it.                                         *)
LEMMA MasterStep ==
  ASSUME TypeInv, SingleFlight, AnswerInv, DeviceInv, OnlyMasterInv, [Next]_vars
  PROVE  OnlyMasterInv'
<1> SUFFICES ASSUME ToolsSilent'
             PROVE  MasterInv'
  BY DEF OnlyMasterInv
<1>1. ToolsSilent /\ MasterInv
  BY SilentBefore DEF OnlyMasterInv
<1>2. ASSUME NEW r \in Requests, Arrive(r) \/ Thread(r) \/ Fails(r) \/ Disconnect(r) \/ Abandon(r)
      PROVE  MasterInv'
  <2>1. CASE r \in Tools
    <3>1. Arrive(r)
      BY <1>1, <1>2, <2>1, DaemonAssumption
         DEF ToolsSilent, Thread, Acquire, Refuse, EnterTool, PutMessage, PutJobs, PutConfig,
             ConfigRegs, ReadBatchId, OpenUio, AckIrq, Arm, Command, WaitReturns, WaitTimesOut,
             AckDone, PollSeesDone, PollTimesOut, ReadLiveMask, ReadErrStatus, ReadSnapshotId,
             ReadCounts, Mismatch, ReadMask, Reply, Leave, Fails, Abandon, Disconnect, InProcess,
             TypeInv, Goto
    <3> QED
      BY <1>1, <2>1, <3>1, OthersUntouched
         DEF Arrive, TypeInv, Goto, device, MasterInv, RamInv, BatchInv, SnapshotInv, ResultInv
  <2>2. CASE r \notin Tools
    <3>1. \A s \in Requests : ResultInv(s)'
      BY <1>1, <1>2, <2>2, OthersUntouched, ResultStep DEF MasterInv, ResultInv
    <3>2. CASE Thread(r) /\ pc[r] # "new"
      <4>1. RamInv(r)' /\ BatchInv(r)' /\ SnapshotInv(r)'
        BY <1>1, <2>2, <3>2, OwnStep DEF MasterInv
      <4>2. pc[r] \notin {"absent", "new", "end"}
        BY <3>2
           DEF Thread, Acquire, Refuse, EnterTool, PutMessage, PutJobs, PutConfig,
             ConfigRegs, ReadBatchId, OpenUio, AckIrq, Arm, Command, WaitReturns, WaitTimesOut,
             AckDone, PollSeesDone, PollTimesOut, ReadLiveMask, ReadErrStatus, ReadSnapshotId,
             ReadCounts, Mismatch, ReadMask, Reply, Leave, Goto
      <4>3. ASSUME NEW s \in Requests \ Tools, s # r
            PROVE  RamInv(s)' /\ BatchInv(s)' /\ SnapshotInv(s)'
        <5>1. pc'[s] \in {"absent", "new", "end"}
          BY <1>2, <2>2, <4>2, <4>3, OthersRest, OthersUntouched
        <5> QED BY <5>1 DEF RamInv, BatchInv, SnapshotInv, Launching, AfterCommand, Reading
      <4> QED BY <3>1, <4>1, <4>3 DEF MasterInv
    <3>3. CASE ~(Thread(r) /\ pc[r] # "new")
      <4>1. /\ pc'[r] \in {"absent", "new", "message", "end"} \/ pc' = pc
            /\ UNCHANGED <<dev, batch, snapshot, expected, seen>>
        BY <1>2, <3>3
           DEF Thread, Acquire, Refuse, EnterTool, PutMessage, PutJobs, PutConfig, TypeInv,
             ConfigRegs, ReadBatchId, OpenUio, AckIrq, Arm, Command, WaitReturns, WaitTimesOut,
             AckDone, PollSeesDone, PollTimesOut, ReadLiveMask, ReadErrStatus, ReadSnapshotId,
             ReadCounts, Mismatch, ReadMask, Reply, Leave, Goto, Arrive, Fails, Disconnect, Abandon,
             device
      <4>2. ASSUME NEW s \in Requests \ Tools
            PROVE  RamInv(s)' /\ BatchInv(s)' /\ SnapshotInv(s)'
        BY <1>1, <1>2, <4>1, OthersUntouched
           DEF MasterInv, RamInv, BatchInv, SnapshotInv, Launching, AfterCommand, Reading
      <4> QED BY <3>1, <4>2 DEF MasterInv
    <3> QED BY <3>2, <3>3
  <2> QED BY <2>1, <2>2
<1>3. CASE DeviceCompletes
  BY <1>1, <1>3
     DEF DeviceCompletes, MasterInv, RamInv, BatchInv, SnapshotInv, ResultInv, DeviceInv, TypeInv,
         DevType
<1>4. CASE InterruptFires \/ Start \/ Exit \/ UNCHANGED vars
  BY <1>1, <1>4
     DEF InterruptFires, Start, Exit, vars, device, MasterInv, RamInv, BatchInv, SnapshotInv, ResultInv
<1>5. CASE Crash
  BY <1>1, <1>5, DaemonAssumption
     DEF Crash, InProcess, device, MasterInv, RamInv, BatchInv, SnapshotInv, ResultInv, TypeInv,
         Launching, AfterCommand, Reading
<1>6. ASSUME NEW removed \in BOOLEAN, StopAccepting(removed)
      PROVE  MasterInv'
  BY <1>1, <1>6
     DEF StopAccepting, device, MasterInv, RamInv, BatchInv, SnapshotInv, ResultInv
<1> QED BY <1>2, <1>3, <1>4, <1>5, <1>6 DEF Next

(* An answer stays.                                                         *)
LEMMA AnswerStays ==
  ASSUME TypeInv, AnswerInv, [Next]_vars, NEW s \in Requests, answer[s] # None
  PROVE  answer'[s] = answer[s]
<1>1. pc[s] = "end"
  BY DEF AnswerInv
<1>2. ASSUME Arrive(s) \/ Thread(s) \/ Fails(s) \/ Disconnect(s) \/ Abandon(s)
      PROVE  answer' = answer
  BY <1>1, <1>2
     DEF Goto, Thread, Arrive, Acquire, Refuse, EnterTool, PutMessage, PutJobs,
         PutConfig, ConfigRegs, ReadBatchId, OpenUio, AckIrq, Arm, Command, WaitReturns,
         WaitTimesOut, AckDone, PollSeesDone, PollTimesOut, ReadLiveMask, ReadErrStatus,
         ReadSnapshotId, ReadCounts, Mismatch, ReadMask, Reply, Leave, Fails, Abandon, Disconnect
<1>3. ASSUME NEW r \in Requests,
             Arrive(r) \/ Thread(r) \/ Fails(r) \/ Disconnect(r) \/ Abandon(r)
      PROVE  answer'[s] = answer[s]
  BY <1>2, <1>3, OthersUntouched
<1>4. CASE Crash
  BY <1>1, <1>4 DEF Crash, InProcess
<1> QED
  BY <1>3, <1>4 DEF Next, DeviceCompletes, InterruptFires, Start, StopAccepting, Exit, vars

(* So a thread that went away stays away, and what a batch is accounted for *)
(* by stays true.                                                           *)
LEMMA AccountStays ==
  ASSUME TypeInv, AnswerInv, [Next]_vars
  PROVE  /\ \A q \in Requests : WentAway(q) => WentAway(q)'
         /\ \A q \in Requests, b \in BatchType : Accounted(q, b) => Accounted(q, b)'
<1>1. \A q \in Requests : WentAway(q) => WentAway(q)'
  BY AnswerStays, DaemonAssumption DEF WentAway, Outcomes
<1>2. ASSUME NEW q \in Requests, NEW b \in BatchType, Accounted(q, b)
      PROVE  Accounted(q, b)'
  BY <1>1, <1>2 DEF Accounted, ConfigIsOwn, LockedOut
<1> QED BY <1>1, <1>2

(* A register write that the device drops finds the batch of a thread that  *)
(* went away: the one that writes is the only one at work.                  *)
LEMMA DroppedWrite ==
  ASSUME TypeInv, SingleFlight, ToolsSilent, ConfigInv,
         NEW r \in Requests \ Tools, PutConfig(r), dev.running
  PROVE  batch.owner \in Requests /\ WentAway(batch.owner)
<1>1. pc[r] \in ConfigRegs
  BY DEF PutConfig
<1>2. /\ batch.owner \in Requests
      /\ pc[batch.owner] \in {"wait", "ack_done", "poll"} \/ WentAway(batch.owner)
  BY DEF ConfigInv
<1>3. ASSUME pc[batch.owner] \in {"wait", "ack_done", "poll"}
      PROVE  FALSE
  <2>1. batch.owner \in Requests \ Tools
    BY <1>2, <1>3 DEF ToolsSilent
  <2>2. batch.owner # r /\ pc[r] \notin {"absent", "new", "end"}
    BY <1>1, <1>3 DEF ConfigRegs
  <2> QED BY <1>3, <2>1, <2>2, OthersRest
<1> QED BY <1>2, <1>3

(* What a thread has written, and what its batch got of it, stay accounted  *)
(* for by its own steps.                                                    *)
LEMMA OwnRegsStep ==
  ASSUME TypeInv, AnswerInv, MasterInv, ConfigInv, [Next]_vars,
         NEW r \in Requests \ Tools, Thread(r)
  PROVE  RegsInv(r)'
<1> USE DEF Goto
<1>1. RegsInv(r) /\ dev \in DevType /\ batch \in BatchType /\ seen \in [Requests -> SeenType]
  BY DEF ConfigInv, TypeInv
<1>2. ASSUME answer'[r] # "ok", batch' = batch, dev'.cfg = dev.cfg, dev'.ignored = dev.ignored,
             pc'[r] \in AfterCommand => pc[r] \in AfterCommand,
             WrittenRegs(pc'[r]) \subseteq WrittenRegs(pc[r])
      PROVE  RegsInv(r)'
  <2>1. Accounted(r, batch) => Accounted(r, batch)'
    BY <1>1, <1>2, AccountStays DEF Accounted, ConfigIsOwn, LockedOut, WentAway
  <2> QED BY <1>1, <1>2, <2>1 DEF RegsInv
<1>3. pc[r] # "end" => answer[r] # "ok"
  BY DaemonAssumption DEF AnswerInv, Outcomes
<1> USE DEF TypeInv
<1>4. CASE PutMessage(r) \/ PutJobs(r) \/ ReadBatchId(r) \/ OpenUio(r) \/ AckIrq(r) \/ Arm(r)
  <2>1. /\ pc[r] \in {"message", "jobs", "batch_id", "open_uio", "ack", "arm"}
        /\ pc'[r] \in {"jobs", "message_length"} \cup Launching
        /\ pc'[r] \in Launching => pc[r] \in {"batch_id"} \cup Launching
        /\ UNCHANGED answer
    BY <1>4 DEF PutMessage, PutJobs, ReadBatchId, OpenUio, AckIrq, Arm, Launching
  <2>2. dev'.cfg = dev.cfg /\ dev'.ignored = dev.ignored
    <3>1. CASE PutMessage(r) \/ PutJobs(r)
      BY <1>1, <3>1 DEF PutMessage, WriteMessage, PutJobs, WriteJobs, DevType
    <3>2. CASE AckIrq(r)
      BY <1>1, <3>2 DEF AckIrq, AckAndEnableIrq, DevType
    <3>3. CASE ReadBatchId(r) \/ OpenUio(r) \/ Arm(r)
      BY <3>3 DEF ReadBatchId, OpenUio, Arm, device
    <3> QED BY <1>4, <3>1, <3>2, <3>3
  <2>3. pc'[r] \notin AfterCommand /\ WrittenRegs(pc'[r]) \subseteq WrittenRegs(pc[r])
    BY <2>1 DEF WrittenRegs, Launching, AfterCommand
  <2> QED BY <1>1, <1>3, <2>1, <2>2, <2>3 DEF RegsInv
<1>5. CASE PutConfig(r)
  <2>1. /\ pc[r] \in ConfigRegs /\ pc'[r] = NextReg[pc[r]] /\ answer'[r] # "ok"
        /\ pc'[r] \notin AfterCommand
    BY <1>3, <1>5 DEF PutConfig, ConfigRegs, NextReg, AfterCommand
  <2>2. CASE dev.running
    <3>1. dev'.ignored
      BY <1>1, <1>5, <2>2 DEF PutConfig, WriteConfig, DevType
    <3> QED BY <2>1, <3>1 DEF RegsInv
  <2>3. CASE ~dev.running
    <3>1. dev'.cfg = [dev.cfg EXCEPT ![pc[r]] = r] /\ dev'.ignored = dev.ignored
      BY <1>1, <1>5, <2>3 DEF PutConfig, WriteConfig, DevType
    <3>2. \A x \in ConfigRegs : x = pc[r] \/ dev.cfg[x] = r => dev'.cfg[x] = r
      BY <1>1, <3>1 DEF DevType
    <3>3. WrittenRegs(pc'[r]) \subseteq WrittenRegs(pc[r]) \cup {pc[r]}
          /\ WrittenRegs(pc'[r]) \subseteq ConfigRegs
      BY <2>1 DEF WrittenRegs, NextReg, ConfigRegs, Launching
    <3> QED BY <1>1, <2>1, <3>1, <3>2, <3>3 DEF RegsInv
  <2> QED BY <2>2, <2>3
<1>6. CASE Command(r)
  <2>1. /\ pc[r] = "control" /\ pc'[r] \in {"wait", "poll"} /\ UNCHANGED answer
        /\ batch'.cfg = dev.cfg
        /\ batch'.locked_by = IF dev.ignored THEN batch.owner ELSE None
    BY <1>6 DEF Command, ResetThenStart
  <2>2. answer[r] = None
    BY <2>1 DEF AnswerInv
  <2>3. CASE dev.ignored
    <3>1. batch.owner \in Requests /\ WentAway(batch.owner)
      BY <2>3 DEF ConfigInv
    <3>2. batch.owner # r
      BY <2>2, <3>1, DaemonAssumption DEF WentAway, Outcomes
    <3>3. LockedOut(r, batch)'
      BY <2>1, <2>3, <3>1, <3>2 DEF LockedOut, WentAway
    <3> QED BY <1>3, <2>1, <3>3 DEF RegsInv, WrittenRegs, Launching, Accounted
  <2>4. CASE ~dev.ignored
    <3>1. \A x \in ConfigRegs : dev.cfg[x] = r
      BY <1>1, <2>1, <2>4 DEF RegsInv, WrittenRegs, Launching
    <3> QED BY <1>3, <2>1, <3>1 DEF RegsInv, WrittenRegs, Launching, Accounted, ConfigIsOwn
  <2> QED BY <2>3, <2>4
<1>7. CASE WaitReturns(r) \/ AckDone(r) \/ PollSeesDone(r) \/ ReadLiveMask(r) \/ ReadErrStatus(r)
           \/ ReadSnapshotId(r) \/ ReadCounts(r) \/ ReadMask(r)
  <2>1. /\ pc[r] \in AfterCommand /\ pc'[r] \in AfterCommand /\ answer'[r] # "ok"
        /\ batch' = batch
    BY <1>3, <1>7
       DEF WaitReturns, AckDone, PollSeesDone, ReadLiveMask, ReadErrStatus, ReadSnapshotId,
           ReadCounts, ReadMask, AfterCommand, device
  <2>2. dev'.cfg = dev.cfg /\ dev'.ignored = dev.ignored
    <3>1. CASE AckDone(r)
      BY <1>1, <3>1 DEF AckDone, AckAndEnableIrq, DevType
    <3>2. CASE ~AckDone(r)
      BY <1>7, <3>2
         DEF WaitReturns, PollSeesDone, ReadLiveMask, ReadErrStatus, ReadSnapshotId, ReadCounts,
             ReadMask, device
    <3> QED BY <3>1, <3>2
  <2>3. WrittenRegs(pc'[r]) = {}
    BY <2>1 DEF WrittenRegs, AfterCommand, Launching
  <2> QED BY <1>2, <2>1, <2>2, <2>3
<1>8. CASE Reply(r)
  <2>1. /\ pc[r] = "reply" /\ pc'[r] = "end" /\ UNCHANGED <<dev, batch, seen>>
        /\ seen[r].mask = batch
    BY <1>8 DEF Reply, Leave, device, MasterInv, SnapshotInv
  <2>2. Accounted(r, batch)
    BY <1>1, <2>1 DEF RegsInv, AfterCommand
  <2>3. Accounted(r, seen[r].mask)'
    BY <1>1, <2>1, <2>2, AccountStays DEF Accounted, ConfigIsOwn, LockedOut, WentAway
  <2> QED BY <2>1, <2>3 DEF RegsInv, WrittenRegs, AfterCommand, Launching
<1>9. CASE WaitTimesOut(r) \/ PollTimesOut(r) \/ Mismatch(r) \/ Acquire(r) \/ Refuse(r)
           \/ EnterTool(r)
  <2>1. /\ pc'[r] \in {"end", "message"} /\ answer'[r] # "ok"
        /\ UNCHANGED <<dev, batch>>
    BY <1>3, <1>9
       DEF WaitTimesOut, PollTimesOut, Mismatch, Leave, Answer, Acquire, Refuse, EnterTool, device
  <2>2. WrittenRegs(pc'[r]) = {} /\ pc'[r] \notin AfterCommand
    BY <2>1 DEF WrittenRegs, AfterCommand, Launching
  <2> QED BY <1>2, <2>1, <2>2
<1> QED BY <1>4, <1>5, <1>6, <1>7, <1>8, <1>9 DEF Thread

(* The steps of others take nothing from a thread at work, which is alone,  *)
(* and nothing from one at rest.                                            *)
LEMMA OtherRegsStep ==
  ASSUME TypeInv, SingleFlight, AnswerInv, ToolsSilent, ConfigInv, [Next]_vars,
         NEW r \in Requests \ Tools, Thread(r), NEW s \in Requests, s # r
  PROVE  RegsInv(s)'
<1>1. /\ pc'[s] = pc[s] /\ answer'[s] = answer[s] /\ seen'[s] = seen[s] /\ RegsInv(s)
      /\ seen[s].mask \in BatchType /\ batch \in BatchType
  BY OthersUntouched DEF ConfigInv, TypeInv, SeenType
<1>2. answer[s] = "ok" => Accounted(s, seen[s].mask)'
  <2>1. answer[s] = "ok" => Accounted(s, seen[s].mask)
    BY <1>1 DEF RegsInv
  <2> QED
    BY <1>1, <2>1, AccountStays DEF Accounted, ConfigIsOwn, LockedOut, WentAway
<1>3. CASE pc[s] \in {"absent", "new", "end"}
  BY <1>1, <1>2, <1>3 DEF RegsInv, WrittenRegs, AfterCommand, Launching
<1>4. CASE pc[s] \notin {"absent", "new", "end"}
  <2>1. s \notin Tools
    BY <1>4 DEF ToolsSilent
  <2>2. pc[r] \in {"absent", "new", "end"}
    BY <1>4, <2>1, OthersRest
  <2>3. UNCHANGED device
    BY <2>2
       DEF Thread, Acquire, Refuse, EnterTool, PutMessage, PutJobs, PutConfig, ConfigRegs,
           ReadBatchId, OpenUio, AckIrq, Arm, Command, WaitReturns, WaitTimesOut, AckDone,
           PollSeesDone, PollTimesOut, ReadLiveMask, ReadErrStatus, ReadSnapshotId, ReadCounts,
           Mismatch, ReadMask, Reply, Leave, Goto
  <2>4. Accounted(s, batch) => Accounted(s, batch)'
    BY <1>1, <2>3, AccountStays DEF Accounted, ConfigIsOwn, LockedOut, WentAway, device
  <2> QED BY <1>1, <1>2, <2>3, <2>4 DEF device, RegsInv
<1> QED BY <1>3, <1>4

(* The thread that launched the batch under way waits for it until it gives *)
(* up: it reads nothing before the batch is done.                           *)
LEMMA RunningStep ==
  ASSUME TypeInv, AnswerInv, DeviceInv, MasterInv, ConfigInv, [Next]_vars,
         NEW r \in Requests \ Tools, Thread(r), dev'.running
  PROVE  /\ batch'.owner \in Requests
         /\ pc'[batch'.owner] \in {"wait", "ack_done", "poll"} \/ WentAway(batch.owner)'
<1> USE DEF TypeInv, Goto
<1>1. CASE Command(r)
  BY <1>1 DEF Command, ResetThenStart
<1>2. CASE ~Command(r)
  <2>1. dev.running /\ batch'.owner = batch.owner
    <3>1. CASE PutMessage(r) \/ PutJobs(r)
      BY <3>1 DEF PutMessage, WriteMessage, PutJobs, WriteJobs, DevType, BatchType
    <3>2. CASE PutConfig(r)
      BY <3>2 DEF PutConfig, WriteConfig, DevType
    <3>3. CASE AckIrq(r) \/ AckDone(r)
      BY <3>3 DEF AckIrq, AckDone, AckAndEnableIrq, DevType
    <3>4. CASE UNCHANGED device
      BY <3>4 DEF device
    <3> QED
      BY <1>2, <3>1, <3>2, <3>3, <3>4
         DEF Thread, Acquire, Refuse, EnterTool, ReadBatchId, OpenUio, Arm, WaitReturns,
             WaitTimesOut, PollSeesDone, PollTimesOut, ReadLiveMask, ReadErrStatus,
             ReadSnapshotId, ReadCounts, Mismatch, ReadMask, Reply, Leave
  <2>2. /\ batch.owner \in Requests
        /\ pc[batch.owner] \in {"wait", "ack_done", "poll"} \/ WentAway(batch.owner)
    BY <2>1 DEF ConfigInv
  <2>3. CASE WentAway(batch.owner)
    BY <2>1, <2>2, <2>3, AccountStays DEF WentAway
  <2>4. CASE pc[batch.owner] \in {"wait", "ack_done", "poll"} /\ batch.owner # r
    BY <2>1, <2>2, <2>4, OthersUntouched
  <2>5. CASE pc[batch.owner] \in {"wait", "ack_done", "poll"} /\ batch.owner = r
    <3>1. ~dev.done
      BY <2>1 DEF DeviceInv
    <3>2. WaitReturns(r) \/ AckDone(r) \/ WaitTimesOut(r) \/ PollTimesOut(r)
      BY <1>2, <2>5, <3>1
         DEF Thread, Acquire, Refuse, EnterTool, PutMessage, PutJobs, PutConfig, ConfigRegs,
             ReadBatchId, OpenUio, AckIrq, Arm, PollSeesDone, ReadLiveMask, ReadErrStatus,
             ReadSnapshotId, ReadCounts, Mismatch, ReadMask, Reply, Leave
    <3>3. CASE WaitReturns(r) \/ AckDone(r)
      BY <2>1, <2>5, <3>3 DEF WaitReturns, AckDone
    <3>4. CASE WaitTimesOut(r) \/ PollTimesOut(r)
      BY <2>1, <2>5, <3>4 DEF WaitTimesOut, PollTimesOut, Leave, Answer, WentAway
    <3> QED BY <3>2, <3>3, <3>4
  <2> QED BY <2>2, <2>3, <2>4, <2>5
<1> QED BY <1>1, <1>2

(* The device drops no write but in front of a batch that was left running. *)
LEMMA IgnoredStep ==
  ASSUME TypeInv, SingleFlight, AnswerInv, ToolsSilent, ConfigInv, [Next]_vars,
         NEW r \in Requests \ Tools, Thread(r), dev'.ignored
  PROVE  batch'.owner \in Requests /\ WentAway(batch.owner)'
<1> USE DEF TypeInv
<1>1. ~Command(r)
  BY DEF Command, ResetThenStart, DevType
<1>2. batch'.owner = batch.owner /\ (dev.ignored \/ (PutConfig(r) /\ dev.running))
  <2>1. CASE PutMessage(r) \/ PutJobs(r)
    BY <2>1 DEF PutMessage, WriteMessage, PutJobs, WriteJobs, DevType, BatchType
  <2>2. CASE PutConfig(r)
    BY <2>2 DEF PutConfig, WriteConfig, DevType
  <2>3. CASE AckIrq(r) \/ AckDone(r)
    BY <2>3 DEF AckIrq, AckDone, AckAndEnableIrq, DevType
  <2>4. CASE UNCHANGED device
    BY <2>4 DEF device
  <2> QED
    BY <1>1, <2>1, <2>2, <2>3, <2>4
       DEF Thread, Acquire, Refuse, EnterTool, ReadBatchId, OpenUio, Arm, WaitReturns,
           WaitTimesOut, PollSeesDone, PollTimesOut, ReadLiveMask, ReadErrStatus, ReadSnapshotId,
           ReadCounts, Mismatch, ReadMask, Reply, Leave
<1>3. batch.owner \in Requests /\ WentAway(batch.owner)
  BY <1>2, DroppedWrite DEF ConfigInv
<1> QED BY <1>2, <1>3, AccountStays DEF WentAway

(* A step that leaves the device alone keeps it: threads come, and go with  *)
(* an answer that is none, which for the launcher of a batch under way      *)
(* means that it went away.                                                 *)
LEMMA RestKeeps ==
  ASSUME TypeInv, AnswerInv, ConfigInv, [Next]_vars,
         dev'.cfg = dev.cfg, dev'.ignored = dev.ignored, dev'.running => dev.running,
         UNCHANGED <<batch, seen>>,
         \A q \in Requests : \/ pc'[q] = pc[q] /\ answer'[q] = answer[q]
                             \/ pc[q] = "absent" /\ pc'[q] = "new" /\ answer'[q] = answer[q]
                             \/ pc'[q] = "end" /\ WentAway(q)'
  PROVE  ConfigInv'
<1>1. seen \in [Requests -> SeenType] /\ batch \in BatchType
  BY DEF TypeInv
<1>2. /\ \A q \in Requests : WentAway(q) => WentAway(q)'
      /\ \A q \in Requests, b \in BatchType : Accounted(q, b) => Accounted(q, b)'
  BY AccountStays
<1>3. ASSUME NEW q \in Requests
      PROVE  RegsInv(q)'
  <2>1. RegsInv(q) /\ seen[q].mask \in BatchType
    BY <1>1 DEF ConfigInv, SeenType
  <2>2. /\ Accounted(q, batch) => Accounted(q, batch)'
        /\ Accounted(q, seen[q].mask) => Accounted(q, seen[q].mask)'
    BY <1>1, <1>2, <2>1 DEF Accounted, ConfigIsOwn, LockedOut, WentAway
  <2>3. CASE pc'[q] = pc[q] /\ answer'[q] = answer[q]
    BY <2>1, <2>2, <2>3 DEF RegsInv
  <2>4. CASE pc'[q] = "new" /\ answer'[q] = answer[q]
    BY <2>1, <2>2, <2>4 DEF RegsInv, WrittenRegs, AfterCommand, Launching
  <2>5. CASE pc'[q] = "end" /\ WentAway(q)'
    BY <2>5 DEF RegsInv, WrittenRegs, AfterCommand, Launching, WentAway
  <2> QED BY <2>3, <2>4, <2>5
<1>4. dev'.ignored => batch'.owner \in Requests /\ WentAway(batch.owner)'
  BY <1>2 DEF ConfigInv, WentAway
<1>5. dev'.running =>
        /\ batch'.owner \in Requests
        /\ pc'[batch'.owner] \in {"wait", "ack_done", "poll"} \/ WentAway(batch.owner)'
  BY <1>2 DEF ConfigInv, WentAway
<1> QED BY <1>3, <1>4, <1>5 DEF ConfigInv

(* With the daemon as the only master, every batch stays accounted for.     *)
LEMMA AccountedStep ==
  ASSUME TypeInv, SingleFlight, AnswerInv, DeviceInv, OnlyMasterInv, AccountedInv, [Next]_vars
  PROVE  AccountedInv'
<1> SUFFICES ASSUME ToolsSilent' PROVE ConfigInv'
  BY DEF AccountedInv
<1>1. ToolsSilent /\ MasterInv /\ ConfigInv
  BY SilentBefore DEF OnlyMasterInv, AccountedInv
<1>2. ASSUME NEW r \in Requests, Thread(r)
      PROVE  ConfigInv'
  <2>1. r \notin Tools
    BY <1>1, <1>2
       DEF ToolsSilent, Thread, Acquire, Refuse, EnterTool, PutMessage, PutJobs, PutConfig, ConfigRegs,
           ReadBatchId, OpenUio, AckIrq, Arm, Command, WaitReturns, WaitTimesOut, AckDone,
           PollSeesDone, PollTimesOut, ReadLiveMask, ReadErrStatus, ReadSnapshotId, ReadCounts,
           Mismatch, ReadMask, Reply, Leave, Goto, TypeInv
  <2>2. \A s \in Requests : RegsInv(s)'
    BY <1>1, <1>2, <2>1, OwnRegsStep, OtherRegsStep
  <2> QED BY <1>1, <1>2, <2>1, <2>2, RunningStep, IgnoredStep DEF ConfigInv
<1>3. ASSUME NEW r \in Requests, Arrive(r) \/ Fails(r) \/ Abandon(r) \/ Disconnect(r)
      PROVE  ConfigInv'
  <2>1. UNCHANGED <<dev, batch, seen>>
    BY <1>3 DEF Arrive, Fails, Abandon, Disconnect, Leave, device
  <2>2. ASSUME NEW q \in Requests
        PROVE  \/ pc'[q] = pc[q] /\ answer'[q] = answer[q]
               \/ pc[q] = "absent" /\ pc'[q] = "new" /\ answer'[q] = answer[q]
               \/ pc'[q] = "end" /\ WentAway(q)'
    BY <1>3
       DEF Arrive, Fails, Abandon, Disconnect, Leave, Answer, Goto, WentAway, TypeInv
  <2> QED BY <1>1, <2>1, <2>2, RestKeeps
<1>4. CASE DeviceCompletes
  BY <1>1, <1>4, RestKeeps DEF DeviceCompletes, TypeInv, DevType
<1>5. CASE InterruptFires \/ Start \/ Exit \/ UNCHANGED vars
  BY <1>1, <1>5, RestKeeps DEF InterruptFires, Start, Exit, vars, device
<1>6. ASSUME NEW removed \in BOOLEAN, StopAccepting(removed)
      PROVE  ConfigInv'
  BY <1>1, <1>6, RestKeeps DEF StopAccepting, device
<1>7. CASE Crash
  <2>1. UNCHANGED <<dev, batch, seen>>
    BY <1>7 DEF Crash, device
  <2>2. ASSUME NEW q \in Requests
        PROVE  \/ pc'[q] = pc[q] /\ answer'[q] = answer[q]
               \/ pc'[q] = "end" /\ WentAway(q)'
    BY <1>7 DEF Crash, WentAway
  <2> QED BY <1>1, <2>1, <2>2, RestKeeps
<1> QED BY <1>2, <1>3, <1>4, <1>5, <1>6, <1>7 DEF Next

-----------------------------------------------------------------------------
(* With other masters: what the batch id says when it comes back.           *)

(* The id after n.                                                          *)
LEMMA NextIdIs ==
  ASSUME NEW n \in Ids
  PROVE  (n + 1) % IdMod = IF n + 1 = IdMod THEN 0 ELSE n + 1
<1>1. IdMod \in Nat /\ IdMod > 1 /\ n \in Nat /\ n + 1 <= IdMod
  BY DaemonAssumption DEF Ids
<1>2. \A k, m \in Nat : m > 0 /\ k < m => k % m = k
  BY SMT
<1>3. \A m \in Nat : m > 0 => m % m = 0
  BY SMT
<1> QED BY <1>1, <1>2, <1>3

(* Distances between ids are ids, and zero only between equals.             *)
LEMMA AheadIs ==
  ASSUME NEW a \in Ids, NEW b \in Ids
  PROVE  Ahead(b, a) \in Ids /\ (Ahead(b, a) = 0 <=> b = a)
BY DaemonAssumption DEF Ahead, Ids

(* The next id is one further away, as long as it does not come round.      *)
LEMMA AheadNext ==
  ASSUME NEW a \in Ids, NEW b \in Ids, Ahead(b, a) + 1 < IdMod
  PROVE  Ahead((b + 1) % IdMod, a) = Ahead(b, a) + 1
<1>1. IdMod \in Nat /\ a \in Nat /\ b \in Nat /\ a < IdMod /\ b < IdMod
  BY DaemonAssumption DEF Ids
<1>2. (b + 1) % IdMod = IF b + 1 = IdMod THEN 0 ELSE b + 1
  BY NextIdIs
<1> QED BY <1>1, <1>2 DEF Ahead

(* What a step leaves alone if it neither launches nor completes a batch.   *)
Quiet == UNCHANGED <<dev.id, batch.owner, snapshot>>

(* A rival that has launched has launched.                                  *)
LEMMA LaunchedGrows ==
  ASSUME TypeInv, [Next]_vars, NEW r \in Requests
  PROVE  Launched(r) \subseteq Launched(r)'
<1> SUFFICES ASSUME NEW s \in Requests, pc[s] \in AfterCommand \cup {"end"}
             PROVE  pc'[s] \in AfterCommand \cup {"end"}
  BY DaemonAssumption DEF Launched, Rivals
<1> USE DEF TypeInv, AfterCommand, Goto, process
<1>1. ASSUME NEW q \in Requests, Arrive(q) \/ Thread(q) \/ Fails(q) \/ Disconnect(q) \/ Abandon(q)
      PROVE  pc'[s] \in AfterCommand \cup {"end"}
  <2>1. CASE q # s
    BY <1>1, <2>1, OthersUntouched
  <2>2. CASE q = s
    BY <1>1, <2>2
       DEF Thread, Arrive, Acquire, Refuse, EnterTool, PutMessage, PutJobs, PutConfig, ConfigRegs,
           ReadBatchId, OpenUio, AckIrq, Arm, Command, WaitReturns, WaitTimesOut, AckDone,
           PollSeesDone, PollTimesOut, ReadLiveMask, ReadErrStatus, ReadSnapshotId, ReadCounts,
           Mismatch, ReadMask, Reply, Leave, Fails, Abandon, Disconnect
  <2> QED BY <2>1, <2>2
<1>2. CASE Crash
  BY <1>2 DEF Crash
<1> QED BY <1>1, <1>2 DEF Next, DeviceCompletes, InterruptFires, Start, StopAccepting, Exit, vars

(* So their number does not go down, and stays below the number of ids.     *)
LEMMA CountGrows ==
  ASSUME TypeInv, [Next]_vars, NEW r \in Requests, NoWrap(r)
  PROVE  /\ Cardinality(Launched(r)) \in Nat /\ Cardinality(Launched(r))' \in Nat
         /\ Cardinality(Launched(r)) <= Cardinality(Launched(r))'
         /\ Cardinality(Launched(r))' < IdMod
<1>1. Launched(r) \subseteq Launched(r)' /\ Launched(r)' \subseteq Rivals(r)
  BY LaunchedGrows DEF Launched
<1>2. IsFiniteSet(Rivals(r)) /\ Cardinality(Rivals(r)) < IdMod
  BY DEF NoWrap
<1>3. IsFiniteSet(Launched(r)') /\ Cardinality(Launched(r)') <= Cardinality(Rivals(r))
  BY <1>1, <1>2, FS_Subset
<1>4. IsFiniteSet(Launched(r)) /\ Cardinality(Launched(r)) <= Cardinality(Launched(r)')
  BY <1>1, <1>3, FS_Subset
<1>5. Cardinality(Launched(r)) \in Nat /\ Cardinality(Launched(r)') \in Nat /\ Cardinality(Rivals(r)) \in Nat
  BY <1>2, <1>3, <1>4, FS_CardinalityType
<1> QED BY <1>2, <1>3, <1>4, <1>5, DaemonAssumption

(* A rival that launches is counted.                                        *)
LEMMA LaunchCounts ==
  ASSUME TypeInv, [Next]_vars, NEW r \in Requests, NoWrap(r), NEW s \in Rivals(r), Command(s)
  PROVE  Cardinality(Launched(r)) + 1 <= Cardinality(Launched(r))'
<1>1. s \in Launched(r)' /\ s \notin Launched(r)
  BY DaemonAssumption DEF Launched, Rivals, Command, Goto, AfterCommand, TypeInv
<1>2. Launched(r) \cup {s} \subseteq Launched(r)' /\ Launched(r)' \subseteq Rivals(r)
  BY <1>1, LaunchedGrows DEF Launched
<1>3. IsFiniteSet(Launched(r)')
  BY <1>2, FS_Subset DEF NoWrap
<1>4. /\ IsFiniteSet(Launched(r))
      /\ IsFiniteSet(Launched(r) \cup {s})
      /\ Cardinality(Launched(r) \cup {s}) <= Cardinality(Launched(r)')
  BY <1>2, <1>3, FS_Subset
<1>5. Cardinality(Launched(r) \cup {s}) = Cardinality(Launched(r)) + 1
  BY <1>1, <1>4, FS_AddElement
<1> QED BY <1>4, <1>5

(* Only a command changes the id or the batch's owner, only a completion    *)
(* the snapshot.                                                            *)
LEMMA QuietStep ==
  ASSUME TypeInv, [Next]_vars
  PROVE  Quiet \/ DeviceCompletes \/ \E s \in Requests : Command(s)
<1> USE DEF TypeInv, DevType, BatchType, Quiet, device
<1>1. ASSUME NEW r \in Requests, Arrive(r) \/ Thread(r) \/ Fails(r) \/ Disconnect(r) \/ Abandon(r)
      PROVE  Quiet \/ Command(r)
  <2>1. CASE PutMessage(r) \/ PutJobs(r) \/ PutConfig(r)
    BY <2>1 DEF PutMessage, PutJobs, PutConfig, WriteMessage, WriteJobs, WriteConfig
  <2>2. CASE AckIrq(r) \/ AckDone(r)
    BY <2>2 DEF AckIrq, AckDone, AckAndEnableIrq
  <2>3. CASE UNCHANGED device
    BY <2>3
  <2> QED
    BY <1>1, <2>1, <2>2, <2>3
       DEF Thread, Arrive, Acquire, Refuse, EnterTool, ReadBatchId, OpenUio, Arm,
           WaitReturns, WaitTimesOut, PollSeesDone, PollTimesOut, ReadLiveMask, ReadErrStatus,
           ReadSnapshotId, ReadCounts, Mismatch, ReadMask, Reply, Leave, Fails, Disconnect, Abandon
<1> QED BY <1>1 DEF Next, InterruptFires, Start, StopAccepting, Exit, Crash, vars

(* The steps of others leave what a thread knows, or end the thread.        *)
LEMMA MineOnly ==
  ASSUME TypeInv, AnswerInv, [Next]_vars, NEW r \in Requests, ~Thread(r)
  PROVE  /\ expected'[r] = expected[r] /\ seen'[r] = seen[r]
         /\ \/ pc'[r] = pc[r]
            \/ pc'[r] \in {"new", "end"}
         /\ answer'[r] = "ok" => answer[r] = "ok"
<1> USE DEF TypeInv, Goto, process
<1>1. ASSUME NEW q \in Requests, Arrive(q) \/ Thread(q) \/ Fails(q) \/ Disconnect(q) \/ Abandon(q), q # r
      PROVE  expected'[r] = expected[r]
  BY <1>1
     DEF Thread, Arrive, Acquire, Refuse, EnterTool, PutMessage, PutJobs,
         PutConfig, ReadBatchId, OpenUio, AckIrq, Arm, Command, WaitReturns, WaitTimesOut, AckDone,
         PollSeesDone, PollTimesOut, ReadLiveMask, ReadErrStatus, ReadSnapshotId, ReadCounts,
         Mismatch, ReadMask, Reply, Leave, Fails, Abandon, Disconnect
<1>2. CASE \E q \in Requests \ {r} : Arrive(q) \/ Thread(q) \/ Fails(q) \/ Disconnect(q) \/ Abandon(q)
  BY <1>1, <1>2, OthersUntouched
<1>3. CASE Arrive(r) \/ Fails(r) \/ Disconnect(r) \/ Abandon(r)
  BY <1>3 DEF Arrive, Fails, Leave, Answer, Disconnect, Abandon
<1>4. CASE Crash
  BY <1>4 DEF Crash
<1> QED BY <1>2, <1>3, <1>4 DEF Next, DeviceCompletes, InterruptFires, Start, StopAccepting, Exit, vars

(* The command of another thread, while r is at work, is a rival's.         *)
LEMMA RivalCommand ==
  ASSUME TypeInv, SingleFlight, NEW r \in Requests, pc[r] \in Launching \cup AfterCommand,
         NEW s \in Requests \ {r}, Command(s)
  PROVE  s \in Rivals(r)
BY DEF SingleFlight, Active, InProcess, Rivals, Launching, AfterCommand, Command, Goto

(* The distances the invariant compares are numbers.                        *)
LEMMA DistanceTypes ==
  ASSUME TypeInv, NEW r \in Requests
  PROVE  /\ dev.id \in Ids /\ (dev.id + 1) % IdMod \in Ids /\ snapshot.id \in Ids
         /\ expected[r] \in Ids
         /\ Ahead(dev.id, expected[r]) \in Nat /\ Ahead(snapshot.id, expected[r]) \in Nat
         /\ Ahead((dev.id + 1) % IdMod, expected[r]) \in Nat
<1>1. dev.id \in Ids /\ snapshot.id \in Ids /\ expected[r] \in Ids
  BY DEF TypeInv, DevType
<1>2. (dev.id + 1) % IdMod \in Ids
  BY <1>1, NextId
<1>3. /\ Ahead(dev.id, expected[r]) \in Ids /\ Ahead(snapshot.id, expected[r]) \in Ids
      /\ Ahead((dev.id + 1) % IdMod, expected[r]) \in Ids
  BY <1>1, <1>2, AheadIs
<1>4. Ids \subseteq Nat
  BY DaemonAssumption DEF Ids
<1> QED BY <1>1, <1>2, <1>3, <1>4

(* A step that leaves the ids and the batch's owner keeps it.               *)
LEMMA QuietKeeps ==
  ASSUME TypeInv, AnswerInv, [Next]_vars, NEW r \in Requests, NoWrap(r), KnownInv(r),
         ~Thread(r), Quiet
  PROVE  KnownInv(r)'
<1>1. dev'.id = dev.id /\ batch'.owner = batch.owner /\ snapshot' = snapshot
  BY DEF Quiet
<1>2. Ahead(dev.id, expected[r]) \in Nat /\ Ahead((dev.id + 1) % IdMod, expected[r]) \in Nat
  BY DistanceTypes
<1>3. CASE pc'[r] \in {"new", "end"}
  BY <1>3, MineOnly
     DEF KnownInv, DistanceInv, CompletedInv, ReadInv, Launching, AfterCommand, Reading
<1>4. CASE pc'[r] = pc[r]
  <2>1. DistanceInv(r)'
    BY <1>1, <1>2, <1>4, MineOnly, CountGrows DEF KnownInv, DistanceInv, Ahead
  <2>2. CompletedInv(r)' /\ ReadInv(r)'
    BY <1>1, <1>4, MineOnly DEF KnownInv, CompletedInv, ReadInv, Ahead
  <2> QED BY <2>1, <2>2 DEF KnownInv
<1> QED BY <1>3, <1>4, MineOnly

(* A completed batch enters the snapshot: the ids there only move forward.  *)
LEMMA CompletionKeeps ==
  ASSUME TypeInv, AnswerInv, [Next]_vars, NEW r \in Requests, NoWrap(r), KnownInv(r),
         DeviceCompletes
  PROVE  KnownInv(r)'
<1>1. /\ dev'.id = dev.id /\ batch' = batch /\ snapshot' = [id |-> dev.id, owner |-> batch.owner]
      /\ UNCHANGED <<pc, expected, seen, answer>>
  BY DEF DeviceCompletes, TypeInv, DevType
<1>2. /\ dev.id \in Ids /\ snapshot.id \in Ids /\ expected[r] \in Ids
      /\ Ahead(dev.id, expected[r]) \in Nat /\ Ahead(snapshot.id, expected[r]) \in Nat
      /\ Ahead((dev.id + 1) % IdMod, expected[r]) \in Nat
  BY DistanceTypes
<1>3. DistanceInv(r)'
  BY <1>1, <1>2, CountGrows DEF KnownInv, DistanceInv, Ahead
<1>4. CompletedInv(r)'
  BY <1>1, <1>2 DEF KnownInv, DistanceInv, CompletedInv, Ahead, Reading, AfterCommand
<1>5. ReadInv(r)'
  <2>1. pc[r] = "snapshot_id" /\ snapshot.id # expected[r] => snapshot'.id # expected[r]
    <3>1. pc[r] = "snapshot_id" => Ahead(snapshot.id, expected[r]) <= Ahead(dev.id, expected[r])
      BY DEF KnownInv, CompletedInv, Reading
    <3>2. Ahead(snapshot.id, expected[r]) = 0 <=> snapshot.id = expected[r]
      BY <1>2, AheadIs
    <3>3. Ahead(dev.id, expected[r]) = 0 <=> dev.id = expected[r]
      BY <1>2, AheadIs
    <3> QED BY <1>1, <1>2, <3>1, <3>2, <3>3
  <2> QED BY <1>1, <2>1 DEF KnownInv, ReadInv
<1> QED BY <1>3, <1>4, <1>5 DEF KnownInv

(* The launch of a rival takes the device one id further.                   *)
LEMMA RivalKeeps ==
  ASSUME TypeInv, AnswerInv, SingleFlight, [Next]_vars, NEW r \in Requests, NoWrap(r), KnownInv(r),
         ~Thread(r), NEW s \in Requests \ {r}, Command(s)
  PROVE  KnownInv(r)'
<1>1. dev'.id = (dev.id + 1) % IdMod /\ snapshot' = snapshot
  BY DEF Command, ResetThenStart, TypeInv, DevType
<1>2. /\ dev.id \in Ids /\ dev'.id \in Ids /\ snapshot.id \in Ids /\ expected[r] \in Ids
      /\ Ahead(dev.id, expected[r]) \in Nat /\ Ahead(snapshot.id, expected[r]) \in Nat
      /\ Ahead((dev.id + 1) % IdMod, expected[r]) \in Nat
  BY <1>1, DistanceTypes
<1>3. expected'[r] = expected[r] /\ seen'[r] = seen[r] /\ (answer'[r] = "ok" => answer[r] = "ok")
  BY MineOnly
<1>4. CASE pc'[r] = pc[r] /\ pc[r] \in Launching \cup AfterCommand
  <2>1. /\ Cardinality(Launched(r)) \in Nat /\ Cardinality(Launched(r))' \in Nat
        /\ Cardinality(Launched(r)) + 1 <= Cardinality(Launched(r))'
        /\ Cardinality(Launched(r))' < IdMod /\ IdMod \in Nat
    <3>1. s \in Rivals(r)
      BY <1>4, RivalCommand
    <3> QED BY <3>1, LaunchCounts, CountGrows, DaemonAssumption
  <2>2. CASE pc[r] \in Launching
    <3>1. Ahead(dev'.id, expected[r]) <= Cardinality(Launched(r))
      BY <1>1, <2>2 DEF KnownInv, DistanceInv
    <3>2. Ahead((dev'.id + 1) % IdMod, expected[r]) = Ahead(dev'.id, expected[r]) + 1
      BY <1>1, <1>2, <2>1, <3>1, AheadNext
    <3>3. Ahead((dev'.id + 1) % IdMod, expected[r]) <= Cardinality(Launched(r))'
      BY <1>1, <1>2, <2>1, <3>1, <3>2
    <3> QED BY <1>3, <1>4, <2>2, <3>3
            DEF KnownInv, DistanceInv, CompletedInv, ReadInv, Launching, AfterCommand, Reading, Ahead
  <2>3. CASE pc[r] \in AfterCommand
    <3>1. Ahead(dev.id, expected[r]) <= Cardinality(Launched(r))
      BY <2>3 DEF KnownInv, DistanceInv
    <3>2. Ahead(dev'.id, expected[r]) = Ahead(dev.id, expected[r]) + 1
      BY <1>1, <1>2, <2>1, <3>1, AheadNext
    <3>3. Ahead(dev'.id, expected[r]) <= Cardinality(Launched(r))'
      BY <1>2, <2>1, <3>1, <3>2
    <3>4. dev'.id # expected[r]
      BY <1>2, <3>2, AheadIs
    <3>5. DistanceInv(r)'
      BY <1>3, <1>4, <2>3, <3>3, <3>4 DEF DistanceInv, Launching, AfterCommand, Ahead
    <3>6. CompletedInv(r)'
      BY <1>1, <1>2, <1>3, <1>4, <3>2 DEF KnownInv, CompletedInv, Ahead
    <3>7. ReadInv(r)'
      BY <1>1, <1>3, <1>4 DEF KnownInv, ReadInv
    <3> QED BY <3>5, <3>6, <3>7 DEF KnownInv
  <2> QED BY <1>4, <2>2, <2>3
<1>5. CASE pc'[r] \notin Launching \cup AfterCommand
  BY <1>3, <1>5
     DEF KnownInv, DistanceInv, CompletedInv, ReadInv, Launching, AfterCommand, Reading
<1> QED BY <1>4, <1>5, MineOnly DEF Launching, AfterCommand

(* At its own launch the distance is that of the id it expects, and the     *)
(* batch is its own.                                                        *)
LEMMA OwnCommandKeeps ==
  ASSUME TypeInv, [Next]_vars, NEW r \in Requests, NoWrap(r), KnownInv(r), Command(r)
  PROVE  KnownInv(r)'
<1>1. /\ dev'.id = (dev.id + 1) % IdMod /\ batch'.owner = r
      /\ pc[r] \in Launching /\ pc'[r] \in {"wait", "poll"}
      /\ UNCHANGED <<expected, seen, answer>>
  BY DEF Command, ResetThenStart, TypeInv, DevType, Goto, Launching
<1>2. Ahead(dev'.id, expected[r]) <= Cardinality(Launched(r))'
  BY <1>1, DistanceTypes, CountGrows DEF KnownInv, DistanceInv
<1>3. DistanceInv(r)'
  BY <1>1, <1>2 DEF DistanceInv, Launching, Ahead
<1>4. CompletedInv(r)' /\ ReadInv(r)'
  BY <1>1 DEF KnownInv, CompletedInv, ReadInv, Reading
<1> QED BY <1>3, <1>4 DEF KnownInv

(* Its other accesses leave the ids and the owners, and add what they read. *)
LEMMA OwnKeeps ==
  ASSUME TypeInv, AnswerInv, DeviceInv, [Next]_vars, NEW r \in Requests, NoWrap(r), KnownInv(r),
         Thread(r), Quiet
  PROVE  KnownInv(r)'
<1> USE DEF Goto
<1>1. /\ dev'.id = dev.id /\ batch'.owner = batch.owner /\ snapshot' = snapshot
      /\ Ahead(dev.id, expected[r]) \in Nat /\ Ahead((dev.id + 1) % IdMod, expected[r]) \in Nat
      /\ Ahead(snapshot.id, expected[r]) \in Nat
  BY DistanceTypes DEF Quiet
<1>2. ASSUME UNCHANGED expected,
             \/ pc[r] \in Launching /\ pc'[r] \in Launching
             \/ pc[r] \in AfterCommand /\ pc'[r] \in AfterCommand
      PROVE  DistanceInv(r)'
  BY <1>1, <1>2, CountGrows DEF KnownInv, DistanceInv, Launching, AfterCommand, Ahead
<1>3. ASSUME pc'[r] \notin Launching \cup AfterCommand, answer'[r] = answer[r], seen'[r] = seen[r]
      PROVE  KnownInv(r)'
  BY <1>3
     DEF KnownInv, DistanceInv, CompletedInv, ReadInv, Launching, AfterCommand, Reading
<1>4. ASSUME pc'[r] \in Launching \cup AfterCommand, UNCHANGED <<answer, expected, seen>>,
             pc'[r] \notin Reading \cup {"live_mask"}
      PROVE  CompletedInv(r)' /\ ReadInv(r)'
  BY <1>4 DEF KnownInv, CompletedInv, ReadInv, Reading
<1>5. ASSUME NEW from, NEW outcome, Leave(r, from, outcome), outcome # "ok"
      PROVE  KnownInv(r)'
  BY <1>5
     DEF Leave, Answer, TypeInv, KnownInv, DistanceInv, CompletedInv, ReadInv, Launching, AfterCommand,
         Reading
<1>6. CASE WaitTimesOut(r) \/ PollTimesOut(r) \/ Mismatch(r)
  BY <1>5, <1>6 DEF WaitTimesOut, PollTimesOut, Mismatch
<1>7. CASE Reply(r)
  BY <1>7
     DEF Reply, Leave, Answer, TypeInv, KnownInv, DistanceInv, CompletedInv, ReadInv, Launching,
         AfterCommand, Reading
<1>8. CASE Acquire(r) \/ EnterTool(r) \/ PutMessage(r) \/ PutJobs(r) \/ PutConfig(r)
  BY <1>3, <1>8
     DEF Acquire, EnterTool, PutMessage, PutJobs, PutConfig, NextReg, ConfigRegs, TypeInv, Launching,
         AfterCommand
<1>9. CASE Refuse(r)
  BY <1>9
     DEF Refuse, Answer, TypeInv, KnownInv, DistanceInv, CompletedInv, ReadInv, Launching, AfterCommand,
         Reading
<1>10. CASE ReadBatchId(r)
  <2>1. /\ expected'[r] = (dev.id + 1) % IdMod
        /\ pc'[r] \in {"open_uio", "control"} /\ UNCHANGED <<answer, seen>>
        /\ pc[r] \notin {"end"}
    BY <1>10 DEF ReadBatchId, TypeInv
  <2>2. Ahead((dev.id + 1) % IdMod, expected'[r]) = 0
    BY <2>1, DistanceTypes, AheadIs
  <2>3. DistanceInv(r)'
    BY <1>1, <2>1, <2>2, CountGrows DEF DistanceInv, AfterCommand, Ahead
  <2>4. CompletedInv(r)' /\ ReadInv(r)'
    BY <2>1 DEF KnownInv, CompletedInv, ReadInv, Reading
  <2> QED BY <2>3, <2>4 DEF KnownInv
<1>11. CASE OpenUio(r) \/ AckIrq(r) \/ Arm(r)
  <2>1. pc[r] \in Launching /\ pc'[r] \in Launching /\ UNCHANGED <<answer, expected, seen>>
    BY <1>11 DEF OpenUio, AckIrq, Arm, TypeInv, Launching
  <2> QED BY <1>2, <1>4, <2>1 DEF KnownInv, Launching, Reading
<1>12. CASE WaitReturns(r) \/ AckDone(r)
  <2>1. pc[r] \in AfterCommand /\ pc'[r] \in {"ack_done", "poll"} /\ UNCHANGED <<answer, expected, seen>>
    BY <1>12 DEF WaitReturns, AckDone, TypeInv, AfterCommand
  <2> QED BY <1>2, <1>4, <2>1 DEF KnownInv, AfterCommand, Reading
<1>13. CASE PollSeesDone(r)
  <2>1. /\ pc[r] = "poll" /\ pc'[r] \in {"live_mask", "err_status"} /\ UNCHANGED <<answer, expected, seen>>
        /\ dev.done
    BY <1>13 DEF PollSeesDone, TypeInv
  <2>2. snapshot.id = dev.id /\ snapshot.owner = batch.owner
    BY <2>1 DEF DeviceInv
  <2>3. DistanceInv(r)'
    BY <1>2, <2>1 DEF AfterCommand
  <2>4. CompletedInv(r)'
    BY <1>1, <2>1, <2>2 DEF KnownInv, DistanceInv, CompletedInv, AfterCommand, Ahead
  <2>5. ReadInv(r)'
    BY <2>1 DEF KnownInv, ReadInv
  <2> QED BY <2>3, <2>4, <2>5 DEF KnownInv
<1>14. CASE ReadLiveMask(r) \/ ReadErrStatus(r) \/ ReadSnapshotId(r) \/ ReadCounts(r) \/ ReadMask(r)
  <2>1. UNCHANGED expected /\ answer'[r] # "ok"
    BY <1>14, DaemonAssumption
       DEF ReadLiveMask, ReadErrStatus, ReadSnapshotId, ReadCounts, ReadMask, AnswerInv, Outcomes
  <2>2. /\ pc[r] \in {"live_mask", "err_status", "snapshot_id", "counts", "check"}
        /\ pc'[r] \in {"err_status", "snapshot_id", "counts", "check", "reply"}
    BY <1>14 DEF ReadLiveMask, ReadErrStatus, ReadSnapshotId, ReadCounts, ReadMask, TypeInv
  <2>3. DistanceInv(r)'
    BY <1>2, <2>1, <2>2 DEF AfterCommand
  <2>4. CompletedInv(r)'
    BY <1>1, <2>1, <2>2 DEF KnownInv, CompletedInv, Reading, Ahead
  <2>5. snapshot.id = expected[r] => snapshot.owner = r
    BY <2>2 DEF KnownInv, CompletedInv, Reading
  <2>6. ReadInv(r)'
    <3>1. CASE ReadLiveMask(r)
      BY <1>1, <2>1, <3>1 DEF ReadLiveMask, TypeInv, ReadInv
    <3>2. CASE ReadErrStatus(r)
      <4>1. pc'[r] = "snapshot_id" /\ seen'[r].status = snapshot.owner
        BY <3>2 DEF ReadErrStatus, TypeInv, SeenType
      <4> QED BY <1>1, <2>1, <2>5, <4>1 DEF ReadInv
    <3>3. CASE ReadSnapshotId(r)
      <4>1. /\ pc[r] = "snapshot_id" /\ pc'[r] = "counts" /\ seen'[r].status = seen[r].status
            /\ seen'[r].id = snapshot.id /\ seen'[r].owner = snapshot.owner
        <5>1. seen' = [seen EXCEPT ![r] = [seen[r] EXCEPT !.id = snapshot.id, !.owner = snapshot.owner]]
          BY <3>3 DEF ReadSnapshotId
        <5>2. seen'[r] = [seen[r] EXCEPT !.id = snapshot.id, !.owner = snapshot.owner]
          BY <5>1 DEF TypeInv
        <5>3. seen[r] \in SeenType
          BY DEF TypeInv
        <5> QED BY <3>3, <5>2, <5>3 DEF ReadSnapshotId, TypeInv, SeenType
      <4> QED BY <1>1, <2>1, <2>5, <4>1 DEF KnownInv, ReadInv
    <3>4. CASE ReadCounts(r) \/ ReadMask(r)
      <4>1. /\ seen'[r].status = seen[r].status /\ seen'[r].id = seen[r].id
            /\ seen'[r].owner = seen[r].owner
        BY <3>4 DEF ReadCounts, ReadMask, TypeInv, SeenType
      <4>2. /\ pc[r] \in {"counts", "check"} /\ pc'[r] \in {"check", "reply"}
            /\ pc'[r] = "reply" => seen[r].id = expected[r]
        BY <3>4 DEF ReadCounts, ReadMask, IdMatches, TypeInv
      <4>3. seen[r].id = expected[r] => seen[r].status = r /\ seen[r].owner = r
        BY <4>2 DEF KnownInv, ReadInv
      <4> QED BY <2>1, <4>1, <4>2, <4>3 DEF ReadInv
    <3> QED BY <1>14, <3>1, <3>2, <3>3, <3>4
  <2> QED BY <2>3, <2>4, <2>6 DEF KnownInv
<1>15. CASE Command(r)
  BY <1>15, OwnCommandKeeps
<1> QED
  BY <1>6, <1>7, <1>8, <1>9, <1>10, <1>11, <1>12, <1>13, <1>14, <1>15 DEF Thread

(* A step is of one thread.                                                 *)
LEMMA OneCommands ==
  ASSUME TypeInv, NEW r \in Requests, NEW s \in Requests \ {r}, Command(s)
  PROVE  ~Thread(r)
<1>1. pc'[r] = pc[r]
  BY DEF Command, Goto, TypeInv
<1>2. Thread(r) => pc'[r] # pc[r]
  BY DEF Goto, TypeInv, Thread, Acquire, Refuse, EnterTool, PutMessage, PutJobs, PutConfig, NextReg,
         ConfigRegs, ReadBatchId, OpenUio, AckIrq, Arm, Command, WaitReturns, WaitTimesOut, AckDone,
         PollSeesDone, PollTimesOut, ReadLiveMask, ReadErrStatus, ReadSnapshotId, ReadCounts,
         Mismatch, ReadMask, Reply, Leave
<1> QED BY <1>1, <1>2

(* Every step keeps it, for every thread its rivals cannot lap.             *)
LEMMA RivalStep ==
  ASSUME TypeInv, AnswerInv, SingleFlight, DeviceInv, RivalInv, [Next]_vars
  PROVE  RivalInv'
<1> SUFFICES ASSUME NEW r \in Requests, NoWrap(r)
             PROVE  KnownInv(r)'
  BY DEF RivalInv, NoWrap, Rivals
<1>1. KnownInv(r)
  BY DEF RivalInv
<1>2. CASE Command(r)
  BY <1>1, <1>2, OwnCommandKeeps
<1>3. ASSUME NEW s \in Requests \ {r}, Command(s)
      PROVE  KnownInv(r)'
  <2>1. ~Thread(r)
    BY <1>3, OneCommands
  <2> QED BY <1>1, <1>3, <2>1, RivalKeeps
<1>4. CASE DeviceCompletes
  BY <1>1, <1>4, CompletionKeeps
<1>5. CASE Quiet
  BY <1>1, <1>5, QuietKeeps, OwnKeeps
<1> QED BY <1>2, <1>3, <1>4, <1>5, QuietStep

(* The daemon starts with no thread and a device that is idle.              *)
LEMMA InitInv ==
  ASSUME Init
  PROVE  DaemonInv
<1> USE DaemonAssumption DEF Init
<1>1. IdMod - 1 \in Ids /\ 0 \in Ids
  BY DEF Ids
<1>2. NoBatch \in BatchType
  BY DEF NoBatch, BatchType, Tags
<1>3. TypeInv
  <2>1. dev \in DevType
    BY <1>1 DEF DevType, Tags
  <2>2. seen \in [Requests -> SeenType]
    BY <1>1, <1>2 DEF SeenType, Tags
  <2> QED BY <1>1, <1>2, <2>1, <2>2 DEF TypeInv, Places, Tags
<1>4. AnswerInv /\ DeviceInv
  BY DEF AnswerInv, DeviceInv
<1>5. SingleFlight
  BY DEF SingleFlight, Active, InProcess
<1>6. OnlyMasterInv
  BY DEF OnlyMasterInv, MasterInv, RamInv, BatchInv, SnapshotInv, ResultInv, Launching, AfterCommand,
         Reading, Outcomes
<1>7. AccountedInv
  BY DEF AccountedInv, ConfigInv, RegsInv, WrittenRegs, AfterCommand, Launching, Outcomes
<1>8. WaitInv /\ IrqInv
  BY DEF WaitInv, IrqInv
<1> QED BY <1>3, <1>4, <1>5, <1>6, <1>7, <1>8 DEF DaemonInv
-----------------------------------------------------------------------------
(* What a thread relies on between two of its accesses holds in every       *)
(* reachable state, for any number of requests, tools and ids.              *)
THEOREM DaemonInvariant == Spec => []DaemonInv
<1>1. Init => DaemonInv
  BY InitInv
<1>2. DaemonInv /\ [Next]_vars => DaemonInv'
  <2> SUFFICES ASSUME DaemonInv, [Next]_vars PROVE DaemonInv'
    OBVIOUS
  <2>1. TypeInv' /\ AnswerInv' /\ SingleFlight' /\ DeviceInv'
    BY TypeStep, AnswerStep, SingleFlightStep, DeviceStep DEF DaemonInv
  <2>2. OnlyMasterInv' /\ AccountedInv'
    BY MasterStep, AccountedStep DEF DaemonInv
  <2>3. WaitInv' /\ IrqInv'
    BY WaitStep, IrqStep DEF DaemonInv
  <2> QED BY <2>1, <2>2, <2>3 DEF DaemonInv
<1> QED BY <1>1, <1>2, PTL DEF Spec

(* Every variable of the daemon, the device and the process keeps its type. *)
THEOREM DaemonTypes == Spec => []DaemonTypeOK
<1>1. DaemonInv => DaemonTypeOK
  BY DEF DaemonInv, TypeInv, DaemonTypeOK, DevType, BatchType, Ids
<1> QED BY <1>1, DaemonInvariant, PTL

(* verify_batch admits one thread, and its guard is held exactly while one  *)
(* is at work, through every exit path, disconnection, shutdown and crash.  *)
THEOREM OneThread == Spec => []SingleFlight
<1>1. DaemonInv => SingleFlight
  BY DEF DaemonInv
<1> QED BY <1>1, DaemonInvariant, PTL

(* With no other master, a good answer has the counts and the result bits   *)
(* of the batch its own request launched.                                   *)
THEOREM OwnResult == Spec => []ResultFromOwnLaunch
<1>1. DaemonInv => ResultFromOwnLaunch
  BY DEF DaemonInv, OnlyMasterInv, MasterInv, ResultInv, ResultFromOwnLaunch
<1> QED BY <1>1, DaemonInvariant, PTL

(* ... and that batch read the message and the jobs of that request only.   *)
THEOREM OwnPayload == Spec => []AnswerFromOwnPayload
<1>1. DaemonInv => AnswerFromOwnPayload
  BY DEF DaemonInv, OnlyMasterInv, MasterInv, ResultInv, AnswerFromOwnPayload
<1> QED BY <1>1, DaemonInvariant, PTL

(* With no other master, the configuration registers of a good answer's     *)
(* batch are those of its request, unless the batch before it made the      *)
(* registers drop a write after the thread that launched it had gone away.  *)
THEOREM OwnConfig == Spec => []OwnConfigUnlessAbandoned
<1>1. DaemonInv => OwnConfigUnlessAbandoned
  BY DEF DaemonInv, AccountedInv, ConfigInv, RegsInv, Accounted, OwnConfigUnlessAbandoned
<1> QED BY <1>1, DaemonInvariant, PTL

(* With no other master, the snapshot id always is the expected one.        *)
THEOREM IdsAgree == Spec => []NoMismatch
<1>1. DaemonInv => NoMismatch
  BY DEF DaemonInv, OnlyMasterInv, MasterInv, ResultInv, NoMismatch
<1> QED BY <1>1, DaemonInvariant, PTL

(* A thread that waits for the interrupt of a batch that is done has its    *)
(* event, or the interrupt is raised, enabled and unmasked.                 *)
THEOREM InterruptKept == Spec => []NoLostInterrupt
<1>1. DaemonInv => NoLostInterrupt
  BY DEF DaemonInv, TypeInv, DevType, WaitInv, IrqInv, NoLostInterrupt
<1> QED BY <1>1, DaemonInvariant, PTL

(* Other masters may launch as they like: as long as they cannot take the   *)
(* 32-bit batch id all the way round while a thread is at work, a good      *)
(* answer has the error bits and the id of the batch its thread launched.   *)
THEOREM RivalInvariant == Spec => []RivalInv
<1>1. Init => RivalInv
  BY DaemonAssumption
     DEF Init, RivalInv, KnownInv, DistanceInv, CompletedInv, ReadInv, Launching, AfterCommand, Reading, Outcomes
<1>2. RivalInv /\ DaemonInv /\ [Next]_vars => RivalInv'
  BY RivalStep DEF DaemonInv
<1> QED BY <1>1, <1>2, DaemonInvariant, PTL DEF Spec

(* A good answer is about the batch its own request launched, whoever else  *)
(* drives the device: for the daemon's answers if there are fewer runs of   *)
(* the tool than batch ids, however many requests there are; for the tool's *)
(* answers too if there are no more launches than ids.  (With one more, a   *)
(* rival gets the very id the thread expects.)                              *)
THEOREM OwnStatus ==
  /\ IsFiniteSet(Tools) /\ Cardinality(Tools) < IdMod =>
       (Spec => [](\A r \in Requests \ Tools :
                     answer[r] = "ok" => seen[r].status = r /\ seen[r].owner = r))
  /\ IsFiniteSet(Requests) /\ Cardinality(Requests) <= IdMod =>
       (Spec => []StatusFromOwnLaunch)
<1>1. ASSUME IsFiniteSet(Tools) /\ Cardinality(Tools) < IdMod
      PROVE  Spec => [](\A r \in Requests \ Tools :
                          answer[r] = "ok" => seen[r].status = r /\ seen[r].owner = r)
  <2>1. ASSUME NEW r \in Requests \ Tools
        PROVE  NoWrap(r)
    <3>1. Rivals(r) = Tools
      BY DEF Rivals
    <3> QED BY <1>1, <3>1 DEF NoWrap
  <2>2. RivalInv => \A r \in Requests \ Tools :
                      answer[r] = "ok" => seen[r].status = r /\ seen[r].owner = r
    BY <2>1 DEF RivalInv, KnownInv, ReadInv
  <2> QED BY <2>2, RivalInvariant, PTL
<1>2. ASSUME IsFiniteSet(Requests) /\ Cardinality(Requests) <= IdMod
      PROVE  Spec => []StatusFromOwnLaunch
  <2>1. ASSUME NEW r \in Requests
        PROVE  NoWrap(r)
    <3>1. /\ IsFiniteSet(Requests \ {r}) /\ Cardinality(Requests \ {r}) = Cardinality(Requests) - 1
          /\ Cardinality(Requests) \in Nat
      BY <1>2, FS_RemoveElement, FS_CardinalityType
    <3>2. Rivals(r) \in SUBSET (Requests \ {r})
      BY DaemonAssumption DEF Rivals
    <3>3. IsFiniteSet(Rivals(r)) /\ Cardinality(Rivals(r)) <= Cardinality(Requests \ {r})
      BY <3>1, <3>2, FS_Subset
    <3>4. Cardinality(Rivals(r)) \in Nat
      BY <3>3, FS_CardinalityType
    <3> QED BY <1>2, <3>1, <3>3, <3>4, DaemonAssumption DEF NoWrap
  <2>2. RivalInv => StatusFromOwnLaunch
    BY <2>1 DEF RivalInv, KnownInv, ReadInv, StatusFromOwnLaunch
  <2> QED BY <2>2, RivalInvariant, PTL
<1> QED BY <1>1, <1>2
=============================================================================
