----------------------------- MODULE SigvDaemon -----------------------------
(***************************************************************************)
(* The verification daemon as the image runs it: the process under systemd *)
(* (main.rs), its requests on blocking threads (api.rs), each of them      *)
(* driving the device through its registers and RAM windows                *)
(* (accelerator.rs).  One step is one register access, one region write,   *)
(* one wake-up, or one event of the process.  The device is seen at that   *)
(* grain: a command takes effect before the next access, as LaunchVisible  *)
(* in SigvRegs justifies.                                                  *)
(*                                                                         *)
(* Data are tags: a RAM window or a configuration register holds the name  *)
(* of the request whose value was last accepted by it, and a batch records *)
(* the tags of everything it was computed from.                            *)
(***************************************************************************)
EXTENDS Naturals, FiniteSets

CONSTANTS
  Requests,    (* HTTP requests, each issued at most once                   *)
  Together,    (* bound: a run's requests are within one of these sets;     *)
               (* {Requests} bounds nothing                                 *)
  Tools,       (* those of them that are runs of kv260_sigv_smoke.py: the   *)
               (* same accesses from a process of its own, without guard    *)
  None,
  WaitModes,   (* subset of {"irq", "poll"}: how the daemon may be started  *)
  MayStop,     (* the daemon process may die or be told to stop             *)
  IdMod        (* 2^32 in the code: batch ids wrap at it                    *)

Outcomes == {"ok", "busy", "timeout", "unavailable", "mismatch", "lost"}

ASSUME DaemonAssumption ==
  /\ None \notin Requests \cup Outcomes
  /\ Tools \subseteq Requests /\ Together \subseteq SUBSET Requests
  /\ WaitModes \subseteq {"irq", "poll"}
  /\ MayStop \in BOOLEAN
  /\ IdMod \in Nat \ {0, 1}

VARIABLES
  wait_mode,
  busy,      (* SingleFlightAccelerator.busy, the guard                     *)
  pc,        (* per request: where its blocking thread is                   *)
  expected,  (* expected_batch_id of each request                           *)
  seen,      (* what it read: the snapshot id, the owners of the batches    *)
             (* its three parts came from, and the inputs behind the mask   *)
  answer,    (* None, or the outcome sent to the client                     *)
  dev,       (* the device: run state, id, interrupt, RAMs, registers       *)
  batch,     (* inputs of the current batch: owner, tags, and locked_by,    *)
             (* the owner of the batch before it if that one made the       *)
             (* registers drop a write                                      *)
  snapshot,  (* completion snapshot: id and owner of that batch             *)
  uio,       (* the UIO file: interrupt masked, event waiting               *)
  server,    (* the process: down, serving, draining, crashed               *)
  socket,    (* the socket file exists                                      *)
  gone       (* requests whose client, or whose handler, is gone            *)

device == <<dev, batch, snapshot>>
process == <<server, socket, gone>>
vars == <<wait_mode, busy, pc, expected, seen, answer, device, uio, process>>

Tags == Requests \cup {None}

ConfigRegs == {"message_length", "job_count", "verify_cfg", "job_timeout"}

NoBatch == [owner |-> None, message |-> {}, jobs |-> {}, cfg |-> [x \in ConfigRegs |-> None],
            locked_by |-> None]
-----------------------------------------------------------------------------
(* The device. *)

WriteMessage(r) ==
  /\ dev' = [dev EXCEPT !.message = r]
  /\ batch' = IF dev.running THEN [batch EXCEPT !.message = @ \cup {r}] ELSE batch

(* Mutant: a job RAM that is locked as the registers are. *)
WriteJobsLocked(r) ==
  /\ dev' = IF dev.running THEN dev ELSE [dev EXCEPT !.jobs = r]
  /\ UNCHANGED batch
WriteJobs(r) ==
  /\ dev' = [dev EXCEPT !.jobs = r]
  /\ batch' = IF dev.running THEN [batch EXCEPT !.jobs = @ \cup {r}] ELSE batch

(* The register block drops the write while a batch runs, and sets the flag *)
(* config_write_ignored, which the next command clears.                     *)
(* Mutant: a lock that holds until the next command. *)
WriteConfigUntilCommand(r, reg) ==
  dev' = IF dev.running \/ dev.done THEN [dev EXCEPT !.ignored = TRUE]
         ELSE [dev EXCEPT !.cfg[reg] = r]
WriteConfig(r, reg) ==
  dev' = IF dev.running THEN [dev EXCEPT !.ignored = TRUE] ELSE [dev EXCEPT !.cfg[reg] = r]

(* RESET_THEN_START: whatever runs is aborted, a new batch starts from what *)
(* the RAMs and registers hold.  A done still up at the launch edge raises  *)
(* the interrupt once more.                                                 *)
ResetThenStart(r) ==
  /\ dev' = [dev EXCEPT !.running = TRUE, !.done = FALSE, !.id = (@ + 1) % IdMod,
                        !.irq_pending = dev.done, !.ignored = FALSE]
  /\ batch' = [owner |-> r, message |-> {dev.message}, jobs |-> {dev.jobs}, cfg |-> dev.cfg,
               locked_by |-> IF dev.ignored THEN batch.owner ELSE None]

AckAndEnableIrq == dev' = [dev EXCEPT !.irq_pending = FALSE, !.irq_enable = TRUE]

DeviceCompletes ==
  /\ dev.running
  /\ dev' = [dev EXCEPT !.running = FALSE, !.done = TRUE, !.irq_pending = TRUE]
  /\ snapshot' = [id |-> dev.id, owner |-> batch.owner]
  /\ UNCHANGED <<wait_mode, busy, pc, expected, seen, answer, batch, uio, process>>

(* uio_pdrv_genirq: the handler masks the level interrupt and counts an     *)
(* event; writing 1 to the file unmasks it.                                 *)
InterruptFires ==
  /\ dev.irq_enable /\ dev.irq_pending
  /\ ~uio.masked
  /\ uio' = [masked |-> TRUE, event |-> TRUE]
  /\ UNCHANGED <<wait_mode, busy, pc, expected, seen, answer, device, process>>
-----------------------------------------------------------------------------
(* The daemon, and the smoke tool, which is modelled with polling only.    *)

WaitsForIrq(r) == wait_mode = "irq" /\ r \notin Tools

Goto(r, from, to) == pc[r] = from /\ pc' = [pc EXCEPT ![r] = to]

Answer(r, outcome) == answer' = [answer EXCEPT ![r] = outcome]

(* SingleFlightAccelerator::verify_batch: a request that finds the flag set *)
(* is refused at once.                                                      *)
(* Mutant: no guard. *)
AcquireAlways(r) ==
  /\ r \notin Tools
  /\ Goto(r, "new", "message")
  /\ busy' = TRUE
  /\ UNCHANGED <<wait_mode, expected, seen, answer, device, uio, process>>
Acquire(r) ==
  /\ r \notin Tools
  /\ Goto(r, "new", "message")
  /\ ~busy
  /\ busy' = TRUE
  /\ UNCHANGED <<wait_mode, expected, seen, answer, device, uio, process>>

Refuse(r) ==
  /\ r \notin Tools
  /\ Goto(r, "new", "end")
  /\ busy
  /\ Answer(r, "busy")
  /\ UNCHANGED <<wait_mode, busy, expected, seen, device, uio, process>>

EnterTool(r) ==
  /\ r \in Tools
  /\ Goto(r, "new", "message")
  /\ UNCHANGED <<wait_mode, busy, expected, seen, answer, device, uio, process>>

(* Leaving verify_batch in any way drops the guard. *)
DropGuard(r) == busy' = (busy /\ r \in Tools)

Leave(r, from, outcome) ==
  /\ Goto(r, from, "end")
  /\ DropGuard(r)
  /\ Answer(r, outcome)
  /\ UNCHANGED <<wait_mode, expected, seen, device, uio, process>>

PutMessage(r) ==
  /\ Goto(r, "message", "jobs")
  /\ WriteMessage(r)
  /\ UNCHANGED <<wait_mode, busy, expected, seen, answer, snapshot, uio, process>>

PutJobs(r) ==
  /\ Goto(r, "jobs", "message_length")
  /\ WriteJobs(r)
  /\ UNCHANGED <<wait_mode, busy, expected, seen, answer, snapshot, uio, process>>

NextReg == [message_length |-> "job_count", job_count |-> "verify_cfg",
            verify_cfg |-> "job_timeout", job_timeout |-> "batch_id"]

PutConfig(r) ==
  /\ pc[r] \in ConfigRegs
  /\ pc' = [pc EXCEPT ![r] = NextReg[pc[r]]]
  /\ WriteConfig(r, pc[r])
  /\ UNCHANGED <<wait_mode, busy, expected, seen, answer, batch, snapshot, uio, process>>

(* Mutant: an id that does not wrap. *)
ReadBatchIdNoWrap(r) ==
  /\ Goto(r, "batch_id", IF WaitsForIrq(r) THEN "open_uio" ELSE "control")
  /\ expected' = [expected EXCEPT ![r] = dev.id + 1]
  /\ UNCHANGED <<wait_mode, busy, seen, answer, device, uio, process>>
ReadBatchId(r) ==
  /\ Goto(r, "batch_id", IF WaitsForIrq(r) THEN "open_uio" ELSE "control")
  /\ expected' = [expected EXCEPT ![r] = (dev.id + 1) % IdMod]
  /\ UNCHANGED <<wait_mode, busy, seen, answer, device, uio, process>>

(* A file just opened has seen every event so far. *)
OpenUio(r) ==
  /\ Goto(r, "open_uio", "ack")
  /\ uio' = [uio EXCEPT !.event = FALSE]
  /\ UNCHANGED <<wait_mode, busy, expected, seen, answer, device, process>>

(* Mutant: the interrupt is not armed. *)
AckIrqOnly(r) ==
  /\ Goto(r, "ack", "control")
  /\ AckAndEnableIrq
  /\ UNCHANGED <<wait_mode, busy, expected, seen, answer, batch, snapshot, uio, process>>
AckIrq(r) ==
  /\ Goto(r, "ack", "arm")
  /\ AckAndEnableIrq
  /\ UNCHANGED <<wait_mode, busy, expected, seen, answer, batch, snapshot, uio, process>>

Arm(r) ==
  /\ Goto(r, "arm", "control")
  /\ uio' = [uio EXCEPT !.masked = FALSE]
  /\ UNCHANGED <<wait_mode, busy, expected, seen, answer, device, process>>

Command(r) ==
  /\ Goto(r, "control", IF WaitsForIrq(r) THEN "wait" ELSE "poll")
  /\ ResetThenStart(r)
  /\ UNCHANGED <<wait_mode, busy, expected, seen, answer, snapshot, uio, process>>

WaitReturns(r) ==
  /\ Goto(r, "wait", "ack_done")
  /\ uio.event
  /\ uio' = [uio EXCEPT !.event = FALSE]
  /\ UNCHANGED <<wait_mode, busy, expected, seen, answer, device, process>>

(* Mutant: a wait without a deadline. *)
WaitForever(r) == FALSE /\ Leave(r, "wait", "timeout")
WaitTimesOut(r) == ~uio.event /\ Leave(r, "wait", "timeout")

AckDone(r) ==
  /\ Goto(r, "ack_done", "poll")
  /\ AckAndEnableIrq
  /\ UNCHANGED <<wait_mode, busy, expected, seen, answer, batch, snapshot, uio, process>>

(* poll_until_complete: the deadline counts only when done was not read.    *)
PollSeesDone(r) ==
  /\ Goto(r, "poll", IF r \in Tools THEN "live_mask" ELSE "err_status")
  /\ dev.done
  /\ UNCHANGED <<wait_mode, busy, expected, seen, answer, device, uio, process>>

PollTimesOut(r) == ~dev.done /\ Leave(r, "poll", "timeout")

(* The snapshot is read register by register: the error bits, the id, the   *)
(* counts.  The tool reads the mask before it, the daemon after its check.  *)
ReadLiveMask(r) ==
  /\ Goto(r, "live_mask", "err_status")
  /\ seen' = [seen EXCEPT ![r].mask = batch]
  /\ UNCHANGED <<wait_mode, busy, expected, answer, device, uio, process>>

ReadErrStatus(r) ==
  /\ Goto(r, "err_status", "snapshot_id")
  /\ seen' = [seen EXCEPT ![r].status = snapshot.owner]
  /\ UNCHANGED <<wait_mode, busy, expected, answer, device, uio, process>>

ReadSnapshotId(r) ==
  /\ Goto(r, "snapshot_id", "counts")
  /\ seen' = [seen EXCEPT ![r].id = snapshot.id, ![r].owner = snapshot.owner]
  /\ UNCHANGED <<wait_mode, busy, expected, answer, device, uio, process>>

ReadCounts(r) ==
  /\ Goto(r, "counts", "check")
  /\ seen' = [seen EXCEPT ![r].counts = snapshot.owner]
  /\ UNCHANGED <<wait_mode, busy, expected, answer, device, uio, process>>

(* Mutant: no check. *)
IdIgnored(r) == TRUE
IdMatches(r) == seen[r].id = expected[r]

Mismatch(r) == ~IdMatches(r) /\ Leave(r, "check", "mismatch")

ReadMask(r) ==
  /\ Goto(r, "check", "reply")
  /\ IdMatches(r)
  /\ seen' = IF r \in Tools THEN seen ELSE [seen EXCEPT ![r].mask = batch]
  /\ UNCHANGED <<wait_mode, busy, expected, answer, device, uio, process>>

Reply(r) == Leave(r, "reply", "ok")

(* Opening a region, opening or arming the UIO file, or waiting on it may   *)
(* fail.  The register accesses have no way to.                             *)
Fails(r) ==
  /\ r \notin Tools
  /\ pc[r] \in {"message", "open_uio", "arm", "wait"}
  /\ Leave(r, pc[r], "unavailable")

Thread(r) ==
  \/ Acquire(r) \/ Refuse(r) \/ EnterTool(r) \/ PutMessage(r) \/ PutJobs(r) \/ PutConfig(r)
  \/ ReadBatchId(r) \/ OpenUio(r) \/ AckIrq(r) \/ Arm(r) \/ Command(r)
  \/ WaitReturns(r) \/ WaitTimesOut(r) \/ AckDone(r) \/ PollSeesDone(r) \/ PollTimesOut(r)
  \/ ReadLiveMask(r) \/ ReadErrStatus(r) \/ ReadSnapshotId(r) \/ ReadCounts(r)
  \/ Mismatch(r) \/ ReadMask(r) \/ Reply(r)
-----------------------------------------------------------------------------
(* The process.                                                             *)

InProcess(r) == r \notin Tools /\ pc[r] \notin {"absent", "end"}

(* serve: a socket file left behind by a dead process is removed first,     *)
(* because a name that exists cannot be bound.                              *)
(* Mutant: it is not removed. *)
StartOnFreshName ==
  /\ server \in {"down", "crashed"}
  /\ ~socket
  /\ server' = "serving" /\ socket' = TRUE
  /\ UNCHANGED <<wait_mode, busy, pc, expected, seen, answer, device, uio, gone>>
Start ==
  /\ server \in {"down", "crashed"}
  /\ server' = "serving" /\ socket' = TRUE
  /\ UNCHANGED <<wait_mode, busy, pc, expected, seen, answer, device, uio, gone>>

(* systemd restarts the process when it failed, not when it was stopped.    *)
Restart == server = "crashed" /\ Start

(* A client sends its request; the tool is started.                         *)
Arrive(r) ==
  /\ Goto(r, "absent", "new")
  /\ r \in Tools \/ server = "serving"
  /\ \E group \in Together : {q \in Requests : q = r \/ pc[q] # "absent"} \subseteq group
  /\ UNCHANGED <<wait_mode, busy, expected, seen, answer, device, uio, process>>

(* A client closes its connection: its handler is dropped where it waits,   *)
(* the blocking thread it spawned goes on, and keeps the guard.             *)
(* Mutant: the guard belongs to the handler. *)
DisconnectFreesGuard(r) ==
  /\ server = "serving" /\ InProcess(r)
  /\ gone' = gone \cup {r} /\ busy' = FALSE
  /\ UNCHANGED <<wait_mode, pc, expected, seen, answer, device, uio, server, socket>>
Disconnect(r) ==
  /\ server = "serving" /\ InProcess(r)
  /\ gone' = gone \cup {r}
  /\ UNCHANGED <<wait_mode, busy, pc, expected, seen, answer, device, uio, server, socket>>

(* The accept loop ends: at SIGTERM, which removes the socket, or because   *)
(* accept failed.  The runtime drops all handlers, and joins the blocking   *)
(* threads before the process exits.                                        *)
StopAccepting(removed) ==
  /\ server = "serving"
  /\ server' = "draining" /\ socket' = ~removed
  /\ gone' = gone \cup {r \in Requests : InProcess(r)}
  /\ UNCHANGED <<wait_mode, busy, pc, expected, seen, answer, device, uio>>

(* A handler dropped before it spawned its thread.                          *)
Abandon(r) ==
  /\ server = "draining" /\ r \notin Tools
  /\ Goto(r, "new", "end")
  /\ Answer(r, "lost")
  /\ UNCHANGED <<wait_mode, busy, expected, seen, device, uio, process>>

(* An exit after SIGTERM is a success, one after a failed accept is not.    *)
Exit ==
  /\ server = "draining"
  /\ \A r \in Requests : ~InProcess(r)
  /\ server' = IF socket THEN "crashed" ELSE "down"
  /\ UNCHANGED <<wait_mode, busy, pc, expected, seen, answer, device, uio, socket, gone>>

(* The process dies with its threads and its guard.  Nothing resets the     *)
(* device, and the socket file stays as it is.                              *)
Crash ==
  /\ server \in {"serving", "draining"}
  /\ server' = IF socket THEN "crashed" ELSE "down"
  /\ pc' = [r \in Requests |-> IF InProcess(r) THEN "end" ELSE pc[r]]
  /\ answer' = [r \in Requests |-> IF InProcess(r) THEN "lost" ELSE answer[r]]
  /\ busy' = FALSE
  /\ UNCHANGED <<wait_mode, expected, seen, device, uio, socket, gone>>

Init ==
  /\ wait_mode \in WaitModes
  /\ busy = FALSE
  /\ pc = [r \in Requests |-> "absent"]
  /\ expected = [r \in Requests |-> 0]
  /\ seen = [r \in Requests |-> [status |-> None, id |-> 0, owner |-> None, counts |-> None,
                                 mask |-> NoBatch]]
  /\ answer = [r \in Requests |-> None]
  /\ dev = [running |-> FALSE, done |-> FALSE, id |-> IdMod - 1, irq_pending |-> FALSE,
            irq_enable |-> FALSE, message |-> None, jobs |-> None,
            cfg |-> [x \in ConfigRegs |-> None], ignored |-> FALSE]
  /\ batch = NoBatch
  /\ snapshot = [id |-> IdMod - 1, owner |-> None]
  /\ uio = [masked |-> FALSE, event |-> FALSE]
  /\ server = "down" /\ socket = FALSE /\ gone = {}

Next ==
  \/ \E r \in Requests : Arrive(r) \/ Thread(r) \/ Fails(r) \/ Disconnect(r) \/ Abandon(r)
  \/ DeviceCompletes
  \/ InterruptFires
  \/ Start
  \/ MayStop /\ \E removed \in BOOLEAN : StopAccepting(removed)
  \/ Exit
  \/ MayStop /\ Crash

(* The blocking threads are scheduled, the clock of their deadlines runs,   *)
(* a raised interrupt is delivered, and systemd restarts what failed.       *)
(* Nothing is assumed of the device.                                        *)
Spec ==
  /\ Init /\ [][Next]_vars
  /\ \A r \in Requests : WF_vars(Thread(r) \/ Abandon(r))
  /\ WF_vars(InterruptFires)
  /\ WF_vars(Restart) /\ WF_vars(Exit)
-----------------------------------------------------------------------------
Answered(r) == answer[r] # None

Active(r) == InProcess(r) /\ pc[r] # "new"

ToolsSilent == \A t \in Tools : pc[t] \in {"absent", "new"}

(* A thread that stopped waiting before it had a result, or never waited.   *)
WentAway(r) == answer[r] \in {"timeout", "unavailable", "lost"}

DaemonTypeOK ==
  /\ wait_mode \in WaitModes
  /\ busy \in BOOLEAN /\ socket \in BOOLEAN
  /\ server \in {"down", "serving", "draining", "crashed"}
  /\ gone \subseteq Requests \ Tools
  /\ expected \in [Requests -> 0 .. IdMod - 1]
  /\ answer \in [Requests -> Outcomes \cup {None}]
  /\ dev.message \in Tags /\ dev.jobs \in Tags /\ dev.cfg \in [ConfigRegs -> Tags]
  /\ batch.message \subseteq Tags /\ batch.jobs \subseteq Tags
  /\ uio \in [masked : BOOLEAN, event : BOOLEAN]

(* One thread at a time is past the guard, and the guard is held exactly    *)
(* while one is: no exit path of verify_batch leaks it, and neither a       *)
(* client that goes away nor a shutdown takes it from a thread at work.     *)
SingleFlight ==
  /\ \A r, s \in Requests : Active(r) /\ Active(s) => r = s
  /\ busy <=> \E r \in Requests : Active(r)

(* A successful answer has the id and the error bits of the batch this very *)
(* request launched, whatever earlier requests left running and whatever    *)
(* another process launches in between, although the two are read one after *)
(* the other: the id check catches every case.                              *)
StatusFromOwnLaunch ==
  \A r \in Requests : answer[r] = "ok" => seen[r].status = r /\ seen[r].owner = r

(* With the daemon as the only master the counts and the result bits, read  *)
(* after the id, are also those of that batch,                              *)
ResultFromOwnLaunch ==
  ToolsSilent => \A r \in Requests : answer[r] = "ok" =>
    seen[r].counts = r /\ seen[r].mask.owner = r

(* ... and that batch read no message byte and no job of another request.   *)
AnswerFromOwnPayload ==
  ToolsSilent => \A r \in Requests : answer[r] = "ok" =>
    seen[r].mask.message = {r} /\ seen[r].mask.jobs = {r}

(* "Software should treat those fields as locked for the active batch": it  *)
(* ran with the message length, job count, verify mode, limit and watchdog  *)
(* of this request.                                                         *)
ConfigIsOwn(r, b) == \A x \in ConfigRegs : b.cfg[x] = r
AnswerFromOwnConfig == \A r \in Requests : answer[r] = "ok" => ConfigIsOwn(r, seen[r].mask)

(* With the daemon as the only master there is one way to be answered from  *)
(* another configuration: the request found the batch of a thread that had  *)
(* launched it and gone away still running, and the registers locked by it. *)
(* A failure before a launch, and a batch left behind that has completed in *)
(* the meantime, are no excuse.                                             *)
LockedOut(r, b) == b.locked_by \in Requests \ {r} /\ WentAway(b.locked_by)
OwnConfigUnlessAbandoned ==
  ToolsSilent => \A r \in Requests : answer[r] = "ok" =>
    ConfigIsOwn(r, seen[r].mask) \/ LockedOut(r, seen[r].mask)

(* The snapshot check never rejects the batch of the only master there is.  *)
NoMismatch == ToolsSilent => \A r \in Requests : answer[r] # "mismatch"

(* A thread that waits for an interrupt whose batch is done has its event,  *)
(* or will get it: it was not masked, acknowledged or consumed for another. *)
NoLostInterrupt ==
  \A r \in Requests : pc[r] = "wait" /\ dev.done =>
    uio.event \/ (dev.irq_enable /\ dev.irq_pending /\ ~uio.masked)

(* A request that arrived is answered, or its client is told by the end of  *)
(* the connection.                                                          *)
EveryRequestAnswered == \A r \in Requests : (pc[r] = "new") ~> Answered(r)

(* A daemon that died accepts connections again, over whatever socket file  *)
(* the dead one left.                                                       *)
ServesAgain == (server = "crashed") ~> (server = "serving")

=============================================================================
