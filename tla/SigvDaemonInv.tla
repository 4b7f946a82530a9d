--------------------------- MODULE SigvDaemonInv ---------------------------
(***************************************************************************)
(* The inductive invariant of SigvDaemon: what a thread between two of its *)
(* accesses can rely on (DaemonInv), and what it can tell of its batch when *)
(* other masters launch too (RivalInv).  SigvDaemonProofs proves that every *)
(* step keeps both.                                                        *)
(***************************************************************************)
EXTENDS SigvDaemon

(* Where a thread can be, in program order.                                 *)
AfterCommand == {"wait", "ack_done", "poll", "live_mask", "err_status", "snapshot_id", "counts",
                 "check", "reply"}
Reading == {"err_status", "snapshot_id", "counts", "check", "reply"}
Launching == {"open_uio", "ack", "arm", "control"}
Writing == {"message", "jobs"} \cup ConfigRegs \cup {"batch_id"}
Places == {"absent", "new", "end"} \cup Writing \cup Launching \cup AfterCommand

(* The configuration registers already written at each place.               *)
WrittenRegs(place) ==
  CASE place = "job_count" -> {"message_length"}
    [] place = "verify_cfg" -> {"message_length", "job_count"}
    [] place = "job_timeout" -> {"message_length", "job_count", "verify_cfg"}
    [] place \in {"batch_id"} \cup Launching -> ConfigRegs
    [] OTHER -> {}

Ids == 0 .. IdMod - 1
BatchType ==
  [owner : Tags, message : SUBSET Tags, jobs : SUBSET Tags, cfg : [ConfigRegs -> Tags],
   locked_by : Tags]
SeenType == [status : Tags, id : Ids, owner : Tags, counts : Tags, mask : BatchType]
DevType ==
  [running : BOOLEAN, done : BOOLEAN, id : Ids, irq_pending : BOOLEAN, irq_enable : BOOLEAN,
   message : Tags, jobs : Tags, cfg : [ConfigRegs -> Tags], ignored : BOOLEAN]

TypeInv ==
  /\ wait_mode \in WaitModes
  /\ busy \in BOOLEAN
  /\ pc \in [Requests -> Places]
  /\ expected \in [Requests -> Ids]
  /\ seen \in [Requests -> SeenType]
  /\ answer \in [Requests -> Outcomes \cup {None}]
  /\ dev \in DevType /\ batch \in BatchType
  /\ snapshot \in [id : Ids, owner : Tags]
  /\ uio \in [masked : BOOLEAN, event : BOOLEAN]
  /\ server \in {"down", "serving", "draining", "crashed"}
  /\ socket \in BOOLEAN
  /\ gone \subseteq Requests \ Tools

(* An answer is given once, at the end.                                     *)
AnswerInv == \A r \in Requests : answer[r] # None => pc[r] = "end"

(* A completed batch is the one in the snapshot.                            *)
DeviceInv ==
  dev.done => ~dev.running /\ snapshot = [id |-> dev.id, owner |-> batch.owner]

(* The thread at work has the RAMs to itself, and after its command the     *)
(* batch.                                                                   *)
RamInv(r) ==
  /\ pc[r] \notin {"absent", "new", "end", "message"} => dev.message = r
  /\ pc[r] \notin {"absent", "new", "end", "message", "jobs"} => dev.jobs = r
  /\ pc[r] \in Launching => expected[r] = (dev.id + 1) % IdMod

BatchInv(r) ==
  pc[r] \in AfterCommand =>
    /\ pc[r] # "live_mask"
    /\ expected[r] = dev.id
    /\ batch.owner = r /\ batch.message = {r} /\ batch.jobs = {r}
    /\ dev.running \/ dev.done

(* What it has read of the snapshot is of that batch.                       *)
SnapshotInv(r) ==
  /\ pc[r] \in Reading => dev.done
  /\ pc[r] \in Reading \ {"err_status"} => seen[r].status = r
  /\ pc[r] \in {"counts", "check", "reply"} => seen[r].id = dev.id /\ seen[r].owner = r
  /\ pc[r] \in {"check", "reply"} => seen[r].counts = r
  /\ pc[r] = "reply" => seen[r].mask = batch

ResultInv(r) ==
  /\ answer[r] # "mismatch"
  /\ answer[r] = "ok" =>
       /\ seen[r].counts = r /\ seen[r].mask.owner = r
       /\ seen[r].mask.message = {r} /\ seen[r].mask.jobs = {r}

(* The part that needs the daemon to be the only master.                    *)
MasterInv ==
  /\ \A r \in Requests \ Tools : RamInv(r) /\ BatchInv(r) /\ SnapshotInv(r)
  /\ \A r \in Requests : ResultInv(r)

OnlyMasterInv == ToolsSilent => MasterInv

(* A batch that was launched with its own configuration, or whose launcher  *)
(* was locked out of the registers.                                         *)
Accounted(r, b) == ConfigIsOwn(r, b) \/ LockedOut(r, b)

(* The registers written are its own unless the device has dropped a write, *)
(* and so is what the batch has of them.                                    *)
RegsInv(r) ==
  /\ dev.ignored \/ \A x \in WrittenRegs(pc[r]) : dev.cfg[x] = r
  /\ pc[r] \in AfterCommand => Accounted(r, batch)
  /\ answer[r] = "ok" => Accounted(r, seen[r].mask)

(* A batch under way has a thread that waits for it, or was left by one, and *)
(* only one that was left can get in the way of a write.                    *)
ConfigInv ==
  /\ dev.running =>
       /\ batch.owner \in Requests
       /\ pc[batch.owner] \in {"wait", "ack_done", "poll"} \/ WentAway(batch.owner)
  /\ dev.ignored => batch.owner \in Requests /\ WentAway(batch.owner)
  /\ \A r \in Requests : RegsInv(r)

AccountedInv == ToolsSilent => ConfigInv

(* From the arming of the interrupt to its wake-up.                         *)
IrqInv ==
  \A r \in Requests : WaitsForIrq(r) =>
    /\ pc[r] \in {"arm", "control", "wait"} => dev.irq_enable
    /\ pc[r] \in {"control", "wait"} => uio.event \/ ~uio.masked
    /\ pc[r] = "wait" /\ dev.done => uio.event \/ dev.irq_pending

WaitInv ==
  \A r \in Requests : pc[r] \in {"open_uio", "ack", "arm", "wait", "ack_done"} => WaitsForIrq(r)

DaemonInv ==
  /\ TypeInv /\ AnswerInv /\ SingleFlight /\ DeviceInv
  /\ OnlyMasterInv /\ AccountedInv
  /\ WaitInv /\ IrqInv

(***************************************************************************)
(* With other masters at work, from here on.                               *)
(***************************************************************************)

(* Who can launch a batch while r is at work: other threads of the daemon   *)
(* cannot while a thread of the daemon is.                                  *)
Rivals(r) == (IF r \in Tools THEN Requests ELSE Tools) \ {r}

(* They are too few to take the batch id all the way round.  Each of them   *)
(* launches once.                                                           *)
NoWrap(r) == IsFiniteSet(Rivals(r)) /\ Cardinality(Rivals(r)) < IdMod

(* Those that may have launched already.                                    *)
Launched(r) == {s \in Rivals(r) : pc[s] \in AfterCommand \cup {"end"}}

(* How many ids further b is than a.                                        *)
Ahead(b, a) == IF b < a THEN b + IdMod - a ELSE b - a

(* The expected id of a thread is behind the device's by no more than the   *)
(* launches of its rivals, so it names the thread's own batch, or none      *)
(* that is still to be seen.                                                *)
DistanceInv(r) ==
  /\ pc[r] \in Launching => Ahead((dev.id + 1) % IdMod, expected[r]) <= Cardinality(Launched(r))
  /\ pc[r] \in AfterCommand =>
       /\ Ahead(dev.id, expected[r]) <= Cardinality(Launched(r))
       /\ dev.id = expected[r] => batch.owner = r

(* The snapshot goes through the ids in the same order, ...                 *)
CompletedInv(r) ==
  pc[r] \in Reading \cup {"live_mask"} =>
    /\ Ahead(snapshot.id, expected[r]) <= Ahead(dev.id, expected[r])
    /\ snapshot.id = expected[r] => snapshot.owner = r

(* ... so an id read after the error bits cannot be the expected one if the *)
(* bits were of a later batch.                                              *)
ReadInv(r) ==
  /\ pc[r] = "snapshot_id" => seen[r].status = r \/ snapshot.id # expected[r]
  /\ pc[r] \in {"counts", "check", "reply"} /\ seen[r].id = expected[r] =>
       seen[r].status = r /\ seen[r].owner = r
  /\ pc[r] = "reply" => seen[r].id = expected[r]
  /\ answer[r] = "ok" => seen[r].status = r /\ seen[r].owner = r

(* All that is known of a thread and its batch, whoever else launches.      *)
KnownInv(r) == DistanceInv(r) /\ CompletedInv(r) /\ ReadInv(r)

RivalInv == \A r \in Requests : NoWrap(r) => KnownInv(r)

=============================================================================
