# Verification of kv260-sigverify

A KV260 board verifies batches of Ed25519 signatures over one Solana message. A Rust daemon on
the ARM side takes requests over HTTP, writes message and jobs into two RAM windows of the
programmable logic, configures and launches a Verilog batch core through memory-mapped
registers, waits for completion, and reads back a result bit per job. This directory holds TLA+
models of that system, TLC runs that check them on small instances, and TLAPS proofs for every
instance.

    HTTP clients, systemd
          |
    main.rs, api.rs, parser.rs -> SingleFlightAccelerator -> MappedAccelerator   smoke tool
                                                               |                    |
                    UIO interrupt <----------------------------+--- register accesses, RAM writes
                          |                                    |
                          +------ irq ---- sigv_axi_regs.v ----+
                                             | start, soft_reset, configuration
                                           sigv_kv260_core.v --- job RAM, message RAM
                                             | start, operands, abort
                                           ed25519_verify_engine.v (one or two)
                                             |         |              |
                                       point core   SHA-512 stream   scalar units
                                             |
                                       wide multiplier, adder

## 1. Inventory

| component | state | operations | interacts by | hard part | correct when |
|---|---|---|---|---|---|
| batch core, `sigv_kv260_core.v` | batch state, status, mask, counters, snapshot; loader, shadow slot, two job slots with cycle counts; abort | launch, soft reset, load word, dispatch, store verdict, watchdog, finalize | command pulses, level status, done pulses, registered RAM read | everything may happen at one edge; aborts with engines at work | each accepted job judged once with its own verdict; batch ends; snapshot is that batch's |
| message multiplexer (same file, 131-139) | none | grant | shared read port | two readers, read latency | each engine gets its own bytes |
| register block, `sigv_axi_regs.v` | configuration, pulses, interrupt and sticky flags, bus handshake | register writes, reads | AXI-Lite; wires to the core | both blocks clocked together, each sees the other one edge late | no stale done, no lost interrupt, no configuration change under a batch |
| verify engine, `ed25519_verify_engine.v` | 35-state controller, accumulators | start, abort | pulses to the core, message reads | abort at any state, points with several encodings | verdict = signature equation, small orders refused in strict mode |
| SHA-512, `sha512_stream_engine.v` | block buffer, positions, hash state | start, reset | shared message port | padding boundaries, a stolen read | digest of prefixes and message |
| scalar units | recoding and remainder registers | start, reset | pulses | carries at the top digit | digits sum to the scalar; remainder is the residue |
| point core, `ed25519_point_core.v` | microprogram step, registers, power chain | add, double, decompress, abort | start/done of the multiplier | registers left over from an operation before or cut off | group law; decoding exactly of points |
| wide multiplier, `fe25519_mul_wide_core.v` | limbs, diagonals, carries | start, reset | start/done | carries, widths | product modulo 2^255 - 19 |
| bring-up core | counters only | launch | as the core | it confirms the first job of any batch (result_valid and mask bit 0) | kept away from clients by the identity check |
| daemon driver, `accelerator.rs` | guard flag | verify_batch, access by access; discovery, status | registers, RAM windows, UIO file, sysfs | threads, deadlines, crashes, interrupts | each answer from the request's own batch; guard never leaked; every request answered; "verified" only of the genuine |
| daemon API, `api.rs` | none | decode, verify, status | blocking threads | clients that go away, every error path | one answer per request, no write for a refused one |
| transaction parser, `parser.rs` | offset | parse_transaction | bytes | lengths, truncation, counts | accepts exactly well-formed transactions |
| daemon process, `main.rs`, service file | socket file | serve, SIGTERM, exit, restart | systemd | draining threads, stale socket | serves again |
| smoke tool, `kv260_sigv_smoke.py` | none | _run_batch | the same device, no guard | second master | does not accept another batch's status |
| build scripts, image recipes, other tools, tests | | | | | not behaviour at run time |

The image recipe carries its own copy of the daemon's sources. The two copies are identical
byte for byte, so one model stands for both; `SigvDaemon` is mapped to the copy of the image,
`Parser` and `SigvHost` to the one under `tools/`. `PROJECT.json` lists all components with what
is modelled of each.

## 2. Modules

| module | models | role |
|---|---|---|
| `SigvLaunch` | launch arithmetic of the core | accepted and dropped counts, launch errors |
| `SigvCore` | `sigv_kv260_core.v` with job RAM and engines around it | the detailed model, one clock edge per step |
| `SigvCoreInv`, `SigvCoreProofs` | | inductive invariant of `SigvCore`, TLAPS proofs |
| `SigvBatch` | what the core promises | abstract batch unit, one clock edge per step |
| `SigvCoreRefinement` | | `SigvCore` implements `SigvBatch`: the refinement mapping, proved in `SigvCoreProofs` |
| `SigvRegs`, `SigvRegsProofs` | `sigv_axi_regs.v` wired to `SigvBatch` | register block and batch unit composed |
| `MessagePath`, `MessagePathProofs` | `sha512_stream_engine.v` in every engine, the multiplexer of the core, the message RAM | hash units that share one read port |
| `ScalarUnits` | `scalar_reduce_mod_l.v`, `scalar_wnaf4_recode.v` | the scalar units, edge by edge |
| `VerifyEngine`, `VerifyEngineProofs` | `ed25519_verify_engine.v` | the controller of one engine, with `ScalarUnits` |
| `PointCore`, `PointCoreProofs` | `ed25519_point_core.v`, adder of `fe25519_aux_core.v` | the microprogram over a scaled field |
| `MulWide`, `MulWideProofs` | `fe25519_mul_wide_core.v` | the multiplier, edge by edge |
| `SigvDaemon`, `SigvDaemonInv`, `SigvDaemonProofs` | `accelerator.rs`, threads of `api.rs`, `main.rs`, the smoke tool, UIO | many requests, one register access per step |
| `Parser` | `parser.rs` | one field per step |
| `TransactionFormat` | | a transaction as a grammar, what `Parser` is compared with |
| `SigvHost`, `SigvHostProofs` | `api.rs`, `accelerator.rs`, composed with `Parser` and `SigvLaunch` | one request from its bytes to its answer; the proofs about both |
| `MC*` | | constants for TLC |

The grain of each layer rests on a property of the layer below. `VerifyEngine` takes points as
group elements because the microprogram computes the group law (`PointsExact`, for the code's own
field), as far as products are exact (finding 4). `SigvCore` takes the verdict of an engine to be that of its operand, which
is what `VerifyEngine` and `MessagePath` say, for two engines as far as finding 2 allows.
`SigvRegs` uses `SigvBatch` in place of the core because `SigvCore` implements it edge for edge.
`SigvDaemon` lets a command take effect before the next access because `LaunchVisible` holds in
`SigvRegs`: from the commit of the write on, STATUS shows that launch. `SigvHost` lets a launch be
one step because `SigvDaemon` keeps requests apart.

**SigvCore.** A step `Edge(start, soft_reset, fin)` is one pass through the `always` block, with
every register read before and assigned after the edge. The launch and reset branches
(`ResetThenStart`, `SoftReset`, `IdleStart`, `Idle`) and the four outcomes of ST_RUN
(`RunTimeout`, `RunFinish`, `RunDispatch`, `RunWait`) are exclusive disjuncts in the priority of
the code. Blocking assignments (`post_completed`, `engineN_done_evt`) are operators;
`LoaderStep`/`ShadowStep` are the loader's case statement, which also runs at the final edge of
a batch. Registers that are always assigned together are one variable (`accepted_job_count` is
also `scheduled_job_count`), per-engine registers are a function of the lane. Words of a job are
tags `[kind, word]`: a job verifies exactly when every word of its operand is the good word of
that position, so a word taken from the wrong address, job or time shows in the verdict. The
engines take a start pulse, work any number of edges (`fin` says which end), raise done for one
edge, and are held in reset while `verifier_abort` is up; that reset is asynchronous, so it acts
in the edge that raises the abort as well as in the next. The host may rewrite the job RAM at
any time, which the history variable `ramStable` records: what a batch computes is promised only
for RAM contents that did not change since its launch.

**SigvRegs.** `ClockEdge` steps register block and batch unit together; the batch unit reads
`start_pulse` and `soft_reset_pulse` of before the edge. `launch_pending` always equals
`start_pulse` and `status_clear_hold` the disjunction of both pulses, so they have no variables.
The bus master presents one write at a time; address and data may be accepted in either order.

**MessagePath.** `Edge(starts)` is one clock edge of all hash units, the multiplexer and the RAM's
output register; `StreamNext` is the case statement of the stream engine. A byte is a tag of
where it comes from, a RAM word the number of the word, the hash state the bytes absorbed so far.
`block_byte_index` is the length of the block buffer, which it always equals. `Feed` is the
pattern all byte states share: append, and when the block is full compress before going on.
`stolen` records that the one read whose data an engine latches was another engine's. A verify
engine starts its unit when it is idle; a batch abort resets all units.

**VerifyEngine.** One action per state, START and WAIT of a unit taken together: nothing else
happens while the controller waits, except an abort, which is enabled in every state. The scalar
units step edge by edge. Points are integers modulo `8 * Order`, a cyclic group with the curve's
cofactor, with the base point at 8; a point with 8p = 0 is of small order. The operands A and R of
a job are encodings, a y coordinate and a sign bit. A point and its negative share their y, and
where x = 0 both signs decode to the same point, as in the point core; one y belongs to no point.
`point_encoding_is_small_order` is the code's list of eight encodings, entry for entry, and knows
nothing of points. So the group law and what an encoding decodes to are taken as given here, and
everything built on them is not: refusal by encoding, digit signs, table entries, loop bounds,
order of subtraction, cofactor doublings. `Acceptable` says of points, not of encodings, what a
verdict may be, with the two missing entries (finding 5) as the named exception
`NegativeZero`. In its run the widths (order 13, six bits, two-byte digests) are scaled with the
headroom of the code's (253 of 256 bits); the proofs have any.

**PointCore.** Every step of the microprogram is one action; steps guarded by `fe_done` in the
code wait for the multiplier (`On`, `OnMul`), and a `Reset` can cut the program anywhere. The
registers are one function, and none is cleared that the code does not clear. Field, adder and
reductions are scaled to four bits and the prime 13 for TLC; the proofs have any prime. That prime is not arbitrary: the power chain
keeps the code's fifteen phases and their counts, and 13 is the largest field
in which the code's exponent 2^252 - 3, unscaled, takes square roots. The history variable
`exponent` records which power of its input each register of the chain holds, modulo another
prime, so `ChainExponent` is about the code's own exponent. Products are exact here; `MulWide`
says how far they are.

**MulWide.** One action per clock edge: a diagonal of limb products through the product registers
(`Mul`, `MulFlush`), the fold of the upper diagonals, ten carry edges, packing, reduction,
selection. Registers keep the code's headroom (six bits above a product of limbs for
coefficients, eighteen for the limbs being carried) as `Coefficient` and `Wide`.

**SigvDaemon.** Every request is a thread with a program counter over the accesses of
`verify_batch`, in the order of the code, including its order of snapshot reads. RAM windows and
registers hold the name of the request that wrote them last; a batch records what it was
launched with, and a RAM write during a batch adds to what that batch may have read. Configuration
writes during a batch are dropped and flagged (`ignored`, cleared by the next command), as in the
register block; the history field `locked_by` of a batch names the owner of the one that dropped
them. The guard is taken by
compare-exchange and dropped on every exit. The smoke tool (`Tools`) makes the same accesses
without the guard and reads the mask before the snapshot.

The process around the threads is `server`, `socket` and `gone`. `Disconnect` drops a handler
while its blocking thread goes on and keeps the guard. `StopAccepting` is SIGTERM, which removes
the socket file, or a failed accept, which does not; the runtime then drops all handlers
(`Abandon` for one that had not spawned its thread) and `Exit` waits for the threads at work.
`Crash` kills threads and guard and leaves the device and the socket file as they are. `Restart`
is systemd's `Restart=on-failure`; it does not follow an exit after SIGTERM.

**Parser, TransactionFormat.** `Parser` has one action per field or list item of
`parse_transaction`, with the checks and errors of the code in its order, the comparison of counts
cut to a byte, and the panic when a static key is indexed beyond the list. `TransactionFormat`
describes the same bytes declaratively: which lengths stand at a position (their digits, the last
byte alone below the group base), which positions can end a field that starts at a given one, and
when signatures, header and keys are a reading of the whole. It knows neither an order of scanning
nor errors, and `AcceptsExactly` compares the two.

**SigvHost.** The contents of one request count, down to the byte. Stages follow the code: JSON,
decoding, parser, job building, timeout, sizes, layout (sysfs entries, three windows, wait mode),
identity check, the two windows word by word, registers, launch, answer. The windows start with
the bytes of an earlier request. The result of the launch is computed from what the windows and
registers hold then, so a wrong tail, offset or length shows in the answer. JSON, base64 and hex
decoding are one Boolean outcome each. `GetStatus` and `LoadImage` happen before the request;
another image may be loaded between the two, up to the identity check.

## 3. Runs

| run | instance | asks |
|---|---|---|
| `core_two_lanes` | 2 engines, 3 jobs of one word, watchdog 5 or none, a rejected launch, two RAM images, ids modulo 2; 198k states | result mask, job accounting, snapshot, watchdog; `SigvCore` implements `SigvBatch`; every batch ends |
| `regs` | 1 job, configurations that are accepted, rejected and guarded; 264k states | status, interrupt, lock |
| `message_path` | 2 engines, blocks of 16 bytes, prefixes of 3, lengths around every word and block boundary, a full RAM and one byte more | digest of the padded message, no starvation |
| `message_port_shared` | the same | finds the word of the other engine (finding 2) |
| `verify_engine` | all scalars and digests, three keys, R exact or missed by a point of small or large order, every encoding of a point of small order as key and as R, encodings of no point, both modes; 305k states | verdict, digits, every job ends |
| `strict_small_order` | the same | finds the small-order operand that strict mode lets pass (finding 5) |
| `point_core` | all 20 points of a curve over 13 elements with several third coordinates, all 32 encodings, sequences of six further operations, abort anywhere; 68k states | group law, decoding, exponent of the chain, every operation ends |
| `multiplier_carry` | limbs of three bits, limbs 0, 1 and all ones | finds the cut carry (finding 4) |
| `daemon_faults` | 2 requests, or one and a run of the smoke tool, both wait modes, ids modulo 3, early deadlines, failing files, a device that may hang, clients that leave, SIGTERM, crash, restart; 179k states | guard, own status, own result, own payload, own configuration, no false mismatch, no lost interrupt, every request answered, served again |
| `daemon_stale_config` | 2 requests with faults | finds the stale configuration (finding 1) |
| `host` | some 1900 requests, several images and layouts; 430k states | parser = grammar, verified = genuine, refused = untouched |
| `parser_count` | the transactions of `host` alone | finds the count cut to a byte (finding 3) |

*Bounds.* Three jobs with two engines give both lanes busy, the shadow slot full and a fourth
position to overrun; a job needs at least six edges from load to verdict, so a watchdog of five
cycles in the lane meets every phase of an engine. `CycleCap` saturates the lane counters at the
largest watchdog, above which no comparison changes. Ids modulo 2 or 3 reach the wrap quickly and
still tell neighbouring batches apart. Jobs of several words, a dispatch limit below the job count
and one engine alone are left to the proofs of section 5, which have no bounds. Two requests are
one that leaves a batch behind and one that is disturbed by it; the proofs have any number.
`Together` keeps the two situations of `daemon_faults` apart: two requests of the daemon, or a
request and a tool run, not all three. The `VIEW` of its configuration takes states as one that
differ only in the tags of RAMs, registers and batch inputs, from the moment a tool has started
on: that is never undone, every property that reads these tags assumes that no tool has started,
and no guard of an action reads them, so nothing that is checked can tell such states apart.
Bytes of `host` and `parser_count` are 0 .. 3, one bit of a length each, so that counts on both
sides of the byte and lengths in one to three bytes are a few items long; keys have one byte and
signatures three, words two, the message window twelve, and there is room for three jobs. Inputs
are all transactions of up to five signatures and keys, every truncation, every change of one
byte and every extension of the small ones. Message lengths of the hash unit put the end of the
message on both sides of every boundary its padding distinguishes. After the first job
`verify_engine` offers two more kinds of job (`Later`), enough to find a register left over, and
`point_core` six more operations.

*Deadlock.* The hardware must never stop, and its runs check it. Requests end, and with them the
runs of the daemon, the host and the parser, so those do not.

*Fairness.* `SigvCore` assumes only that the clock ticks: weak fairness of an edge without
command and without an engine's answer, so that neither is ever forced. Commands cannot occupy
all edges, because the bus leaves at least one edge between two of them, nor can the answers of
an engine, which needs several. That an engine answers is a hypothesis of `EnginesEndBatch`, not
of the specification, and `WatchdogEndsBatch` does without it. Both speak of the last batch:
one that is superseded by another launch need not end (`Superseded`). `MessagePath` and
`PointCore` assume that the clock ticks, and say nothing about starts and aborts. `VerifyEngine`
assumes that its work goes on: the clock ticks and the point and hash units answer
(`EveryOperationEnds`, `EveryHashEnds`). `SigvDaemon` assumes that the operating system schedules
blocking threads and lets their deadlines pass (each thread is weakly fair, and may always time
out while it waits), that a raised interrupt is delivered, that systemd restarts what failed, and
that a drained process exits. Nothing is assumed of the device, and no request is assumed to
arrive.

## 4. Findings

1. **A request after a timed-out one may run with the old configuration** (`daemon_stale_config`).
   `verify_batch` writes its four configuration registers before it issues reset-then-start, and
   does not look at `config_write_ignored`. If the previous batch still runs, because its deadline
   in the daemon passed first or the daemon was restarted, the register block drops the writes.
   The launch then succeeds with the previous request's message length, job count and verify
   mode, and the id check passes. Payloads are not affected (`AnswerFromOwnPayload` holds): the
   RAM windows have no lock and the launch aborts the old batch. `OwnConfigUnlessAbandoned` shows
   that this is the only way to it: the batch before it (`locked_by`) made the registers drop a
   write, and the thread that launched that one had gone away. A request that failed before its
   launch, or an abandoned batch that completes before the next request writes, does no harm.
2. **With two engines, engine 1 may hash engine 0's word** (`message_port_shared`). A hash unit
   leaves ST_MSG_REQ when granted, but the word it latches is read one edge later, in
   ST_MSG_WAIT. If engine 0 raises its request exactly at the grant, it owns the port at that edge
   and engine 1 latches engine 0's word; a valid signature is then judged on a wrong message. The
   comment beside the multiplexer promises that engine 1 stalls, which it no longer can.
   `DigestUnlessStolen` shows that this is the only way a digest goes wrong, and
   `FirstEngineUndisturbed` that engine 0, and so the shipped one-engine image, is not affected.
   The repository's two-engine test runs one batch, at a single start offset of the engines.
3. **The parser compares the signature count as a byte** (`parser_count`). A transaction whose
   count differs from its header by 256 passes the comparison. With fewer static keys than
   signatures the indexing then panics and the connection closes without an answer
   (`NoPanicBelowByte` proves that a count below 256 never does); `RefusedUntouched` holds of that
   end too: the device has not been written to, and the blocking guard has not been taken.
4. **The multiplier loses a carry** (`multiplier_carry`). The carry out of limb 4 is folded into
   limb 0 as the last act of each carry pass, and after the second pass nothing carries limb 0
   again; packing takes its low 51 bits. At the code's widths (p - 1) times (p - 2^51) comes out
   as 0 instead of 2^51. Such operands are about one in 2^245, so no random test meets them.
   `ProductExceptCut` proves that this is the only case, for every operand and every width.
5. **Strict mode lets two encodings of small-order points pass** (`strict_small_order`). It refuses
   points of small order by comparing the encoding, y reduced and sign bit kept, with eight
   constants. For x = 0, that is y = 1 and y = -1, only the encoding without sign bit is among
   them, while the point core decodes both, because negating x = 0 changes nothing. Such an
   operand is then judged by the equation alone, whereas the README of `kv260_sigv` describes
   strict mode as the exact equation "with fast low-order point rejection". The repository's
   test of the refusal has the identity without sign bit. `VerdictIsEquation`, for all
   operands, shows that these two encodings are the only difference; the cofactored mode, which
   refuses no small order, is not concerned.

Not findings, since no text of the repository says otherwise, but worth knowing:

- A launch can raise a completion interrupt: the control write clears `completion_seen` one edge
  before the core drops `done`, so the old level counts as a new completion. The daemon survives
  it, since it polls STATUS after the wait; `SigvDaemon` includes the effect.
- The result mask is a live register read after the id check, so the check does not protect it
  from a second master; `ResultFromOwnLaunch` is checked for the daemon alone,
  `StatusFromOwnLaunch` with the smoke tool beside it.
- A start without soft reset during a batch is dropped by the core while the register block
  already shows a launch; the daemon and the tool always reset.
- The interrupt wait is cut to 65535 ms, so a longer deadline ends early.
- The identity check is made once per request: an image swapped between the check and the launch
  would be trusted. The bring-up image confirms the first job of any batch.
- Decompression accepts a y at or above the prime, and x = 0 with the sign bit set gives x = 0;
  `PointExact` states both as they are. Only the second has a consequence (finding 5): the refusal
  of strict mode reduces y as the decoding does.

## 5. Proofs

Each theorem holds for all constants that satisfy the assumptions of its module, named
`...Assumption` in the modules (`MulWidths` in `MulWide`).

| module | theorems |
|---|---|
| `SigvCoreProofs` | `CoreImplementsBatch`, `TypeCorrect`, `NoJobLost`, `IndInvariant`, `MaskSound`, `MaskComplete`, `SnapshotOfThisBatch`, `SnapshotWrittenOnce`, `WatchdogNeverLate`, `BatchesAreBounded` |
| `SigvRegsProofs` | `RegsInvariant`, `RegsTyped`, `LaunchSeen`, `CompletionKept`, `IgnoredWritesSeen`, `ConfigLocked` |
| `SigvDaemonProofs` | `DaemonInvariant`, `DaemonTypes`, `OneThread`, `OwnResult`, `OwnPayload`, `OwnConfig`, `IdsAgree`, `InterruptKept`, `OwnStatus` |
| `MessagePathProofs` | `MessageInvariant`, `MessageTypes`, `DigestsUnlessStolen`, `FirstEngineNeverDisturbed`, `FirstEngineDigests`, `HashesAreBounded` |
| `VerifyEngineProofs` | `EngineInvariant`, `EngineTypes`, `DigitsAreExact`, `VerdictsAreTheEquation`, `JobsAreBounded` |
| `PointCoreProofs` | `PointInvariant`, `PointTypes`, `ChainExponents`, `SumsExact`, `DoublesExact`, `DecodesSound`, `CompleteInvariant`, `DecodesComplete`, `PointsExact`, `OperationsAreBounded` |
| `SigvHostProofs` | `ParserInvariant`, `ReturnedJobsInside`, `NoPanicBelowByte`, `FormatInvariant`, `AcceptsExactlyTheFormat`, `TransactionsAccepted`, `HostInvariant`, `HostTypes`, `RefusedIsUntouched`, `VerifiedJobs`, `HostFormat`, `HostAccepts`, `VerifiedRequests`, `ConverseInvariant`, `AnswersComplete` |
| `MulWideProofs` | `MulInvariant`, `ProductExceptCut` |

**Core** (one or two engines, at least one word per job, at least one job, counters of any width
above one value, any set of configurations and RAM images). None of the properties is inductive
alone. Even the types need the accounting: that `batch_completed_count` stays at most `MaxJobs`
and that the loader's address stays in the RAM follow from `JobConservation` (jobs handed out =
completed + in lanes + in the loader) together with `LoaderInv` (the base address is that of the
job in the shadow slot). These form `ControlInv`, proved first, action by action. `DataInv` builds
on it. The verdict that reaches the mask is right because of a chain: what the loader captured is
what the RAM holds (`LoadedInv`), a lane works on the image of its job (`LaneInv`), an engine at
work belongs to a busy lane and has its operand (`EngineInv`), and the edge after an abort finds
nothing that could start an engine still in reset (`AbortInv`: without it a job could be lost
between a start pulse and a reset). `JudgedInv` adds that a job which was loaded and is nowhere
any more has its verdict in the mask; at the final edge the accounting leaves nothing
outstanding, so it covers all accepted jobs and gives `ResultMaskComplete`. The whole invariant
(`IndInv`) is proved; TLC has checked it on instances of the size of `core_two_lanes` as well.
`BatchesAreBounded` is the safety half of `WatchdogEndsBatch`, for any number of jobs and
whatever the engines do: with a timeout set, each accepted job accounts for 3 JobWords + 1 + timeout
edges, `EdgesLeft` adds up what of them the loader, the shadow slot and the lanes have left, every
edge of a batch takes at least one from it, and it is 0 only when the unit is idle.

**Refinement.** The batch unit sees of the core its command, phase, status, snapshot and the set
of judged jobs. Every edge maps to one of its steps or to a stutter. Beyond `IndInv` this needs
`DistinctInv`: the jobs in the lanes, the shadow slot and the loader are different ones, so that
the jobs that end at an edge are those the abstract step judges, never one twice. With it, an
edge without timeout judges exactly the jobs that end, the finishing edge leaves nothing
unfinished, and a timeout leaves at least the job that timed out.

**Registers.** The invariant relates the two blocks one edge apart: a pulse is up only while the
write response is, so a master cannot commit a second write under it; this closes the gap between
the commit of a start and busy, and gives `ConfigStable`. `CompletionRaisesIrq` needs that
`completion_seen` is up only with done.

**Daemon** (any number of requests, at least two ids). With one master, `DaemonInv` says that the
guard belongs to exactly one thread past it, and what windows, registers, id, batch, UIO file and
interrupt are at every one of its program points, whatever earlier threads left running. The
configuration needs a second actor in the invariant (`ConfigInv`): a batch under way has its
launcher waiting for it or was left by one that went away, so when a register write is dropped,
which the thread that writes cannot tell, the guard has excluded the first and the second
remains. `OwnConfig` follows: a batch has its own configuration or is accounted for by the one
thread that went away from the batch before it. With the
tool launching at any point in between, all a thread has is the batch id, and `RivalInv` counts:
the device is ahead of the id a thread expects by at most the launches of its rivals, the snapshot
follows in the same order, and it is the thread's own when the two are equal. Error bits of a later
batch are therefore followed by an id that is past the expected one. The argument needs that the
rivals cannot take the id all the way round while the thread is at work (`NoWrap`). For an answer of
the daemon that is fewer runs of the tool than ids, the daemon's own launches being serialised by
the guard; for an answer of the tool, fewer other launches than ids. `OwnStatus` states both, and
the bound is exact: with two ids and three requests TLC finds the answer about another's batch.

**Message path** (any number of engines, any widths and lengths, at least two bytes in a word and
a RAM of whole words). `MessageInv` says of each hash unit that in every phase its counters say
how many bytes it has taken (`Progress`), that those fill whole absorbed blocks and a part of one
(`Blocks`), and that they are the bytes of the padded message in order (`Ordered`, byte i being
`Ideal(i)`) unless a word was stolen. Padding needs arithmetic: the padded length is the least
multiple of the block with room for the mark and the length field, so the zeros never run out
early. A unit in ST_MSG_WAIT keeps its request up, so the word in the RAM's output register
at the latch is its own unless a lower engine asked at that edge (`Latched`); engine 0 has no lower
one. `DigestsUnlessStolen` is `DigestUnlessStolen` for all widths, `FirstEngineDigests` combines
the two: engine 0, and so the one-engine image, hashes exactly the padded message. That a word
has more than one byte is used: with one, ST_MSG_LATCH would go on to read a word it has not.
`HashesAreBounded` is the safety half of `EveryHashEnds`. A block takes an edge per byte and its
compression Rounds + 2, each byte of the message at most three more to fetch its word; what is left
of these falls at every edge, except for a unit whose request is up and not granted. The lowest
unit with a request up is granted, so whenever one waits, one before it gets ahead.

**Verify engine** (any order above one, any widths, any jobs). The invariant is one part per phase.
While the digest is reduced, the remainder is that of the bits that have left the register
(`ReduceInv`); while a scalar is recoded, the register holds what is left after the digits so far
(`Works`, at most a quarter of a power of two plus a digit), so that after the last bit nothing is
left and the digits sum to the scalar (`RecodeInv`, `DigitsAreExact`). This is where the headroom
matters: `4 * Order <= Pow2[ScalarBits]` is assumed, as for the code's order of 253 bits in 256;
without it a carry would leave the top digit. During the joint loop the accumulator is the
combination of the points with the digits already used, doubled once per round (`LoopInv`, a
Horner scheme from the top digit), and at its end s times the base point minus k times A. The
rest is the subtraction of R and the three doublings of the cofactored mode (`FinalInv`). Which
operands are refused is a case distinction over the five points of small order up to sign and
the encodings that decode to them (`SmallOrderPoints`, `ListedEncodings`, `RefusedOrAdmitted`):
the list of the code is that of the small-order points but for the sign bit on x = 0. The
powers of two are a recursive function and sums over digits another; what is needed of them is
their defining equation, from well-founded recursion on the naturals (`Recursion`). Points are the
cyclic group of the model, so the theorem is about the controller and the scalars and takes the
group law as given.
`JobsAreBounded` is what safety can say of `EveryJobEnds`: `StepsLeft`, read off the state and the
counter of the phase, is at most 6 ScalarBits + WideBits + 13, is 0 only when idle, and falls at
every step of a job under way; only that the clock goes on is left to fairness.

**Point core** (any prime and curve with `CurveAssumption`). The assumption says of the field that
it is one, of odd characteristic, that `SqrtM1` is a root of -1, that d has no root, and that
c^(2^254 - 10) is 1 or -1 for every c but 0. All of it is known of the code's constants: p =
2^255 - 19 is a prime, 2^254 - 10 is (p - 1) / 2, which makes the last one Euler's criterion, and
d is the non-square of Ed25519. Points to be added or doubled are points of the curve: the verify
engine has no others than decoded ones, the base point table and results of earlier operations.

`PointInv` gives for every step the intermediate values of RFC 8032 that registers, pipeline and
multiplier hold, as expressions in the operands of the operation that was asked for (`AddInv`,
`DoubleInv`, `DecodeInv`), up to the outputs (`OutputInv`). It holds whatever an aborted operation
left in the registers, because nothing is read before it is written; a mixed addition, where step
ADD_7 is left out and the output of an addition with z = 1 must be the same, is part of it.
`ChainInv` gives for each of the fifteen phases and each count of squarings the power of the input
that each register of the chain holds (`Begins`, `Chained`); that the last is 2^252 - 3 is
`ChainExponents`. `OperationsAreBounded` counts the multiplications the chain has to go, 262 at
its start: every operation, whatever was aborted before, ends in at most 545 steps.

From there on the argument is algebra modulo p. `SumParts` and `DoubleParts` give the factors E,
F, G and H for operands scaled by z, `LawOfParts` their products, which are extended coordinates
of the sum if 1 + d x1 x2 y1 y2 and 1 - d x1 x2 y1 y2 are not 0. They never are: with the root of
-1 the curve is one of Bernstein and Lange's, and their argument, that a zero would make d a
square, is `NoZeroDenominator`. So there is no exceptional pair of points, which gives `SumsExact`
and `DoublesExact`. `DecodesSound` needs that a root, its negative and its product with `SqrtM1`
are related as the branch assumes, and that a nonzero element and its negative differ in their
last bit. `DecodesComplete` is the converse, that a refusal is right: `CompleteInv` says that the
chain's registers hold those powers (not only that the exponents count them), so the candidate is
u v^3 (u v^7)^(2^252 - 3), and if u/v has any root, Euler's criterion makes v times the square of
the candidate u or -u. `PointsExact` is the four together. That products are exact is part of
the model, as in the runs (finding 4).

**Parser and host** (any byte strings, any sizes of keys, windows and words that fit each other).
`FormatInv` says at every program point of the parser where the fields of the format stand: the
signatures start where the count says, the header where the version byte leaves it, and the end
of each list of instructions or lookups is reached through exactly the items read so far. The
error verdict excludes a reading. That the end of a list in the grammar, defined by
iteration, is what the parser reaches item by item is an induction on the number of items; it is
carried out on the set of numbers for which it holds, whose complement has no least element, which
needs no induction theorem over an operator. So the parser accepts the format and nothing
else, but for the count cut to a byte (`AcceptsExactlyTheFormat`; `TransactionsAccepted` is the
same seen from the bytes alone).

`HostInv` carries through the stages what each has checked and written: after the last word the
windows hold exactly the bytes asked for and zeros, at launch the registers are those of the
request, the image is the full one, and a request refused before has touched nothing. That gives
`VerifiedJobs`, relative to the jobs the daemon built, and with the format `VerifiedRequests`:
"verified" is said of a transaction or a batch only if every signature of it is genuine.
`AnswersComplete` is the converse: a genuine request that the device could serve is not refused,
and no bit of the answer is missing. It needs of every refusal its reason (`RefusalInv`) and of
every answer that its bits are those the hardware computed from the windows (`BitsInv`).

**Multiplier** (any radix, any constant of the prime below it and at most 64). From the fold on,
the limbs are congruent to the product modulo the prime: moving a multiple of the radix one limb
up keeps the number, folding it back at the bottom changes it by a multiple of the prime. What
makes the invariant inductive are the bounds: each diagonal is at most five squares of the radix,
no carried limb ever exceeds 5000 of them, so none leaves its register, and after the second pass
limbs 1 to 4 are below the radix. Packing and one subtraction then give the residue, unless limb 0
is not below the radix.

*Only model-checked.* All liveness: it needs ENABLED and fairness. For the core with its watchdog,
the message path, the engine and the point core the bounds above are its safety half.

## 6. Not modelled

- Reads of the register block, byte strobes, the LED register, the cycle statistics: multiplexers
  and counters that nothing else reads.
- The bring-up core's own edges, reset synchroniser and BRAM instances of the top level.
- The 80 compression rounds of SHA-512: 64-bit data flow without control, they stand for
  absorbing one block. The performance counters of the verify engine.
- `fe25519_mul_core.v` and `sigv_byte_ram.v`, which the KV260 design does not instantiate; the curve's constants
  and the base point table as numbers (`VerifyEngine` has what the table holds).
- JSON, base64 and hex decoding, logging, the command line.
- The smoke tool's interrupt mode and test vectors, the other host tools, build scripts, image
  recipes and tests.
- A second daemon or tool as master while the guarantees of the daemon alone are proved: the code
  promises nothing there beyond the id check.

What could follow, in this order: a module that takes the points of `VerifyEngine` from the curve
of `PointCore`, which needs the associativity of the addition law; the reset synchroniser and AXI
read channel in `SigvRegs`.
