------------------------------ MODULE SigvHost ------------------------------
(***************************************************************************)
(* One HTTP request from its body to its answer: decoding (api.rs), the    *)
(* transaction parser (Parser), the checks and the device discovery of     *)
(* accelerator.rs, the words written to the RAM windows, the batch, and    *)
(* the answer computed from its result.  SigvDaemon has many requests but  *)
(* takes their contents for names; here the contents count and the request *)
(* is alone.                                                               *)
(*                                                                         *)
(* The RAM windows hold what an earlier request, or one that died half     *)
(* way, left in them.                                                      *)
(***************************************************************************)
EXTENDS TransactionFormat, SigvLaunch

CONSTANTS
  Scenarios,     (* records of a request, an environment and the old RAMs   *)
  Images,        (* bitstreams that may get loaded                          *)
  WordBytes,     (* bytes of a register or RAM word                         *)
  JobSize,       (* JOB_SIZE, bytes of the job window                       *)
  Genuine(_, _, _, _)  (* what the engines decide: mode, key, signature,    *)
                       (* message                                           *)

MESSAGE_SIZE == MaxMessage
JobBytes == KeyBytes + SigBytes

Regions == {"control", "message", "job"}

Modes == {"strict", "agave_zebra"}

(* A request body, and the daemon's own configuration with what it finds in *)
(* sysfs.                                                                   *)
Requests ==
  [endpoint : {"verify-transaction", "verify-batch"}, json : BOOLEAN, decodes : BOOLEAN,
   bytes : Seq(Bytes), jobs : Seq([key : Seq(Bytes), sig : Seq(Bytes)]), timeout_ms : Nat,
   dispatch_limit : 0 .. MaxJobs, verify_mode : Modes, job_timeout_cycles : Nat]

Environments ==
  [sysfs : [exists : BOOLEAN,
            entries : SUBSET [region : Regions \cup {"other"}, fits : BOOLEAN,
                              metadata : {"good", "incomplete", "unreadable"}]],
   paths : [Regions -> {"auto", "uio", "mem"}], wait_mode : {"auto", "irq", "poll"},
   image : Images]

ASSUME HostAssumption ==
  /\ Scenarios \subseteq [request : Requests, env : Environments, residue : Bytes]
  /\ WordBytes \in Nat \ {0} /\ JobSize \in Nat
  /\ MESSAGE_SIZE # 0
  /\ MESSAGE_SIZE % WordBytes = 0 /\ JobSize % WordBytes = 0
  /\ RamJobs = JobSize \div JobBytes
  /\ MaxJobs = ByteMod - 1
  /\ MaxJobs * JobBytes <= JobSize

VARIABLES
  stage,     (* what happens next to the request                            *)
  request,
  env,       (* sysfs, the configuration of the daemon, the loaded image    *)
  built,     (* HardwareBatchRequest: message and jobs                      *)
  control,   (* how the control window is mapped: "none", "uio", "mem"      *)
  mram, jram,  (* the RAM windows, byte by byte                             *)
  word,      (* bytes of the current window already written                 *)
  regs,      (* the configuration registers                                 *)
  result,    (* of the batch                                                *)
  status,    (* last answer of GET /v1/status about the image still loaded  *)
  response,
  touched    (* the request wrote to the device                             *)

device == <<mram, jram, regs, result, touched>>
vars == <<parser, stage, request, env, built, control, word, device, status, response>>

(* A batch and its result.                                                  *)
Batches == [message : Seq(Bytes), jobs : Seq([key : Seq(Bytes), sig : Seq(Bytes)])]

BatchResults ==
  [error : BOOLEAN, result_valid : BOOLEAN, accepted : 0 .. MaxJobs, dropped : 0 .. MaxJobs,
   mask : SUBSET (1 .. MaxJobs)]

NoResponse == [kind |-> "none"]

NoStatus == [known |-> FALSE, ready |-> FALSE, fpga_loaded |-> FALSE]
-----------------------------------------------------------------------------
(* Answers. *)

StatusCode(kind) ==
  CASE kind \in {"parse_error", "invalid_request"} -> 400
    [] kind \in {"limit_error", "accelerator_error"} -> 422
    [] kind = "service_timeout" -> 504
    [] kind = "service_unavailable" -> 503

ErrorAnswer(kind, code) ==
  [kind |-> kind, code |-> code, http |-> StatusCode(kind), verified |-> FALSE]

Fail(kind, code) ==
  /\ stage' = "answered"
  /\ response' = ErrorAnswer(kind, code)
  /\ UNCHANGED <<parser, request, env, built, control, word, device, status>>

Pass(from, to) == stage = from /\ stage' = to

(* A handler that panics takes its connection with it.                      *)
LoseConnection ==
  /\ stage' = "answered"
  /\ response' = [kind |-> "lost", code |-> "panic", http |-> 0, verified |-> FALSE]
  /\ UNCHANGED <<parser, request, env, built, control, word, device, status>>
-----------------------------------------------------------------------------
(* Where the windows are. *)

Matches(region) ==
  {e \in env.sysfs.entries : e.region = region /\ e.fits /\ e.metadata = "good"}

SomeUnreadable == \E e \in env.sysfs.entries : e.metadata = "unreadable"

(* discover_uio_region: the first entry of the right address that is large  *)
(* enough, in the order the directory gives, which is any.  Entries without *)
(* metadata are passed over, unreadable ones end the search.                *)
Discover(region) ==
  IF ~env.sysfs.exists THEN {"mem"}
  ELSE (IF SomeUnreadable THEN {"error"} ELSE {})
       \cup (IF Matches(region) # {} THEN {"uio"} ELSE IF SomeUnreadable THEN {} ELSE {"mem"})

(* resolve_region: an explicit path is taken as it is. *)
Resolve(region) ==
  IF env.paths[region] = "auto" THEN Discover(region) ELSE {env.paths[region]}

(* wait_mode_for_layout *)
WaitMode == IF env.wait_mode = "auto" THEN "poll" ELSE env.wait_mode

ResolveLayout ==
  \E c \in Resolve("control"), m \in Resolve("message"), j \in Resolve("job") :
    \/ /\ "error" \notin {c, m, j} /\ (WaitMode = "irq" => c = "uio")
       /\ Pass("layout", "probe")
       /\ control' = c
       /\ UNCHANGED <<parser, request, env, built, word, device, status, response>>
    \/ /\ "error" \in {c, m, j} /\ stage = "layout"
       /\ Fail("service_unavailable", "io")
    \/ /\ "error" \notin {c, m, j} /\ WaitMode = "irq" /\ c # "uio" /\ stage = "layout"
       /\ Fail("service_unavailable", "irq_requires_uio")
-----------------------------------------------------------------------------
(* GET /v1/status, before the request comes.                                *)

FullHardware == env.image.magic /\ env.image.mode = "full" /\ env.image.api = 1

StatusOfImage == [known |-> TRUE, ready |-> FullHardware, fpga_loaded |-> env.image.magic]

GetStatus ==
  /\ stage = "idle" /\ ~status.known
  /\ \/ "error" \notin UNION {Resolve(region) : region \in Regions} /\ status' = StatusOfImage
     \/ status' = [known |-> TRUE, ready |-> FALSE, fpga_loaded |-> FALSE]
  /\ UNCHANGED <<parser, stage, request, env, built, control, word, device, response>>

(* Another bitstream is loaded; until a request has looked at its identity, *)
(* at any time.                                                             *)
LoadImage ==
  /\ stage \in {"idle", "build", "layout", "probe"}
  /\ \E image \in Images \ {env.image} : env' = [env EXCEPT !.image = image]
  /\ status' = NoStatus
  /\ UNCHANGED <<parser, stage, request, built, control, word, device, response>>
-----------------------------------------------------------------------------
(* The handlers of api.rs. *)

Transaction == request.endpoint = "verify-transaction"

Receive ==
  /\ Pass("idle", "json")
  /\ UNCHANGED <<parser, request, env, built, control, word, device, status, response>>

ParseJson ==
  \/ request.json /\ Pass("json", "decode")
     /\ UNCHANGED <<parser, request, env, built, control, word, device, status, response>>
  \/ ~request.json /\ stage = "json" /\ Fail("invalid_request", "invalid_json")

(* decode_payload, then the parser or the job list. *)
DecodePayload ==
  \/ request.decodes /\ Pass("decode", IF Transaction THEN "parsing" ELSE "build")
     /\ UNCHANGED <<parser, request, env, built, control, word, device, status, response>>
  \/ ~request.decodes /\ stage = "decode" /\ Fail("parse_error", "invalid_base64")

ParserStep ==
  /\ stage = "parsing" /\ ParserNext
  /\ UNCHANGED <<stage, request, env, built, control, word, device, status, response>>

(* build_transaction_batch_request, build_logical_batch_request.            *)
Built ==
  IF Transaction
  THEN [message |-> SubSeq(data, body + 1, Len(data)),
        jobs |-> [i \in DOMAIN sigs |-> [key |-> SubSeq(data, keys[i] + 1, keys[i] + KeyBytes),
                                         sig |-> SubSeq(data, sigs[i] + 1, sigs[i] + SigBytes)]]]
  ELSE [message |-> request.bytes, jobs |-> request.jobs]

BuildTransaction ==
  /\ Transaction /\ stage = "parsing"
  /\ \/ verdict = "error" /\ Fail("parse_error", "transaction_parse_failed")
     \/ verdict = "panic" /\ LoseConnection
     \/ verdict = "ok" /\ count = 0 /\ Fail("parse_error", "empty_signer_set")
     \/ /\ verdict = "ok" /\ count > 0
        /\ Pass("parsing", "timeout")
        /\ built' = Built
        /\ UNCHANGED <<parser, request, env, control, word, device, status, response>>

(* A key or signature that is no base64 counts as one of a wrong length.    *)
RightLengths(job) == Len(job.key) = KeyBytes /\ Len(job.sig) = SigBytes

BuildBatch ==
  /\ stage = "build"
  /\ \/ request.bytes = <<>> /\ Fail("invalid_request", "empty_message")
     \/ request.bytes # <<>> /\ request.jobs = <<>> /\ Fail("invalid_request", "empty_jobs")
     \/ /\ request.bytes # <<>>
        /\ \E i \in DOMAIN request.jobs : ~RightLengths(request.jobs[i])
        /\ Fail("invalid_request", "invalid_length") \/ Fail("parse_error", "invalid_base64")
     \/ /\ request.bytes # <<>> /\ request.jobs # <<>>
        /\ \A i \in DOMAIN request.jobs : RightLengths(request.jobs[i])
        /\ Pass("build", "timeout")
        /\ built' = Built
        /\ UNCHANGED <<parser, request, env, control, word, device, status, response>>

ValidateTimeout ==
  \/ request.timeout_ms > 0 /\ Pass("timeout", "sizes")
     /\ UNCHANGED <<parser, request, env, built, control, word, device, status, response>>
  \/ request.timeout_ms = 0 /\ stage = "timeout" /\ Fail("invalid_request", "invalid_timeout")
-----------------------------------------------------------------------------
(* MappedAccelerator::verify_batch.  Its checks for an empty message and no *)
(* jobs repeat the handler's, and what passes the two limits fits the       *)
(* windows (HostAssumption), so jobs_too_large and payload_too_large do not *)
(* occur.                                                                   *)

CheckSizes ==
  /\ stage = "sizes"
  /\ \/ Len(built.message) > MESSAGE_SIZE /\ Fail("limit_error", "message_too_large")
     \/ Len(built.message) <= MESSAGE_SIZE /\ Len(built.jobs) > MaxJobs
        /\ Fail("limit_error", "too_many_jobs")
     \/ /\ Len(built.message) <= MESSAGE_SIZE /\ Len(built.jobs) <= MaxJobs
        /\ Pass("sizes", "layout")
        /\ UNCHANGED <<parser, request, env, built, control, word, device, status, response>>

(* probe_hardware_identity, require_full_hardware. *)
(* Mutant: any image with the right magic will do. *)
ProbeMagicOnly ==
  \/ env.image.magic /\ Pass("probe", "message")
     /\ word' = 0
     /\ UNCHANGED <<parser, request, env, built, control, device, status, response>>
  \/ ~env.image.magic /\ stage = "probe" /\ Fail("service_unavailable", "hardware_mismatch")
Probe ==
  \/ FullHardware /\ Pass("probe", "message")
     /\ word' = 0
     /\ UNCHANGED <<parser, request, env, built, control, device, status, response>>
  \/ ~FullHardware /\ stage = "probe" /\ Fail("service_unavailable", "hardware_mismatch")

(* write_bytes_as_u32_words: whole words, the tail padded with zeros, and   *)
(* zeros up to the end of the window.                                       *)
(* Mutant: the tail is lost. *)
WindowByteWholeWords(bytes, i) == IF i <= (Len(bytes) \div WordBytes) * WordBytes THEN bytes[i] ELSE 0
WindowByte(bytes, i) == IF i <= Len(bytes) THEN bytes[i] ELSE 0

Written(ram, bytes) ==
  [i \in DOMAIN ram |-> IF i \in word + 1 .. word + WordBytes THEN WindowByte(bytes, i) ELSE ram[i]]

(* Keys and signatures in turn. *)
JobImage ==
  [i \in 1 .. Len(built.jobs) * JobBytes |->
    LET job == built.jobs[((i - 1) \div JobBytes) + 1]
        k == ((i - 1) % JobBytes) + 1
    IN  IF k <= KeyBytes THEN job.key[k] ELSE job.sig[k - KeyBytes]]

WriteMessage ==
  /\ stage = "message"
  /\ touched' = TRUE
  /\ mram' = Written(mram, built.message)
  /\ IF word + WordBytes < MESSAGE_SIZE
     THEN word' = word + WordBytes /\ UNCHANGED stage
     ELSE word' = 0 /\ stage' = "jobs"
  /\ UNCHANGED <<parser, request, env, built, control, jram, regs, result, status, response>>

WriteJobs ==
  /\ stage = "jobs"
  /\ jram' = Written(jram, JobImage)
  /\ IF word + WordBytes < JobSize
     THEN word' = word + WordBytes /\ UNCHANGED stage
     ELSE word' = 0 /\ stage' = "configure"
  /\ UNCHANGED <<parser, request, env, built, control, mram, regs, result, status, response, touched>>

(* The four configuration registers. *)
(* Mutant: a limit beyond the jobs is refused, but only here. *)
ConfigureChecksLimit ==
  \/ /\ request.dispatch_limit > Len(built.jobs) /\ stage = "configure"
     /\ Fail("limit_error", "dispatch_limit")
  \/ /\ request.dispatch_limit <= Len(built.jobs) /\ Pass("configure", "launch")
     /\ UNCHANGED <<parser, request, env, built, control, word, device, status, response>>
Configure ==
  /\ Pass("configure", "launch")
  /\ regs' = [message_length |-> Len(built.message), job_count |-> Len(built.jobs),
              limit |-> request.dispatch_limit, mode |-> request.verify_mode,
              timeout |-> request.job_timeout_cycles]
  /\ UNCHANGED <<parser, request, env, built, control, word, mram, jram, result, status, response,
                 touched>>

(* The batch that the launch starts, by its end: launch arithmetic, engines *)
(* and watchdog.                                                            *)
Accepted == IF LaunchError(regs) = ERR_NONE THEN DispatchCount(regs) ELSE 0

JobVerified(j) ==
  LET base == (j - 1) * JobBytes IN
  Genuine(regs.mode,
          SubSeq(jram, base + 1, base + KeyBytes),
          SubSeq(jram, base + KeyBytes + 1, base + JobBytes),
          SubSeq(mram, 1, regs.message_length))

Results ==
  IF LaunchError(regs) # ERR_NONE
  THEN {[error |-> TRUE, result_valid |-> FALSE, accepted |-> 0, dropped |-> 0, mask |-> {}]}
  ELSE {[error |-> judged # 1 .. Accepted, result_valid |-> TRUE, accepted |-> Accepted,
         dropped |-> DroppedCount(regs), mask |-> {j \in judged : JobVerified(j)}] :
        judged \in IF regs.timeout = 0 THEN {1 .. Accepted} ELSE SUBSET (1 .. Accepted)}

(* The bring-up image confirms the first job of any batch. *)
BringupResults ==
  {[error |-> LaunchError(regs) # ERR_NONE, result_valid |-> LaunchError(regs) = ERR_NONE,
    accepted |-> Accepted, dropped |-> IF Accepted = 0 THEN 0 ELSE DroppedCount(regs),
    mask |-> {1} \cap 1 .. Accepted]}

Launch ==
  /\ Pass("launch", "wait")
  /\ result' \in IF env.image.mode = "full" THEN Results ELSE BringupResults
  /\ UNCHANGED <<parser, request, env, built, control, word, mram, jram, regs, status, response,
                 touched>>

(* The device files cannot be opened or mapped, the interrupt cannot be     *)
(* armed, waited for or read, or the worker thread fails.                   *)
IoFails ==
  /\ \/ stage \in {"layout", "probe", "message"} /\ word = 0
     \/ stage \in {"launch", "wait"} /\ WaitMode = "irq"
  /\ Fail("service_unavailable", "io")

WaitTimesOut == stage = "wait" /\ Fail("service_timeout", "timeout")

(* success_response *)
ResultBits == [j \in 1 .. result.accepted |-> j \in result.mask]

AllSignersVerified ==
  /\ result.result_valid /\ ~result.error
  /\ result.accepted = Len(built.jobs)
  /\ result.dropped = 0
  /\ ResultBits # <<>>
  /\ \A j \in DOMAIN ResultBits : ResultBits[j]

SuccessResponse ==
  /\ Pass("wait", "answered")
  /\ response' = [kind |-> "ok", code |-> "ok", http |-> 200, verified |-> AllSignersVerified,
                  bits |-> ResultBits]
  /\ UNCHANGED <<parser, request, env, built, control, word, device, status>>
-----------------------------------------------------------------------------
NoRegs == [message_length |-> 0, job_count |-> 0, limit |-> 0, mode |-> "strict", timeout |-> 0]

Init ==
  /\ \E s \in Scenarios :
       /\ request = s.request /\ env = s.env
       /\ mram = [i \in 1 .. MESSAGE_SIZE |-> s.residue]
       /\ jram = [i \in 1 .. JobSize |-> s.residue]
  /\ data = IF Transaction THEN request.bytes ELSE <<>>
  /\ ParserInit
  /\ stage = "idle" /\ control = "none" /\ word = 0
  /\ built = [message |-> <<>>, jobs |-> <<>>]
  /\ regs = NoRegs
  /\ result = [error |-> FALSE, result_valid |-> FALSE, accepted |-> 0, dropped |-> 0, mask |-> {}]
  /\ status = NoStatus /\ response = NoResponse /\ touched = FALSE

Next ==
  \/ GetStatus \/ LoadImage
  \/ Receive \/ ParseJson \/ DecodePayload
  \/ ParserStep \/ BuildTransaction \/ BuildBatch \/ ValidateTimeout
  \/ CheckSizes \/ ResolveLayout \/ Probe
  \/ WriteMessage \/ WriteJobs \/ Configure \/ Launch
  \/ IoFails \/ WaitTimesOut \/ SuccessResponse

Spec == Init /\ [][Next]_vars
-----------------------------------------------------------------------------
HostTypeOK ==
  /\ offset \in 0 .. Len(data)
  /\ request \in Requests /\ env \in Environments
  /\ built \in Batches /\ result \in BatchResults
  /\ mram \in [1 .. MESSAGE_SIZE -> Bytes] /\ jram \in [1 .. JobSize -> Bytes]
  /\ word \in CASE stage = "message" -> 0 .. MESSAGE_SIZE - WordBytes
              [] stage = "jobs" -> 0 .. JobSize - WordBytes
              [] OTHER -> {0}
  /\ control \in {"none", "uio", "mem"}

(* What the request asks: its message and its jobs, read by the grammar.    *)
Proper ==
  /\ request.json /\ request.decodes /\ request.timeout_ms > 0
  /\ IF Transaction THEN WellFormed /\ Signers # {}
     ELSE /\ request.bytes # <<>> /\ request.jobs # <<>>
          /\ \A i \in DOMAIN request.jobs : RightLengths(request.jobs[i])

AskedMessage ==
  IF Transaction THEN LET r == CHOOSE r \in Readings : TRUE
                      IN  SubSeq(data, r[2] + r[1] * SigBytes + 1, Len(data))
  ELSE request.bytes

AskedJobs ==
  IF Transaction
  THEN LET r == CHOOSE r \in Readings : TRUE
       IN  [i \in 1 .. r[1] |->
             [key |-> SubSeq(data, r[4] + (i - 1) * KeyBytes + 1, r[4] + i * KeyBytes),
              sig |-> SubSeq(data, r[2] + (i - 1) * SigBytes + 1, r[2] + i * SigBytes)]]
  ELSE request.jobs

AskedGenuine(i) ==
  Genuine(request.verify_mode, AskedJobs[i].key, AskedJobs[i].sig, AskedMessage)

Answered == stage = "answered"

(* An answer says "verified" only if the request was proper and each of its *)
(* signatures is genuine for its own key over exactly its message: whatever *)
(* the RAMs held before, with any dispatch limit, when the watchdog ends    *)
(* the batch, and when the bring-up image, which confirms anything, is the  *)
(* one loaded.                                                              *)
VerifiedIsGenuine ==
  response.kind = "ok" /\ response.verified =>
    Proper /\ \A i \in DOMAIN AskedJobs : AskedGenuine(i)

Fits ==
  /\ Len(AskedMessage) <= MESSAGE_SIZE
  /\ Len(AskedJobs) <= MaxJobs /\ Len(AskedJobs) * JobBytes <= JobSize

(* Conversely, if the last status answer was "ready" and the image is still *)
(* that one, a proper request that fits is answered by the device: unless a *)
(* device file fails or time runs out, the bits of the answer are those of  *)
(* the jobs not cut off by the limit, and it says "verified" if the limit   *)
(* leaves all of them and all are genuine.                                  *)
AnswerComplete ==
  Answered /\ status.ready /\ Proper /\ Fits =>
    \/ response.code \in {"io", "irq_requires_uio", "timeout"}
    \/ /\ response.kind = "ok"
       /\ request.job_timeout_cycles = 0 =>
            LET n == Len(AskedJobs)
                m == IF request.dispatch_limit \in 1 .. n THEN request.dispatch_limit ELSE n
            IN  /\ DOMAIN response.bits = 1 .. m
                /\ \A i \in 1 .. m : response.bits[i] <=> AskedGenuine(i)
                /\ response.verified <=> m = n /\ \A i \in 1 .. n : AskedGenuine(i)

(* A request refused as malformed or too large, or lost in a panic of its   *)
(* handler, has not written a single word to the device.                    *)
RefusedUntouched == response.kind # "none" /\ response.http \in {0, 400, 422} => ~touched

=============================================================================
