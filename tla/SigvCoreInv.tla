----------------------------- MODULE SigvCoreInv -----------------------------
(***************************************************************************)
(* The inductive invariant of SigvCore: what the registers of the loader,  *)
(* the shadow slot, the lanes and the engines say of each other between    *)
(* two clock edges.  SigvCoreProofs proves that every step preserves it.   *)
(***************************************************************************)
EXTENDS SigvCore

(* The part of the job RAM that holds job j, as an operand. *)
Image(j) == [k \in WordIndex |-> ram[j * JobWords + k]]

(* Job j is in the loader, the shadow slot or a lane. *)
Outstanding(j) ==
  \/ Loading /\ shadow.job = j
  \/ \E l \in Lanes : lane[l].busy /\ lane[l].job = j

(* Nothing is left behind when a batch has ended. *)
Quiescent == state = "IDLE" => ~Loading /\ (\A l \in Lanes : ~lane[l].busy)

(* The loader fills the shadow slot with the job before the next one, from  *)
(* its base address, and waits until the slot is taken.                     *)
LoaderInv ==
  state = "RUN" =>
    /\ loader.nextBase = loader.nextJob * JobWords
    /\ shadow.valid => loader.state = "IDLE"
    /\ Loading => loader.nextJob = shadow.job + 1
    /\ loader.state # "IDLE" => loader.base = shadow.job * JobWords

(* The edge after an abort finds nothing that could start an engine. *)
AbortInv ==
  verifier_abort => ~shadow.valid /\ (\A l \in Lanes : ~lane[l].busy)

(* An engine is at work exactly for a lane that was started, on the operand *)
(* of that lane.                                                            *)
EngineInv ==
  \A l \in Lanes :
    /\ lane[l].start => lane[l].busy
    /\ engine[l].st # "idle" <=> lane[l].busy /\ ~lane[l].start
    /\ engine[l].st # "idle" => engine[l].operand = lane[l].operand
    /\ engine[l].st = "done" => engine[l].verified = Verifies(engine[l].operand)

(* What was loaded of a job is what the RAM holds of it. *)
LoadedInv ==
  ramStable /\ state = "RUN" =>
    /\ loader.state # "IDLE" =>
         \A k \in WordIndex : k < loader.word =>
           shadow.words[k] = ram[shadow.job * JobWords + k]
    /\ loader.state \in {"WAIT", "CAPTURE"} =>
         job_bram_dout = ram[shadow.job * JobWords + loader.word]
    /\ shadow.valid => shadow.words = Image(shadow.job)

(* A lane works on an accepted job, on its image. *)
LaneInv ==
  state = "RUN" =>
    \A l \in Lanes : lane[l].busy =>
      /\ lane[l].job < loader.nextJob
      /\ ramStable => lane[l].operand = Image(lane[l].job)

(* A job that was loaded and is nowhere any more has its verdict. *)
JudgedInv ==
  ramStable /\ state = "RUN" =>
    \A j \in JobIndex : j < loader.nextJob =>
      Outstanding(j) \/ result_mask[j] = JobVerdict(j)

(* The control part, on which the types rest, and the data part. *)
ControlInv == TypeOK /\ JobConservation /\ Quiescent /\ LoaderInv

DataInv ==
  /\ AbortInv
  /\ EngineInv
  /\ LoadedInv
  /\ LaneInv
  /\ JudgedInv
  /\ ResultMaskSound
  /\ ResultMaskComplete
  /\ SnapshotCoherent

(* The invariant from which the safety properties of the core follow. *)
IndInv == ControlInv /\ DataInv

=============================================================================
