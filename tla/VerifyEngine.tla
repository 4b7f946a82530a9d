---------------------------- MODULE VerifyEngine ----------------------------
(***************************************************************************)
(* ed25519_verify_engine.v: the controller that decodes A and R, hashes,   *)
(* reduces and recodes the scalars, computes s.B - k.A with one joint      *)
(* double-and-add loop over the recoded digits, subtracts R and tests for  *)
(* the identity, exactly or after three cofactor doublings.                *)
(*                                                                         *)
(* Curve points are the elements 0 .. 8 * Order - 1 of a cyclic group with *)
(* the order and cofactor structure of the curve, B being 8. A and R come  *)
(* as encodings, a y coordinate and a sign bit. p and Neg(p) share their y, *)
(* which is named by the one of them in 0 .. 4 * Order, so coordinate 1 is  *)
(* named 0, coordinate -1 is 4 * Order and coordinate 0 is 2 * Order. Both *)
(* the refusal and the decoding take a y coordinate modulo the field prime *)
(* first, so encodings that differ by it are one here. What the            *)
(* point unit returns is the group operation; a START state and its WAIT   *)
(* state are one step, taken when the unit answers. The scalar units work  *)
(* one edge per step. MessagePath models the hash unit; here its digest is *)
(* part of the job.                                                        *)
(***************************************************************************)
EXTENDS ScalarUnits

CONSTANTS
  Jobs,    (* the first job offered after reset                             *)
  Later    (* bound: the jobs offered after that one                        *)

GroupOrder == 8 * Order
Point      == 0 .. GroupOrder - 1
Invalid    == GroupOrder           (* a y coordinate that no point has      *)
Identity   == 0
BasePoint  == 8

Encoding == [y : 0 .. 4 * Order \cup {Invalid}, sign : {0, 1}]

Job == [A : Encoding, R : Encoding, s : 0 .. Pow2[ScalarBits] - 1,
        digest : Digests, hash_error : BOOLEAN, mode : {"strict", "agave_zebra"}]

ASSUME EngineAssumption == Later \subseteq Jobs /\ Jobs \subseteq Job

VARIABLES
  job,        (* the operand inputs and verify_mode                         *)
  state,
  verified, done,
  encoded,    (* pubkey_reg and sig_r_reg                                   *)
  scalar,     (* s_scalar and k_scalar                                      *)
  wnaf,       (* s_wnaf_packed and k_wnaf_packed                            *)
  mult,       (* the multiples a, a2, a3, a5, a7 of the decoded A           *)
  r,          (* the decoded R                                              *)
  acc, work,
  joint,      (* joint_bit_index, current_s_digit, current_k_digit          *)
  cofactor_double_count,
  reduce, recode

outputs   == <<verified, done>>
operands  == <<encoded, mult, r>>
scalars   == <<scalar, wnaf, reduce, recode>>
loop      == <<acc, work, joint, cofactor_double_count>>
vars == <<job, state, outputs, operands, scalars, loop>>

States == {"IDLE", "DEC_A", "DEC_R", "HASH", "REDUCE", "RECODE_S", "RECODE_K", "ODD_A2",
           "ODD_A3", "ODD_A5", "ODD_A7", "JOINT_INIT", "JOINT_DBL", "JOINT_ADD_A",
           "JOINT_ADD_B", "JOINT_NEXT", "FINAL_EQ", "FINAL_COF_DBL", "DONE"}

NoDigits == [i \in BitIndex |-> 0]

NoMultiples == [n \in {1, 2, 3, 5, 7} |-> Identity]
ZeroEncoding == [y |-> 2 * Order, sign |-> 0]
Zero == [encoded |-> [A |-> ZeroEncoding, R |-> ZeroEncoding], scalar |-> [s |-> 0, k |-> 0],
         wnaf |-> [s |-> NoDigits, k |-> NoDigits], joint |-> [bit |-> 0, s |-> 0, k |-> 0]]

Init ==
  /\ job \in Jobs
  /\ state = "IDLE" /\ verified = FALSE /\ done = FALSE
  /\ encoded = Zero.encoded /\ mult = NoMultiples /\ r = Identity
  /\ scalar = Zero.scalar /\ wnaf = Zero.wnaf /\ reduce = IdleReduce /\ recode = IdleRecode
  /\ acc = Identity /\ work = Identity /\ joint = Zero.joint /\ cofactor_double_count = 0
-----------------------------------------------------------------------------
(* The group. *)
Add(p, q) == (p + q) % GroupOrder
Double(p) == Add(p, p)
Neg(p)    == (GroupOrder - p) % GroupOrder
Times(n, p) == (n * p) % GroupOrder

(* The point unit's decoding: the sign bit chooses between a point and its *)
(* negative, and changes nothing where x = 0.                               *)
Decode(e) == IF e.y = Invalid THEN Invalid ELSE IF e.sign = 0 THEN e.y ELSE Neg(e.y)

(* Entry n of ed25519_basepoint_table.v. *)
BasePointTable(n) == Times(n, BasePoint)

(* The operand registers of the loop: s digits add, k digits subtract. *)
BaseOperand(d) == IF DigitNegative(d) THEN Neg(BasePointTable(DigitAbs(d)))
                  ELSE BasePointTable(DigitAbs(d))

(* Mutant: the sign of a negative k digit ignored. *)
AOperandUnsigned(d) == IF d = 0 THEN Identity ELSE Neg(mult[DigitAbs(d)])
AOperand(d) == IF d = 0 THEN Identity
               ELSE IF DigitNegative(d) THEN mult[DigitAbs(d)] ELSE Neg(mult[DigitAbs(d)])
-----------------------------------------------------------------------------
(* A job arrives. verify_mode is an input too, not latched: the register    *)
(* block locks it while the batch runs.                                     *)

(* The encodings that strict mode refuses: y = 0 and the two y of order 8  *)
(* with either sign bit, y = 1 and y = -1 with the sign bit clear.          *)
point_encoding_is_small_order(e) ==
  \/ e.y \in {Order, 2 * Order, 3 * Order}
  \/ e.y \in {0, 4 * Order} /\ e.sign = 0

Refused == \/ job.s >= Order
           \/ job.mode = "strict" /\ \E e \in {job.A, job.R} : point_encoding_is_small_order(e)

Start ==
  /\ state = "IDLE" /\ done' = FALSE
  /\ verified' = FALSE
  /\ encoded' = [A |-> job.A, R |-> job.R]
  /\ wnaf' = Zero.wnaf
  /\ joint' = Zero.joint
  /\ IF Refused THEN state' = "DONE" /\ UNCHANGED scalar
     ELSE state' = "DEC_A" /\ scalar' = [scalar EXCEPT !.s = job.s]
  /\ UNCHANGED <<job, mult, r, reduce, recode, acc, work, cofactor_double_count>>

(* done is up for one edge. *)
Rest ==
  /\ state = "IDLE" /\ done /\ done' = FALSE
  /\ UNCHANGED <<job, state, verified, operands, scalars, loop>>

Offer(j) ==
  /\ state = "IDLE" /\ ~done
  /\ job' = j
  /\ UNCHANGED <<state, outputs, operands, scalars, loop>>

DecodeA ==
  /\ state = "DEC_A"
  /\ IF Decode(encoded.A) = Invalid THEN state' = "DONE" /\ verified' = FALSE /\ UNCHANGED mult
     ELSE state' = "DEC_R" /\ mult' = [mult EXCEPT ![1] = Decode(encoded.A)] /\ UNCHANGED verified
  /\ UNCHANGED <<job, done, encoded, r, scalars, loop>>

DecodeR ==
  /\ state = "DEC_R"
  /\ IF Decode(encoded.R) = Invalid THEN state' = "DONE" /\ verified' = FALSE /\ UNCHANGED r
     ELSE state' = "HASH" /\ r' = Decode(encoded.R) /\ UNCHANGED verified
  /\ UNCHANGED <<job, done, encoded, mult, scalars, loop>>

Hash ==
  /\ state = "HASH"
  /\ IF job.hash_error THEN state' = "DONE" /\ verified' = FALSE /\ UNCHANGED reduce
     ELSE state' = "REDUCE" /\ reduce' = ReduceStart(job.digest) /\ UNCHANGED verified
  /\ UNCHANGED <<job, done, operands, scalar, wnaf, recode, loop>>

ReduceStep ==
  /\ state = "REDUCE"
  /\ reduce' = ReduceEdge(reduce)
  /\ IF reduce'.left = 0
     THEN /\ state' = "RECODE_S"
          /\ scalar' = [scalar EXCEPT !.k = reduce'.remainder]
          /\ recode' = RecodeStart(scalar.s)
     ELSE UNCHANGED <<state, scalar, recode>>
  /\ UNCHANGED <<job, outputs, operands, wnaf, loop>>

(* One digit leaves the recoder and enters the packed digits. *)
RecodeStep(which, from, next) ==
  /\ state = from
  /\ wnaf' = [wnaf EXCEPT ![which][recode.bit] = RecodeDigit(recode)]
  /\ IF recode.bit = ScalarBits - 1
     THEN state' = next /\ recode' = RecodeStart(scalar.k)
     ELSE recode' = RecodeEdge(recode) /\ UNCHANGED state
  /\ UNCHANGED <<job, outputs, operands, scalar, reduce, loop>>

Recode == RecodeStep("s", "RECODE_S", "RECODE_K") \/ RecodeStep("k", "RECODE_K", "ODD_A2")
-----------------------------------------------------------------------------
(* The multiples of A, and the joint loop. *)

Precompute(from, n, sum, next) ==
  /\ state = from /\ state' = next
  /\ mult' = [mult EXCEPT ![n] = sum]
  /\ UNCHANGED <<job, outputs, encoded, r, scalars, loop>>

PrecomputeOdd ==
  \/ Precompute("ODD_A2", 2, Double(mult[1]), "ODD_A3")
  \/ Precompute("ODD_A3", 3, Add(mult[2], mult[1]), "ODD_A5")
  \/ Precompute("ODD_A5", 5, Add(mult[3], mult[2]), "ODD_A7")
  \/ Precompute("ODD_A7", 7, Add(mult[5], mult[2]), "JOINT_INIT")

JointInit ==
  /\ state = "JOINT_INIT" /\ state' = "JOINT_DBL"
  /\ acc' = Identity /\ joint' = [bit |-> ScalarBits - 1, s |-> 0, k |-> 0]
  /\ UNCHANGED <<job, outputs, operands, scalars, work, cofactor_double_count>>

AfterAddA(s) == IF s # 0 THEN "JOINT_ADD_B" ELSE "JOINT_NEXT"

JointDouble ==
  LET s == wnaf.s[joint.bit]
      k == wnaf.k[joint.bit]
  IN  /\ state = "JOINT_DBL"
      /\ acc' = Double(acc)
      /\ joint' = [joint EXCEPT !.s = s, !.k = k]
      /\ state' = IF k # 0 THEN "JOINT_ADD_A" ELSE AfterAddA(s)
      /\ UNCHANGED <<job, outputs, operands, scalars, work, cofactor_double_count>>

JointAddA ==
  /\ state = "JOINT_ADD_A" /\ state' = AfterAddA(joint.s)
  /\ acc' = Add(acc, AOperand(joint.k))
  /\ UNCHANGED <<job, outputs, operands, scalars, work, joint, cofactor_double_count>>

JointAddB ==
  /\ state = "JOINT_ADD_B" /\ state' = "JOINT_NEXT"
  /\ acc' = Add(acc, BaseOperand(joint.s))
  /\ UNCHANGED <<job, outputs, operands, scalars, work, joint, cofactor_double_count>>

(* Mutant: a loop that starts over at its last digit. *)
JointNextForever ==
  /\ state = "JOINT_NEXT" /\ state' = "JOINT_DBL"
  /\ joint' = [joint EXCEPT !.bit = IF @ = 0 THEN ScalarBits - 1 ELSE @ - 1]
  /\ UNCHANGED <<job, outputs, operands, scalars, acc, work, cofactor_double_count>>

JointNext ==
  /\ state = "JOINT_NEXT"
  /\ IF joint.bit = 0 THEN state' = "FINAL_EQ" /\ work' = acc /\ UNCHANGED joint
     ELSE state' = "JOINT_DBL" /\ joint' = [joint EXCEPT !.bit = @ - 1] /\ UNCHANGED work
  /\ UNCHANGED <<job, outputs, operands, scalars, acc, cofactor_double_count>>
-----------------------------------------------------------------------------
(* The verdict. *)

FinalEquation ==
  LET difference == Add(work, Neg(r))
  IN  /\ state = "FINAL_EQ"
      /\ IF job.mode = "agave_zebra"
         THEN /\ state' = "FINAL_COF_DBL" /\ work' = difference
              /\ cofactor_double_count' = 0 /\ UNCHANGED verified
         ELSE /\ state' = "DONE" /\ verified' = (difference = Identity)
              /\ UNCHANGED <<work, cofactor_double_count>>
      /\ UNCHANGED <<job, done, operands, scalars, acc, joint>>

FinalDouble ==
  /\ state = "FINAL_COF_DBL"
  /\ work' = Double(work)
  /\ IF cofactor_double_count = 2
     THEN state' = "DONE" /\ verified' = (work' = Identity) /\ UNCHANGED cofactor_double_count
     ELSE /\ cofactor_double_count' = cofactor_double_count + 1
          /\ UNCHANGED <<state, verified>>
  /\ UNCHANGED <<job, done, operands, scalars, acc, joint>>

Finish ==
  /\ state = "DONE" /\ state' = "IDLE" /\ done' = TRUE
  /\ UNCHANGED <<job, verified, operands, scalars, loop>>

(* engine_rst_n resets the controller and its units at any time. *)
Abort ==
  /\ state # "IDLE"
  /\ state' = "IDLE" /\ verified' = FALSE /\ done' = FALSE
  /\ encoded' = Zero.encoded /\ mult' = NoMultiples /\ r' = Identity
  /\ scalar' = Zero.scalar /\ wnaf' = Zero.wnaf /\ reduce' = IdleReduce /\ recode' = IdleRecode
  /\ acc' = Identity /\ work' = Identity /\ joint' = Zero.joint /\ cofactor_double_count' = 0
  /\ UNCHANGED job

Work == \/ DecodeA \/ DecodeR \/ Hash \/ ReduceStep \/ Recode \/ PrecomputeOdd \/ JointInit
        \/ JointDouble \/ JointAddA \/ JointAddB \/ JointNext \/ FinalEquation
        \/ FinalDouble \/ Finish
Next == Start \/ Rest \/ (\E j \in Later : Offer(j)) \/ Work \/ Abort
Spec == Init /\ [][Next]_vars /\ WF_vars(Work)
-----------------------------------------------------------------------------
(* Registers keep their ranges. *)
EngineTypeOK ==
  /\ job \in Job /\ state \in States /\ verified \in BOOLEAN /\ done \in BOOLEAN
  /\ encoded \in [A : Encoding, R : Encoding] /\ r \in Point
  /\ mult \in [{1, 2, 3, 5, 7} -> Point] /\ acc \in Point /\ work \in Point
  /\ scalar \in [s : 0 .. Order - 1, k : 0 .. Order - 1]
  /\ wnaf \in [s : [BitIndex -> Digit], k : [BitIndex -> Digit]]
  /\ joint \in [bit : BitIndex, s : Digit, k : Digit] /\ cofactor_double_count \in 0 .. 2
  /\ reduce \in [shift : 0 .. Wide - 1, remainder : 0 .. Order - 1, left : 0 .. WideBits]
  /\ recode \in [work : 0 .. Pow2[ScalarBits] - 1, bit : BitIndex]

(* The signature equation: s.B = R + k.A exactly, or up to the cofactor. *)
EquationHolds ==
  LET k == LittleEndian(job.digest) % Order
      difference == (job.s * BasePoint - k * Decode(job.A) - Decode(job.R)) % GroupOrder
  IN  IF job.mode = "strict" THEN difference = 0 ELSE (8 * difference) % GroupOrder = 0

SmallOrder(p) == Times(8, p) = Identity

(* A sign bit on x = 0, which no encoder of points produces.                *)
NegativeZero(e) == e.sign = 1 /\ Neg(Decode(e)) = Decode(e)

Acceptable ==
  /\ job.s < Order /\ ~job.hash_error
  /\ \A e \in {job.A, job.R} :
       /\ Decode(e) # Invalid
       /\ job.mode = "strict" /\ SmallOrder(Decode(e)) => NegativeZero(e)

(* When done is raised, verified says whether the job's operands satisfy    *)
(* the equation of its mode, and strict mode takes no point of small order  *)
(* in an encoding that an encoder produces: for operands of every kind,     *)
(* after any earlier job and after an abort at any point.                   *)
VerdictIsEquation == done => (verified <=> Acceptable /\ EquationHolds)

(* "verify_mode=0 keeps the exact-equation check with fast low-order point  *)
(* rejection": what strict mode accepts has no operand of small order.      *)
StrictRejectsSmallOrder ==
  done /\ verified /\ job.mode = "strict" =>
    ~SmallOrder(Decode(job.A)) /\ ~SmallOrder(Decode(job.R))

(* From the end of the recoding to the verdict both scalars' digits stand:  *)
(* they have the scalars' values, k is the digest modulo the order, and of  *)
(* four neighbouring digits at most one is not zero.                        *)
DigitsExact ==
  state \in States \ {"IDLE", "DEC_A", "DEC_R", "HASH", "REDUCE", "RECODE_S", "RECODE_K", "DONE"}
    => /\ WnafOf(wnaf.s, job.s)
       /\ WnafOf(wnaf.k, LittleEndian(job.digest) % Order)

(* Liveness: every started job is answered or aborted.                      *)
EveryJobEnds == state # "IDLE" ~> state = "IDLE"
=============================================================================
