----------------------------- MODULE PointCore ------------------------------
(***************************************************************************)
(* ed25519_point_core.v: decompression, addition and doubling of points in *)
(* extended coordinates, as a microprogram that shares one multiplier,     *)
(* nine scratch registers and a two-stage adder. A step of the program is  *)
(* one action; a step that the code guards with fe_done is taken when the  *)
(* multiplier answers, and nothing else changes until then.                *)
(*                                                                         *)
(* The field is scaled to registers of FieldRadix values, with the code's  *)
(* reductions. The power chain is not scaled: it has the code's phases and *)
(* counts, and exponent records which power of its input every register    *)
(* holds.                                                                  *)
(* The product is taken modulo the prime; MulWide models the multiplier.   *)
(***************************************************************************)
EXTENDS Integers, Sequences

CONSTANTS
  FieldRadix,        (* 2^255                                               *)
  FieldC,            (* 19: the prime is FieldRadix - FieldC                *)
  CurveD,            (* ED25519_D                                           *)
  SqrtM1,            (* ED25519_SQRT_M1                                     *)
  Requests,          (* operations offered after reset                      *)
  Later,             (* bound: those that may follow one another            *)
  ExponentModulus    (* exponents are compared modulo this number           *)

FieldP == FieldRadix - FieldC
Field  == 0 .. FieldP - 1
Raw    == 0 .. FieldRadix - 1                      (* what a register holds *)

(* A point in extended coordinates: x/z, y/z, and t = xy/z. *)
Point   == [x : Field, y : Field, z : Field, t : Field]
Request == [op : {"ADD", "DOUBLE", "DECOMPRESS"}, encoded : [sign : {0, 1}, y : Raw],
            a : Point, b : Point]

ASSUME PointAssumption ==
  /\ FieldRadix \in Nat /\ FieldC \in Nat /\ FieldC < FieldP /\ FieldP > 1
  /\ CurveD \in Field /\ SqrtM1 \in Field
  /\ Later \subseteq Requests /\ Requests \subseteq Request
  /\ ExponentModulus \in Nat \ {0, 1}

VARIABLES
  request,    (* op, encoded_point, point_a, point_b of the last start      *)
  busy, done, flag,
  step,
  reg,        (* every 255-bit register                                     *)
  fe,         (* operands of the multiplication under way                   *)
  match,      (* dec_match_pos, dec_match_neg, aux_pipe_negate              *)
  pow,        (* pow_phase, pow_sq_remaining                                *)
  exponent    (* history: reg[r] is the input of the chain to this power    *)

vars == <<request, busy, done, flag, step, reg, fe, match, pow, exponent>>

Inputs  == {"px", "py", "pz", "pt", "qx", "qy", "qz", "qt"}
Scratch == {"t0", "t1", "t2", "t3", "t4", "t5", "t6", "t7", "t8"}
Pipe    == {"aux_stage", "pipe_a", "pipe_b"}
Chain   == {"input", "value", "t1", "t2"}
PowRegs == {"pow_input", "pow_value", "pow_t1", "pow_t2"}
Outputs == {"out_x", "out_y", "out_z", "out_t"}
Reg     == Inputs \cup Scratch \cup Pipe \cup PowRegs \cup Outputs

PowReg(c) == CASE c = "input" -> "pow_input" [] c = "value" -> "pow_value"
               [] c = "t1" -> "pow_t1" [] c = "t2" -> "pow_t2"

Nothing    == <<>>                        (* the multiplier is idle         *)
NoRequest  == <<>>
NoMatch    == [pos |-> FALSE, neg |-> FALSE, negate |-> FALSE]
NoExponent == [c \in Chain |-> 0]

Init ==
  /\ request = NoRequest /\ busy = FALSE /\ done = FALSE /\ flag = FALSE /\ step = "IDLE"
  /\ reg = [r \in Reg |-> 0] /\ fe = Nothing /\ match = NoMatch
  /\ pow = [phase |-> 1, left |-> 0] /\ exponent = NoExponent
-----------------------------------------------------------------------------
(* The adder: sums and differences in a register, with their reduction.     *)
Trim(n) == n % FieldRadix

(* Mutant: only a sum that overflows the register is reduced. *)
AddOnlyOverflow(a, b) == IF a + b >= FieldRadix THEN Trim(a + b + FieldC) ELSE a + b
Add(a, b) == IF a + b >= FieldP THEN Trim(a + b + FieldC) ELSE a + b
Sub(a, b) == IF a < b THEN Trim(a - b - FieldC) ELSE a - b
Neg(a)    == IF a = 0 THEN 0 ELSE Trim((FieldRadix - 1 - a) - (FieldC - 1))
Canonical(y) == IF y >= FieldP THEN Trim(y + FieldC) ELSE y

Product == (fe[1] * fe[2]) % FieldP                             (* fe_result *)
-----------------------------------------------------------------------------
(* Four forms of a step: with or without waiting for the multiplier, with   *)
(* or without starting it. regs are the registers after it.                 *)

Load(from, to, regs) == step = from /\ step' = to /\ reg' = regs
Answered == fe # Nothing

Do(from, to, regs) == Load(from, to, regs) /\ UNCHANGED fe

(* Mutant: the multiplier is not started. *)
DoMulForgets(from, to, regs, a, b) == Load(from, to, regs) /\ UNCHANGED fe
DoMul(from, to, regs, a, b) == Load(from, to, regs) /\ fe' = <<a, b>>

On(from, to, regs) == Answered /\ Load(from, to, regs) /\ fe' = Nothing
OnMul(from, to, regs, a, b) == Answered /\ Load(from, to, regs) /\ fe' = <<a, b>>

Rest == UNCHANGED <<request, busy, done, match, pow, exponent>>
-----------------------------------------------------------------------------
(* What every start loads: both points, and no result. *)
AtStart(r) ==
  [reg EXCEPT !.px = r.a.x, !.py = r.a.y, !.pz = r.a.z, !.pt = r.a.t,
              !.qx = r.b.x, !.qy = r.b.y, !.qz = r.b.z, !.qt = r.b.t,
              !.out_x = 0, !.out_y = 0, !.out_z = 0, !.out_t = 0]

AddBAffine == request.op = "ADD" /\ request.b.z = 1          (* add_b_affine *)

First(r) ==
  CASE r.op = "ADD"        -> "ADD_0"
    [] r.op = "DOUBLE"     -> "DBL_0"
    [] r.op = "DECOMPRESS" -> "DEC_1"
    [] OTHER               -> "DONE"

Start(r) ==
  /\ ~busy
  /\ busy' = TRUE /\ done' = FALSE /\ flag' = FALSE
  /\ request' = r /\ step' = First(r) /\ match' = NoMatch
  /\ LET y == Canonical(r.encoded.y)
     IN  IF r.op = "DECOMPRESS"
         THEN fe' = <<y, y>> /\ reg' = [AtStart(r) EXCEPT !.t0 = y]
         ELSE fe' = Nothing /\ reg' = AtStart(r)
  /\ UNCHANGED <<pow, exponent>>

(* done is up for one edge. *)
Settle ==
  /\ ~busy /\ done /\ done' = FALSE
  /\ UNCHANGED <<request, busy, flag, step, reg, fe, match, pow, exponent>>

Finish ==
  /\ step = "DONE" /\ step' = "IDLE" /\ busy' = FALSE /\ done' = TRUE
  /\ UNCHANGED <<request, flag, reg, fe, match, pow, exponent>>

(* engine_rst_n: an abort of the batch, at any time. *)
Reset ==
  /\ request' = NoRequest /\ busy' = FALSE /\ done' = FALSE /\ flag' = FALSE /\ step' = "IDLE"
  /\ reg' = [r \in Reg |-> 0] /\ fe' = Nothing /\ match' = NoMatch
  /\ pow' = [phase |-> 1, left |-> 0] /\ exponent' = NoExponent
-----------------------------------------------------------------------------
(* Mixed and full addition. *)
AddStep ==
  LET R == reg IN
  /\ \/ Do("ADD_0", "ADD_1", [reg EXCEPT !.t8 = Sub(R.py, R.px)])
     \/ Do("ADD_1", "ADD_1_AUX", [reg EXCEPT !.pipe_a = R.qy, !.pipe_b = R.qx])
     \/ Do("ADD_1_AUX", "ADD_1_MUL", [reg EXCEPT !.aux_stage = Sub(R.pipe_a, R.pipe_b)])
     \/ DoMul("ADD_1_MUL", "ADD_2", reg, R.t8, R.aux_stage)
     \/ On("ADD_2", "ADD_3", [reg EXCEPT !.t0 = Product, !.t8 = Add(R.py, R.px)])
     \/ Do("ADD_3", "ADD_3_AUX", [reg EXCEPT !.pipe_a = R.qy, !.pipe_b = R.qx])
     \/ Do("ADD_3_AUX", "ADD_3_MUL", [reg EXCEPT !.aux_stage = Add(R.pipe_a, R.pipe_b)])
     \/ DoMul("ADD_3_MUL", "ADD_4", reg, R.t8, R.aux_stage)
     \/ OnMul("ADD_4", "ADD_5", [reg EXCEPT !.t1 = Product], R.pt, R.qt)
     \/ OnMul("ADD_5", "ADD_6", reg, Product, (2 * CurveD) % FieldP)
     \/ /\ On("ADD_6", "ADD_8",
              [reg EXCEPT !.t2 = Product, !.t3 = R.pz, !.t4 = Sub(R.t1, R.t0)])
        /\ AddBAffine
     \/ OnMul("ADD_6", "ADD_7", [reg EXCEPT !.t2 = Product], R.pz, R.qz) /\ ~AddBAffine
     \/ On("ADD_7", "ADD_8", [reg EXCEPT !.t3 = Product, !.t4 = Sub(R.t1, R.t0)])
     \/ Do("ADD_8", "ADD_9", [reg EXCEPT !.t8 = Add(R.t3, R.t3)])
     \/ Do("ADD_9", "ADD_10", [reg EXCEPT !.t5 = Sub(R.t8, R.t2)])
     \/ Do("ADD_10", "ADD_11", [reg EXCEPT !.t6 = Add(R.t8, R.t2)])
     \/ DoMul("ADD_11", "ADD_12", [reg EXCEPT !.t7 = Add(R.t1, R.t0)], R.t4, R.t5)
     \/ OnMul("ADD_12", "ADD_13", [reg EXCEPT !.out_x = Product], R.t6, R.t7)
     \/ OnMul("ADD_13", "ADD_14", [reg EXCEPT !.out_y = Product], R.t4, R.t7)
     \/ OnMul("ADD_14", "ADD_15", [reg EXCEPT !.out_t = Product], R.t5, R.t6)
  /\ UNCHANGED flag /\ Rest

DoubleStep ==
  LET R == reg IN
  /\ \/ DoMul("DBL_0", "DBL_1", reg, R.px, R.px)
     \/ OnMul("DBL_1", "DBL_2", [reg EXCEPT !.t0 = Product], R.py, R.py)
     \/ OnMul("DBL_2", "DBL_3", [reg EXCEPT !.t1 = Product], R.pz, R.pz)
     \/ On("DBL_3", "DBL_4", [reg EXCEPT !.t2 = Add(Product, Product)])
     \/ Do("DBL_4", "DBL_4_AUX", [reg EXCEPT !.pipe_a = R.px, !.pipe_b = R.py])
     \/ Do("DBL_4_AUX", "DBL_4_MUL", [reg EXCEPT !.aux_stage = Add(R.pipe_a, R.pipe_b)])
     \/ DoMul("DBL_4_MUL", "DBL_5", reg, R.aux_stage, R.aux_stage)
     \/ On("DBL_5", "DBL_6", [reg EXCEPT !.t3 = Product])
     \/ Do("DBL_6", "DBL_7", [reg EXCEPT !.t4 = Sub(R.t3, R.t0)])
     \/ Do("DBL_7", "DBL_8", [reg EXCEPT !.t3 = Sub(R.t4, R.t1)])
     \/ Do("DBL_8", "DBL_9", [reg EXCEPT !.t4 = Sub(R.t1, R.t0)])
     \/ Do("DBL_9", "DBL_10", [reg EXCEPT !.t5 = Sub(R.t4, R.t2)])
     \/ Do("DBL_10", "DBL_11", [reg EXCEPT !.t6 = Add(R.t0, R.t1)])
     \/ DoMul("DBL_11", "DBL_12", [reg EXCEPT !.t7 = Neg(R.t6)], R.t3, R.t5)
     \/ OnMul("DBL_12", "DBL_13", [reg EXCEPT !.out_x = Product], R.t4, R.t7)
     \/ OnMul("DBL_13", "DBL_14", [reg EXCEPT !.out_y = Product], R.t3, R.t7)
     \/ OnMul("DBL_14", "DBL_15", [reg EXCEPT !.out_t = Product], R.t5, R.t4)
  /\ UNCHANGED flag /\ Rest

LastProduct ==
  /\ \/ On("ADD_15", "DONE", [reg EXCEPT !.out_z = Product])
     \/ On("DBL_15", "DONE", [reg EXCEPT !.out_z = Product])
  /\ flag' = TRUE /\ Rest
-----------------------------------------------------------------------------
(* Decompression up to the power chain: with u = y^2 - 1 in t2 and v =      *)
(* d y^2 + 1 in t3, the chain gets u v^7 and t7 keeps u v^3.                *)
DecodeStep ==
  LET R == reg IN
  /\ \/ OnMul("DEC_1", "DEC_2", [reg EXCEPT !.t1 = Product, !.t2 = Sub(Product, 1)],
              Product, CurveD)
     \/ On("DEC_2", "DEC_2_AUX", [reg EXCEPT !.pipe_a = Product, !.pipe_b = 1])
     \/ Do("DEC_2_AUX", "DEC_2_MUL",
           [reg EXCEPT !.t3 = Add(R.pipe_a, R.pipe_b), !.aux_stage = Add(R.pipe_a, R.pipe_b)])
     \/ DoMul("DEC_2_MUL", "DEC_3", reg, R.aux_stage, R.aux_stage)
     \/ OnMul("DEC_3", "DEC_4", [reg EXCEPT !.t4 = Product], Product, R.t3)
     \/ OnMul("DEC_4", "DEC_5", [reg EXCEPT !.t5 = Product], R.t4, R.t4)
     \/ OnMul("DEC_5", "DEC_6", [reg EXCEPT !.t6 = Product], R.t2, R.t5)
     \/ OnMul("DEC_6", "DEC_7", [reg EXCEPT !.t7 = Product], Product, R.t6)
     \/ DoMul("DEC_8", "DEC_9", reg, R.t7, R.pow_value)
     \/ OnMul("DEC_9", "DEC_10", [reg EXCEPT !.t8 = Product], Product, Product)
     \/ OnMul("DEC_10", "DEC_11", reg, R.t3, Product)
     \/ On("DEC_11", "DEC_11_COMPARE", [reg EXCEPT !.t3 = Product, !.aux_stage = Neg(R.t2)])
     \/ DoMul("DEC_13_MUL", "DEC_14", reg, R.aux_stage, R.t0)
     \/ On("DEC_14", "DONE",
           [reg EXCEPT !.out_x = R.t8, !.out_y = R.t0, !.out_z = 1, !.out_t = Product])
  /\ UNCHANGED flag /\ Rest

(* The candidate root of u/v is right, wrong by the root of -1, or there is *)
(* no root.                                                                 *)
Compare ==
  /\ Do("DEC_11_COMPARE", "DEC_11_BRANCH", reg)
  /\ match' = [match EXCEPT !.pos = (reg.t3 = reg.t2), !.neg = (reg.t3 = reg.aux_stage)]
  /\ UNCHANGED <<request, busy, done, flag, pow, exponent>>

Branch ==
  /\ \/ match.pos /\ flag' = TRUE /\ Do("DEC_11_BRANCH", "DEC_13", reg)
     \/ /\ ~match.pos /\ match.neg
        /\ DoMul("DEC_11_BRANCH", "DEC_12", reg, reg.t8, SqrtM1) /\ UNCHANGED flag
     \/ /\ ~match.pos /\ ~match.neg
        /\ flag' = FALSE
        /\ Do("DEC_11_BRANCH", "DONE",
              [reg EXCEPT !.out_x = 0, !.out_y = 0, !.out_z = 0, !.out_t = 0])
  /\ Rest

OtherRoot == On("DEC_12", "DEC_13", [reg EXCEPT !.t8 = Product]) /\ flag' = TRUE /\ Rest

(* Mutant: the sign of the root is left as it comes out of the chain. *)
ChooseSignNever ==
  /\ Do("DEC_13", "DEC_13_AUX", [reg EXCEPT !.pipe_a = reg.t8, !.pipe_b = 0])
  /\ UNCHANGED <<request, busy, done, flag, match, pow, exponent>>

ChooseSign ==
  /\ Do("DEC_13", "DEC_13_AUX", [reg EXCEPT !.pipe_a = reg.t8, !.pipe_b = 0])
  /\ match' = [match EXCEPT !.negate = (reg.t8 % 2 # request.encoded.sign)]
  /\ UNCHANGED <<request, busy, done, flag, pow, exponent>>

ApplySign ==
  LET signed == IF match.negate THEN Neg(reg.pipe_a) ELSE reg.pipe_a
  IN  Do("DEC_13_AUX", "DEC_13_MUL", [reg EXCEPT !.t8 = signed, !.aux_stage = signed])
      /\ UNCHANGED flag /\ Rest
-----------------------------------------------------------------------------
(* The power chain. A phase squares a register some times, the first time   *)
(* from another register, and then multiplies: a times b into store.        *)
Phase(squares, from, run, a, b, store) ==
  [squares |-> squares, from |-> from, run |-> run, a |-> a, b |-> b, store |-> store]
Multiply(a, b, store) == Phase(0, a, b, a, b, store)

PowProgram ==
  << Multiply("input", "input", "value"),
     Multiply("value", "value", "t1"),
     Multiply("t1", "t1", "t1"),
     Multiply("input", "t1", "t1"),
     Multiply("value", "t1", "value"),
     Multiply("value", "value", "value"),
     Multiply("t1", "value", "value"),
     Phase(5, "value", "t1", "t1", "value", "value"),
     Phase(10, "value", "t1", "t1", "value", "t1"),
     Phase(20, "t1", "t2", "t2", "t1", "t1"),
     Phase(10, "t1", "t1", "t1", "value", "value"),
     Phase(50, "value", "t1", "t1", "value", "t1"),
     Phase(100, "t1", "t2", "t2", "t1", "t1"),
     Phase(50, "t1", "t1", "t1", "value", "value"),
     Phase(2, "value", "value", "value", "input", "value") >>

Current  == PowProgram[pow.phase]
Squaring == pow.left # 0                          (* pow_dispatch_is_square *)

(* The operands of the next multiplication: registers of the chain.         *)
Operands ==
  IF ~Squaring THEN <<Current.a, Current.b>>
  ELSE IF pow.left = Current.squares THEN <<Current.from, Current.from>>
  ELSE <<Current.run, Current.run>>
Target == IF Squaring THEN Current.run ELSE Current.store    (* pow_store_sel *)

PowBegin ==
  /\ On("DEC_7", "POW_DISPATCH",
        [reg EXCEPT !.pow_input = Product, !.pow_value = 0, !.pow_t1 = 0, !.pow_t2 = 0])
  /\ pow' = [phase |-> 1, left |-> 0]
  /\ exponent' = [NoExponent EXCEPT !["input"] = 1]
  /\ UNCHANGED <<request, busy, done, flag, match>>

PowDispatch ==
  /\ DoMul("POW_DISPATCH", "POW_WAIT", reg,
           reg[PowReg(Operands[1])], reg[PowReg(Operands[2])])
  /\ UNCHANGED flag /\ Rest

(* Mutant: the last squaring of a phase is not counted. *)
AfterPhaseOneMore(phase) == [phase |-> phase + 1, left |-> PowProgram[phase + 1].squares + 1]
AfterPhase(phase) == [phase |-> phase + 1, left |-> PowProgram[phase + 1].squares]

PowAnswer ==
  /\ exponent' = [exponent EXCEPT ![Target] =
                     (exponent[Operands[1]] + exponent[Operands[2]]) % ExponentModulus]
  /\ LET regs == [reg EXCEPT ![PowReg(Target)] = Product]
     IN  \/ /\ Squaring
            /\ On("POW_WAIT", "POW_DISPATCH", regs)
            /\ pow' = [pow EXCEPT !.left = @ - 1]
         \/ /\ ~Squaring /\ pow.phase < Len(PowProgram)
            /\ On("POW_WAIT", "POW_DISPATCH", regs)
            /\ pow' = AfterPhase(pow.phase)
         \/ /\ ~Squaring /\ pow.phase = Len(PowProgram)
            /\ On("POW_WAIT", "DEC_8", regs)
            /\ UNCHANGED pow
  /\ UNCHANGED <<request, busy, done, flag, match>>
-----------------------------------------------------------------------------
Work == \/ AddStep \/ DoubleStep \/ LastProduct \/ DecodeStep \/ Compare \/ Branch
        \/ OtherRoot \/ ChooseSign \/ ApplySign \/ PowBegin \/ PowDispatch \/ PowAnswer
        \/ Finish

(* The engine starts the unit when it is idle. *)
Offered == IF request = NoRequest THEN Requests
           ELSE IF request \in Later THEN Later ELSE {}

Next == (~busy /\ \E r \in Offered : Start(r)) \/ Settle \/ Work \/ Reset
Spec == Init /\ [][Next]_vars /\ WF_vars(Work)
-----------------------------------------------------------------------------
(* The curve, - x^2 + y^2 = 1 + d x^2 y^2, and its group law. *)
OnCurve(x, y) == (y * y - x * x - 1 - CurveD * (x * x * y * y)) % FieldP = 0

Represents(x, y, z, t, affine) ==
  /\ z % FieldP # 0
  /\ (affine[1] * z - x) % FieldP = 0
  /\ (affine[2] * z - y) % FieldP = 0
  /\ (t * z - x * y) % FieldP = 0

(* Coordinates that stand for a point of the curve.                         *)
IsPoint(point) ==
  \E c \in Field \X Field :
    OnCurve(c[1], c[2]) /\ Represents(point.x, point.y, point.z, point.t, c)

(* c to the power 2^n *)
Squared[n \in Nat] ==
  IF n = 0 THEN [c \in Field |-> c] ELSE [c \in Field |-> Squared[n - 1][(c * c) % FieldP]]
TenthPower(c) == (Squared[3][c] * Squared[1][c]) % FieldP

(* The engine adds and doubles points of the curve only. The prime is odd,  *)
(* the residues modulo it are a field, -1 has the root SqrtM1, CurveD has   *)
(* none, and c^(2^254 - 10) is 1 or - 1, Euler's criterion for the code's   *)
(* prime 2^255 - 19.                                                        *)
ASSUME CurveAssumption ==
  /\ FieldP % 2 = 1
  /\ \A a \in Field \ {0} : \E b \in Field : (a * b) % FieldP = 1
  /\ (SqrtM1 * SqrtM1) % FieldP = FieldP - 1
  /\ \A a \in Field : (a * a) % FieldP # CurveD
  /\ \A c \in Field \ {0} : Squared[254][c] \in {TenthPower(c), FieldP - TenthPower(c)}
  /\ \A r \in Requests :
       /\ r.op \in {"ADD", "DOUBLE"} => IsPoint(r.a)
       /\ r.op = "ADD" => IsPoint(r.b)

AffineOf(point) ==
  CHOOSE c \in Field \X Field : Represents(point.x, point.y, point.z, point.t, c)

(* The sum of two affine points: the complete addition law of the curve.    *)
SumOf(p, q) ==
  LET w == (CurveD * p[1] * q[1] * p[2] * q[2]) % FieldP
  IN  CHOOSE c \in Field \X Field :
        /\ (c[1] * (1 + w) - p[1] * q[2] - q[1] * p[2]) % FieldP = 0
        /\ (c[2] * (1 - w) - p[2] * q[2] - p[1] * q[1]) % FieldP = 0

Result(affine) == Represents(reg.out_x, reg.out_y, reg.out_z, reg.out_t, affine)

(* What the encoding stands for: the x on the curve with the sign asked     *)
(* for, or 0 whatever the sign.                                             *)
Roots(y) == { x \in Field : OnCurve(x, y) }
Decoded(encoded, x) == x \in Roots(encoded.y % FieldP) /\ (x = 0 \/ x % 2 = encoded.sign)

(* Registers hold canonical field elements: every reduction is complete.    *)
PointTypeOK ==
  /\ request = NoRequest \/ request \in Request
  /\ busy \in BOOLEAN /\ done \in BOOLEAN /\ flag \in BOOLEAN
  /\ reg \in [Reg -> Field]
  /\ fe = Nothing \/ fe \in Field \X Field
  /\ match \in [pos : BOOLEAN, neg : BOOLEAN, negate : BOOLEAN]
  /\ pow \in [phase : 1 .. Len(PowProgram), left : 0 .. 100]
  /\ exponent \in [Chain -> 0 .. ExponentModulus - 1]

Ended(op) == done /\ ~busy /\ request.op = op

(* The sum of the two points, in full and in mixed addition, and the double. *)
SumExact ==
  Ended("ADD") => flag /\ Result(SumOf(AffineOf(request.a), AffineOf(request.b)))

DoubleExact ==
  Ended("DOUBLE") => flag /\ Result(SumOf(AffineOf(request.a), AffineOf(request.a)))

(* A decoded point is the one the encoding stands for, *)
DecodeSound ==
  Ended("DECOMPRESS") /\ flag =>
    /\ reg.out_z = 1 /\ Decoded(request.encoded, reg.out_x)
    /\ Result(<<reg.out_x, request.encoded.y % FieldP>>)

(* and an encoding is refused only when it stands for none.                 *)
DecodeComplete ==
  Ended("DECOMPRESS") /\ ~flag =>
    Roots(request.encoded.y % FieldP) = {} /\ \A o \in Outputs : reg[o] = 0

(* When done is raised, the outputs are the operation's result, whatever    *)
(* operation ran before and wherever one was cut off.                       *)
PointExact == SumExact /\ DoubleExact /\ DecodeSound /\ DecodeComplete

(* 2^252 = ((2^28)^3)^3, and 2^28 = 268435456. *)
Cubed(n) == (((n * n) % ExponentModulus) * n) % ExponentModulus
TwoTo252 == Cubed(Cubed(268435456 % ExponentModulus))

(* The chain raises its input to (p - 5) / 8 = 2^252 - 3 for the code's own *)
(* prime 2^255 - 19, through 251 squarings and 11 products: no phase starts *)
(* from a stale register or squares once too often. Compared modulo         *)
(* ExponentModulus.                                                         *)
ChainExponent == step = "DEC_8" => exponent["value"] = (TwoTo252 - 3) % ExponentModulus

(* Liveness: every operation ends. No step waits for a product that nobody  *)
(* asked for, and the chain's counters run out.                             *)
EveryOperationEnds == busy ~> ~busy
=============================================================================
