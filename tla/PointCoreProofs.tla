--------------------------- MODULE PointCoreProofs --------------------------
(***************************************************************************)
(* The point core, for every prime, every curve and every sequence of      *)
(* operations and aborts: registers stay canonical, the power chain has    *)
(* the exponent of the code's prime, sums and doubles are those of the     *)
(* curve's group law, what decompression accepts is a point of the curve   *)
(* with the sign asked for, and it refuses an encoding only when no such   *)
(* point exists.                                                           *)
(***************************************************************************)
EXTENDS PointCore, WellFoundedInduction, TLAPS

Mul(a, b) == (a * b) % FieldP

AddSteps ==
  {"ADD_0", "ADD_1", "ADD_1_AUX", "ADD_1_MUL", "ADD_2", "ADD_3", "ADD_3_AUX", "ADD_3_MUL",
   "ADD_4", "ADD_5", "ADD_6", "ADD_7", "ADD_8", "ADD_9", "ADD_10", "ADD_11", "ADD_12",
   "ADD_13", "ADD_14", "ADD_15"}
DoubleSteps ==
  {"DBL_0", "DBL_1", "DBL_2", "DBL_3", "DBL_4", "DBL_4_AUX", "DBL_4_MUL", "DBL_5", "DBL_6",
   "DBL_7", "DBL_8", "DBL_9", "DBL_10", "DBL_11", "DBL_12", "DBL_13", "DBL_14", "DBL_15"}
PowSteps == {"POW_DISPATCH", "POW_WAIT"}
RootSteps ==
  {"DEC_3", "DEC_4", "DEC_5", "DEC_6", "DEC_7", "DEC_8", "DEC_9", "DEC_10", "DEC_11"}
           \cup PowSteps
SignSteps == {"DEC_13", "DEC_13_AUX", "DEC_13_MUL", "DEC_14"}
DecodeSteps ==
  {"DEC_1", "DEC_2", "DEC_2_AUX", "DEC_2_MUL", "DEC_11_COMPARE", "DEC_11_BRANCH", "DEC_12"}
    \cup RootSteps \cup SignSteps
Steps == AddSteps \cup DoubleSteps \cup DecodeSteps \cup {"IDLE", "DONE"}

(* The unit works for the operation that was asked for, with its operands.  *)
ControlInv ==
  /\ step \in Steps /\ (busy <=> step # "IDLE") /\ (done => ~busy)
  /\ busy \/ done => request \in Request /\ request \in Requests
  /\ step \in AddSteps => request.op = "ADD"
  /\ step \in DoubleSteps => request.op = "DOUBLE"
  /\ step \in DecodeSteps => request.op = "DECOMPRESS"

OperandInv ==
  busy =>
    /\ reg.px = request.a.x /\ reg.py = request.a.y /\ reg.pz = request.a.z
    /\ reg.pt = request.a.t
    /\ reg.qx = request.b.x /\ reg.qy = request.b.y /\ reg.qz = request.b.z
    /\ reg.qt = request.b.t

(* RFC 8032, addition: A to H of the operands p and q.                      *)
SumA(p, q) == Mul(Sub(p.y, p.x), Sub(q.y, q.x))
SumB(p, q) == Mul(Add(p.y, p.x), Add(q.y, q.x))
SumC(p, q) == Mul(Mul(p.t, q.t), (2 * CurveD) % FieldP)
SumZ(p, q) == IF q.z = 1 THEN p.z ELSE Mul(p.z, q.z)
SumD(p, q) == Add(SumZ(p, q), SumZ(p, q))
SumE(p, q) == Sub(SumB(p, q), SumA(p, q))
SumF(p, q) == Sub(SumD(p, q), SumC(p, q))
SumG(p, q) == Add(SumD(p, q), SumC(p, q))
SumH(p, q) == Add(SumB(p, q), SumA(p, q))

(* Which of them the registers and the multiplier hold at each step.        *)
AddAt(st, r, f, p, q) ==
  LET C == SumC(p, q)  E == SumE(p, q)  F == SumF(p, q)  G == SumG(p, q)  H == SumH(p, q)
  IN
  /\ st \in {"ADD_1", "ADD_1_AUX", "ADD_1_MUL"} => r.t8 = Sub(p.y, p.x)
  /\ st \in {"ADD_1_AUX", "ADD_3_AUX"} => r.pipe_a = q.y /\ r.pipe_b = q.x
  /\ st = "ADD_1_MUL" => r.aux_stage = Sub(q.y, q.x)
  /\ st = "ADD_2" => f = <<Sub(p.y, p.x), Sub(q.y, q.x)>>
  /\ st \in {"ADD_3", "ADD_3_AUX", "ADD_3_MUL"} => r.t8 = Add(p.y, p.x)
  /\ st = "ADD_3_MUL" => r.aux_stage = Add(q.y, q.x)
  /\ st = "ADD_4" => f = <<Add(p.y, p.x), Add(q.y, q.x)>>
  /\ st = "ADD_5" => f = <<p.t, q.t>>
  /\ st = "ADD_6" => f = <<Mul(p.t, q.t), (2 * CurveD) % FieldP>>
  /\ st = "ADD_7" => f = <<p.z, q.z>> /\ q.z # 1
  /\ st \in {"ADD_3", "ADD_3_AUX", "ADD_3_MUL", "ADD_4", "ADD_5", "ADD_6", "ADD_7", "ADD_8",
               "ADD_9", "ADD_10", "ADD_11"} => r.t0 = SumA(p, q)
  /\ st \in {"ADD_5", "ADD_6", "ADD_7", "ADD_8", "ADD_9", "ADD_10", "ADD_11"} =>
       r.t1 = SumB(p, q)
  /\ st \in {"ADD_7", "ADD_8", "ADD_9", "ADD_10"} => r.t2 = C
  /\ st = "ADD_8" => r.t3 = SumZ(p, q)
  /\ st \in {"ADD_9", "ADD_10"} => r.t8 = SumD(p, q)
  /\ st \in {"ADD_8", "ADD_9", "ADD_10", "ADD_11", "ADD_12", "ADD_13"} => r.t4 = E
  /\ st \in {"ADD_10", "ADD_11", "ADD_12", "ADD_13", "ADD_14"} => r.t5 = F
  /\ st \in {"ADD_11", "ADD_12", "ADD_13", "ADD_14"} => r.t6 = G
  /\ st \in {"ADD_12", "ADD_13"} => r.t7 = H
  /\ st = "ADD_12" => f = <<E, F>>
  /\ st = "ADD_13" => f = <<G, H>>
  /\ st = "ADD_14" => f = <<E, H>>
  /\ st = "ADD_15" => f = <<F, G>>
  /\ st \in {"ADD_13", "ADD_14", "ADD_15"} => r.out_x = Mul(E, F)
  /\ st \in {"ADD_14", "ADD_15"} => r.out_y = Mul(G, H)
  /\ st = "ADD_15" => r.out_t = Mul(E, H)

AddInv == AddAt(step, reg, fe, request.a, request.b)

(* Doubling, with F and H of the opposite sign.                             *)
DoubleA(p) == Mul(p.x, p.x)
DoubleB(p) == Mul(p.y, p.y)
DoubleC(p) == Add(Mul(p.z, p.z), Mul(p.z, p.z))
DoubleS(p) == Mul(Add(p.x, p.y), Add(p.x, p.y))
DoubleE(p) == Sub(Sub(DoubleS(p), DoubleA(p)), DoubleB(p))
DoubleG(p) == Sub(DoubleB(p), DoubleA(p))
DoubleF(p) == Sub(DoubleG(p), DoubleC(p))
DoubleH(p) == Neg(Add(DoubleA(p), DoubleB(p)))

DoubleAt(st, r, f, p) ==
  LET E == DoubleE(p)  F == DoubleF(p)  G == DoubleG(p)  H == DoubleH(p)
  IN
  /\ st = "DBL_1" => f = <<p.x, p.x>>
  /\ st = "DBL_2" => f = <<p.y, p.y>>
  /\ st = "DBL_3" => f = <<p.z, p.z>>
  /\ st = "DBL_4_AUX" => r.pipe_a = p.x /\ r.pipe_b = p.y
  /\ st = "DBL_4_MUL" => r.aux_stage = Add(p.x, p.y)
  /\ st = "DBL_5" => f = <<Add(p.x, p.y), Add(p.x, p.y)>>
  /\ st \in {"DBL_2", "DBL_3", "DBL_4", "DBL_4_AUX", "DBL_4_MUL", "DBL_5", "DBL_6", "DBL_7",
               "DBL_8", "DBL_9", "DBL_10"} => r.t0 = DoubleA(p)
  /\ st \in {"DBL_3", "DBL_4", "DBL_4_AUX", "DBL_4_MUL", "DBL_5", "DBL_6", "DBL_7", "DBL_8",
               "DBL_9", "DBL_10"} => r.t1 = DoubleB(p)
  /\ st \in {"DBL_4", "DBL_4_AUX", "DBL_4_MUL", "DBL_5", "DBL_6", "DBL_7", "DBL_8", "DBL_9"}
       => r.t2 = DoubleC(p)
  /\ st = "DBL_6" => r.t3 = DoubleS(p)
  /\ st = "DBL_7" => r.t4 = Sub(DoubleS(p), DoubleA(p))
  /\ st \in {"DBL_8", "DBL_9", "DBL_10", "DBL_11", "DBL_12", "DBL_13"} => r.t3 = E
  /\ st \in {"DBL_9", "DBL_10", "DBL_11", "DBL_12", "DBL_13", "DBL_14"} => r.t4 = G
  /\ st \in {"DBL_10", "DBL_11", "DBL_12", "DBL_13", "DBL_14"} => r.t5 = F
  /\ st = "DBL_11" => r.t6 = Add(DoubleA(p), DoubleB(p))
  /\ st \in {"DBL_12", "DBL_13"} => r.t7 = H
  /\ st = "DBL_12" => f = <<E, F>>
  /\ st = "DBL_13" => f = <<G, H>>
  /\ st = "DBL_14" => f = <<E, H>>
  /\ st = "DBL_15" => f = <<F, G>>
  /\ st \in {"DBL_13", "DBL_14", "DBL_15"} => r.out_x = Mul(E, F)
  /\ st \in {"DBL_14", "DBL_15"} => r.out_y = Mul(G, H)
  /\ st = "DBL_15" => r.out_t = Mul(E, H)

DoubleInv == DoubleAt(step, reg, fe, request.a)

(* Decompression: x with v x^2 = u, where u = y^2 - 1 and v = d y^2 + 1.    *)
U(y) == Sub(Mul(y, y), 1)
V(y) == Add(Mul(Mul(y, y), CurveD), 1)
Scaled(y, x) == Mul(V(y), Mul(x, x))
Root(y, x) == Scaled(y, x) = U(y)
SignedRoot(y, x, sign) == Root(y, x) /\ (x = 0 \/ x % 2 = sign)

DecodeAt(st, r, f, m, y, sign) ==
  /\ st \in DecodeSteps => r.t0 = y
  /\ st = "DEC_1" => f = <<y, y>>
  /\ st = "DEC_2" => f = <<Mul(y, y), CurveD>>
  /\ st = "DEC_2_AUX" => r.pipe_a = Mul(Mul(y, y), CurveD) /\ r.pipe_b = 1
  /\ st \in {"DEC_2", "DEC_2_AUX", "DEC_2_MUL", "DEC_11_COMPARE", "DEC_11_BRANCH"} \cup RootSteps
       => r.t2 = U(y)
  /\ st \in {"DEC_2_MUL"} \cup RootSteps => r.t3 = V(y)
  /\ st = "DEC_10" => f = <<r.t8, r.t8>>
  /\ st = "DEC_11" => f = <<V(y), Mul(r.t8, r.t8)>>
  /\ st \in {"DEC_11_COMPARE", "DEC_11_BRANCH"} => r.t3 = Scaled(y, r.t8)
  /\ st = "DEC_11_COMPARE" => r.aux_stage = Neg(U(y))
  /\ st = "DEC_11_BRANCH" =>
       /\ m.pos => Root(y, r.t8)
       /\ m.neg => Scaled(y, r.t8) = Neg(U(y))
  /\ st = "DEC_12" => Scaled(y, r.t8) = Neg(U(y)) /\ f = <<r.t8, SqrtM1>>
  /\ st \in SignSteps => Root(y, r.t8)
  /\ st = "DEC_13_AUX" =>
       r.pipe_a = r.t8 /\ (m.negate <=> r.t8 % 2 # sign)
  /\ st \in {"DEC_13_MUL", "DEC_14"} => SignedRoot(y, r.t8, sign)
  /\ st = "DEC_13_MUL" => r.aux_stage = r.t8
  /\ st = "DEC_14" => f = <<r.t8, y>>

DecodeInv ==
  /\ DecodeAt(step, reg, fe, match, Canonical(request.encoded.y), request.encoded.sign)
  /\ step \in SignSteps => flag

(* The outputs of each operation.                                           *)
Output(x, y, z, t) == reg.out_x = x /\ reg.out_y = y /\ reg.out_z = z /\ reg.out_t = t

SumOutput ==
  LET p == request.a  q == request.b
      E == SumE(p, q)  F == SumF(p, q)  G == SumG(p, q)  H == SumH(p, q)
  IN  flag /\ Output(Mul(E, F), Mul(G, H), Mul(F, G), Mul(E, H))

DoubleOutput ==
  LET p == request.a
      E == DoubleE(p)  F == DoubleF(p)  G == DoubleG(p)  H == DoubleH(p)
  IN  flag /\ Output(Mul(E, F), Mul(G, H), Mul(F, G), Mul(E, H))

DecodeOutput ==
  LET y == Canonical(request.encoded.y)  x == reg.out_x IN
  \/ flag /\ SignedRoot(y, x, request.encoded.sign) /\ Output(x, y, 1, Mul(x, y))
  \/ ~flag /\ Output(0, 0, 0, 0)

OutputInv ==
  step = "DONE" \/ done =>
    /\ request.op = "ADD" => SumOutput
    /\ request.op = "DOUBLE" => DoubleOutput
    /\ request.op = "DECOMPRESS" => DecodeOutput

(* 2^n *)
Two[n \in Nat] == IF n = 0 THEN 1 ELSE 2 * Two[n - 1]
Ones(n) == Two[n] - 1

(* The powers of its input that value, t1 and t2 hold when each phase of    *)
(* the chain begins, and when the last has ended.                           *)
ValueBegins ==
  <<0, 2, 2, 2, 2, 11, 22, Ones(5), Ones(10), Ones(10), Ones(10), Ones(50), Ones(50), Ones(50),
    Ones(250), Two[252] - 3>>
T1Begins ==
  <<0, 0, 4, 8, 9, 9, 9, 9, Ones(5) * Two[5], Ones(20), Ones(40), Ones(40) * Two[10],
    Ones(100), Ones(200), Ones(200) * Two[50], Ones(200) * Two[50]>>
T2Begins ==
  <<0, 0, 0, 0, 0, 0, 0, 0, 0, 0, Ones(20) * Two[20], Ones(20) * Two[20], Ones(20) * Two[20],
    Ones(100) * Two[100], Ones(100) * Two[100], Ones(100) * Two[100]>>
Begins(phase, c) ==
  CASE c = "input" -> 1           [] c = "value" -> ValueBegins[phase]
    [] c = "t1" -> T1Begins[phase] [] c = "t2" -> T2Begins[phase]

(* And after k squarings of a phase.                                        *)
Chained(phase, k, c) ==
  IF k # 0 /\ c = PowProgram[phase].run
  THEN Begins(phase, PowProgram[phase].from) * Two[k] ELSE Begins(phase, c)

Now(c) == Chained(pow.phase, Current.squares - pow.left, c)

ChainInv ==
  /\ step \in PowSteps =>
       /\ pow.left <= Current.squares
       /\ \A c \in Chain :
            exponent[c] = Now(c) % ExponentModulus
  /\ step = "DEC_8" => exponent["value"] = (Two[252] - 3) % ExponentModulus

PointInv ==
  /\ PointTypeOK /\ ControlInv /\ OperandInv
  /\ AddInv /\ DoubleInv /\ DecodeInv /\ ChainInv /\ OutputInv
-----------------------------------------------------------------------------
(* Induction over a set of numbers: a set with zero and with the successor  *)
(* of each of its members has every number.                                 *)
LEMMA SetInduction ==
  ASSUME NEW S, 0 \in S, \A n \in Nat : n \in S => n + 1 \in S
  PROVE  \A n \in Nat : n \in S
<1> DEFINE R == {p \in Nat \X Nat : p[1] < p[2]}
<1>1. IsWellFoundedOn(R, Nat)
  <2>1. OpToRel(<, Nat) = R
    BY DEF OpToRel
  <2> QED BY <2>1, NatLessThanWellFounded
<1>2. SUFFICES ASSUME Nat \ S # {} PROVE FALSE
  OBVIOUS
<1> HIDE DEF R
<1>3. PICK m \in Nat \ S : \A k \in Nat \ S : ~(<<k, m>> \in R)
  BY <1>1, <1>2, WFMin
<1>4. m \in Nat /\ m # 0 /\ m \notin S
  OBVIOUS
<1>5. m - 1 \in Nat /\ <<m - 1, m>> \in R
  BY <1>4 DEF R
<1>6. m - 1 \in S
  BY <1>3, <1>5
<1>7. (m - 1) + 1 \in S
  BY <1>5, <1>6
<1> QED BY <1>4, <1>7

(* What a recursive function of this project computes: its first value and  *)
(* every other from the one before. grow[n] takes value n to value n + 1.   *)
Follows(f, first, grow, n) ==
  f[0] = first /\ \A m \in 0 .. n - 1 : f[m + 1] = grow[m][f[m]]

(* Such functions exist up to every n, *)
LEMMA FollowsExist ==
  ASSUME NEW Values, NEW first \in Values, NEW grow \in [Nat -> [Values -> Values]]
  PROVE  \A n \in Nat : \E f \in [Nat -> Values] : Follows(f, first, grow, n)
<1> DEFINE S == {n \in Nat : \E f \in [Nat -> Values] : Follows(f, first, grow, n)}
<1>1. 0 \in S
  <2> DEFINE f == [n \in Nat |-> first]
  <2>1. f \in [Nat -> Values] /\ f[0] = first
    OBVIOUS
  <2> HIDE DEF f
  <2>2. Follows(f, first, grow, 0)
    BY <2>1 DEF Follows
  <2> QED BY <2>1, <2>2
<1>2. ASSUME NEW n \in Nat, n \in S PROVE n + 1 \in S
  <2>1. PICK f \in [Nat -> Values] : Follows(f, first, grow, n)
    BY <1>2
  <2> DEFINE g == [f EXCEPT ![n + 1] = grow[n][f[n]]]
  <2>2. grow[n] \in [Values -> Values] /\ f[n] \in Values
    OBVIOUS
  <2>3. grow[n][f[n]] \in Values
    BY <2>2
  <2>4. g \in [Nat -> Values] /\ g[n + 1] = grow[n][f[n]] /\ \A m \in 0 .. n : g[m] = f[m]
    BY <2>3
  <2> HIDE DEF g
  <2>5. ASSUME NEW m \in 0 .. (n + 1) - 1 PROVE g[m + 1] = grow[m][g[m]]
    <3>1. m \in 0 .. n /\ g[m] = f[m]
      BY <2>4
    <3>2. CASE m = n
      BY <2>4, <3>1, <3>2
    <3>3. CASE m # n
      <4>1. m \in 0 .. n - 1 /\ m + 1 \in 0 .. n
        BY <3>3
      <4> QED BY <2>1, <2>4, <3>1, <4>1 DEF Follows
    <3> QED BY <3>2, <3>3
  <2>6. g[0] = first
    BY <2>1, <2>4 DEF Follows
  <2>7. Follows(g, first, grow, n + 1)
    BY <2>5, <2>6 DEF Follows
  <2> QED BY <2>4, <2>7
<1> HIDE DEF S
<1>3. \A n \in Nat : n \in S
  BY <1>1, <1>2, SetInduction
<1> QED BY <1>3 DEF S

(* and agree where they overlap.                                            *)
LEMMA FollowsAgree ==
  ASSUME NEW first, NEW grow, NEW p \in Nat, NEW q \in Nat, NEW f, NEW h,
         Follows(f, first, grow, p), Follows(h, first, grow, q)
  PROVE  \A m \in Nat : m <= p /\ m <= q => f[m] = h[m]
<1> DEFINE S == {m \in Nat : m <= p /\ m <= q => f[m] = h[m]}
<1>1. 0 \in S
  BY DEF Follows
<1>2. ASSUME NEW n \in Nat, n \in S PROVE n + 1 \in S
  <2> SUFFICES ASSUME n + 1 <= p, n + 1 <= q PROVE f[n + 1] = h[n + 1]
    OBVIOUS
  <2>1. f[n] = h[n]
    BY <1>2
  <2>2. n \in 0 .. p - 1 /\ n \in 0 .. q - 1
    OBVIOUS
  <2> QED BY <2>1, <2>2 DEF Follows
<1> HIDE DEF S
<1>3. \A n \in Nat : n \in S
  BY <1>1, <1>2, SetInduction
<1> QED BY <1>3 DEF S

(* One function does it for all n: the recursive definition has a value.    *)
Recursive(f, first, grow) ==
  f = [n \in Nat |-> IF n = 0 THEN first ELSE grow[n - 1][f[n - 1]]]

(* For a first value and a step on a set Values, such a function into Values exists.  *)
LEMMA Recursion ==
  ASSUME NEW Values, NEW first \in Values, NEW grow \in [Nat -> [Values -> Values]]
  PROVE  \E f \in [Nat -> Values] : Recursive(f, first, grow)
<1> DEFINE Any(n) == CHOOSE f \in [Nat -> Values] : Follows(f, first, grow, n)
           g == [n \in Nat |-> Any(n)[n]]
<1>1. \A n \in Nat : Any(n) \in [Nat -> Values] /\ Follows(Any(n), first, grow, n)
  BY FollowsExist
<1> HIDE DEF Any
<1>2. g \in [Nat -> Values] /\ \A n \in Nat : g[n] = Any(n)[n]
  BY <1>1
<1>3. ASSUME NEW n \in Nat
      PROVE  g[n] = IF n = 0 THEN first ELSE grow[n - 1][g[n - 1]]
  <2> HIDE DEF g
  <2>1. CASE n = 0
    BY <1>1, <1>2, <2>1 DEF Follows
  <2>2. CASE n # 0
    <3>1. n - 1 \in Nat /\ n - 1 \in 0 .. n - 1 /\ (n - 1) + 1 = n
      BY <2>2
    <3>2. Any(n)[n] = grow[n - 1][Any(n)[n - 1]]
      BY <1>1, <3>1 DEF Follows
    <3>3. Any(n)[n - 1] = Any(n - 1)[n - 1]
      BY <1>1, <3>1, FollowsAgree
    <3> QED BY <1>2, <2>2, <3>1, <3>2, <3>3
  <2> QED BY <2>1, <2>2
<1>4. Recursive(g, first, grow)
  BY <1>3 DEF Recursive
<1> HIDE DEF g
<1> QED BY <1>2, <1>4

-----------------------------------------------------------------------------
(* Powers of two. *)
LEMMA TwoValues ==
  /\ Two \in [Nat -> Nat] /\ Two[0] = 1
  /\ \A n \in Nat : Two[n + 1] = 2 * Two[n]
<1> DEFINE Values == Nat
           grow == [n \in Nat |-> [x \in Nat |-> 2 * x]]
           G(f) == [n \in Nat |-> IF n = 0 THEN 1 ELSE 2 * f[n - 1]]
           S == {n \in Nat : Two[n] \in Nat}
<1>1. grow \in [Nat -> [Values -> Values]] /\ 1 \in Values
  OBVIOUS
<1>2. PICK g \in [Nat -> Values] : Recursive(g, 1, grow)
  <2> HIDE DEF grow, Values
  <2> QED BY <1>1, Recursion
<1>3. ASSUME NEW n \in Nat, n # 0 PROVE grow[n - 1][g[n - 1]] = 2 * g[n - 1]
  <2>1. n - 1 \in Nat /\ g[n - 1] \in Nat
    BY <1>3
  <2> QED BY <2>1
<1> HIDE DEF grow
<1>4. g = G(g)
  BY <1>2, <1>3 DEF Recursive
<1>5. Two = G(Two)
  BY <1>4 DEF Two
<1>6. Two[0] = 1 /\ \A n \in Nat : Two[n + 1] = 2 * Two[n]
  <2>1. \A n \in Nat : Two[n] = IF n = 0 THEN 1 ELSE 2 * Two[n - 1]
    BY <1>5
  <2>2. \A n \in Nat : n + 1 \in Nat /\ n + 1 # 0 /\ (n + 1) - 1 = n
    OBVIOUS
  <2> QED BY <2>1, <2>2
<1>7. 0 \in S
  BY <1>6
<1>8. \A n \in Nat : n \in S => n + 1 \in S
  BY <1>6
<1>9. \A n \in Nat : n \in S
  <2> HIDE DEF S
  <2> QED BY <1>7, <1>8, SetInduction
<1> QED BY <1>5, <1>6, <1>9

(* They multiply by adding exponents, and double with them.                 *)
LEMMA TwoSum ==
  ASSUME NEW m \in Nat
  PROVE  \A n \in Nat : Two[m + n] = Two[m] * Two[n]
<1> DEFINE S == {n \in Nat : Two[m + n] = Two[m] * Two[n]}
<1>1. 0 \in S
  BY TwoValues
<1>2. ASSUME NEW n \in Nat, n \in S PROVE n + 1 \in S
  <2>1. Two[(m + n) + 1] = 2 * Two[m + n] /\ Two[n + 1] = 2 * Two[n]
    BY TwoValues
  <2>2. Two[m] \in Nat /\ Two[n] \in Nat /\ (m + n) + 1 = m + (n + 1)
    BY TwoValues
  <2>3. Two[m + n] = Two[m] * Two[n]
    BY <1>2
  <2> QED BY <2>1, <2>2, <2>3
<1> HIDE DEF S
<1>3. \A n \in Nat : n \in S
  BY <1>1, <1>2, SetInduction
<1> QED BY <1>3 DEF S

(* Remainders of sums and products.                                         *)
LEMMA DivMod ==
  ASSUME NEW n \in Int, NEW d \in Nat, d > 0
  PROVE  n % d \in 0 .. d - 1 /\ n \div d \in Int /\ n = d * (n \div d) + (n % d)
OBVIOUS

(* A remainder is the only one in its range,                                *)
LEMMA ModUnique ==
  ASSUME NEW d \in Nat, NEW x \in 0 .. d - 1, NEW k \in Int
  PROVE  (x + k * d) % d = x
OBVIOUS

(* multiples of the divisor do not change it,                               *)
LEMMA ModShift ==
  ASSUME NEW a \in Int, NEW k \in Int, NEW d \in Nat, d > 0
  PROVE  (a + k * d) % d = a % d
<1> DEFINE q == a \div d
           x == a % d
<1>1. x \in 0 .. d - 1 /\ q \in Int /\ a = d * q + x
  BY DivMod
<1> HIDE DEF q, x
<1>2. a + k * d = x + (q + k) * d
  BY <1>1
<1>3. (x + (q + k) * d) % d = x
  BY <1>1, ModUnique
<1> QED BY <1>2, <1>3 DEF x

(* and sums and products may be reduced before or after.                    *)
LEMMA ModSum ==
  ASSUME NEW a \in Int, NEW b \in Int, NEW d \in Nat, d > 0
  PROVE  ((a % d) + (b % d)) % d = (a + b) % d
<1> DEFINE q == a \div d
           x == a % d
           r == b \div d
           y == b % d
<1>1. x \in 0 .. d - 1 /\ q \in Int /\ a = d * q + x
  BY DivMod
<1>2. y \in 0 .. d - 1 /\ r \in Int /\ b = d * r + y
  BY DivMod
<1> HIDE DEF q, x, r, y
<1>3. a + b = (x + y) + (q + r) * d /\ x + y \in Int /\ q + r \in Int
  BY <1>1, <1>2
<1>4. ((x + y) + (q + r) * d) % d = (x + y) % d
  BY <1>3, ModShift
<1> QED BY <1>3, <1>4 DEF x, y

(* A product with one factor reduced,                                       *)
LEMMA ModTimes ==
  ASSUME NEW a \in Int, NEW b \in Int, NEW d \in Nat, d > 0
  PROVE  ((a % d) * b) % d = (a * b) % d
<1> DEFINE q == a \div d
           x == a % d
<1>1. x \in 0 .. d - 1 /\ q \in Int /\ a = d * q + x
  BY DivMod
<1> HIDE DEF q, x
<1>2. a * b = x * b + (q * b) * d /\ x * b \in Int /\ q * b \in Int
  BY <1>1
<1>3. (x * b + (q * b) * d) % d = (x * b) % d
  BY <1>2, ModShift
<1> QED BY <1>2, <1>3 DEF x

(* and with both.                                                           *)
LEMMA ModProduct ==
  ASSUME NEW a \in Int, NEW b \in Int, NEW d \in Nat, d > 0
  PROVE  ((a % d) * (b % d)) % d = (a * b) % d
<1> DEFINE x == a % d
           y == b % d
<1>1. x \in 0 .. d - 1 /\ y \in 0 .. d - 1
  BY DivMod
<1>2. (x * b) % d = (a * b) % d
  BY ModTimes
<1>3. x \in Int /\ y \in Int
  BY <1>1
<1> HIDE DEF x
<1>4. (y * x) % d = (b * x) % d
  BY <1>3, ModTimes
<1> HIDE DEF y
<1>5. y * x = x * y /\ b * x = x * b
  BY <1>3
<1> QED BY <1>2, <1>4, <1>5 DEF x, y
-----------------------------------------------------------------------------
(* The registers hold canonical elements. *)
LEMMA FieldFacts ==
  /\ FieldRadix \in Nat /\ FieldC \in Nat /\ FieldP \in Nat /\ FieldP > 1 /\ FieldC < FieldP
  /\ FieldRadix = FieldP + FieldC /\ Field = 0 .. FieldP - 1 /\ 0 \in Field /\ 1 \in Field
  /\ CurveD \in Field /\ SqrtM1 \in Field /\ (2 * CurveD) % FieldP \in Field
BY PointAssumption DEF FieldP, Field

(* The adder subtracts the prime at most once,                              *)
LEMMA AddValue ==
  ASSUME NEW a \in Field, NEW b \in Field
  PROVE  Add(a, b) \in Field /\ (Add(a, b) = a + b \/ Add(a, b) = a + b - FieldP)
BY FieldFacts DEF Add, Trim

(* the subtracter adds it at most once,                                     *)
LEMMA SubValue ==
  ASSUME NEW a \in Field, NEW b \in Field
  PROVE  Sub(a, b) \in Field /\ (Sub(a, b) = a - b \/ Sub(a, b) = a - b + FieldP)
BY FieldFacts DEF Sub, Trim

(* and a negative is its distance from the prime, 0 for 0.                  *)
LEMMA NegValue ==
  ASSUME NEW a \in Field
  PROVE  Neg(a) \in Field /\ Neg(a) = IF a = 0 THEN 0 ELSE FieldP - a
BY FieldFacts DEF Neg, Trim

(* A 255-bit number is reduced by one subtraction.                          *)
LEMMA CanonicalValue ==
  ASSUME NEW y \in Raw
  PROVE  Canonical(y) \in Field /\ (Canonical(y) = y \/ Canonical(y) = y - FieldP)
BY FieldFacts DEF Canonical, Trim, Raw

(* A product is an element,                                                 *)
LEMMA MulValue ==
  ASSUME NEW a \in Field, NEW b \in Field
  PROVE  Mul(a, b) \in Field
BY FieldFacts DEF Mul
(* and the multiplier answers the product of its operands.                  *)
LEMMA ProductValue ==
  ASSUME fe \in Field \X Field
  PROVE  Product \in Field /\ Product = Mul(fe[1], fe[2])
BY MulValue DEF Product, Mul

(* The names of the registers.                                              *)
LEMMA Names ==
  /\ {"px", "py", "pz", "pt", "qx", "qy", "qz", "qt", "t0", "t1", "t2", "t3", "t4", "t5",
      "t6", "t7", "t8", "aux_stage", "pipe_a", "pipe_b", "pow_input", "pow_value",
      "pow_t1", "pow_t2", "out_x", "out_y", "out_z", "out_t"} = Reg
  /\ Outputs \subseteq Reg
BY DEF Reg, Inputs, Scratch, Pipe, PowRegs, Outputs

(* Sums, differences, negatives and products of field elements are such.    *)
LEMMA Closed ==
  \A a, b \in Field :
    Add(a, b) \in Field /\ Sub(a, b) \in Field /\ Neg(a) \in Field /\ Mul(a, b) \in Field
BY AddValue, SubValue, NegValue, MulValue

(* Arithmetic modulo the prime. *)
Same(a, b) == \E k \in Int : a = b + k * FieldP

(* A remainder is congruent to its number.                                  *)
LEMMA SameMod ==
  ASSUME NEW a \in Int
  PROVE  a % FieldP \in Field /\ Same(a % FieldP, a)
<1>1. FieldP \in Nat /\ FieldP > 1 /\ Field = 0 .. FieldP - 1
  BY FieldFacts
<1>2. a = FieldP * (a \div FieldP) + (a % FieldP) /\ a \div FieldP \in Int /\ a % FieldP \in Field
  BY <1>1, DivMod
<1>3. a % FieldP = a + (0 - (a \div FieldP)) * FieldP
  BY <1>1, <1>2
<1> QED BY <1>2, <1>3 DEF Same

(* Congruence is an equivalence that sums, differences and products keep.   *)
LEMMA SameItself ==
  ASSUME NEW a \in Int
  PROVE  Same(a, a)
<1>1. a = a + 0 * FieldP
  BY FieldFacts
<1> QED BY <1>1 DEF Same

(* Symmetric,                                                               *)
LEMMA SameBack ==
  ASSUME NEW a \in Int, NEW b \in Int, Same(a, b)
  PROVE  Same(b, a)
<1>1. PICK k \in Int : a = b + k * FieldP
  BY DEF Same
<1>2. b = a + (0 - k) * FieldP
  BY <1>1, FieldFacts
<1> QED BY <1>2 DEF Same

(* transitive,                                                              *)
LEMMA SameOn ==
  ASSUME NEW a \in Int, NEW b \in Int, NEW c \in Int, Same(a, b), Same(b, c)
  PROVE  Same(a, c)
<1>1. PICK k \in Int : a = b + k * FieldP
  BY DEF Same
<1>2. PICK l \in Int : b = c + l * FieldP
  BY DEF Same
<1>3. a = c + (k + l) * FieldP
  BY <1>1, <1>2, FieldFacts
<1> QED BY <1>3 DEF Same

(* kept by sums, differences and products,                                  *)
LEMMA SameTerms ==
  ASSUME NEW a \in Int, NEW b \in Int, NEW c \in Int, NEW d \in Int, Same(a, b), Same(c, d)
  PROVE  Same(a + c, b + d) /\ Same(a - c, b - d) /\ Same(a * c, b * d)
<1>1. PICK k \in Int : a = b + k * FieldP
  BY DEF Same
<1>2. PICK l \in Int : c = d + l * FieldP
  BY DEF Same
<1>3. a + c = b + d + (k + l) * FieldP
  BY <1>1, <1>2, FieldFacts
<1>4. a - c = b - d + (k - l) * FieldP
  BY <1>1, <1>2, FieldFacts
<1>5. a * c = b * d + (b * l + k * d + (k * l) * FieldP) * FieldP
  BY <1>1, <1>2, FieldFacts
<1>6. k + l \in Int /\ k - l \in Int /\ b * l + k * d + (k * l) * FieldP \in Int
  BY FieldFacts
<1> QED BY <1>3, <1>4, <1>5, <1>6 DEF Same

(* and by those with one term in common.                                    *)
LEMMA SameBeside ==
  ASSUME NEW a \in Int, NEW b \in Int, NEW c \in Int, Same(a, b)
  PROVE  /\ Same(c + a, c + b) /\ Same(a + c, b + c) /\ Same(c * a, c * b) /\ Same(a * c, b * c)
         /\ Same(c - a, c - b) /\ Same(a - c, b - c)
<1>1. Same(c, c)
  BY SameItself
<1> QED BY <1>1, SameTerms

(* Congruent elements are equal.                                            *)
LEMMA SameElement ==
  ASSUME NEW a \in Field, NEW b \in Field, Same(a, b)
  PROVE  a = b
<1>1. PICK k \in Int : a = b + k * FieldP
  BY DEF Same
<1>2. k = 0
  BY <1>1, FieldFacts
<1> QED BY <1>1, <1>2, FieldFacts

(* The remainder 0 is congruence to 0.                                      *)
LEMMA SameZero ==
  ASSUME NEW a \in Int
  PROVE  a % FieldP = 0 <=> Same(a, 0)
<1>1. a % FieldP \in Field /\ Same(a % FieldP, a)
  BY SameMod
<1>2. a % FieldP \in Int /\ 0 \in Field /\ 0 \in Int
  BY <1>1, FieldFacts
<1>3. ASSUME Same(a, 0) PROVE a % FieldP = 0
  BY <1>1, <1>2, <1>3, SameOn, SameElement
<1>4. ASSUME a % FieldP = 0 PROVE Same(a, 0)
  BY <1>1, <1>2, <1>4, SameBack
<1> QED BY <1>3, <1>4

(* The unit's operations are those of the field.                            *)
LEMMA SameOperations ==
  ASSUME NEW a \in Field, NEW b \in Field
  PROVE  /\ Same(Add(a, b), a + b) /\ Same(Sub(a, b), a - b)
         /\ Same(Neg(a), 0 - a) /\ Same(Mul(a, b), a * b)
<1>1. a \in Int /\ b \in Int /\ FieldP \in Nat
  BY FieldFacts
<1>2. a + b = a + b + 0 * FieldP /\ a + b - FieldP = a + b + (0 - 1) * FieldP
  BY <1>1
<1>3. Same(Add(a, b), a + b)
  BY <1>2, AddValue DEF Same
<1>4. a - b = a - b + 0 * FieldP /\ a - b + FieldP = a - b + 1 * FieldP
  BY <1>1
<1>5. Same(Sub(a, b), a - b)
  BY <1>4, SubValue DEF Same
<1>6. (a = 0 => 0 = 0 - a + 0 * FieldP) /\ FieldP - a = 0 - a + 1 * FieldP
  BY <1>1
<1>7. Same(Neg(a), 0 - a)
  BY <1>6, NegValue DEF Same
<1>8. Same(Mul(a, b), a * b)
  BY <1>1, SameMod DEF Mul
<1> QED BY <1>3, <1>5, <1>7, <1>8

(* The product of elements, for numbers congruent to them.                  *)
LEMMA SameMul ==
  ASSUME NEW a \in Field, NEW b \in Field, NEW c \in Int, NEW d \in Int,
         Same(a, c), Same(b, d)
  PROVE  Same(Mul(a, b), c * d)
<1>1. a \in Int /\ b \in Int /\ Mul(a, b) \in Int
  BY MulValue, FieldFacts
<1>2. Same(Mul(a, b), a * b) /\ Same(a * b, c * d)
  BY <1>1, SameOperations, SameTerms
<1> QED BY <1>1, <1>2, SameOn

(* Times the root of -1, a root of the wrong sign is right.                 *)
LEMMA OtherRootRight ==
  ASSUME NEW y \in Field, NEW x \in Field, Scaled(y, x) = Neg(U(y))
  PROVE  Mul(x, SqrtM1) \in Field /\ Root(y, Mul(x, SqrtM1))
<1> DEFINE s == SqrtM1
           w == Mul(x, s)
<1>1. /\ s \in Field /\ w \in Field /\ U(y) \in Field /\ V(y) \in Field
      /\ Mul(x, x) \in Field /\ Mul(w, w) \in Field /\ Scaled(y, x) \in Field
      /\ Scaled(y, w) \in Field /\ Neg(U(y)) \in Field
  BY FieldFacts, Closed DEF U, V, Scaled
<1>2. \A e \in Field : e \in Int
  BY FieldFacts
<1>3. Same(s * s, 0 - 1)
  <2>1. (s * s) % FieldP = FieldP - 1 /\ s * s \in Int /\ FieldP \in Int
    BY <1>1, <1>2, CurveAssumption, FieldFacts
  <2>2. Same(FieldP - 1, s * s)
    BY <2>1, SameMod
  <2>3. FieldP - 1 = 0 - 1 + 1 * FieldP
    BY <2>1
  <2>4. Same(FieldP - 1, 0 - 1)
    BY <2>3 DEF Same
  <2> QED BY <2>1, <2>2, <2>4, SameBack, SameOn
<1>4. Same(w, x * s) /\ Same(Mul(x, x), x * x)
  BY <1>1, SameOperations
<1>5. x * s \in Int /\ (x * s) * (x * s) \in Int /\ x * x \in Int
  BY <1>1, <1>2
<1>6. Same(Mul(w, w), (x * s) * (x * s)) /\ Same(V(y), V(y))
  BY <1>1, <1>2, <1>4, <1>5, SameMul, SameItself
<1>7. Same(Scaled(y, w), V(y) * ((x * s) * (x * s)))
  BY <1>1, <1>2, <1>5, <1>6, SameMul DEF Scaled
<1>8. Same(Scaled(y, x), V(y) * (x * x)) /\ Same(Scaled(y, x), 0 - U(y))
  BY <1>1, <1>2, <1>4, <1>5, <1>6, SameMul, SameOperations DEF Scaled
<1>9. Same(V(y) * (x * x), 0 - U(y))
  BY <1>1, <1>2, <1>5, <1>8, SameBack, SameOn
<1>10. Same((V(y) * (x * x)) * (s * s), (0 - U(y)) * (0 - 1))
  BY <1>1, <1>2, <1>3, <1>5, <1>9, SameTerms
<1>11. /\ (V(y) * (x * x)) * (s * s) = V(y) * ((x * s) * (x * s))
       /\ (0 - U(y)) * (0 - 1) = U(y)
  BY <1>1, <1>2
<1>12. Same(Scaled(y, w), U(y))
  BY <1>1, <1>2, <1>5, <1>7, <1>10, <1>11, SameOn
<1> QED BY <1>1, <1>12, SameElement DEF Root

(* The negative of a root is a root, of the other sign.                     *)
LEMMA NegatedRoot ==
  ASSUME NEW y \in Field, NEW x \in Field, Root(y, x)
  PROVE  Neg(x) \in Field /\ Root(y, Neg(x))
<1>1. \A e \in Field : e \in Int
  BY FieldFacts
<1>2. /\ Neg(x) \in Field /\ Mul(x, x) \in Field /\ Mul(Neg(x), Neg(x)) \in Field
      /\ x \in Int /\ Neg(x) \in Int
  BY <1>1, Closed
<1>3. Same(Neg(x), 0 - x) /\ Same(Mul(x, x), x * x)
  BY SameOperations
<1>4. Same(Mul(Neg(x), Neg(x)), (0 - x) * (0 - x)) /\ (0 - x) * (0 - x) = x * x
  BY <1>2, <1>3, SameMul
<1>5. Mul(x, x) \in Int /\ Mul(Neg(x), Neg(x)) \in Int /\ x * x \in Int
  BY <1>2, FieldFacts
<1>6. Mul(Neg(x), Neg(x)) = Mul(x, x)
  BY <1>2, <1>3, <1>4, <1>5, SameBack, SameOn, SameElement
<1> QED BY <1>2, <1>6 DEF Root, Scaled

(* The prime is odd: an element and its negative differ in their last bit.  *)
LEMMA NegatedSign ==
  ASSUME NEW x \in Field, NEW sign \in {0, 1}, x # 0, x % 2 # sign
  PROVE  Neg(x) % 2 = sign
<1>1. Neg(x) = FieldP - x /\ x \in Int /\ FieldP \in Int /\ FieldP % 2 = 1
  BY NegValue, FieldFacts, CurveAssumption
<1>2. x % 2 \in {0, 1}
  BY <1>1
<1> QED BY <1>1, <1>2
-----------------------------------------------------------------------------
(* What the steps of an operation keep.                                     *)
Kept == reg \in [Reg -> Field] /\ (fe = Nothing \/ fe \in Field \X Field) /\ OperandInv

(* The operands are field elements.                                         *)
LEMMA Operand ==
  ASSUME request \in Request
  PROVE  /\ request.a.x \in Field /\ request.a.y \in Field /\ request.a.z \in Field
         /\ request.a.t \in Field /\ request.b.x \in Field /\ request.b.y \in Field
         /\ request.b.z \in Field /\ request.b.t \in Field
         /\ request.encoded.y \in Raw /\ request.encoded.sign \in {0, 1}
BY DEF Request, Point

(* Each step of an addition leaves its results where the next expects them. *)
LEMMA AddKeeps ==
  ASSUME PointInv, AddStep
  PROVE  step \in AddSteps /\ step' \in AddSteps /\ Kept' /\ AddInv'
<1> DEFINE p == request.a
           q == request.b
<1>1. step \in AddSteps /\ step' \in AddSteps
  BY DEF AddStep, Do, DoMul, On, OnMul, Load, AddSteps
<1>2. busy /\ request \in Request /\ request.op = "ADD" /\ UNCHANGED <<busy, request>>
  BY <1>1 DEF PointInv, ControlInv, AddSteps, AddStep, Rest
<1>3. reg \in [Reg -> Field] /\ (fe # Nothing => fe \in Field \X Field)
  BY DEF PointInv, PointTypeOK
<1>4. OperandInv /\ AddInv
  BY DEF PointInv
<1>5. fe # Nothing => Product = Mul(fe[1], fe[2]) /\ Product \in Field
  BY <1>3, ProductValue
<1>6. CASE step = "ADD_0"
  <2>1. /\ step' = "ADD_1" /\ fe' = fe /\ reg' = [reg EXCEPT !.t8 = Sub(reg.py, reg.px)]
    BY <1>1, <1>6 DEF AddStep, Answered, Do, DoMul, On, OnMul, Load
  <2>2. Sub(reg.py, reg.px) = Sub(p.y, p.x)
    BY <1>2, <1>3, <1>4, <1>5, <1>6, <2>1 DEF OperandInv, AddInv, AddAt
  <2>3. Kept'
    BY <1>2, <1>3, <1>4, <1>5, <2>1, Names, Closed, FieldFacts, Operand DEF Kept, OperandInv
  <2>4. AddInv'
    BY <1>2, <1>3, <1>4, <1>6, <2>1, <2>2, Names DEF OperandInv, AddInv, AddAt
  <2> QED BY <1>1, <2>3, <2>4
<1>7. CASE step = "ADD_1"
  <2>1. /\ step' = "ADD_1_AUX" /\ fe' = fe
        /\ reg' = [reg EXCEPT !.pipe_a = reg.qy, !.pipe_b = reg.qx]
    BY <1>1, <1>7 DEF AddStep, Answered, Do, DoMul, On, OnMul, Load
  <2>2. Kept'
    BY <1>2, <1>3, <1>4, <1>5, <2>1, Names, Closed, FieldFacts, Operand DEF Kept, OperandInv
  <2>3. AddInv'
    BY <1>2, <1>3, <1>4, <1>7, <2>1, Names DEF OperandInv, AddInv, AddAt
  <2> QED BY <1>1, <2>2, <2>3
<1>8. CASE step = "ADD_1_AUX"
  <2>1. /\ step' = "ADD_1_MUL" /\ fe' = fe
        /\ reg' = [reg EXCEPT !.aux_stage = Sub(reg.pipe_a, reg.pipe_b)]
    BY <1>1, <1>8 DEF AddStep, Answered, Do, DoMul, On, OnMul, Load
  <2>2. Sub(reg.pipe_a, reg.pipe_b) = Sub(q.y, q.x)
    BY <1>3, <1>4, <1>5, <1>8, <2>1 DEF OperandInv, AddInv, AddAt
  <2>3. Kept'
    BY <1>2, <1>3, <1>4, <1>5, <2>1, Names, Closed, FieldFacts, Operand DEF Kept, OperandInv
  <2>4. AddInv'
    BY <1>2, <1>3, <1>4, <1>8, <2>1, <2>2, Names DEF OperandInv, AddInv, AddAt
  <2> QED BY <1>1, <2>3, <2>4
<1>9. CASE step = "ADD_1_MUL"
  <2>1. /\ step' = "ADD_2" /\ fe' = <<reg.t8, reg.aux_stage>> /\ reg' = reg
    BY <1>1, <1>9 DEF AddStep, Answered, Do, DoMul, On, OnMul, Load
  <2>2. Kept'
    BY <1>2, <1>3, <1>4, <1>5, <2>1, Names, Closed, FieldFacts, Operand DEF Kept, OperandInv
  <2>3. AddInv'
    BY <1>2, <1>3, <1>4, <1>9, <2>1, Names DEF OperandInv, AddInv, AddAt
  <2> QED BY <1>1, <2>2, <2>3
<1>10. CASE step = "ADD_2"
  <2>1. /\ step' = "ADD_3" /\ fe # Nothing /\ fe' = Nothing
        /\ reg' = [reg EXCEPT !.t0 = Product, !.t8 = Add(reg.py, reg.px)]
    BY <1>1, <1>10 DEF AddStep, Answered, Do, DoMul, On, OnMul, Load
  <2>2. Product = SumA(p, q) /\ Add(reg.py, reg.px) = Add(p.y, p.x)
    BY <1>2, <1>3, <1>4, <1>5, <1>10, <2>1 DEF OperandInv, AddInv, AddAt, SumA
  <2>3. Kept'
    BY <1>2, <1>3, <1>4, <1>5, <2>1, Names, Closed, FieldFacts, Operand DEF Kept, OperandInv
  <2>4. AddInv'
    BY <1>2, <1>3, <1>4, <1>10, <2>1, <2>2, Names DEF OperandInv, AddInv, AddAt
  <2> QED BY <1>1, <2>3, <2>4
<1>11. CASE step = "ADD_3"
  <2>1. /\ step' = "ADD_3_AUX" /\ fe' = fe
        /\ reg' = [reg EXCEPT !.pipe_a = reg.qy, !.pipe_b = reg.qx]
    BY <1>1, <1>11 DEF AddStep, Answered, Do, DoMul, On, OnMul, Load
  <2>2. Kept'
    BY <1>2, <1>3, <1>4, <1>5, <2>1, Names, Closed, FieldFacts, Operand DEF Kept, OperandInv
  <2>3. AddInv'
    BY <1>2, <1>3, <1>4, <1>11, <2>1, Names DEF OperandInv, AddInv, AddAt
  <2> QED BY <1>1, <2>2, <2>3
<1>12. CASE step = "ADD_3_AUX"
  <2>1. /\ step' = "ADD_3_MUL" /\ fe' = fe
        /\ reg' = [reg EXCEPT !.aux_stage = Add(reg.pipe_a, reg.pipe_b)]
    BY <1>1, <1>12 DEF AddStep, Answered, Do, DoMul, On, OnMul, Load
  <2>2. Add(reg.pipe_a, reg.pipe_b) = Add(q.y, q.x)
    BY <1>3, <1>4, <1>5, <1>12, <2>1 DEF OperandInv, AddInv, AddAt
  <2>3. Kept'
    BY <1>2, <1>3, <1>4, <1>5, <2>1, Names, Closed, FieldFacts, Operand DEF Kept, OperandInv
  <2>4. AddInv'
    BY <1>2, <1>3, <1>4, <1>12, <2>1, <2>2, Names DEF OperandInv, AddInv, AddAt
  <2> QED BY <1>1, <2>3, <2>4
<1>13. CASE step = "ADD_3_MUL"
  <2>1. /\ step' = "ADD_4" /\ fe' = <<reg.t8, reg.aux_stage>> /\ reg' = reg
    BY <1>1, <1>13 DEF AddStep, Answered, Do, DoMul, On, OnMul, Load
  <2>2. Kept'
    BY <1>2, <1>3, <1>4, <1>5, <2>1, Names, Closed, FieldFacts, Operand DEF Kept, OperandInv
  <2>3. AddInv'
    BY <1>2, <1>3, <1>4, <1>13, <2>1, Names DEF OperandInv, AddInv, AddAt
  <2> QED BY <1>1, <2>2, <2>3
<1>14. CASE step = "ADD_4"
  <2>1. /\ step' = "ADD_5" /\ fe # Nothing /\ fe' = <<reg.pt, reg.qt>>
        /\ reg' = [reg EXCEPT !.t1 = Product]
    BY <1>1, <1>14 DEF AddStep, Answered, Do, DoMul, On, OnMul, Load
  <2>2. Product = SumB(p, q)
    BY <1>3, <1>4, <1>5, <1>14, <2>1 DEF OperandInv, AddInv, AddAt, SumB
  <2>3. Kept'
    BY <1>2, <1>3, <1>4, <1>5, <2>1, Names, Closed, FieldFacts, Operand DEF Kept, OperandInv
  <2>4. AddInv'
    BY <1>2, <1>3, <1>4, <1>14, <2>1, <2>2, Names DEF OperandInv, AddInv, AddAt
  <2> QED BY <1>1, <2>3, <2>4
<1>15. CASE step = "ADD_5"
  <2>1. /\ step' = "ADD_6" /\ fe # Nothing /\ fe' = <<Product, (2 * CurveD) % FieldP>>
        /\ reg' = reg
    BY <1>1, <1>15 DEF AddStep, Answered, Do, DoMul, On, OnMul, Load
  <2>2. Product = Mul(p.t, q.t)
    BY <1>3, <1>4, <1>5, <1>15, <2>1 DEF OperandInv, AddInv, AddAt
  <2>3. Kept'
    BY <1>2, <1>3, <1>4, <1>5, <2>1, Names, Closed, FieldFacts, Operand DEF Kept, OperandInv
  <2>4. AddInv'
    BY <1>2, <1>3, <1>4, <1>15, <2>1, <2>2, Names DEF OperandInv, AddInv, AddAt
  <2> QED BY <1>1, <2>3, <2>4
<1>16. CASE step = "ADD_6"
  <2>1. CASE q.z = 1
    <3>1. /\ step' = "ADD_8" /\ fe # Nothing /\ fe' = Nothing
          /\ reg' = [reg EXCEPT !.t2 = Product, !.t3 = reg.pz, !.t4 = Sub(reg.t1, reg.t0)]
      BY <1>1, <1>16, <1>2, <2>1 DEF AddStep, Answered, Do, DoMul, On, OnMul, Load, AddBAffine
    <3>2. Product = SumC(p, q) /\ Sub(reg.t1, reg.t0) = SumE(p, q)
      BY <1>3, <1>4, <1>5, <1>16, <1>2, <2>1, <3>1 DEF OperandInv, AddInv, AddAt, SumC, SumE
    <3>3. Kept'
      BY <1>2, <1>3, <1>4, <1>5, <3>1, Names, Closed, FieldFacts, Operand DEF Kept, OperandInv
    <3>4. AddInv'
      BY <1>2, <1>3, <1>4, <1>16, <2>1, <3>1, <3>2, Names DEF OperandInv, AddInv, AddAt, SumZ
    <3> QED BY <1>1, <3>3, <3>4
  <2>2. CASE q.z # 1
    <3>1. /\ step' = "ADD_7" /\ fe # Nothing /\ fe' = <<reg.pz, reg.qz>>
          /\ reg' = [reg EXCEPT !.t2 = Product]
      BY <1>1, <1>16, <1>2, <2>2 DEF AddStep, Answered, Do, DoMul, On, OnMul, Load, AddBAffine
    <3>2. Product = SumC(p, q) /\ Sub(reg.t1, reg.t0) = SumE(p, q)
      BY <1>3, <1>4, <1>5, <1>16, <1>2, <2>2, <3>1 DEF OperandInv, AddInv, AddAt, SumC, SumE
    <3>3. Kept'
      BY <1>2, <1>3, <1>4, <1>5, <3>1, Names, Closed, FieldFacts, Operand DEF Kept, OperandInv
    <3>4. AddInv'
      BY <1>2, <1>3, <1>4, <1>16, <2>2, <3>1, <3>2, Names DEF OperandInv, AddInv, AddAt, SumZ
    <3> QED BY <1>1, <3>3, <3>4
  <2> QED BY <2>1, <2>2
<1>17. CASE step = "ADD_7"
  <2>1. /\ step' = "ADD_8" /\ fe # Nothing /\ fe' = Nothing
        /\ reg' = [reg EXCEPT !.t3 = Product, !.t4 = Sub(reg.t1, reg.t0)]
    BY <1>1, <1>17 DEF AddStep, Answered, Do, DoMul, On, OnMul, Load
  <2>2. Product = SumZ(p, q) /\ Sub(reg.t1, reg.t0) = SumE(p, q)
    BY <1>3, <1>4, <1>5, <1>17, <2>1 DEF OperandInv, AddInv, AddAt, SumZ, SumE
  <2>3. Kept'
    BY <1>2, <1>3, <1>4, <1>5, <2>1, Names, Closed, FieldFacts, Operand DEF Kept, OperandInv
  <2>4. AddInv'
    BY <1>2, <1>3, <1>4, <1>17, <2>1, <2>2, Names DEF OperandInv, AddInv, AddAt
  <2> QED BY <1>1, <2>3, <2>4
<1>18. CASE step = "ADD_8"
  <2>1. /\ step' = "ADD_9" /\ fe' = fe /\ reg' = [reg EXCEPT !.t8 = Add(reg.t3, reg.t3)]
    BY <1>1, <1>18 DEF AddStep, Answered, Do, DoMul, On, OnMul, Load
  <2>2. Add(reg.t3, reg.t3) = SumD(p, q)
    BY <1>3, <1>4, <1>5, <1>18, <2>1 DEF OperandInv, AddInv, AddAt, SumD
  <2>3. Kept'
    BY <1>2, <1>3, <1>4, <1>5, <2>1, Names, Closed, FieldFacts, Operand DEF Kept, OperandInv
  <2>4. AddInv'
    BY <1>2, <1>3, <1>4, <1>18, <2>1, <2>2, Names DEF OperandInv, AddInv, AddAt
  <2> QED BY <1>1, <2>3, <2>4
<1>19. CASE step = "ADD_9"
  <2>1. /\ step' = "ADD_10" /\ fe' = fe /\ reg' = [reg EXCEPT !.t5 = Sub(reg.t8, reg.t2)]
    BY <1>1, <1>19 DEF AddStep, Answered, Do, DoMul, On, OnMul, Load
  <2>2. Sub(reg.t8, reg.t2) = SumF(p, q)
    BY <1>3, <1>4, <1>5, <1>19, <2>1 DEF OperandInv, AddInv, AddAt, SumF
  <2>3. Kept'
    BY <1>2, <1>3, <1>4, <1>5, <2>1, Names, Closed, FieldFacts, Operand DEF Kept, OperandInv
  <2>4. AddInv'
    BY <1>2, <1>3, <1>4, <1>19, <2>1, <2>2, Names DEF OperandInv, AddInv, AddAt
  <2> QED BY <1>1, <2>3, <2>4
<1>20. CASE step = "ADD_10"
  <2>1. /\ step' = "ADD_11" /\ fe' = fe /\ reg' = [reg EXCEPT !.t6 = Add(reg.t8, reg.t2)]
    BY <1>1, <1>20 DEF AddStep, Answered, Do, DoMul, On, OnMul, Load
  <2>2. Add(reg.t8, reg.t2) = SumG(p, q)
    BY <1>3, <1>4, <1>5, <1>20, <2>1 DEF OperandInv, AddInv, AddAt, SumG
  <2>3. Kept'
    BY <1>2, <1>3, <1>4, <1>5, <2>1, Names, Closed, FieldFacts, Operand DEF Kept, OperandInv
  <2>4. AddInv'
    BY <1>2, <1>3, <1>4, <1>20, <2>1, <2>2, Names DEF OperandInv, AddInv, AddAt
  <2> QED BY <1>1, <2>3, <2>4
<1>21. CASE step = "ADD_11"
  <2>1. /\ step' = "ADD_12" /\ fe' = <<reg.t4, reg.t5>>
        /\ reg' = [reg EXCEPT !.t7 = Add(reg.t1, reg.t0)]
    BY <1>1, <1>21 DEF AddStep, Answered, Do, DoMul, On, OnMul, Load
  <2>2. Add(reg.t1, reg.t0) = SumH(p, q)
    BY <1>3, <1>4, <1>5, <1>21, <2>1 DEF OperandInv, AddInv, AddAt, SumH
  <2>3. Kept'
    BY <1>2, <1>3, <1>4, <1>5, <2>1, Names, Closed, FieldFacts, Operand DEF Kept, OperandInv
  <2>4. AddInv'
    BY <1>2, <1>3, <1>4, <1>21, <2>1, <2>2, Names DEF OperandInv, AddInv, AddAt
  <2> QED BY <1>1, <2>3, <2>4
<1>22. CASE step = "ADD_12"
  <2>1. /\ step' = "ADD_13" /\ fe # Nothing /\ fe' = <<reg.t6, reg.t7>>
        /\ reg' = [reg EXCEPT !.out_x = Product]
    BY <1>1, <1>22 DEF AddStep, Answered, Do, DoMul, On, OnMul, Load
  <2>2. Product = Mul(SumE(p, q), SumF(p, q))
    BY <1>3, <1>4, <1>5, <1>22, <2>1 DEF OperandInv, AddInv, AddAt
  <2>3. Kept'
    BY <1>2, <1>3, <1>4, <1>5, <2>1, Names, Closed, FieldFacts, Operand DEF Kept, OperandInv
  <2>4. AddInv'
    BY <1>2, <1>3, <1>4, <1>22, <2>1, <2>2, Names DEF OperandInv, AddInv, AddAt
  <2> QED BY <1>1, <2>3, <2>4
<1>23. CASE step = "ADD_13"
  <2>1. /\ step' = "ADD_14" /\ fe # Nothing /\ fe' = <<reg.t4, reg.t7>>
        /\ reg' = [reg EXCEPT !.out_y = Product]
    BY <1>1, <1>23 DEF AddStep, Answered, Do, DoMul, On, OnMul, Load
  <2>2. Product = Mul(SumG(p, q), SumH(p, q))
    BY <1>3, <1>4, <1>5, <1>23, <2>1 DEF OperandInv, AddInv, AddAt
  <2>3. Kept'
    BY <1>2, <1>3, <1>4, <1>5, <2>1, Names, Closed, FieldFacts, Operand DEF Kept, OperandInv
  <2>4. AddInv'
    BY <1>2, <1>3, <1>4, <1>23, <2>1, <2>2, Names DEF OperandInv, AddInv, AddAt
  <2> QED BY <1>1, <2>3, <2>4
<1>24. CASE step = "ADD_14"
  <2>1. /\ step' = "ADD_15" /\ fe # Nothing /\ fe' = <<reg.t5, reg.t6>>
        /\ reg' = [reg EXCEPT !.out_t = Product]
    BY <1>1, <1>24 DEF AddStep, Answered, Do, DoMul, On, OnMul, Load
  <2>2. Product = Mul(SumE(p, q), SumH(p, q))
    BY <1>3, <1>4, <1>5, <1>24, <2>1 DEF OperandInv, AddInv, AddAt
  <2>3. Kept'
    BY <1>2, <1>3, <1>4, <1>5, <2>1, Names, Closed, FieldFacts, Operand DEF Kept, OperandInv
  <2>4. AddInv'
    BY <1>2, <1>3, <1>4, <1>24, <2>1, <2>2, Names DEF OperandInv, AddInv, AddAt
  <2> QED BY <1>1, <2>3, <2>4
<1>25. step # "ADD_15"
  BY DEF AddStep, Do, DoMul, On, OnMul, Load
<1> QED BY <1>1, <1>25, <1>6, <1>7, <1>8, <1>9, <1>10, <1>11, <1>12, <1>13, <1>14, <1>15,
           <1>16, <1>17, <1>18, <1>19, <1>20, <1>21, <1>22, <1>23, <1>24 DEF AddSteps

(* So does each step of a doubling. *)
LEMMA DoubleKeeps ==
  ASSUME PointInv, DoubleStep
  PROVE  step \in DoubleSteps /\ step' \in DoubleSteps /\ Kept' /\ DoubleInv'
<1> DEFINE p == request.a
<1>1. step \in DoubleSteps /\ step' \in DoubleSteps
  BY DEF DoubleStep, Do, DoMul, On, OnMul, Load, DoubleSteps
<1>2. busy /\ request \in Request /\ request.op = "DOUBLE" /\ UNCHANGED <<busy, request>>
  BY <1>1 DEF PointInv, ControlInv, DoubleSteps, DoubleStep, Rest
<1>3. reg \in [Reg -> Field] /\ (fe # Nothing => fe \in Field \X Field)
  BY DEF PointInv, PointTypeOK
<1>4. OperandInv /\ DoubleInv
  BY DEF PointInv
<1>5. fe # Nothing => Product = Mul(fe[1], fe[2]) /\ Product \in Field
  BY <1>3, ProductValue
<1>6. CASE step = "DBL_0"
  <2>1. /\ step' = "DBL_1" /\ fe' = <<reg.px, reg.px>> /\ reg' = reg
    BY <1>1, <1>6 DEF DoubleStep, Answered, Do, DoMul, On, OnMul, Load
  <2>2. Kept'
    BY <1>2, <1>3, <1>4, <1>5, <2>1, Names, Closed, FieldFacts, Operand DEF Kept, OperandInv
  <2>3. DoubleInv'
    BY <1>2, <1>3, <1>4, <1>6, <2>1, Names DEF OperandInv, DoubleInv, DoubleAt
  <2> QED BY <1>1, <2>2, <2>3
<1>7. CASE step = "DBL_1"
  <2>1. /\ step' = "DBL_2" /\ fe # Nothing /\ fe' = <<reg.py, reg.py>>
        /\ reg' = [reg EXCEPT !.t0 = Product]
    BY <1>1, <1>7 DEF DoubleStep, Answered, Do, DoMul, On, OnMul, Load
  <2>2. Product = DoubleA(p)
    BY <1>2, <1>3, <1>4, <1>5, <1>7, <2>1 DEF OperandInv, DoubleInv, DoubleAt, DoubleA
  <2>3. Kept'
    BY <1>2, <1>3, <1>4, <1>5, <2>1, Names, Closed, FieldFacts, Operand DEF Kept, OperandInv
  <2>4. DoubleInv'
    BY <1>2, <1>3, <1>4, <1>7, <2>1, <2>2, Names DEF OperandInv, DoubleInv, DoubleAt
  <2> QED BY <1>1, <2>3, <2>4
<1>8. CASE step = "DBL_2"
  <2>1. /\ step' = "DBL_3" /\ fe # Nothing /\ fe' = <<reg.pz, reg.pz>>
        /\ reg' = [reg EXCEPT !.t1 = Product]
    BY <1>1, <1>8 DEF DoubleStep, Answered, Do, DoMul, On, OnMul, Load
  <2>2. Product = DoubleB(p)
    BY <1>2, <1>3, <1>4, <1>5, <1>8, <2>1 DEF OperandInv, DoubleInv, DoubleAt, DoubleB
  <2>3. Kept'
    BY <1>2, <1>3, <1>4, <1>5, <2>1, Names, Closed, FieldFacts, Operand DEF Kept, OperandInv
  <2>4. DoubleInv'
    BY <1>2, <1>3, <1>4, <1>8, <2>1, <2>2, Names DEF OperandInv, DoubleInv, DoubleAt
  <2> QED BY <1>1, <2>3, <2>4
<1>9. CASE step = "DBL_3"
  <2>1. /\ step' = "DBL_4" /\ fe # Nothing /\ fe' = Nothing
        /\ reg' = [reg EXCEPT !.t2 = Add(Product, Product)]
    BY <1>1, <1>9 DEF DoubleStep, Answered, Do, DoMul, On, OnMul, Load
  <2>2. Add(Product, Product) = DoubleC(p)
    BY <1>2, <1>3, <1>4, <1>5, <1>9, <2>1 DEF OperandInv, DoubleInv, DoubleAt, DoubleC
  <2>3. Kept'
    BY <1>2, <1>3, <1>4, <1>5, <2>1, Names, Closed, FieldFacts, Operand DEF Kept, OperandInv
  <2>4. DoubleInv'
    BY <1>2, <1>3, <1>4, <1>9, <2>1, <2>2, Names DEF OperandInv, DoubleInv, DoubleAt
  <2> QED BY <1>1, <2>3, <2>4
<1>10. CASE step = "DBL_4"
  <2>1. /\ step' = "DBL_4_AUX" /\ fe' = fe
        /\ reg' = [reg EXCEPT !.pipe_a = reg.px, !.pipe_b = reg.py]
    BY <1>1, <1>10 DEF DoubleStep, Answered, Do, DoMul, On, OnMul, Load
  <2>2. Kept'
    BY <1>2, <1>3, <1>4, <1>5, <2>1, Names, Closed, FieldFacts, Operand DEF Kept, OperandInv
  <2>3. DoubleInv'
    BY <1>2, <1>3, <1>4, <1>10, <2>1, Names DEF OperandInv, DoubleInv, DoubleAt
  <2> QED BY <1>1, <2>2, <2>3
<1>11. CASE step = "DBL_4_AUX"
  <2>1. /\ step' = "DBL_4_MUL" /\ fe' = fe
        /\ reg' = [reg EXCEPT !.aux_stage = Add(reg.pipe_a, reg.pipe_b)]
    BY <1>1, <1>11 DEF DoubleStep, Answered, Do, DoMul, On, OnMul, Load
  <2>2. Add(reg.pipe_a, reg.pipe_b) = Add(p.x, p.y)
    BY <1>2, <1>3, <1>4, <1>5, <1>11, <2>1 DEF OperandInv, DoubleInv, DoubleAt
  <2>3. Kept'
    BY <1>2, <1>3, <1>4, <1>5, <2>1, Names, Closed, FieldFacts, Operand DEF Kept, OperandInv
  <2>4. DoubleInv'
    BY <1>2, <1>3, <1>4, <1>11, <2>1, <2>2, Names DEF OperandInv, DoubleInv, DoubleAt
  <2> QED BY <1>1, <2>3, <2>4
<1>12. CASE step = "DBL_4_MUL"
  <2>1. /\ step' = "DBL_5" /\ fe' = <<reg.aux_stage, reg.aux_stage>> /\ reg' = reg
    BY <1>1, <1>12 DEF DoubleStep, Answered, Do, DoMul, On, OnMul, Load
  <2>2. Kept'
    BY <1>2, <1>3, <1>4, <1>5, <2>1, Names, Closed, FieldFacts, Operand DEF Kept, OperandInv
  <2>3. DoubleInv'
    BY <1>2, <1>3, <1>4, <1>12, <2>1, Names DEF OperandInv, DoubleInv, DoubleAt
  <2> QED BY <1>1, <2>2, <2>3
<1>13. CASE step = "DBL_5"
  <2>1. /\ step' = "DBL_6" /\ fe # Nothing /\ fe' = Nothing
        /\ reg' = [reg EXCEPT !.t3 = Product]
    BY <1>1, <1>13 DEF DoubleStep, Answered, Do, DoMul, On, OnMul, Load
  <2>2. Product = DoubleS(p)
    BY <1>2, <1>3, <1>4, <1>5, <1>13, <2>1 DEF OperandInv, DoubleInv, DoubleAt, DoubleS
  <2>3. Kept'
    BY <1>2, <1>3, <1>4, <1>5, <2>1, Names, Closed, FieldFacts, Operand DEF Kept, OperandInv
  <2>4. DoubleInv'
    BY <1>2, <1>3, <1>4, <1>13, <2>1, <2>2, Names DEF OperandInv, DoubleInv, DoubleAt
  <2> QED BY <1>1, <2>3, <2>4
<1>14. CASE step = "DBL_6"
  <2>1. /\ step' = "DBL_7" /\ fe' = fe /\ reg' = [reg EXCEPT !.t4 = Sub(reg.t3, reg.t0)]
    BY <1>1, <1>14 DEF DoubleStep, Answered, Do, DoMul, On, OnMul, Load
  <2>2. Sub(reg.t3, reg.t0) = Sub(DoubleS(p), DoubleA(p))
    BY <1>2, <1>3, <1>4, <1>5, <1>14, <2>1 DEF OperandInv, DoubleInv, DoubleAt
  <2>3. Kept'
    BY <1>2, <1>3, <1>4, <1>5, <2>1, Names, Closed, FieldFacts, Operand DEF Kept, OperandInv
  <2>4. DoubleInv'
    BY <1>2, <1>3, <1>4, <1>14, <2>1, <2>2, Names DEF OperandInv, DoubleInv, DoubleAt
  <2> QED BY <1>1, <2>3, <2>4
<1>15. CASE step = "DBL_7"
  <2>1. /\ step' = "DBL_8" /\ fe' = fe /\ reg' = [reg EXCEPT !.t3 = Sub(reg.t4, reg.t1)]
    BY <1>1, <1>15 DEF DoubleStep, Answered, Do, DoMul, On, OnMul, Load
  <2>2. Sub(reg.t4, reg.t1) = DoubleE(p)
    BY <1>2, <1>3, <1>4, <1>5, <1>15, <2>1 DEF OperandInv, DoubleInv, DoubleAt, DoubleE
  <2>3. Kept'
    BY <1>2, <1>3, <1>4, <1>5, <2>1, Names, Closed, FieldFacts, Operand DEF Kept, OperandInv
  <2>4. DoubleInv'
    BY <1>2, <1>3, <1>4, <1>15, <2>1, <2>2, Names DEF OperandInv, DoubleInv, DoubleAt
  <2> QED BY <1>1, <2>3, <2>4
<1>16. CASE step = "DBL_8"
  <2>1. /\ step' = "DBL_9" /\ fe' = fe /\ reg' = [reg EXCEPT !.t4 = Sub(reg.t1, reg.t0)]
    BY <1>1, <1>16 DEF DoubleStep, Answered, Do, DoMul, On, OnMul, Load
  <2>2. Sub(reg.t1, reg.t0) = DoubleG(p)
    BY <1>2, <1>3, <1>4, <1>5, <1>16, <2>1 DEF OperandInv, DoubleInv, DoubleAt, DoubleG
  <2>3. Kept'
    BY <1>2, <1>3, <1>4, <1>5, <2>1, Names, Closed, FieldFacts, Operand DEF Kept, OperandInv
  <2>4. DoubleInv'
    BY <1>2, <1>3, <1>4, <1>16, <2>1, <2>2, Names DEF OperandInv, DoubleInv, DoubleAt
  <2> QED BY <1>1, <2>3, <2>4
<1>17. CASE step = "DBL_9"
  <2>1. /\ step' = "DBL_10" /\ fe' = fe /\ reg' = [reg EXCEPT !.t5 = Sub(reg.t4, reg.t2)]
    BY <1>1, <1>17 DEF DoubleStep, Answered, Do, DoMul, On, OnMul, Load
  <2>2. Sub(reg.t4, reg.t2) = DoubleF(p)
    BY <1>2, <1>3, <1>4, <1>5, <1>17, <2>1 DEF OperandInv, DoubleInv, DoubleAt, DoubleF
  <2>3. Kept'
    BY <1>2, <1>3, <1>4, <1>5, <2>1, Names, Closed, FieldFacts, Operand DEF Kept, OperandInv
  <2>4. DoubleInv'
    BY <1>2, <1>3, <1>4, <1>17, <2>1, <2>2, Names DEF OperandInv, DoubleInv, DoubleAt
  <2> QED BY <1>1, <2>3, <2>4
<1>18. CASE step = "DBL_10"
  <2>1. /\ step' = "DBL_11" /\ fe' = fe /\ reg' = [reg EXCEPT !.t6 = Add(reg.t0, reg.t1)]
    BY <1>1, <1>18 DEF DoubleStep, Answered, Do, DoMul, On, OnMul, Load
  <2>2. Add(reg.t0, reg.t1) = Add(DoubleA(p), DoubleB(p))
    BY <1>2, <1>3, <1>4, <1>5, <1>18, <2>1 DEF OperandInv, DoubleInv, DoubleAt
  <2>3. Kept'
    BY <1>2, <1>3, <1>4, <1>5, <2>1, Names, Closed, FieldFacts, Operand DEF Kept, OperandInv
  <2>4. DoubleInv'
    BY <1>2, <1>3, <1>4, <1>18, <2>1, <2>2, Names DEF OperandInv, DoubleInv, DoubleAt
  <2> QED BY <1>1, <2>3, <2>4
<1>19. CASE step = "DBL_11"
  <2>1. /\ step' = "DBL_12" /\ fe' = <<reg.t3, reg.t5>>
        /\ reg' = [reg EXCEPT !.t7 = Neg(reg.t6)]
    BY <1>1, <1>19 DEF DoubleStep, Answered, Do, DoMul, On, OnMul, Load
  <2>2. Neg(reg.t6) = DoubleH(p)
    BY <1>2, <1>3, <1>4, <1>5, <1>19, <2>1 DEF OperandInv, DoubleInv, DoubleAt, DoubleH
  <2>3. Kept'
    BY <1>2, <1>3, <1>4, <1>5, <2>1, Names, Closed, FieldFacts, Operand DEF Kept, OperandInv
  <2>4. DoubleInv'
    BY <1>2, <1>3, <1>4, <1>19, <2>1, <2>2, Names DEF OperandInv, DoubleInv, DoubleAt
  <2> QED BY <1>1, <2>3, <2>4
<1>20. CASE step = "DBL_12"
  <2>1. /\ step' = "DBL_13" /\ fe # Nothing /\ fe' = <<reg.t4, reg.t7>>
        /\ reg' = [reg EXCEPT !.out_x = Product]
    BY <1>1, <1>20 DEF DoubleStep, Answered, Do, DoMul, On, OnMul, Load
  <2>2. Product = Mul(DoubleE(p), DoubleF(p))
    BY <1>2, <1>3, <1>4, <1>5, <1>20, <2>1 DEF OperandInv, DoubleInv, DoubleAt
  <2>3. Kept'
    BY <1>2, <1>3, <1>4, <1>5, <2>1, Names, Closed, FieldFacts, Operand DEF Kept, OperandInv
  <2>4. DoubleInv'
    BY <1>2, <1>3, <1>4, <1>20, <2>1, <2>2, Names DEF OperandInv, DoubleInv, DoubleAt
  <2> QED BY <1>1, <2>3, <2>4
<1>21. CASE step = "DBL_13"
  <2>1. /\ step' = "DBL_14" /\ fe # Nothing /\ fe' = <<reg.t3, reg.t7>>
        /\ reg' = [reg EXCEPT !.out_y = Product]
    BY <1>1, <1>21 DEF DoubleStep, Answered, Do, DoMul, On, OnMul, Load
  <2>2. Product = Mul(DoubleG(p), DoubleH(p))
    BY <1>2, <1>3, <1>4, <1>5, <1>21, <2>1 DEF OperandInv, DoubleInv, DoubleAt
  <2>3. Kept'
    BY <1>2, <1>3, <1>4, <1>5, <2>1, Names, Closed, FieldFacts, Operand DEF Kept, OperandInv
  <2>4. DoubleInv'
    BY <1>2, <1>3, <1>4, <1>21, <2>1, <2>2, Names DEF OperandInv, DoubleInv, DoubleAt
  <2> QED BY <1>1, <2>3, <2>4
<1>22. CASE step = "DBL_14"
  <2>1. /\ step' = "DBL_15" /\ fe # Nothing /\ fe' = <<reg.t5, reg.t4>>
        /\ reg' = [reg EXCEPT !.out_t = Product]
    BY <1>1, <1>22 DEF DoubleStep, Answered, Do, DoMul, On, OnMul, Load
  <2>2. Product = Mul(DoubleE(p), DoubleH(p))
    BY <1>2, <1>3, <1>4, <1>5, <1>22, <2>1 DEF OperandInv, DoubleInv, DoubleAt
  <2>3. Kept'
    BY <1>2, <1>3, <1>4, <1>5, <2>1, Names, Closed, FieldFacts, Operand DEF Kept, OperandInv
  <2>4. DoubleInv'
    BY <1>2, <1>3, <1>4, <1>22, <2>1, <2>2, Names DEF OperandInv, DoubleInv, DoubleAt
  <2> QED BY <1>1, <2>3, <2>4
<1>23. step # "DBL_15"
  BY DEF DoubleStep, Do, DoMul, On, OnMul, Load
<1> QED BY <1>1, <1>23, <1>6, <1>7, <1>8, <1>9, <1>10, <1>11, <1>12, <1>13, <1>14,
           <1>15, <1>16, <1>17, <1>18, <1>19, <1>20, <1>21, <1>22 DEF DoubleSteps

(* So does each step of a decompression up to the root and after the sign. *)
LEMMA DecodeKeeps ==
  ASSUME PointInv, DecodeStep
  PROVE  /\ step \in DecodeSteps /\ step' \in DecodeSteps \cup {"DONE"}
         /\ Kept' /\ DecodeInv' /\ (step' = "DONE" => DecodeOutput')
<1> DEFINE y == Canonical(request.encoded.y)
           sign == request.encoded.sign
<1>1. step \in DecodeSteps /\ step' \in DecodeSteps \cup {"DONE"}
  BY DEF DecodeStep, Do, DoMul, On, OnMul, Load, DecodeSteps, RootSteps, PowSteps, SignSteps
<1>2. /\ busy /\ request \in Request /\ request.op = "DECOMPRESS"
      /\ UNCHANGED <<busy, request, match, flag>>
  BY <1>1 DEF PointInv, ControlInv, DecodeSteps, RootSteps, PowSteps, SignSteps, DecodeStep, Rest
<1>3. reg \in [Reg -> Field] /\ (fe # Nothing => fe \in Field \X Field)
  BY DEF PointInv, PointTypeOK
<1>4. OperandInv /\ DecodeInv
  BY DEF PointInv
<1>5. fe # Nothing => Product = Mul(fe[1], fe[2]) /\ Product \in Field
  BY <1>3, ProductValue
<1>6. CASE step = "DEC_1"
  <2>1. /\ step' = "DEC_2" /\ fe # Nothing /\ fe' = <<Product, CurveD>>
        /\ reg' = [reg EXCEPT !.t1 = Product, !.t2 = Sub(Product, 1)]
    BY <1>1, <1>6 DEF DecodeStep, Answered, Do, DoMul, On, OnMul, Load
  <2>2. Product = Mul(y, y) /\ Sub(Product, 1) = U(y)
    BY <1>2, <1>3, <1>4, <1>5, <1>6, <2>1
    DEF DecodeInv, DecodeAt, DecodeSteps, RootSteps, PowSteps, SignSteps, U
  <2>3. Kept'
    BY <1>2, <1>3, <1>4, <1>5, <2>1, Names, Closed, FieldFacts, Operand DEF Kept, OperandInv
  <2>4. DecodeInv'
    BY <1>2, <1>3, <1>4, <1>6, <2>1, <2>2, Names
    DEF DecodeInv, DecodeAt, DecodeSteps, RootSteps, PowSteps, SignSteps
  <2> QED BY <1>1, <2>1, <2>3, <2>4
<1>7. CASE step = "DEC_2"
  <2>1. /\ step' = "DEC_2_AUX" /\ fe # Nothing /\ fe' = Nothing
        /\ reg' = [reg EXCEPT !.pipe_a = Product, !.pipe_b = 1]
    BY <1>1, <1>7 DEF DecodeStep, Answered, Do, DoMul, On, OnMul, Load
  <2>2. Product = Mul(Mul(y, y), CurveD)
    BY <1>2, <1>3, <1>4, <1>5, <1>7, <2>1
    DEF DecodeInv, DecodeAt, DecodeSteps, RootSteps, PowSteps, SignSteps
  <2>3. Kept'
    BY <1>2, <1>3, <1>4, <1>5, <2>1, Names, Closed, FieldFacts, Operand DEF Kept, OperandInv
  <2>4. DecodeInv'
    BY <1>2, <1>3, <1>4, <1>7, <2>1, <2>2, Names
    DEF DecodeInv, DecodeAt, DecodeSteps, RootSteps, PowSteps, SignSteps
  <2> QED BY <1>1, <2>1, <2>3, <2>4
<1>8. CASE step = "DEC_2_AUX"
  <2>1. /\ step' = "DEC_2_MUL" /\ fe' = fe
        /\ reg' = [reg EXCEPT !.t3 = Add(reg.pipe_a, reg.pipe_b),
                            !.aux_stage = Add(reg.pipe_a, reg.pipe_b)]
    BY <1>1, <1>8 DEF DecodeStep, Answered, Do, DoMul, On, OnMul, Load
  <2>2. Add(reg.pipe_a, reg.pipe_b) = V(y)
    BY <1>2, <1>3, <1>4, <1>5, <1>8, <2>1
    DEF DecodeInv, DecodeAt, DecodeSteps, RootSteps, PowSteps, SignSteps, V
  <2>3. Kept'
    BY <1>2, <1>3, <1>4, <1>5, <2>1, Names, Closed, FieldFacts, Operand DEF Kept, OperandInv
  <2>4. DecodeInv'
    BY <1>2, <1>3, <1>4, <1>8, <2>1, <2>2, Names
    DEF DecodeInv, DecodeAt, DecodeSteps, RootSteps, PowSteps, SignSteps
  <2> QED BY <1>1, <2>1, <2>3, <2>4
<1>9. CASE step = "DEC_2_MUL"
  <2>1. /\ step' = "DEC_3" /\ fe' = <<reg.aux_stage, reg.aux_stage>> /\ reg' = reg
    BY <1>1, <1>9 DEF DecodeStep, Answered, Do, DoMul, On, OnMul, Load
  <2>2. Kept'
    BY <1>2, <1>3, <1>4, <1>5, <2>1, Names, Closed, FieldFacts, Operand DEF Kept, OperandInv
  <2>3. DecodeInv'
    BY <1>2, <1>3, <1>4, <1>9, <2>1, Names
    DEF DecodeInv, DecodeAt, DecodeSteps, RootSteps, PowSteps, SignSteps
  <2> QED BY <1>1, <2>1, <2>2, <2>3
<1>10. CASE step = "DEC_3"
  <2>1. /\ step' = "DEC_4" /\ fe # Nothing /\ fe' = <<Product, reg.t3>>
        /\ reg' = [reg EXCEPT !.t4 = Product]
    BY <1>1, <1>10 DEF DecodeStep, Answered, Do, DoMul, On, OnMul, Load
  <2>2. Kept'
    BY <1>2, <1>3, <1>4, <1>5, <2>1, Names, Closed, FieldFacts, Operand DEF Kept, OperandInv
  <2>3. DecodeInv'
    BY <1>2, <1>3, <1>4, <1>10, <2>1, Names
    DEF DecodeInv, DecodeAt, DecodeSteps, RootSteps, PowSteps, SignSteps
  <2> QED BY <1>1, <2>1, <2>2, <2>3
<1>11. CASE step = "DEC_4"
  <2>1. /\ step' = "DEC_5" /\ fe # Nothing /\ fe' = <<reg.t4, reg.t4>>
        /\ reg' = [reg EXCEPT !.t5 = Product]
    BY <1>1, <1>11 DEF DecodeStep, Answered, Do, DoMul, On, OnMul, Load
  <2>2. Kept'
    BY <1>2, <1>3, <1>4, <1>5, <2>1, Names, Closed, FieldFacts, Operand DEF Kept, OperandInv
  <2>3. DecodeInv'
    BY <1>2, <1>3, <1>4, <1>11, <2>1, Names
    DEF DecodeInv, DecodeAt, DecodeSteps, RootSteps, PowSteps, SignSteps
  <2> QED BY <1>1, <2>1, <2>2, <2>3
<1>12. CASE step = "DEC_5"
  <2>1. /\ step' = "DEC_6" /\ fe # Nothing /\ fe' = <<reg.t2, reg.t5>>
        /\ reg' = [reg EXCEPT !.t6 = Product]
    BY <1>1, <1>12 DEF DecodeStep, Answered, Do, DoMul, On, OnMul, Load
  <2>2. Kept'
    BY <1>2, <1>3, <1>4, <1>5, <2>1, Names, Closed, FieldFacts, Operand DEF Kept, OperandInv
  <2>3. DecodeInv'
    BY <1>2, <1>3, <1>4, <1>12, <2>1, Names
    DEF DecodeInv, DecodeAt, DecodeSteps, RootSteps, PowSteps, SignSteps
  <2> QED BY <1>1, <2>1, <2>2, <2>3
<1>13. CASE step = "DEC_6"
  <2>1. /\ step' = "DEC_7" /\ fe # Nothing /\ fe' = <<Product, reg.t6>>
        /\ reg' = [reg EXCEPT !.t7 = Product]
    BY <1>1, <1>13 DEF DecodeStep, Answered, Do, DoMul, On, OnMul, Load
  <2>2. Kept'
    BY <1>2, <1>3, <1>4, <1>5, <2>1, Names, Closed, FieldFacts, Operand DEF Kept, OperandInv
  <2>3. DecodeInv'
    BY <1>2, <1>3, <1>4, <1>13, <2>1, Names
    DEF DecodeInv, DecodeAt, DecodeSteps, RootSteps, PowSteps, SignSteps
  <2> QED BY <1>1, <2>1, <2>2, <2>3
<1>14. CASE step = "DEC_8"
  <2>1. /\ step' = "DEC_9" /\ fe' = <<reg.t7, reg.pow_value>> /\ reg' = reg
    BY <1>1, <1>14 DEF DecodeStep, Answered, Do, DoMul, On, OnMul, Load
  <2>2. Kept'
    BY <1>2, <1>3, <1>4, <1>5, <2>1, Names, Closed, FieldFacts, Operand DEF Kept, OperandInv
  <2>3. DecodeInv'
    BY <1>2, <1>3, <1>4, <1>14, <2>1, Names
    DEF DecodeInv, DecodeAt, DecodeSteps, RootSteps, PowSteps, SignSteps
  <2> QED BY <1>1, <2>1, <2>2, <2>3
<1>15. CASE step = "DEC_9"
  <2>1. /\ step' = "DEC_10" /\ fe # Nothing /\ fe' = <<Product, Product>>
        /\ reg' = [reg EXCEPT !.t8 = Product]
    BY <1>1, <1>15 DEF DecodeStep, Answered, Do, DoMul, On, OnMul, Load
  <2>2. Kept'
    BY <1>2, <1>3, <1>4, <1>5, <2>1, Names, Closed, FieldFacts, Operand DEF Kept, OperandInv
  <2>3. DecodeInv'
    BY <1>2, <1>3, <1>4, <1>15, <2>1, Names
    DEF DecodeInv, DecodeAt, DecodeSteps, RootSteps, PowSteps, SignSteps
  <2> QED BY <1>1, <2>1, <2>2, <2>3
<1>16. CASE step = "DEC_10"
  <2>1. /\ step' = "DEC_11" /\ fe # Nothing /\ fe' = <<reg.t3, Product>> /\ reg' = reg
    BY <1>1, <1>16 DEF DecodeStep, Answered, Do, DoMul, On, OnMul, Load
  <2>2. Product = Mul(reg.t8, reg.t8)
    BY <1>2, <1>3, <1>4, <1>5, <1>16, <2>1
    DEF DecodeInv, DecodeAt, DecodeSteps, RootSteps, PowSteps, SignSteps
  <2>3. Kept'
    BY <1>2, <1>3, <1>4, <1>5, <2>1, Names, Closed, FieldFacts, Operand DEF Kept, OperandInv
  <2>4. DecodeInv'
    BY <1>2, <1>3, <1>4, <1>16, <2>1, <2>2, Names
    DEF DecodeInv, DecodeAt, DecodeSteps, RootSteps, PowSteps, SignSteps
  <2> QED BY <1>1, <2>1, <2>3, <2>4
<1>17. CASE step = "DEC_11"
  <2>1. /\ step' = "DEC_11_COMPARE" /\ fe # Nothing /\ fe' = Nothing
        /\ reg' = [reg EXCEPT !.t3 = Product, !.aux_stage = Neg(reg.t2)]
    BY <1>1, <1>17 DEF DecodeStep, Answered, Do, DoMul, On, OnMul, Load
  <2>2. Product = Scaled(y, reg.t8) /\ Neg(reg.t2) = Neg(U(y))
    BY <1>2, <1>3, <1>4, <1>5, <1>17, <2>1
    DEF DecodeInv, DecodeAt, DecodeSteps, RootSteps, PowSteps, SignSteps, Scaled
  <2>3. Kept'
    BY <1>2, <1>3, <1>4, <1>5, <2>1, Names, Closed, FieldFacts, Operand DEF Kept, OperandInv
  <2>4. DecodeInv'
    BY <1>2, <1>3, <1>4, <1>17, <2>1, <2>2, Names
    DEF DecodeInv, DecodeAt, DecodeSteps, RootSteps, PowSteps, SignSteps
  <2> QED BY <1>1, <2>1, <2>3, <2>4
<1>18. CASE step = "DEC_13_MUL"
  <2>1. /\ step' = "DEC_14" /\ fe' = <<reg.aux_stage, reg.t0>> /\ reg' = reg
    BY <1>1, <1>18 DEF DecodeStep, Answered, Do, DoMul, On, OnMul, Load
  <2>2. Kept'
    BY <1>2, <1>3, <1>4, <1>5, <2>1, Names, Closed, FieldFacts, Operand DEF Kept, OperandInv
  <2>3. DecodeInv'
    BY <1>2, <1>3, <1>4, <1>18, <2>1, Names
    DEF DecodeInv, DecodeAt, DecodeSteps, RootSteps, PowSteps, SignSteps
  <2> QED BY <1>1, <2>1, <2>2, <2>3
<1>19. CASE step = "DEC_14"
  <2>1. /\ step' = "DONE" /\ fe # Nothing /\ fe' = Nothing
        /\ reg' = [reg EXCEPT !.out_x = reg.t8, !.out_y = reg.t0, !.out_z = 1, !.out_t = Product]
    BY <1>1, <1>19 DEF DecodeStep, Answered, Do, DoMul, On, OnMul, Load
  <2>2. Product = Mul(reg.t8, y)
    BY <1>2, <1>3, <1>4, <1>5, <1>19, <2>1
    DEF DecodeInv, DecodeAt, DecodeSteps, RootSteps, PowSteps, SignSteps
  <2>3. Kept'
    <3>1. reg.t8 \in Field /\ reg.t0 \in Field /\ 1 \in Field /\ Product \in Field
      BY <1>3, <1>5, <2>1, Names, FieldFacts
    <3>2. reg' \in [Reg -> Field]
      BY <1>3, <2>1, <3>1
    <3>3. OperandInv'
      BY <1>2, <1>3, <1>4, <2>1, Names DEF OperandInv
    <3> QED BY <2>1, <3>2, <3>3 DEF Kept
  <2>4. DecodeInv'
    BY <1>2, <1>3, <1>4, <1>19, <2>1, <2>2, Names
    DEF DecodeInv, DecodeAt, DecodeSteps, RootSteps, PowSteps, SignSteps
  <2>5. DecodeOutput'
    BY <1>2, <1>3, <1>4, <1>19, <2>1, <2>2, Names
    DEF DecodeInv, DecodeAt, DecodeSteps, SignSteps, DecodeOutput, Output
  <2> QED BY <1>1, <2>3, <2>4, <2>5
<1>20. step \notin {"DEC_7", "POW_DISPATCH", "POW_WAIT", "DEC_11_COMPARE", "DEC_11_BRANCH",
                   "DEC_12", "DEC_13", "DEC_13_AUX"}
  BY DEF DecodeStep, Do, DoMul, On, OnMul, Load
<1> QED BY <1>1, <1>20, <1>6, <1>7, <1>8, <1>9, <1>10, <1>11, <1>12, <1>13, <1>14,
           <1>15, <1>16, <1>17, <1>18, <1>19 DEF DecodeSteps, RootSteps, PowSteps, SignSteps

(* The last product of an addition or a doubling. *)
LEMMA LastKeeps ==
  ASSUME PointInv, LastProduct
  PROVE  /\ step \in {"ADD_15", "DBL_15"} /\ step' = "DONE" /\ Kept' /\ OutputInv'
<1> DEFINE p == request.a
           q == request.b
<1>1. /\ step \in {"ADD_15", "DBL_15"} /\ step' = "DONE" /\ flag'
      /\ fe # Nothing /\ fe' = Nothing /\ reg' = [reg EXCEPT !.out_z = Product]
  BY DEF LastProduct, On, Load, Answered
<1>2. busy /\ request \in Request /\ UNCHANGED <<busy, request, done>>
  BY <1>1 DEF PointInv, ControlInv, LastProduct, Rest
<1>3. /\ step = "ADD_15" => request.op = "ADD"
      /\ step = "DBL_15" => request.op = "DOUBLE"
  BY DEF PointInv, ControlInv, AddSteps, DoubleSteps
<1>4. reg \in [Reg -> Field] /\ fe \in Field \X Field /\ OperandInv /\ AddInv /\ DoubleInv
  BY <1>1 DEF PointInv, PointTypeOK
<1>5. Product = Mul(fe[1], fe[2]) /\ Product \in Field
  BY <1>4, ProductValue
<1>6. Kept'
  BY <1>1, <1>2, <1>4, <1>5, Names DEF Kept, OperandInv
<1>7. CASE step = "ADD_15"
  <2>1. Product = Mul(SumF(p, q), SumG(p, q))
    BY <1>4, <1>5, <1>7 DEF AddInv, AddAt
  <2>2. SumOutput'
    BY <1>1, <1>2, <1>4, <1>7, <2>1, Names DEF AddInv, AddAt, SumOutput, Output
  <2> QED BY <1>1, <1>2, <1>3, <1>6, <1>7, <2>2 DEF OutputInv
<1>8. CASE step = "DBL_15"
  <2>1. Product = Mul(DoubleF(p), DoubleG(p))
    BY <1>4, <1>5, <1>8 DEF DoubleInv, DoubleAt
  <2>2. DoubleOutput'
    BY <1>1, <1>2, <1>4, <1>8, <2>1, Names DEF DoubleInv, DoubleAt, DoubleOutput, Output
  <2> QED BY <1>1, <1>2, <1>3, <1>6, <1>8, <2>2 DEF OutputInv
<1> QED BY <1>1, <1>7, <1>8

(* The candidate is compared with both values, and whatever the comparison  *)
(* says, the register holds a root before its sign is chosen.               *)
LEMMA CompareKeeps ==
  ASSUME PointInv, Compare
  PROVE  /\ step = "DEC_11_COMPARE" /\ step' = "DEC_11_BRANCH" /\ Kept' /\ DecodeInv'
         /\ match' \in [pos : BOOLEAN, neg : BOOLEAN, negate : BOOLEAN]
<1>1. /\ step = "DEC_11_COMPARE" /\ step' = "DEC_11_BRANCH" /\ reg' = reg /\ fe' = fe
      /\ match' = [match EXCEPT !.pos = (reg.t3 = reg.t2), !.neg = (reg.t3 = reg.aux_stage)]
      /\ UNCHANGED <<request, busy, done, flag, pow, exponent>>
  BY DEF Compare, Do, Load
<1>2. /\ reg \in [Reg -> Field] /\ (fe = Nothing \/ fe \in Field \X Field)
      /\ match \in [pos : BOOLEAN, neg : BOOLEAN, negate : BOOLEAN]
      /\ OperandInv /\ DecodeInv
  BY DEF PointInv, PointTypeOK
<1>3. /\ match' \in [pos : BOOLEAN, neg : BOOLEAN, negate : BOOLEAN]
      /\ (match'.pos <=> reg.t3 = reg.t2) /\ (match'.neg <=> reg.t3 = reg.aux_stage)
  BY <1>1, <1>2
<1>4. DecodeInv'
  BY <1>1, <1>2, <1>3
  DEF DecodeInv, DecodeAt, DecodeSteps, RootSteps, PowSteps, SignSteps, Root
<1> QED BY <1>1, <1>2, <1>3, <1>4 DEF Kept, OperandInv

(* The branch takes a root or the other candidate, or refuses.              *)
LEMMA BranchKeeps ==
  ASSUME PointInv, Branch
  PROVE  /\ step = "DEC_11_BRANCH" /\ step' \in {"DEC_12", "DEC_13", "DONE"}
         /\ Kept' /\ DecodeInv' /\ flag' \in BOOLEAN /\ (step' = "DONE" => DecodeOutput')
<1>1. /\ step = "DEC_11_BRANCH" /\ UNCHANGED <<request, busy, done, match, pow, exponent>>
      /\ step' \in {"DEC_12", "DEC_13", "DONE"}
  BY DEF Branch, Do, DoMul, Load, Rest
<1>2. /\ reg \in [Reg -> Field] /\ (fe = Nothing \/ fe \in Field \X Field)
      /\ flag \in BOOLEAN /\ OperandInv /\ DecodeInv
  BY DEF PointInv, PointTypeOK
<1>3. reg.t8 \in Field /\ SqrtM1 \in Field /\ 0 \in Field
  BY <1>2, Names, FieldFacts
<1>4. CASE match.pos
  <2>1. step' = "DEC_13" /\ flag' = TRUE /\ reg' = reg /\ fe' = fe
    BY <1>4 DEF Branch, Do, DoMul, Load
  <2>2. Kept'
    BY <1>1, <1>2, <2>1 DEF Kept, OperandInv
  <2>3. DecodeInv'
    BY <1>1, <1>2, <1>4, <2>1 DEF DecodeInv, DecodeAt, DecodeSteps, RootSteps, PowSteps, SignSteps
  <2> QED BY <1>1, <2>1, <2>2, <2>3
<1>5. CASE ~match.pos /\ match.neg
  <2>1. step' = "DEC_12" /\ flag' = flag /\ reg' = reg /\ fe' = <<reg.t8, SqrtM1>>
    BY <1>5 DEF Branch, Do, DoMul, Load
  <2>2. Kept'
    BY <1>1, <1>2, <1>3, <2>1 DEF Kept, OperandInv
  <2>3. DecodeInv'
    BY <1>1, <1>2, <1>5, <2>1 DEF DecodeInv, DecodeAt, DecodeSteps, RootSteps, PowSteps, SignSteps
  <2> QED BY <1>1, <1>2, <2>1, <2>2, <2>3
<1>6. CASE ~match.pos /\ ~match.neg
  <2>1. /\ step' = "DONE" /\ flag' = FALSE /\ fe' = fe
        /\ reg' = [reg EXCEPT !.out_x = 0, !.out_y = 0, !.out_z = 0, !.out_t = 0]
    BY <1>6 DEF Branch, Do, DoMul, Load
  <2>2. reg' \in [Reg -> Field]
    BY <1>2, <1>3, <2>1
  <2>3. OperandInv' /\ reg'.t0 = reg.t0
    BY <1>1, <1>2, <2>1, Names DEF OperandInv
  <2>4. DecodeInv'
    BY <1>1, <1>2, <2>1, <2>3
    DEF DecodeInv, DecodeAt, DecodeSteps, RootSteps, PowSteps, SignSteps
  <2>5. DecodeOutput'
    BY <1>2, <2>1, Names DEF DecodeOutput, Output
  <2> QED BY <1>1, <1>2, <2>1, <2>2, <2>3, <2>4, <2>5 DEF Kept
<1> QED BY <1>4, <1>5, <1>6

(* The other candidate, times the root of -1, is a root.                    *)
LEMMA OtherRootKeeps ==
  ASSUME PointInv, OtherRoot
  PROVE  /\ step = "DEC_12" /\ step' = "DEC_13" /\ Kept' /\ DecodeInv'
<1> DEFINE y == Canonical(request.encoded.y)
<1>1. /\ step = "DEC_12" /\ step' = "DEC_13" /\ flag' = TRUE /\ fe # Nothing
      /\ fe' = Nothing /\ reg' = [reg EXCEPT !.t8 = Product]
      /\ UNCHANGED <<request, busy, done, match, pow, exponent>>
  BY DEF OtherRoot, On, Load, Answered, Rest
<1>2. /\ reg \in [Reg -> Field] /\ fe \in Field \X Field /\ OperandInv /\ DecodeInv
      /\ request \in Request
  BY <1>1 DEF PointInv, PointTypeOK, ControlInv
<1>3. /\ y \in Field /\ reg.t8 \in Field /\ reg.t0 = y
      /\ Scaled(y, reg.t8) = Neg(U(y)) /\ fe = <<reg.t8, SqrtM1>>
  BY <1>1, <1>2, Operand, CanonicalValue, Names DEF DecodeInv, DecodeAt, DecodeSteps
<1>4. Product = Mul(reg.t8, SqrtM1) /\ Product \in Field
  BY <1>2, <1>3, ProductValue
<1>5. Root(y, Product)
  BY <1>3, <1>4, OtherRootRight
<1>6. Kept'
  BY <1>1, <1>2, <1>4, Names DEF Kept, OperandInv
<1>7. DecodeInv'
  BY <1>1, <1>2, <1>3, <1>5, Names
  DEF DecodeInv, DecodeAt, DecodeSteps, RootSteps, PowSteps, SignSteps
<1> QED BY <1>1, <1>6, <1>7

(* The sign of the root is compared with the encoded one,                   *)
LEMMA ChooseKeeps ==
  ASSUME PointInv, ChooseSign
  PROVE  /\ step = "DEC_13" /\ step' = "DEC_13_AUX" /\ Kept' /\ DecodeInv'
         /\ match' \in [pos : BOOLEAN, neg : BOOLEAN, negate : BOOLEAN]
<1>1. /\ step = "DEC_13" /\ step' = "DEC_13_AUX" /\ fe' = fe
      /\ reg' = [reg EXCEPT !.pipe_a = reg.t8, !.pipe_b = 0]
      /\ match' = [match EXCEPT !.negate = (reg.t8 % 2 # request.encoded.sign)]
      /\ UNCHANGED <<request, busy, done, flag, pow, exponent>>
  BY DEF ChooseSign, Do, Load
<1>2. /\ reg \in [Reg -> Field] /\ (fe = Nothing \/ fe \in Field \X Field)
      /\ match \in [pos : BOOLEAN, neg : BOOLEAN, negate : BOOLEAN]
      /\ OperandInv /\ DecodeInv
  BY DEF PointInv, PointTypeOK
<1>3. reg.t8 \in Field /\ 0 \in Field
  BY <1>2, Names, FieldFacts
<1>4. /\ match' \in [pos : BOOLEAN, neg : BOOLEAN, negate : BOOLEAN]
      /\ (match'.negate <=> reg.t8 % 2 # request.encoded.sign)
  BY <1>1, <1>2
<1>5. Kept'
  BY <1>1, <1>2, <1>3, Names DEF Kept, OperandInv
<1>6. DecodeInv'
  BY <1>1, <1>2, <1>4, Names DEF DecodeInv, DecodeAt, DecodeSteps, RootSteps, PowSteps, SignSteps
<1> QED BY <1>1, <1>4, <1>5, <1>6

(* and the root negated if they differ.                                     *)
LEMMA ApplyKeeps ==
  ASSUME PointInv, ApplySign
  PROVE  /\ step = "DEC_13_AUX" /\ step' = "DEC_13_MUL" /\ Kept' /\ DecodeInv'
<1> DEFINE y == Canonical(request.encoded.y)
           sign == request.encoded.sign
           x == IF match.negate THEN Neg(reg.pipe_a) ELSE reg.pipe_a
<1>1. /\ step = "DEC_13_AUX" /\ step' = "DEC_13_MUL" /\ fe' = fe
      /\ reg' = [reg EXCEPT !.t8 = x, !.aux_stage = x]
      /\ UNCHANGED <<request, busy, done, flag, match, pow, exponent>>
  BY DEF ApplySign, Do, Load, Rest
<1>2. /\ reg \in [Reg -> Field] /\ (fe = Nothing \/ fe \in Field \X Field)
      /\ OperandInv /\ DecodeInv
  BY DEF PointInv, PointTypeOK
<1>3. request \in Request
  BY <1>1 DEF PointInv, ControlInv
<1>4. /\ y \in Field /\ reg.t8 \in Field /\ sign \in {0, 1}
      /\ reg.pipe_a = reg.t8 /\ (match.negate <=> reg.t8 % 2 # sign)
      /\ reg.t0 = y /\ Root(y, reg.t8) /\ flag
  BY <1>1, <1>2, <1>3, Operand, CanonicalValue, Names
  DEF DecodeInv, DecodeAt, DecodeSteps, SignSteps
<1>5. x \in Field /\ SignedRoot(y, x, sign)
  <2>1. CASE match.negate
    <3>1. Neg(reg.t8) \in Field /\ Root(y, Neg(reg.t8))
      BY <1>4, NegatedRoot
    <3>2. reg.t8 = 0 => Neg(reg.t8) = 0
      BY DEF Neg
    <3>3. reg.t8 # 0 => Neg(reg.t8) % 2 = sign
      BY <1>4, <2>1, NegatedSign
    <3> QED BY <1>4, <2>1, <3>1, <3>2, <3>3 DEF SignedRoot
  <2>2. CASE ~match.negate
    BY <1>4, <2>2 DEF SignedRoot
  <2> QED BY <2>1, <2>2
<1>6. Kept'
  BY <1>1, <1>2, <1>5, Names DEF Kept, OperandInv
<1>7. DecodeInv'
  BY <1>1, <1>2, <1>4, <1>5, Names
  DEF DecodeInv, DecodeAt, DecodeSteps, RootSteps, PowSteps, SignSteps, SignedRoot
<1> QED BY <1>1, <1>6, <1>7
-----------------------------------------------------------------------------
(* The chain's program. *)
LEMMA Program ==
  /\ Len(PowProgram) = 15
  /\ \A n \in 1 .. 15 :
       /\ PowProgram[n].squares \in 0 .. 100
       /\ PowProgram[n].from \in Chain /\ PowProgram[n].run \in Chain
       /\ PowProgram[n].a \in Chain /\ PowProgram[n].b \in Chain
       /\ PowProgram[n].store \in Chain
BY DEF PowProgram, Multiply, Phase, Chain

(* The powers of two that the others are products of.                       *)
LEMMA SmallPowers ==
  /\ Two[1] = 2 /\ Two[2] = 4 /\ Two[5] = 32 /\ Two[28] = 268435456
<1>1. Two[1] = 2 /\ Two[2] = 4
  BY TwoValues
<1> DEFINE Sum(m, n) == Two[m + n] = Two[m] * Two[n]
<1>2. \A m, n \in Nat : Sum(m, n)
  BY TwoSum
<1>3. Two[4] = Two[2] * Two[2] /\ Two[5] = Two[4] * Two[1] /\ Two[8] = Two[4] * Two[4]
  <2>1. Sum(2, 2) /\ Sum(4, 1) /\ Sum(4, 4)
    <3> HIDE DEF Sum
    <3> QED BY <1>2
  <2> QED BY <2>1
<1>4. Two[16] = Two[8] * Two[8] /\ Two[24] = Two[16] * Two[8] /\ Two[28] = Two[24] * Two[4]
  <2>1. Sum(8, 8) /\ Sum(16, 8) /\ Sum(24, 4)
    <3> HIDE DEF Sum
    <3> QED BY <1>2
  <2> QED BY <2>1
<1>5. Two[4] = 16 /\ Two[5] = 32 /\ Two[8] = 256
  BY <1>1, <1>3
<1>6. Two[16] = 65536
  BY <1>4, <1>5
<1>7. Two[24] = 16777216
  BY <1>4, <1>5, <1>6
<1> QED BY <1>1, <1>4, <1>5, <1>7

(* They are natural numbers and never 0.                                    *)
LEMMA TwoPositive == \A n \in Nat : Two[n] \in Nat /\ Two[n] > 0
<1> DEFINE S == {n \in Nat : Two[n] > 0}
<1>1. 0 \in S /\ \A n \in Nat : n \in S => n + 1 \in S
  BY TwoValues
<1> HIDE DEF S
<1>2. \A n \in Nat : n \in S
  BY <1>1, SetInduction
<1> QED BY <1>2, TwoValues DEF S

(* The powers of two that the chain multiplies.                             *)
LEMMA LargePowers ==
  /\ \A n \in Nat : Two[n] \in Nat
  /\ Two[10] = Two[5] * Two[5] /\ Two[20] = Two[10] * Two[10] /\ Two[40] = Two[20] * Two[20]
  /\ Two[50] = Two[40] * Two[10] /\ Two[100] = Two[50] * Two[50]
  /\ Two[200] = Two[100] * Two[100] /\ Two[250] = Two[200] * Two[50]
  /\ Two[252] = Two[250] * Two[2] /\ Two[84] = (Two[28] * Two[28]) * Two[28]
  /\ Two[252] = (Two[84] * Two[84]) * Two[84]
<1>1. \A m, n \in Nat : Two[m + n] = Two[m] * Two[n]
  BY TwoSum
<1>2. Two[10] = Two[5] * Two[5]
  <2>1. Two[5 + 5] = Two[5] * Two[5]
    BY <1>1
  <2> QED BY <2>1
<1>3. Two[20] = Two[10] * Two[10]
  <2>1. Two[10 + 10] = Two[10] * Two[10]
    BY <1>1
  <2> QED BY <2>1
<1>4. Two[40] = Two[20] * Two[20]
  <2>1. Two[20 + 20] = Two[20] * Two[20]
    BY <1>1
  <2> QED BY <2>1
<1>5. Two[50] = Two[40] * Two[10]
  <2>1. Two[40 + 10] = Two[40] * Two[10]
    BY <1>1
  <2> QED BY <2>1
<1>6. Two[100] = Two[50] * Two[50]
  <2>1. Two[50 + 50] = Two[50] * Two[50]
    BY <1>1
  <2> QED BY <2>1
<1>7. Two[200] = Two[100] * Two[100]
  <2>1. Two[100 + 100] = Two[100] * Two[100]
    BY <1>1
  <2> QED BY <2>1
<1>8. Two[250] = Two[200] * Two[50]
  <2>1. Two[200 + 50] = Two[200] * Two[50]
    BY <1>1
  <2> QED BY <2>1
<1>9. Two[252] = Two[250] * Two[2]
  <2>1. Two[250 + 2] = Two[250] * Two[2]
    BY <1>1
  <2> QED BY <2>1
<1>10. Two[56] = Two[28] * Two[28]
  <2>1. Two[28 + 28] = Two[28] * Two[28]
    BY <1>1
  <2> QED BY <2>1
<1>11. Two[84] = Two[56] * Two[28]
  <2>1. Two[56 + 28] = Two[56] * Two[28]
    BY <1>1
  <2> QED BY <2>1
<1>12. Two[168] = Two[84] * Two[84]
  <2>1. Two[84 + 84] = Two[84] * Two[84]
    BY <1>1
  <2> QED BY <2>1
<1>13. Two[252] = Two[168] * Two[84]
  <2>1. Two[168 + 84] = Two[168] * Two[84]
    BY <1>1
  <2> QED BY <2>1
<1>14. Two[84] = (Two[28] * Two[28]) * Two[28]
  BY <1>10, <1>11
<1>15. Two[252] = (Two[84] * Two[84]) * Two[84]
  BY <1>12, <1>13
<1>16. \A n \in Nat : Two[n] \in Nat
  BY TwoValues
<1> QED BY <1>2, <1>3, <1>4, <1>5, <1>6, <1>7, <1>8, <1>9, <1>14, <1>15, <1>16

(* Numbers of n ones, from two shorter ones: how the chain builds its       *)
(* exponent.                                                                *)
LEMMA ManyOnes ==
  /\ Ones(5) = 31 /\ Ones(10) = Ones(5) * Two[5] + Ones(5)
  /\ Ones(20) = Ones(10) * Two[10] + Ones(10) /\ Ones(40) = Ones(20) * Two[20] + Ones(20)
  /\ Ones(50) = Ones(40) * Two[10] + Ones(10) /\ Ones(100) = Ones(50) * Two[50] + Ones(50)
  /\ Ones(200) = Ones(100) * Two[100] + Ones(100)
  /\ Ones(250) = Ones(200) * Two[50] + Ones(50)
  /\ Two[252] - 3 = Ones(250) * Two[2] + 1
  /\ \A n \in Nat : Ones(n) \in Int /\ Two[n] \in Int
BY SmallPowers, LargePowers DEF Ones

(* What a phase leaves is what the next begins with.                        *)
LEMMA PhaseEnds ==
  ASSUME NEW n \in 1 .. 15
  PROVE  /\ Begins(n + 1, PowProgram[n].store) =
              Chained(n, PowProgram[n].squares, PowProgram[n].a)
                + Chained(n, PowProgram[n].squares, PowProgram[n].b)
         /\ \A c \in Chain \ {PowProgram[n].store} :
              Begins(n + 1, c) = Chained(n, PowProgram[n].squares, c)
<1>1. /\ Ones(5) = 31 /\ Two[5] = 32 /\ Two[2] = 4
      /\ \A k \in Nat : Ones(k) \in Int /\ Two[k] \in Int
  BY ManyOnes, SmallPowers
<1> USE DEF Begins, ValueBegins, T1Begins, T2Begins, Chained, PowProgram, Multiply, Phase, Chain
<1>2. CASE n = 1
  BY <1>2, <1>1
<1>3. CASE n = 2
  BY <1>3, <1>1
<1>4. CASE n = 3
  BY <1>4, <1>1
<1>5. CASE n = 4
  BY <1>5, <1>1
<1>6. CASE n = 5
  BY <1>6, <1>1
<1>7. CASE n = 6
  BY <1>7, <1>1
<1>8. CASE n = 7
  BY <1>8, <1>1
<1>9. CASE n = 8
  BY <1>9, <1>1, ManyOnes
<1>10. CASE n = 9
  BY <1>10, <1>1, ManyOnes
<1>11. CASE n = 10
  BY <1>11, <1>1, ManyOnes
<1>12. CASE n = 11
  BY <1>12, <1>1, ManyOnes
<1>13. CASE n = 12
  BY <1>13, <1>1, ManyOnes
<1>14. CASE n = 13
  BY <1>14, <1>1, ManyOnes
<1>15. CASE n = 14
  BY <1>15, <1>1, ManyOnes
<1>16. CASE n = 15
  BY <1>16, <1>1, ManyOnes
<1> HIDE DEF Begins, ValueBegins, T1Begins, T2Begins, Chained, PowProgram, Multiply, Phase, Chain
<1> QED BY <1>2, <1>3, <1>4, <1>5, <1>6, <1>7, <1>8, <1>9, <1>10, <1>11, <1>12, <1>13, <1>14,
           <1>15, <1>16

(* 2^252, as the model writes it.                                           *)
LEMMA TwoTo252Value == TwoTo252 = Two[252] % ExponentModulus
<1> DEFINE m == ExponentModulus
<1>1. m \in Nat /\ m > 0
  BY PointAssumption
<1>2. ASSUME NEW n \in Nat PROVE Cubed(n % m) = ((n * n) * n) % m
  <2>1. ((n % m) * (n % m)) % m = (n * n) % m
    BY <1>1, ModProduct
  <2> DEFINE q == n * n
  <2>2. q \in Int
    OBVIOUS
  <2> HIDE DEF q
  <2>3. ((q % m) * (n % m)) % m = (q * n) % m
    BY <1>1, <2>2, ModProduct
  <2> QED BY <2>1, <2>3 DEF Cubed, q
<1>3. Cubed(Two[28] % m) = Two[84] % m
  BY <1>2, LargePowers
<1>4. Cubed(Two[84] % m) = Two[252] % m
  BY <1>2, LargePowers
<1> QED BY <1>3, <1>4, SmallPowers DEF TwoTo252

(* The counters of the chain.                                               *)
PowTypes ==
  /\ pow \in [phase : 1 .. 15, left : 0 .. 100]
  /\ exponent \in [Chain -> 0 .. ExponentModulus - 1]

(* The chain begins with its input, and nothing in its other registers.     *)
LEMMA PowBeginKeeps ==
  ASSUME PointInv, PowBegin
  PROVE  /\ step = "DEC_7" /\ step' = "POW_DISPATCH" /\ Kept' /\ DecodeInv'
         /\ PowTypes' /\ ChainInv'
<1>1. /\ step = "DEC_7" /\ step' = "POW_DISPATCH" /\ fe # Nothing /\ fe' = Nothing
      /\ reg' = [reg EXCEPT !.pow_input = Product, !.pow_value = 0, !.pow_t1 = 0, !.pow_t2 = 0]
      /\ pow' = [phase |-> 1, left |-> 0]
      /\ exponent' = [NoExponent EXCEPT !["input"] = 1]
      /\ UNCHANGED <<request, busy, done, flag, match>>
  BY DEF PowBegin, On, Load, Answered
<1>2. reg \in [Reg -> Field] /\ fe \in Field \X Field /\ OperandInv /\ DecodeInv
  BY <1>1 DEF PointInv, PointTypeOK
<1>3. Product \in Field /\ 0 \in Field
  BY <1>2, ProductValue, FieldFacts
<1>4. reg' \in [Reg -> Field]
  BY <1>1, <1>2, <1>3
<1>5. OperandInv' /\ reg'.t0 = reg.t0 /\ reg'.t2 = reg.t2 /\ reg'.t3 = reg.t3
  BY <1>1, <1>2, Names DEF OperandInv
<1>6. DecodeInv'
  BY <1>1, <1>2, <1>5
  DEF DecodeInv, DecodeAt, DecodeSteps, RootSteps, PowSteps, SignSteps
<1>7. ExponentModulus \in Nat /\ ExponentModulus > 1
  BY PointAssumption
<1>8. exponent' \in [Chain -> 0 .. ExponentModulus - 1]
  <2>1. 0 \in 0 .. ExponentModulus - 1 /\ 1 \in 0 .. ExponentModulus - 1
    BY <1>7
  <2> QED BY <1>1, <2>1 DEF NoExponent
<1>9. \A c \in Chain : exponent'[c] = Begins(1, c) /\ Begins(1, c) \in {0, 1}
  BY <1>1 DEF NoExponent, Begins, ValueBegins, T1Begins, T2Begins, Chain
<1>10. 0 % ExponentModulus = 0 /\ 1 % ExponentModulus = 1
  BY <1>7
<1>11. PowProgram[1].squares = 0
  BY DEF PowProgram, Multiply, Phase
<1>12. pow'.phase = 1 /\ pow'.left = 0
  BY <1>1
<1>13. ChainInv'
  <2>1. Current'.squares = 0 /\ Current'.squares - pow'.left = 0
    BY <1>11, <1>12 DEF Current
  <2>2. \A c \in Chain : Begins(1, c) % ExponentModulus = Begins(1, c)
    BY <1>9, <1>10
  <2>3. \A c \in Chain : exponent'[c] = Chained(pow'.phase, 0, c) % ExponentModulus
    BY <1>9, <1>12, <2>2 DEF Chained
  <2> QED BY <1>1, <1>12, <2>1, <2>3 DEF ChainInv, PowSteps, Now
<1>14. PowTypes'
  BY <1>1, <1>8 DEF PowTypes
<1> QED BY <1>1, <1>4, <1>5, <1>6, <1>13, <1>14 DEF Kept

(* The registers of the chain,                                              *)
LEMMA ChainRegisters ==
  \A c \in Chain : PowReg(c) \in Reg
                  /\ PowReg(c) \in {"pow_input", "pow_value", "pow_t1", "pow_t2"}
BY Names DEF Chain, PowReg

(* and which of them a phase names.                                         *)
LEMMA PowOperands ==
  ASSUME PointTypeOK
  PROVE  /\ Operands[1] \in Chain /\ Operands[2] \in Chain /\ Target \in Chain
         /\ pow \in [phase : 1 .. 15, left : 0 .. 100]
<1>1. pow \in [phase : 1 .. 15, left : 0 .. 100]
  BY Program DEF PointTypeOK
<1>2. /\ Current.from \in Chain /\ Current.run \in Chain /\ Current.a \in Chain
      /\ Current.b \in Chain /\ Current.store \in Chain
  BY <1>1, Program DEF Current
<1> QED BY <1>1, <1>2 DEF Operands, Target

(* A dispatch gives the multiplier its operands and changes no register.    *)
LEMMA PowDispatchKeeps ==
  ASSUME PointInv, PowDispatch
  PROVE  step = "POW_DISPATCH" /\ step' = "POW_WAIT" /\ Kept' /\ DecodeInv' /\ ChainInv'
<1>1. /\ step = "POW_DISPATCH" /\ step' = "POW_WAIT" /\ reg' = reg
      /\ fe' = <<reg[PowReg(Operands[1])], reg[PowReg(Operands[2])]>>
      /\ UNCHANGED <<request, busy, done, flag, match, pow, exponent>>
  BY DEF PowDispatch, DoMul, Load, Rest
<1>2. reg \in [Reg -> Field] /\ OperandInv /\ DecodeInv /\ PointTypeOK /\ ChainInv
  BY DEF PointInv, PointTypeOK
<1>3. reg[PowReg(Operands[1])] \in Field /\ reg[PowReg(Operands[2])] \in Field
  BY <1>2, PowOperands, ChainRegisters
<1>4. Kept'
  BY <1>1, <1>2, <1>3 DEF Kept, OperandInv
<1>5. DecodeInv'
  BY <1>1, <1>2 DEF DecodeInv, DecodeAt, DecodeSteps, RootSteps, PowSteps, SignSteps
<1>6. ChainInv'
  BY <1>1, <1>2 DEF ChainInv, PowSteps, Current, Now
<1> QED BY <1>1, <1>4, <1>5, <1>6

(* The exponent of the code's power chain. *)
ChainPower == Two[252] - 3

(* It is a natural number.                                                  *)
LEMMA ChainPowerNat == ChainPower \in Nat
<1>1. Two[252] = Two[250] * 4 /\ Two[250] \in Nat /\ Two[250] > 0
  BY LargePowers, SmallPowers, TwoPositive
<1> QED BY <1>1 DEF ChainPower

(* Each phase begins with natural numbers, and with the operands it needs.  *)
LEMMA ChainedNumber ==
  ASSUME NEW n \in 1 .. 15, NEW k \in Nat
  PROVE  /\ \A c \in Chain : Begins(n, c) \in Nat /\ Chained(n, k, c) \in Nat
         /\ Begins(n, PowProgram[n].from) > 0 /\ Begins(n, PowProgram[n].b) > 0
<1>1. \A j \in Nat : Two[j] \in Nat /\ Ones(j) \in Nat /\ (j # 0 => Ones(j) > 0)
  <2> SUFFICES ASSUME NEW j \in Nat
               PROVE  Two[j] \in Nat /\ Ones(j) \in Nat /\ (j # 0 => Ones(j) > 0)
    OBVIOUS
  <2>1. Two[j] \in Nat /\ Two[j] > 0
    BY TwoPositive
  <2>2. ASSUME j # 0 PROVE Two[j] > 1
    <3>1. j - 1 \in Nat /\ (j - 1) + 1 = j
      BY <2>2
    <3>2. Two[j] = 2 * Two[j - 1] /\ Two[j - 1] \in Nat /\ Two[j - 1] > 0
      BY <3>1, TwoValues, TwoPositive
    <3> QED BY <3>2
  <2> QED BY <2>1, <2>2 DEF Ones
<1>2. \A i, j \in Nat : Ones(i) * Two[j] \in Nat
  BY <1>1
<1>3. Two[252] - 3 \in Nat
  BY ChainPowerNat DEF ChainPower
<1>4. /\ ValueBegins \in [1 .. 16 -> Nat] /\ T1Begins \in [1 .. 16 -> Nat]
      /\ T2Begins \in [1 .. 16 -> Nat]
  <2>1. /\ Ones(5) \in Nat /\ Ones(10) \in Nat /\ Ones(20) \in Nat /\ Ones(40) \in Nat
        /\ Ones(50) \in Nat /\ Ones(100) \in Nat /\ Ones(200) \in Nat /\ Ones(250) \in Nat
    BY <1>1
  <2>2. /\ Ones(5) * Two[5] \in Nat /\ Ones(40) * Two[10] \in Nat
        /\ Ones(200) * Two[50] \in Nat /\ Ones(20) * Two[20] \in Nat
        /\ Ones(100) * Two[100] \in Nat
    BY <1>2
  <2> QED BY <2>1, <2>2, <1>3 DEF ValueBegins, T1Begins, T2Begins
<1>5. \A c \in Chain : Begins(n, c) \in Nat
  BY <1>4 DEF Begins, Chain
<1>6. PowProgram[n].from \in Chain /\ Two[k] \in Nat
  BY <1>1, Program
<1>7. \A c \in Chain : Chained(n, k, c) \in Nat
  <2>1. Begins(n, PowProgram[n].from) * Two[k] \in Nat
    BY <1>5, <1>6
  <2> QED BY <1>5, <2>1 DEF Chained
<1>8. /\ Ones(5) > 0 /\ Ones(10) > 0 /\ Ones(20) > 0 /\ Ones(40) > 0 /\ Ones(50) > 0
      /\ Ones(100) > 0 /\ Ones(200) > 0 /\ Ones(250) > 0
  BY <1>1
<1>9. Begins(n, PowProgram[n].from) > 0 /\ Begins(n, PowProgram[n].b) > 0
  BY <1>8 DEF Begins, ValueBegins, T1Begins, PowProgram, Multiply, Phase
<1> QED BY <1>5, <1>7, <1>9

(* An answer leaves the sum of the operands' powers in its target, in every *)
(* phase and from one phase to the next.                                    *)
LEMMA ChainMoves ==
  ASSUME PointInv, PowAnswer
  PROVE  /\ \A c \in Chain : Now(c) \in Nat
         /\ Now(Operands[1]) > 0 /\ Now(Operands[2]) > 0
         /\ step' = "POW_DISPATCH" =>
              /\ pow' \in [phase : 1 .. 15, left : 0 .. 100] /\ pow'.left <= Current'.squares
              /\ \A c \in Chain \ {Target} : Now(c)' = Now(c)
              /\ \A c \in Chain : c = Target => Now(c)' = Now(Operands[1]) + Now(Operands[2])
         /\ step' = "DEC_8" =>
              /\ pow' = pow /\ Target = "value"
              /\ Two[252] - 3 = Now(Operands[1]) + Now(Operands[2])
<1> DEFINE n == pow.phase
           S == PowProgram[n].squares
           k == S - pow.left
<1>1. step = "POW_WAIT"
  BY DEF PowAnswer, On, Load
<1>2. PointTypeOK /\ ChainInv
  BY DEF PointInv
<1>3. /\ Operands[1] \in Chain /\ Operands[2] \in Chain /\ Target \in Chain
      /\ pow \in [phase : 1 .. 15, left : 0 .. 100] /\ n \in 1 .. 15 /\ pow.left \in 0 .. 100
  BY <1>2, PowOperands
<1>4. S \in 0 .. 100 /\ pow.left <= S /\ k \in 0 .. 100
  <2>1. S \in 0 .. 100
    BY <1>3, Program
  <2>2. pow.left <= S
    BY <1>1, <1>2 DEF ChainInv, PowSteps, Current
  <2>3. pow.left \in 0 .. 100
    BY <1>3
  <2> HIDE DEF S
  <2> QED BY <2>1, <2>2, <2>3
<1>5. \A c : Now(c) = Chained(n, k, c)
  BY DEF Now, Current
<1>6. /\ \A c \in Chain : Chained(n, k, c) \in Nat /\ Begins(n, c) \in Nat
      /\ Begins(n, PowProgram[n].from) > 0 /\ Begins(n, PowProgram[n].b) > 0
  <2> HIDE DEF n, k
  <2>1. n \in 1 .. 15 /\ k \in Nat
    BY <1>3, <1>4
  <2> QED BY <2>1, ChainedNumber
<1>7. Two[k] \in Nat /\ Two[k] > 0
  <2> HIDE DEF k
  <2> QED BY <1>4, TwoPositive
<1>8. /\ Begins(n, PowProgram[n].from) \in Nat
      /\ Begins(n, PowProgram[n].from) * Two[k] \in Nat
      /\ Begins(n, PowProgram[n].from) * Two[k] > 0
  <2> DEFINE b == Begins(n, PowProgram[n].from)
             t == Two[k]
  <2>1. b \in Nat /\ b > 0 /\ t \in Nat /\ t > 0
    BY <1>3, <1>6, <1>7, Program
  <2> HIDE DEF b, t
  <2>2. b * t \in Nat /\ b * t > 0
    BY <2>1
  <2> QED BY <2>1, <2>2 DEF b, t
<1>9. CASE Squaring
  <2>1. step' = "POW_DISPATCH" /\ pow' = [pow EXCEPT !.left = @ - 1] /\ pow.left # 0
    BY <1>9 DEF PowAnswer, On, Load, Squaring
  <2>2. /\ pow'.phase = n /\ pow'.left = pow.left - 1
        /\ pow' \in [phase : 1 .. 15, left : 0 .. 100]
    BY <1>3, <2>1
  <2>3. Target = PowProgram[n].run
    BY <1>9 DEF Target, Current
  <2>4. /\ k = 0 => Operands = <<PowProgram[n].from, PowProgram[n].from>>
        /\ k # 0 => Operands = <<PowProgram[n].run, PowProgram[n].run>>
    <3>1. pow.left # 0 /\ (k = 0 <=> pow.left = S)
      <4>1. pow.left \in Int /\ S \in Int /\ pow.left # 0
        <5>1. pow.left # 0
          BY <1>9 DEF Squaring
        <5>2. pow.left \in Int
          BY <1>3
        <5> HIDE DEF S
        <5> QED BY <1>4, <5>1, <5>2
      <4> HIDE DEF S
      <4> QED BY <4>1
    <3> QED BY <1>9, <3>1 DEF Operands, Current
  <2>5. PowProgram[n].from \in Chain /\ Two[k] \in Int /\ Two[k + 1] = 2 * Two[k] /\ Two[0] = 1
    <3>1. n \in 1 .. 15 /\ k \in Nat
      BY <1>3, <1>4
    <3> HIDE DEF n, k
    <3>2. PowProgram[n].from \in Chain
      BY <3>1, Program
    <3>3. Two[k] \in Int /\ Two[k + 1] = 2 * Two[k] /\ Two[0] = 1
      BY <3>1, TwoValues
    <3> QED BY <3>2, <3>3
  <2>6. Chained(n, k + 1, Target) = Begins(n, PowProgram[n].from) * Two[k + 1]
    BY <1>4, <2>3 DEF Chained
  <2>7. /\ Chained(n, k, Operands[1]) + Chained(n, k, Operands[2]) = Chained(n, k + 1, Target)
        /\ Chained(n, k, Operands[1]) > 0 /\ Chained(n, k, Operands[2]) > 0
    <3> DEFINE b == Begins(n, PowProgram[n].from)
    <3>1. b \in Int /\ b * Two[k + 1] = b * Two[k] + b * Two[k]
      BY <1>6, <2>5
    <3>2. Chained(n, k, Operands[1]) = b * Two[k] /\ Operands[1] = Operands[2]
      BY <1>4, <2>3, <2>4, <2>5, <3>1 DEF Chained
    <3> QED BY <1>8, <2>6, <3>1, <3>2
  <2>8. \A c \in Chain \ {Target} : Chained(n, k + 1, c) = Chained(n, k, c)
    BY <2>3 DEF Chained
  <2>9. S - pow'.left = k + 1 /\ pow'.left <= S /\ Current' = PowProgram[n]
    <3>1. Current' = PowProgram[n]
      BY <2>2 DEF Current
    <3>2. pow'.left = pow.left - 1 /\ pow.left \in Int /\ S \in Int /\ pow.left <= S
      BY <1>3, <1>4, <2>2
    <3> HIDE DEF S
    <3> QED BY <3>1, <3>2
  <2>10. \A c : Now(c)' = Chained(n, k + 1, c)
    BY <2>2, <2>9 DEF Now
  <2> HIDE DEF n, k, S
  <2> QED BY <1>5, <1>6, <2>1, <2>2, <2>7, <2>8, <2>9, <2>10 DEF S
<1>10. CASE ~Squaring
  <2>1. /\ pow.left = 0 /\ k = S /\ Operands = <<PowProgram[n].a, PowProgram[n].b>>
        /\ Target = PowProgram[n].store
    BY <1>3, <1>4, <1>10 DEF Squaring, Operands, Target, Current
  <2>2. Begins(n + 1, Target) = Chained(n, k, Operands[1]) + Chained(n, k, Operands[2])
    BY <1>3, <2>1, PhaseEnds
  <2>3. \A c \in Chain \ {Target} : Begins(n + 1, c) = Chained(n, k, c)
    BY <1>3, <2>1, PhaseEnds
  <2>4. Chained(n, k, Operands[1]) > 0 /\ Chained(n, k, Operands[2]) > 0
    <3>1. /\ PowProgram[n].a = IF S = 0 THEN PowProgram[n].from ELSE PowProgram[n].run
          /\ S = 0 \/ PowProgram[n].b # PowProgram[n].run
      BY <1>3 DEF PowProgram, Multiply, Phase
    <3>2. k = S /\ Operands[1] = PowProgram[n].a /\ Operands[2] = PowProgram[n].b
      BY <2>1
    <3> HIDE DEF n, k, S
    <3>3. Chained(n, k, PowProgram[n].b) = Begins(n, PowProgram[n].b)
      BY <3>1, <3>2 DEF Chained
    <3>4. Chained(n, k, PowProgram[n].a) \in
            {Begins(n, PowProgram[n].from) * Two[k], Begins(n, PowProgram[n].from)}
      BY <3>1, <3>2 DEF Chained
    <3>5. Begins(n, PowProgram[n].from) > 0 /\ Begins(n, PowProgram[n].b) > 0
      BY <1>6
    <3>6. Chained(n, k, Operands[1]) > 0
      BY <1>8, <3>2, <3>4, <3>5
    <3>7. Chained(n, k, Operands[2]) > 0
      BY <3>2, <3>3, <3>5
    <3> QED BY <3>6, <3>7
  <2>5. CASE n < 15
    <3>1. /\ step' = "POW_DISPATCH"
          /\ pow' = [phase |-> n + 1, left |-> PowProgram[n + 1].squares]
      BY <1>10, <2>5, Program DEF PowAnswer, On, Load, AfterPhase
    <3>2. /\ pow'.phase = n + 1 /\ pow'.left = PowProgram[n + 1].squares /\ n + 1 \in 1 .. 15
          /\ PowProgram[n + 1].squares \in 0 .. 100
          /\ pow' \in [phase : 1 .. 15, left : 0 .. 100]
      BY <1>3, <2>5, <3>1, Program
    <3>3. /\ Current' = PowProgram[n + 1] /\ Current'.squares - pow'.left = 0
          /\ pow'.left <= Current'.squares
      BY <3>2 DEF Current
    <3>4. \A c : Now(c)' = Begins(n + 1, c)
      BY <3>2, <3>3 DEF Now, Chained
    <3> HIDE DEF n, k
    <3> QED BY <1>5, <1>6, <2>2, <2>3, <2>4, <3>1, <3>2, <3>3, <3>4
  <2>6. CASE n = 15
    <3>1. step' = "DEC_8" /\ pow' = pow
      BY <1>10, <2>6, Program DEF PowAnswer, On, Load
    <3>2. Begins(16, "value") = Two[252] - 3 /\ PowProgram[15].store = "value"
      BY DEF Begins, ValueBegins, PowProgram, Phase
    <3>3. Target = "value" /\ n + 1 = 16
      BY <2>1, <2>6, <3>2
    <3> HIDE DEF n, k
    <3> QED BY <1>5, <1>6, <2>2, <2>4, <3>1, <3>2, <3>3
  <2> QED BY <1>3, <2>5, <2>6
<1> QED BY <1>9, <1>10

(* An answer is stored, and the exponents of the registers with it.         *)
LEMMA PowAnswerKeeps ==
  ASSUME PointInv, PowAnswer
  PROVE  /\ step = "POW_WAIT" /\ step' \in {"POW_DISPATCH", "DEC_8"} /\ Kept' /\ DecodeInv'
         /\ PowTypes' /\ ChainInv'
<1> DEFINE m == ExponentModulus
           e == Now(Operands[1]) + Now(Operands[2])
           sum == (exponent[Operands[1]] + exponent[Operands[2]]) % m
<1>1. /\ step = "POW_WAIT" /\ fe # Nothing /\ fe' = Nothing
      /\ reg' = [reg EXCEPT ![PowReg(Target)] = Product]
      /\ exponent' = [exponent EXCEPT ![Target] = sum]
      /\ UNCHANGED <<request, busy, done, flag, match>>
  BY DEF PowAnswer, On, Load, Answered
<1>2. /\ reg \in [Reg -> Field] /\ fe \in Field \X Field /\ OperandInv /\ DecodeInv
      /\ PointTypeOK /\ ChainInv /\ exponent \in [Chain -> 0 .. m - 1]
  BY <1>1 DEF PointInv, PointTypeOK
<1>3. Product \in Field
  BY <1>2, ProductValue
<1>4. /\ Operands[1] \in Chain /\ Operands[2] \in Chain /\ Target \in Chain
      /\ pow \in [phase : 1 .. 15, left : 0 .. 100]
  BY <1>2, PowOperands
<1>5. reg' \in [Reg -> Field] /\ \A r \in Reg \ PowRegs : reg'[r] = reg[r]
  BY <1>1, <1>2, <1>3, <1>4, ChainRegisters DEF PowRegs
<1>6. /\ OperandInv' /\ reg'.t0 = reg.t0 /\ reg'.t2 = reg.t2 /\ reg'.t3 = reg.t3
  BY <1>1, <1>2, <1>5, Names DEF OperandInv, PowRegs
<1>7. step' \in {"POW_DISPATCH", "DEC_8"}
  BY DEF PowAnswer, On, Load
<1>8. DecodeInv'
  BY <1>1, <1>2, <1>6, <1>7
  DEF DecodeInv, DecodeAt, DecodeSteps, RootSteps, PowSteps, SignSteps
<1>9. m \in Nat /\ m > 0
  BY PointAssumption
<1>10. \A c \in Chain : Now(c) \in Nat /\ exponent[c] = Now(c) % m
  BY <1>1, <1>2, ChainMoves DEF ChainInv, PowSteps
<1>11. sum \in 0 .. m - 1
  BY <1>2, <1>4, <1>9, DivMod
<1>12. exponent' \in [Chain -> 0 .. m - 1]
  BY <1>1, <1>2, <1>4, <1>11
<1>13. sum = e % m
  <2> DEFINE a == Now(Operands[1])
             b == Now(Operands[2])
  <2>1. a \in Int /\ b \in Int /\ sum = ((a % m) + (b % m)) % m
    BY <1>4, <1>10
  <2> HIDE DEF a, b, m
  <2>2. ((a % m) + (b % m)) % m = (a + b) % m
    BY <1>9, <2>1, ModSum
  <2> QED BY <2>1, <2>2 DEF a, b
<1>14. exponent'[Target] = sum /\ \A c \in Chain \ {Target} : exponent'[c] = exponent[c]
  BY <1>1, <1>2, <1>4
<1> HIDE DEF e, sum, m
<1>15. CASE step' = "POW_DISPATCH"
  <2>1. /\ pow' \in [phase : 1 .. 15, left : 0 .. 100] /\ pow'.left <= Current'.squares
        /\ \A c \in Chain \ {Target} : Now(c)' = Now(c)
        /\ \A c \in Chain : c = Target => Now(c)' = e
    BY <1>15, ChainMoves DEF e
  <2>2. \A c \in Chain : exponent'[c] = Now(c)' % m
    BY <1>10, <1>13, <1>14, <2>1
  <2>3. ChainInv'
    BY <1>15, <2>1, <2>2 DEF ChainInv, PowSteps, m
  <2> QED BY <1>1, <1>5, <1>6, <1>7, <1>8, <1>12, <2>1, <2>3 DEF Kept, PowTypes, m
<1>16. CASE step' = "DEC_8"
  <2>1. pow' = pow /\ Target = "value" /\ Two[252] - 3 = e
    BY <1>16, ChainMoves DEF e
  <2>2. exponent'["value"] = (Two[252] - 3) % m
    BY <1>13, <1>14, <2>1
  <2>3. ChainInv'
    BY <1>16, <2>2 DEF ChainInv, PowSteps, m
  <2> QED BY <1>1, <1>4, <1>5, <1>6, <1>7, <1>8, <1>12, <2>1, <2>3 DEF Kept, PowTypes, m
<1> QED BY <1>7, <1>15, <1>16
-----------------------------------------------------------------------------
(* Away from its own steps each of these invariants says nothing.           *)
LEMMA NotAdding ==
  (step \notin AddSteps => AddInv) /\ (step' \notin AddSteps => AddInv')
BY DEF AddInv, AddAt, AddSteps

(* Neither does that of a doubling,                                         *)
LEMMA NotDoubling ==
  (step \notin DoubleSteps => DoubleInv) /\ (step' \notin DoubleSteps => DoubleInv')
BY DEF DoubleInv, DoubleAt, DoubleSteps

(* of a decompression,                                                      *)
LEMMA NotDecoding ==
  (step \notin DecodeSteps => DecodeInv) /\ (step' \notin DecodeSteps => DecodeInv')
BY DEF DecodeInv, DecodeAt, DecodeSteps, RootSteps, PowSteps, SignSteps

(* of the chain,                                                            *)
LEMMA NotChaining ==
  /\ step \notin PowSteps \cup {"DEC_8"} => ChainInv
  /\ step' \notin PowSteps \cup {"DEC_8"} => ChainInv'
BY DEF ChainInv

(* or of the outputs.                                                       *)
LEMMA NotFinished ==
  (step # "DONE" /\ ~done => OutputInv) /\ (step' # "DONE" /\ ~done' => OutputInv')
BY DEF OutputInv

(* The steps of the three operations are different.                         *)
LEMMA StepNames ==
  /\ \A s \in AddSteps : s \notin DoubleSteps \cup DecodeSteps \cup {"IDLE", "DONE"}
  /\ \A s \in DoubleSteps : s \notin AddSteps \cup DecodeSteps \cup {"IDLE", "DONE"}
  /\ \A s \in DecodeSteps : s \notin AddSteps \cup DoubleSteps \cup {"IDLE", "DONE"}
  /\ PowSteps \cup {"DEC_8"} \subseteq DecodeSteps /\ RootSteps \subseteq DecodeSteps
  /\ SignSteps \subseteq DecodeSteps
  /\ {"IDLE", "DONE"} \cap (AddSteps \cup DoubleSteps \cup DecodeSteps) = {}
BY DEF AddSteps, DoubleSteps, DecodeSteps, RootSteps, PowSteps, SignSteps

(* It holds after the asynchronous reset.                                   *)
LEMMA PointInit ==
  ASSUME Init
  PROVE  PointInv
<1>1. /\ step = "IDLE" /\ ~busy /\ ~done /\ ~flag /\ request = NoRequest /\ fe = Nothing
      /\ reg = [r \in Reg |-> 0] /\ match = NoMatch /\ exponent = NoExponent
      /\ pow = [phase |-> 1, left |-> 0] /\ busy = FALSE /\ done = FALSE /\ flag = FALSE
  BY DEF Init
<1>2. PointTypeOK
  <2>1. reg \in [Reg -> Field]
    BY <1>1, FieldFacts
  <2>2. exponent \in [Chain -> 0 .. ExponentModulus - 1]
    <3>1. 0 \in 0 .. ExponentModulus - 1
      BY PointAssumption
    <3> QED BY <1>1, <3>1 DEF NoExponent
  <2>3. pow \in [phase : 1 .. Len(PowProgram), left : 0 .. 100]
    BY <1>1, Program
  <2> QED BY <1>1, <2>1, <2>2, <2>3 DEF PointTypeOK, NoMatch
<1>3. ControlInv
  BY <1>1, StepNames DEF ControlInv, Steps
<1> QED
  BY <1>1, <1>2, <1>3, StepNames, NotAdding, NotDoubling, NotDecoding, NotChaining, NotFinished
    DEF PointInv, OperandInv

(* A start loads the operands and begins the operation asked for.           *)
LEMMA StartKeeps ==
  ASSUME PointInv, NEW r \in Offered, Start(r)
  PROVE  PointInv'
<1>1. r \in Request /\ r \in Requests
  BY PointAssumption DEF Offered
<1> DEFINE y == Canonical(r.encoded.y)
<1>2. /\ ~busy /\ busy' = TRUE /\ done' = FALSE /\ flag' = FALSE
      /\ request' = r /\ step' = First(r) /\ match' = NoMatch
      /\ UNCHANGED <<pow, exponent>>
  BY DEF Start
<1>3. /\ r.op = "DECOMPRESS" => fe' = <<y, y>> /\ reg' = [AtStart(r) EXCEPT !.t0 = y]
      /\ r.op # "DECOMPRESS" => fe' = Nothing /\ reg' = AtStart(r)
  BY DEF Start
<1>4. /\ r.a.x \in Field /\ r.a.y \in Field /\ r.a.z \in Field /\ r.a.t \in Field
      /\ r.b.x \in Field /\ r.b.y \in Field /\ r.b.z \in Field /\ r.b.t \in Field
      /\ r.encoded.y \in Raw /\ r.op \in {"ADD", "DOUBLE", "DECOMPRESS"}
  BY <1>1 DEF Request, Point
<1>5. y \in Field /\ 0 \in Field
  BY <1>4, CanonicalValue, FieldFacts
<1>6. reg \in [Reg -> Field]
  BY DEF PointInv, PointTypeOK
<1>7. AtStart(r) \in [Reg -> Field]
  BY <1>4, <1>5, <1>6 DEF AtStart
<1>8. reg' \in [Reg -> Field] /\ (fe' = Nothing \/ fe' \in Field \X Field)
  BY <1>3, <1>5, <1>7
<1>9. /\ AtStart(r).px = r.a.x /\ AtStart(r).py = r.a.y /\ AtStart(r).pz = r.a.z
      /\ AtStart(r).pt = r.a.t /\ AtStart(r).qx = r.b.x /\ AtStart(r).qy = r.b.y
      /\ AtStart(r).qz = r.b.z /\ AtStart(r).qt = r.b.t
  BY <1>6, Names DEF AtStart
<1>10. OperandInv'
  BY <1>2, <1>3, <1>7, <1>9, Names DEF OperandInv
<1>11. PointTypeOK'
  BY <1>1, <1>2, <1>8 DEF PointInv, PointTypeOK, NoMatch
<1>12. CASE r.op = "ADD"
  <2>1. step' = "ADD_0" /\ "ADD_0" \in AddSteps
    BY <1>2, <1>12 DEF First, AddSteps
  <2>2. ControlInv'
    BY <1>1, <1>2, <1>12, <2>1, StepNames DEF ControlInv, Steps
  <2>3. AddInv'
    BY <2>1 DEF AddInv, AddAt
  <2> QED BY <1>2, <1>10, <1>11, <2>1, <2>2, <2>3, StepNames, NotDoubling, NotDecoding,
             NotChaining, NotFinished DEF PointInv
<1>13. CASE r.op = "DOUBLE"
  <2>1. step' = "DBL_0" /\ "DBL_0" \in DoubleSteps
    BY <1>2, <1>13 DEF First, DoubleSteps
  <2>2. ControlInv'
    BY <1>1, <1>2, <1>13, <2>1, StepNames DEF ControlInv, Steps
  <2>3. DoubleInv'
    BY <2>1 DEF DoubleInv, DoubleAt
  <2> QED BY <1>2, <1>10, <1>11, <2>1, <2>2, <2>3, StepNames, NotAdding, NotDecoding,
             NotChaining, NotFinished DEF PointInv
<1>14. CASE r.op = "DECOMPRESS"
  <2>1. step' = "DEC_1" /\ "DEC_1" \in DecodeSteps
    BY <1>2, <1>14 DEF First, DecodeSteps
  <2>2. ControlInv'
    BY <1>1, <1>2, <1>14, <2>1, StepNames DEF ControlInv, Steps
  <2>3. reg'.t0 = y /\ fe' = <<y, y>>
    BY <1>3, <1>7, <1>14, Names
  <2>4. DecodeInv'
    BY <1>2, <2>1, <2>3 DEF DecodeInv, DecodeAt, DecodeSteps, RootSteps, PowSteps, SignSteps
  <2>5. step' \notin PowSteps \cup {"DEC_8"}
    BY <2>1 DEF PowSteps
  <2> QED BY <1>2, <1>10, <1>11, <2>1, <2>2, <2>4, <2>5, StepNames, NotAdding, NotDoubling,
             NotChaining, NotFinished DEF PointInv
<1> QED BY <1>4, <1>12, <1>13, <1>14

(* A step of an operation leaves the control state of the others alone.     *)
LEMMA WorkControl ==
  ASSUME PointInv, busy, UNCHANGED <<request, busy, done>>, step' \in Steps \ {"IDLE"},
         step \in AddSteps => step' \in AddSteps \cup {"DONE"},
         step \in DoubleSteps => step' \in DoubleSteps \cup {"DONE"},
         step \in DecodeSteps => step' \in DecodeSteps \cup {"DONE"},
         step # "DONE"
  PROVE  ControlInv' /\ ~done'
<1>1. step \in AddSteps \cup DoubleSteps \cup DecodeSteps /\ ControlInv
  BY DEF PointInv, ControlInv, Steps
<1> QED BY <1>1, StepNames DEF ControlInv

(* Every step of the unit keeps the invariant.                              *)
LEMMA WorkKeeps ==
  ASSUME PointInv, Work
  PROVE  PointInv'
<1> DEFINE Matches == [pos : BOOLEAN, neg : BOOLEAN, negate : BOOLEAN]
<1>1. /\ request = NoRequest \/ request \in Request
      /\ busy \in BOOLEAN /\ done \in BOOLEAN /\ flag \in BOOLEAN /\ match \in Matches
      /\ PowTypes /\ ControlInv
  BY Program DEF PointInv, PointTypeOK, PowTypes
<1>2. ASSUME Kept', match' \in Matches, flag' \in BOOLEAN, PowTypes',
             UNCHANGED <<request, busy, done>>
      PROVE  PointTypeOK' /\ OperandInv'
  BY <1>1, <1>2, Program DEF Kept, PointTypeOK, PowTypes
<1>3. step # "IDLE" => busy /\ ~done
  BY <1>1 DEF ControlInv
<1>4. CASE AddStep
  <2>1. step \in AddSteps /\ step' \in AddSteps /\ Kept' /\ AddInv'
    BY <1>4, AddKeeps
  <2>2. UNCHANGED <<request, busy, done, flag, match, pow, exponent>>
    BY <1>4 DEF AddStep, Rest
  <2>3. PointTypeOK' /\ OperandInv'
    BY <1>1, <1>2, <2>1, <2>2 DEF PowTypes
  <2>4. ControlInv' /\ ~done'
    BY <1>3, <2>1, <2>2, StepNames, WorkControl DEF Steps
  <2> QED BY <2>1, <2>3, <2>4, StepNames, NotDoubling, NotDecoding, NotChaining, NotFinished
          DEF PointInv
<1>5. CASE DoubleStep
  <2>1. step \in DoubleSteps /\ step' \in DoubleSteps /\ Kept' /\ DoubleInv'
    BY <1>5, DoubleKeeps
  <2>2. UNCHANGED <<request, busy, done, flag, match, pow, exponent>>
    BY <1>5 DEF DoubleStep, Rest
  <2>3. PointTypeOK' /\ OperandInv'
    BY <1>1, <1>2, <2>1, <2>2 DEF PowTypes
  <2>4. ControlInv' /\ ~done'
    BY <1>3, <2>1, <2>2, StepNames, WorkControl DEF Steps
  <2> QED BY <2>1, <2>3, <2>4, StepNames, NotAdding, NotDecoding, NotChaining, NotFinished
          DEF PointInv
<1>6. CASE LastProduct
  <2>1. step \in {"ADD_15", "DBL_15"} /\ step' = "DONE" /\ Kept' /\ OutputInv'
    BY <1>6, LastKeeps
  <2>2. UNCHANGED <<request, busy, done, match, pow, exponent>> /\ flag' = TRUE
    BY <1>6 DEF LastProduct, Rest
  <2>3. PointTypeOK' /\ OperandInv'
    BY <1>1, <1>2, <2>1, <2>2 DEF PowTypes
  <2>4. ControlInv' /\ ~done'
    BY <1>3, <2>1, <2>2, WorkControl DEF Steps
  <2> QED BY <2>1, <2>3, <2>4, StepNames, NotAdding, NotDoubling, NotDecoding, NotChaining
          DEF PointInv
<1>7. ASSUME step \in DecodeSteps, step' \in DecodeSteps \cup {"DONE"}, Kept', DecodeInv',
             ChainInv', PowTypes', match' \in Matches, flag' \in BOOLEAN,
             UNCHANGED <<request, busy, done>>, step' = "DONE" => DecodeOutput'
      PROVE  PointInv'
  <2>1. PointTypeOK' /\ OperandInv'
    BY <1>2, <1>7
  <2>2. ControlInv' /\ ~done'
    BY <1>3, <1>7, StepNames, WorkControl DEF Steps
  <2>3. OutputInv'
    <3>1. request.op = "DECOMPRESS"
      BY <1>1, <1>7 DEF ControlInv
    <3> QED BY <1>7, <2>2, <3>1 DEF OutputInv
  <2> QED BY <1>7, <2>1, <2>2, <2>3, StepNames, NotAdding, NotDoubling DEF PointInv
<1>8. CASE DecodeStep
  <2>1. /\ step \in DecodeSteps /\ step' \in DecodeSteps \cup {"DONE"}
        /\ Kept' /\ DecodeInv' /\ (step' = "DONE" => DecodeOutput')
    BY <1>8, DecodeKeeps
  <2>2. UNCHANGED <<request, busy, done, flag, match, pow, exponent>>
    BY <1>8 DEF DecodeStep, Rest
  <2>3. step' \notin PowSteps \cup {"DEC_8"}
    BY <1>8 DEF DecodeStep, Do, DoMul, On, OnMul, Load, PowSteps
  <2> QED BY <1>1, <1>7, <2>1, <2>2, <2>3, NotChaining DEF PowTypes
<1>9. CASE Compare
  <2>1. UNCHANGED <<request, busy, done, flag, pow, exponent>>
    BY <1>9 DEF Compare
  <2>2. "DEC_11_COMPARE" \in DecodeSteps /\ "DEC_11_BRANCH" \in DecodeSteps
    BY DEF DecodeSteps
  <2>3. "DEC_11_BRANCH" \notin PowSteps \cup {"DEC_8"}
    BY DEF PowSteps
  <2> QED BY <1>1, <1>7, <1>9, <2>1, <2>2, <2>3, CompareKeeps, NotChaining DEF PowTypes
<1>10. CASE Branch
  <2>1. UNCHANGED <<request, busy, done, match, pow, exponent>>
    BY <1>10 DEF Branch, Rest
  <2>2. {"DEC_11_BRANCH", "DEC_12", "DEC_13"} \subseteq DecodeSteps
    BY DEF DecodeSteps, SignSteps
  <2>3. {"DEC_12", "DEC_13", "DONE"} \cap (PowSteps \cup {"DEC_8"}) = {}
    BY DEF PowSteps
  <2> QED BY <1>1, <1>7, <1>10, <2>1, <2>2, <2>3, BranchKeeps, NotChaining DEF PowTypes
<1>11. CASE OtherRoot
  <2>1. UNCHANGED <<request, busy, done, match, pow, exponent>> /\ flag' = TRUE
    BY <1>11 DEF OtherRoot, Rest
  <2>2. {"DEC_12", "DEC_13"} \subseteq DecodeSteps /\ "DEC_13" \notin PowSteps \cup {"DEC_8"}
    BY DEF DecodeSteps, SignSteps, PowSteps
  <2> QED BY <1>1, <1>7, <1>11, <2>1, <2>2, OtherRootKeeps, NotChaining DEF PowTypes
<1>12. CASE ChooseSign
  <2>1. UNCHANGED <<request, busy, done, flag, pow, exponent>>
    BY <1>12 DEF ChooseSign
  <2>2. /\ {"DEC_13", "DEC_13_AUX"} \subseteq DecodeSteps
        /\ "DEC_13_AUX" \notin PowSteps \cup {"DEC_8"}
    BY DEF DecodeSteps, SignSteps, PowSteps
  <2> QED BY <1>1, <1>7, <1>12, <2>1, <2>2, ChooseKeeps, NotChaining DEF PowTypes
<1>13. CASE ApplySign
  <2>1. UNCHANGED <<request, busy, done, flag, match, pow, exponent>>
    BY <1>13 DEF ApplySign, Rest
  <2>2. /\ {"DEC_13_AUX", "DEC_13_MUL"} \subseteq DecodeSteps
        /\ "DEC_13_MUL" \notin PowSteps \cup {"DEC_8"}
    BY DEF DecodeSteps, SignSteps, PowSteps
  <2> QED BY <1>1, <1>7, <1>13, <2>1, <2>2, ApplyKeeps, NotChaining DEF PowTypes
<1>14. CASE PowBegin
  <2>1. UNCHANGED <<request, busy, done, flag, match>>
    BY <1>14 DEF PowBegin
  <2>2. {"DEC_7", "POW_DISPATCH"} \subseteq DecodeSteps
    BY DEF DecodeSteps, RootSteps, PowSteps
  <2> QED BY <1>1, <1>7, <1>14, <2>1, <2>2, PowBeginKeeps
<1>15. CASE PowDispatch
  <2>1. UNCHANGED <<request, busy, done, flag, match, pow, exponent>>
    BY <1>15 DEF PowDispatch, Rest
  <2>2. {"POW_DISPATCH", "POW_WAIT"} \subseteq DecodeSteps
    BY DEF DecodeSteps, RootSteps, PowSteps
  <2> QED BY <1>1, <1>7, <1>15, <2>1, <2>2, PowDispatchKeeps DEF PowTypes
<1>16. CASE PowAnswer
  <2>1. UNCHANGED <<request, busy, done, flag, match>>
    BY <1>16 DEF PowAnswer
  <2>2. {"POW_DISPATCH", "POW_WAIT", "DEC_8"} \subseteq DecodeSteps
    BY DEF DecodeSteps, RootSteps, PowSteps
  <2> QED BY <1>1, <1>7, <1>16, <2>1, <2>2, PowAnswerKeeps
<1>17. CASE Finish
  <2>1. /\ step = "DONE" /\ step' = "IDLE" /\ busy' = FALSE /\ done' = TRUE
        /\ UNCHANGED <<request, flag, reg, fe, match, pow, exponent>>
    BY <1>17 DEF Finish
  <2>2. PointTypeOK' /\ OperandInv'
    BY <2>1 DEF PointInv, PointTypeOK, OperandInv
  <2>3. ControlInv'
    BY <1>1, <2>1, StepNames DEF ControlInv, Steps
  <2>4. OutputInv'
    BY <2>1 DEF PointInv, OutputInv, SumOutput, DoubleOutput, DecodeOutput, Output
  <2> QED BY <2>1, <2>2, <2>3, <2>4, StepNames, NotAdding, NotDoubling, NotDecoding, NotChaining
          DEF PointInv
<1> QED BY <1>4, <1>5, <1>6, <1>8, <1>9, <1>10, <1>11, <1>12, <1>13, <1>14, <1>15, <1>16, <1>17
        DEF Work

(* The unit never loses track of what its registers hold.                   *)
THEOREM PointInvariant == Spec => []PointInv
<1>1. ASSUME PointInv, [Next]_vars PROVE PointInv'
  <2>1. CASE ~busy /\ \E r \in Offered : Start(r)
    BY <1>1, <2>1, StartKeeps
  <2>2. CASE Settle
    <3>1. /\ ~busy /\ done' = FALSE
          /\ UNCHANGED <<request, busy, flag, step, reg, fe, match, pow, exponent>>
      BY <2>2 DEF Settle
    <3>2. ControlInv /\ step = "IDLE"
      BY <1>1, <3>1 DEF PointInv, ControlInv
    <3>3. PointTypeOK' /\ OperandInv' /\ ControlInv'
      BY <1>1, <3>1, <3>2 DEF PointInv, PointTypeOK, OperandInv, ControlInv
    <3> QED BY <3>1, <3>2, <3>3, StepNames, NotAdding, NotDoubling, NotDecoding, NotChaining,
               NotFinished DEF PointInv
  <2>3. CASE Work
    BY <1>1, <2>3, WorkKeeps
  <2>4. CASE Reset
    <3>1. /\ step' = "IDLE" /\ busy' = FALSE /\ done' = FALSE /\ flag' = FALSE
          /\ request' = NoRequest /\ fe' = Nothing /\ reg' = [r \in Reg |-> 0]
          /\ match' = NoMatch /\ exponent' = NoExponent /\ pow' = [phase |-> 1, left |-> 0]
      BY <2>4 DEF Reset
    <3>2. reg' \in [Reg -> Field]
      BY <3>1, FieldFacts
    <3>3. exponent' \in [Chain -> 0 .. ExponentModulus - 1]
      <4>1. 0 \in 0 .. ExponentModulus - 1
        BY PointAssumption
      <4> QED BY <3>1, <4>1 DEF NoExponent
    <3>4. PointTypeOK'
      <4>1. pow' \in [phase : 1 .. Len(PowProgram), left : 0 .. 100]
        BY <3>1, Program
      <4> QED BY <3>1, <3>2, <3>3, <4>1 DEF PointTypeOK, NoMatch
    <3>5. OperandInv' /\ ControlInv'
      BY <3>1, StepNames DEF OperandInv, ControlInv, Steps
    <3> QED BY <3>1, <3>4, <3>5, StepNames, NotAdding, NotDoubling, NotDecoding, NotChaining,
               NotFinished DEF PointInv
  <2>5. CASE UNCHANGED vars
    BY <1>1, <2>5
    DEF vars, PointInv, PointTypeOK, ControlInv, OperandInv, AddInv, DoubleInv, DecodeInv,
        ChainInv, Current, Now, OutputInv, SumOutput, DoubleOutput, DecodeOutput, Output
  <2> QED BY <1>1, <2>1, <2>2, <2>3, <2>4, <2>5 DEF Next
<1>2. Init => PointInv
  BY PointInit
<1> QED BY <1>1, <1>2, PTL DEF Spec

(* Registers are canonical: every reduction is complete.                    *)
THEOREM PointTypes == Spec => []PointTypeOK
<1>1. PointInv => PointTypeOK
  BY DEF PointInv
<1> QED BY <1>1, PointInvariant, PTL

(* The chain raises its input to 2^252 - 3 = (p - 5) / 8 for the code's own *)
(* prime, whatever the unit did before.                                     *)
THEOREM ChainExponents == Spec => []ChainExponent
<1>1. PointInv => ChainExponent
  <2> SUFFICES ASSUME PointInv, step = "DEC_8"
               PROVE  exponent["value"] = (TwoTo252 - 3) % ExponentModulus
    BY DEF ChainExponent
  <2> DEFINE n == Two[252]
             m == ExponentModulus
  <2>1. exponent["value"] = (n - 3) % m
    BY DEF PointInv, ChainInv
  <2>2. TwoTo252 = n % m /\ n \in Int /\ m \in Nat /\ m > 0
    BY TwoTo252Value, LargePowers, PointAssumption
  <2> HIDE DEF n, m
  <2>3. n % m \in 0 .. m - 1 /\ n \div m \in Int /\ n = m * (n \div m) + (n % m)
    BY <2>2, DivMod
  <2> DEFINE x == n % m
             q == n \div m
  <2>4. x \in Int /\ q \in Int /\ n = m * q + x /\ m \in Int
    BY <2>2, <2>3
  <2> HIDE DEF x, q
  <2>5. n - 3 = (x - 3) + q * m /\ x - 3 \in Int
    BY <2>4
  <2>6. ((x - 3) + q * m) % m = (x - 3) % m
    BY <2>2, <2>4, <2>5, ModShift
  <2> QED BY <2>1, <2>2, <2>6, <2>5 DEF x, m
<1> QED BY <1>1, PointInvariant, PTL
-----------------------------------------------------------------------------
(* Elements are integers.                                                   *)
LEMMA FieldInt == \A e \in Field : e \in Int
BY FieldFacts

(* What is not 0 has an inverse,                                            *)
LEMMA Inverse ==
  ASSUME NEW a \in Int, ~Same(a, 0)
  PROVE  \E i \in Field : Same(a * i, 1)
<1>1. a % FieldP \in Field /\ Same(a % FieldP, a) /\ a % FieldP # 0 /\ a % FieldP \in Int
  BY SameMod, SameZero, FieldInt
<1>2. PICK i \in Field : ((a % FieldP) * i) % FieldP = 1
  BY <1>1, CurveAssumption
<1>3. i \in Int /\ a * i \in Int /\ (a % FieldP) * i \in Int
  BY <1>1, FieldInt
<1>4. Same((a % FieldP) * i, a * i)
  BY <1>1, <1>3, SameTerms, SameItself
<1>5. Same(1, (a % FieldP) * i)
  <2> DEFINE n == (a % FieldP) * i
  <2>1. n \in Int /\ n % FieldP = 1
    BY <1>2, <1>3
  <2> HIDE DEF n
  <2>2. Same(n % FieldP, n)
    BY <2>1, SameMod
  <2> QED BY <2>1, <2>2 DEF n
<1>6. Same(1, a * i)
  BY <1>3, <1>4, <1>5, SameOn
<1> QED BY <1>3, <1>6, SameBack

(* can be cancelled,                                                        *)
LEMMA Cancel ==
  ASSUME NEW z \in Int, NEW a \in Int, NEW b \in Int, ~Same(z, 0), Same(z * a, z * b)
  PROVE  Same(a, b)
<1>1. PICK i \in Field : Same(z * i, 1)
  BY Inverse
<1>2. i \in Int /\ z * i \in Int /\ z * a \in Int /\ z * b \in Int
  BY FieldInt
<1>3. Same((z * i) * a, 1 * a) /\ Same((z * i) * b, 1 * b)
  <2> DEFINE n == z * i
  <2>1. n \in Int /\ Same(n, 1) /\ 1 \in Int /\ Same(a, a) /\ Same(b, b)
    BY <1>1, <1>2, SameItself
  <2> HIDE DEF n
  <2>2. Same(n * a, 1 * a) /\ Same(n * b, 1 * b)
    BY <2>1, SameTerms
  <2> QED BY <2>2 DEF n
<1>4. Same((z * a) * i, (z * b) * i)
  BY <1>2, SameTerms, SameItself
<1>5. (z * a) * i = (z * i) * a /\ (z * b) * i = (z * i) * b /\ 1 * a = a /\ 1 * b = b
  BY <1>2
<1>6. (z * i) * a \in Int /\ (z * i) * b \in Int
  BY <1>2
<1>7. Same(a, (z * i) * a) /\ Same((z * i) * a, (z * i) * b) /\ Same((z * i) * b, b)
  BY <1>3, <1>4, <1>5, <1>6, SameBack
<1> QED BY <1>6, <1>7, SameOn

(* and has no product 0.                                                    *)
LEMMA NoDivisors ==
  ASSUME NEW a \in Int, NEW b \in Int, ~Same(a, 0), ~Same(b, 0)
  PROVE  ~Same(a * b, 0)
<1>1. a * 0 = 0
  OBVIOUS
<1> QED BY <1>1, Cancel

(* 2 is not 0, because the prime is odd.                                    *)
LEMMA TwoNotZero == ~Same(2, 0) /\ ~Same(1, 0)
<1>1. FieldP \in Nat /\ FieldP > 2
  BY FieldFacts, CurveAssumption
<1>2. 2 \in Field /\ 0 \in Field /\ 1 \in Field
  BY <1>1, FieldFacts
<1> QED BY <1>2, SameElement

(* Sums, differences and negatives of elements, for numbers congruent to    *)
(* them.                                                                    *)
LEMMA SameAdd ==
  ASSUME NEW a \in Field, NEW b \in Field, NEW c \in Int, NEW d \in Int,
         Same(a, c), Same(b, d)
  PROVE  Same(Add(a, b), c + d) /\ Same(Sub(a, b), c - d) /\ Same(Neg(a), 0 - c)
<1>1. a \in Int /\ b \in Int /\ Add(a, b) \in Int /\ Sub(a, b) \in Int /\ Neg(a) \in Int
  BY Closed, FieldInt
<1>2. Same(Add(a, b), a + b) /\ Same(Sub(a, b), a - b) /\ Same(Neg(a), 0 - a)
  BY SameOperations
<1>3. Same(a + b, c + d) /\ Same(a - b, c - d) /\ Same(0 - a, 0 - c)
  BY <1>1, SameTerms, SameItself
<1>4. /\ a + b \in Int /\ a - b \in Int /\ 0 - a \in Int
      /\ c + d \in Int /\ c - d \in Int /\ 0 - c \in Int
  BY <1>1
<1> QED BY <1>1, <1>2, <1>3, <1>4, SameOn

(* A point with coordinates c and third coordinate z.                       *)
Scales(point, c) ==
  /\ Same(point.x, c[1] * point.z) /\ Same(point.y, c[2] * point.z)
  /\ Same(point.t, (c[1] * c[2]) * point.z) /\ ~Same(point.z, 0)

(* Congruent numbers have the difference 0.                                 *)
LEMMA SameDifference ==
  ASSUME NEW a \in Int, NEW b \in Int
  PROVE  /\ Same(a - b, 0) => Same(a, b) /\ Same(b, a)
         /\ Same(a, b) => Same(a - b, 0)
<1>1. ASSUME Same(a - b, 0) PROVE Same(a, b)
  <2>1. Same((a - b) + b, 0 + b)
    BY <1>1, SameTerms, SameItself
  <2>2. (a - b) + b = a /\ 0 + b = b
    OBVIOUS
  <2> QED BY <2>1, <2>2
<1>2. ASSUME Same(a, b) PROVE Same(a - b, 0)
  <2>1. Same(a - b, b - b) /\ b - b = 0
    BY <1>2, SameTerms, SameItself
  <2> QED BY <2>1
<1> QED BY <1>1, <1>2, SameBack

(* What the model calls a representation has these coordinates.             *)
LEMMA Representation ==
  ASSUME NEW p \in Point, NEW c \in Field \X Field, Represents(p.x, p.y, p.z, p.t, c)
  PROVE  Scales(p, c)
<1> DEFINE x == p.x
           y == p.y
           z == p.z
           t == p.t
           c1 == c[1]
           c2 == c[2]
<1>1. /\ x \in Int /\ y \in Int /\ z \in Int /\ t \in Int /\ c1 \in Int /\ c2 \in Int
  BY FieldInt DEF Point
<1>2. /\ z % FieldP # 0 /\ (c1 * z - x) % FieldP = 0 /\ (c2 * z - y) % FieldP = 0
      /\ (t * z - x * y) % FieldP = 0
  BY DEF Represents
<1> HIDE DEF x, y, z, t, c1, c2
<1>3. ~Same(z, 0) /\ Same(c1 * z - x, 0) /\ Same(c2 * z - y, 0) /\ Same(t * z - x * y, 0)
  <2>1. c1 * z - x \in Int /\ c2 * z - y \in Int /\ t * z - x * y \in Int
    BY <1>1
  <2> QED BY <1>1, <1>2, <2>1, SameZero
<1>4. Same(x, c1 * z) /\ Same(y, c2 * z) /\ Same(t * z, x * y)
  BY <1>1, <1>3, SameDifference
<1>5. Same(x * y, (c1 * z) * (c2 * z))
  BY <1>1, <1>4, SameTerms
<1>6. Same(t * z, (c1 * z) * (c2 * z))
  BY <1>1, <1>4, <1>5, SameOn
<1>7. t * z = z * t /\ (c1 * z) * (c2 * z) = z * ((c1 * c2) * z)
  BY <1>1
<1>8. Same(t, (c1 * c2) * z)
  BY <1>1, <1>3, <1>6, <1>7, Cancel
<1> QED BY <1>3, <1>4, <1>8 DEF Scales, x, y, z, t, c1, c2

(* With coordinates x = a z, y = b z of one operand and f, g of the other,  *)
(* what the factors of a sum come to.                                       *)
LEMMA SumIdentities ==
  ASSUME NEW a \in Int, NEW b \in Int, NEW f \in Int, NEW g \in Int, NEW y \in Int,
         NEW z \in Int, NEW d \in Int
  PROVE  /\ (b * y + a * y) * (g * z + f * z) - (b * y - a * y) * (g * z - f * z)
              = 2 * ((y * z) * (a * g + f * b))
         /\ (b * y + a * y) * (g * z + f * z) + (b * y - a * y) * (g * z - f * z)
              = 2 * ((y * z) * (b * g + a * f))
         /\ (y * z + y * z) - (((a * b) * y) * ((f * g) * z)) * (2 * d)
              = 2 * ((y * z) * (1 - d * a * f * b * g))
         /\ (y * z + y * z) + (((a * b) * y) * ((f * g) * z)) * (2 * d)
              = 2 * ((y * z) * (1 + d * a * f * b * g))
OBVIOUS

(* The four factors of a sum, for affine coordinates (a, b) and (f, g).     *)
LEMMA SumParts ==
  ASSUME NEW p \in Point, NEW q \in Point, NEW a \in Int, NEW b \in Int, NEW f \in Int,
         NEW g \in Int, Scales(p, <<a, b>>), Scales(q, <<f, g>>)
  PROVE  /\ Same(SumE(p, q), 2 * ((p.z * q.z) * (a * g + f * b)))
         /\ Same(SumH(p, q), 2 * ((p.z * q.z) * (b * g + a * f)))
         /\ Same(SumF(p, q), 2 * ((p.z * q.z) * (1 - CurveD * a * f * b * g)))
         /\ Same(SumG(p, q), 2 * ((p.z * q.z) * (1 + CurveD * a * f * b * g)))
<1> DEFINE y == p.z
           z == q.z
           x1 == a * y
           y1 == b * y
           t1 == (a * b) * y
           x2 == f * z
           y2 == g * z
           t2 == (f * g) * z
           d == CurveD
           d2 == (2 * d) % FieldP
<1>1. /\ p.x \in Field /\ p.y \in Field /\ p.z \in Field /\ p.t \in Field
      /\ q.x \in Field /\ q.y \in Field /\ q.z \in Field /\ q.t \in Field
      /\ y \in Int /\ z \in Int /\ d \in Int
  BY FieldInt, FieldFacts DEF Point
<1>2. /\ Same(p.x, x1) /\ Same(p.y, y1) /\ Same(p.t, t1)
      /\ Same(q.x, x2) /\ Same(q.y, y2) /\ Same(q.t, t2)
  BY DEF Scales
<1>3. /\ x1 \in Int /\ y1 \in Int /\ t1 \in Int /\ x2 \in Int /\ y2 \in Int /\ t2 \in Int
      /\ y * z \in Int /\ 2 * d \in Int
  BY <1>1
<1>4. d2 \in Field /\ Same(d2, 2 * d)
  BY <1>3, SameMod
<1> HIDE DEF x1, y1, t1, x2, y2, t2, d2
<1>5. /\ Sub(p.y, p.x) \in Field /\ Sub(q.y, q.x) \in Field /\ Add(p.y, p.x) \in Field
      /\ Add(q.y, q.x) \in Field
      /\ Same(Sub(p.y, p.x), y1 - x1) /\ Same(Sub(q.y, q.x), y2 - x2)
      /\ Same(Add(p.y, p.x), y1 + x1) /\ Same(Add(q.y, q.x), y2 + x2)
  BY <1>1, <1>2, <1>3, Closed, SameAdd
<1>6. /\ y1 - x1 \in Int /\ y2 - x2 \in Int /\ y1 + x1 \in Int /\ y2 + x2 \in Int
      /\ t1 * t2 \in Int
  BY <1>3
<1> DEFINE A == (y1 - x1) * (y2 - x2)
           B == (y1 + x1) * (y2 + x2)
           C == (t1 * t2) * (2 * d)
           D == y * z + y * z
<1>7. SumA(p, q) \in Field /\ Same(SumA(p, q), A)
  BY <1>5, <1>6, Closed, SameMul DEF SumA
<1>8. SumB(p, q) \in Field /\ Same(SumB(p, q), B)
  BY <1>5, <1>6, Closed, SameMul DEF SumB
<1>9. SumC(p, q) \in Field /\ Same(SumC(p, q), C)
  <2>1. Mul(p.t, q.t) \in Field /\ Same(Mul(p.t, q.t), t1 * t2)
    BY <1>1, <1>2, <1>3, Closed, SameMul
  <2> QED BY <1>3, <1>4, <1>6, <2>1, Closed, SameMul DEF SumC, d2
<1>10. SumZ(p, q) \in Field /\ Same(SumZ(p, q), y * z)
  <2>1. CASE z = 1
    <3>1. y * z = y
      BY <1>1, <2>1
    <3> QED BY <1>1, <2>1, <3>1, SameItself DEF SumZ
  <2>2. CASE z # 1
    BY <1>1, <2>2, Closed, SameOperations DEF SumZ
  <2> QED BY <2>1, <2>2
<1>11. SumD(p, q) \in Field /\ Same(SumD(p, q), D)
  BY <1>3, <1>10, Closed, SameAdd DEF SumD
<1>12. A \in Int /\ B \in Int /\ C \in Int /\ D \in Int
  BY <1>3, <1>6
<1> HIDE DEF A, B, C, D
<1>13. /\ Same(SumE(p, q), B - A) /\ Same(SumH(p, q), B + A)
       /\ Same(SumF(p, q), D - C) /\ Same(SumG(p, q), D + C)
  BY <1>7, <1>8, <1>9, <1>11, <1>12, SameAdd DEF SumE, SumF, SumG, SumH
<1>14. /\ B - A = 2 * ((y * z) * (a * g + f * b)) /\ B + A = 2 * ((y * z) * (b * g + a * f))
       /\ D - C = 2 * ((y * z) * (1 - d * a * f * b * g))
       /\ D + C = 2 * ((y * z) * (1 + d * a * f * b * g))
  BY <1>1, SumIdentities DEF A, B, C, D, x1, y1, t1, x2, y2, t2
<1> QED BY <1>13, <1>14

(* The same for a double.                                                   *)
LEMMA DoubleIdentities ==
  ASSUME NEW a \in Int, NEW b \in Int, NEW z \in Int, NEW w \in Int
  PROVE  /\ ((a * z + b * z) * (a * z + b * z) - (a * z) * (a * z)) - (b * z) * (b * z)
              = (z * z) * (a * b + a * b)
         /\ (b * z) * (b * z) - (a * z) * (a * z) = (z * z) * (b * b - a * a)
         /\ (z * z) * (1 + w) - (z * z + z * z) = (0 - z * z) * (1 - w)
         /\ 0 - ((a * z) * (a * z) + (b * z) * (b * z)) = (0 - z * z) * (b * b + a * a)
OBVIOUS

(* The four factors of a double, for affine coordinates on the curve.       *)
LEMMA DoubleParts ==
  ASSUME NEW p \in Point, NEW a \in Int, NEW b \in Int, NEW w \in Int,
         Scales(p, <<a, b>>), Same(b * b - a * a, 1 + w)
  PROVE  /\ Same(DoubleE(p), (p.z * p.z) * (a * b + a * b))
         /\ Same(DoubleH(p), (0 - p.z * p.z) * (b * b + a * a))
         /\ Same(DoubleF(p), (0 - p.z * p.z) * (1 - w))
         /\ Same(DoubleG(p), (p.z * p.z) * (1 + w))
<1> DEFINE z == p.z
           x1 == a * z
           y1 == b * z
           m == z * z
<1>1. /\ p.x \in Field /\ p.y \in Field /\ p.z \in Field /\ z \in Int
      /\ x1 \in Int /\ y1 \in Int /\ m \in Int
  BY FieldInt DEF Point
<1>2. Same(p.x, x1) /\ Same(p.y, y1) /\ Same(p.z, z)
  BY <1>1, SameItself DEF Scales
<1> HIDE DEF x1, y1, z
<1> DEFINE A == x1 * x1
           B == y1 * y1
           S == (x1 + y1) * (x1 + y1)
<1>3. A \in Int /\ B \in Int /\ S \in Int /\ x1 + y1 \in Int
  BY <1>1
<1>4. DoubleA(p) \in Field /\ Same(DoubleA(p), A)
  BY <1>1, <1>2, Closed, SameMul DEF DoubleA
<1>5. DoubleB(p) \in Field /\ Same(DoubleB(p), B)
  BY <1>1, <1>2, Closed, SameMul DEF DoubleB
<1>6. DoubleC(p) \in Field /\ Same(DoubleC(p), m + m)
  <2>1. Mul(p.z, p.z) \in Field /\ Same(Mul(p.z, p.z), m)
    BY <1>1, <1>2, Closed, SameMul
  <2> HIDE DEF m
  <2> QED BY <1>1, <2>1, Closed, SameAdd DEF DoubleC
<1>7. DoubleS(p) \in Field /\ Same(DoubleS(p), S)
  <2>1. Add(p.x, p.y) \in Field /\ Same(Add(p.x, p.y), x1 + y1)
    BY <1>1, <1>2, Closed, SameAdd
  <2> QED BY <1>3, <2>1, Closed, SameMul DEF DoubleS
<1> HIDE DEF A, B, S
<1>8. Sub(DoubleS(p), DoubleA(p)) \in Field /\ Same(Sub(DoubleS(p), DoubleA(p)), S - A)
  BY <1>3, <1>4, <1>7, Closed, SameAdd
<1>9. Same(DoubleE(p), (S - A) - B)
  <2>1. S - A \in Int
    BY <1>3
  <2> QED BY <1>3, <1>5, <1>8, <2>1, SameAdd DEF DoubleE
<1>10. DoubleG(p) \in Field /\ Same(DoubleG(p), B - A)
  BY <1>3, <1>4, <1>5, Closed, SameAdd DEF DoubleG
<1>11. /\ (S - A) - B = m * (a * b + a * b) /\ B - A = m * (b * b - a * a)
       /\ m * (1 + w) - (m + m) = (0 - m) * (1 - w)
       /\ 0 - (A + B) = (0 - m) * (b * b + a * a)
  BY <1>1, DoubleIdentities DEF A, B, S, x1, y1
<1>12. Same(DoubleG(p), m * (1 + w))
  <2> HIDE DEF m
  <2>1. b * b - a * a \in Int /\ 1 + w \in Int /\ DoubleG(p) \in Int
    BY <1>10, FieldInt
  <2>2. Same(m * (b * b - a * a), m * (1 + w))
    BY <1>1, <2>1, SameTerms, SameItself
  <2>3. m * (b * b - a * a) \in Int /\ m * (1 + w) \in Int
    BY <1>1, <2>1
  <2> QED BY <1>10, <1>11, <2>1, <2>2, <2>3, SameOn
<1>13. Same(DoubleF(p), m * (1 + w) - (m + m))
  <2> HIDE DEF m
  <2>1. m * (1 + w) \in Int /\ m + m \in Int
    BY <1>1
  <2> QED BY <1>6, <1>10, <1>12, <2>1, SameAdd DEF DoubleF
<1>14. Same(DoubleH(p), 0 - (A + B))
  <2>1. Add(DoubleA(p), DoubleB(p)) \in Field /\ Same(Add(DoubleA(p), DoubleB(p)), A + B)
    BY <1>3, <1>4, <1>5, Closed, SameAdd
  <2>2. A + B \in Int
    BY <1>3
  <2> QED BY <2>1, <2>2, SameAdd, FieldFacts DEF DoubleH
<1> QED BY <1>9, <1>11, <1>12, <1>13, <1>14 DEF z

(* What the products of the factors of a sum come to.                       *)
LEMMA ProductIdentities ==
  ASSUME NEW s \in Int, NEW u \in Int, NEW n1 \in Int, NEW n2 \in Int, NEW w \in Int
  PROVE  /\ ((s * n1) * (u * (1 - w))) * (1 + w) = ((u * (1 - w)) * (s * (1 + w))) * n1
         /\ ((s * (1 + w)) * (u * n2)) * (1 - w) = ((u * (1 - w)) * (s * (1 + w))) * n2
         /\ ((s * n1) * (u * n2)) * ((u * (1 - w)) * (s * (1 + w)))
              = ((s * n1) * (u * (1 - w))) * ((s * (1 + w)) * (u * n2))
OBVIOUS

(* The products of the factors are extended coordinates of the quotients n1 *)
(* / (1 + w) and n2 / (1 - w).                                              *)
LEMMA LawOfParts ==
  ASSUME NEW E \in Field, NEW F \in Field, NEW G \in Field, NEW H \in Field,
         NEW s \in Int, NEW u \in Int, NEW n1 \in Int, NEW n2 \in Int, NEW w \in Int,
         Same(E, s * n1), Same(F, u * (1 - w)), Same(G, s * (1 + w)), Same(H, u * n2)
  PROVE  /\ Same(Mul(E, F) * (1 + w), Mul(F, G) * n1)
         /\ Same(Mul(G, H) * (1 - w), Mul(F, G) * n2)
         /\ Same(Mul(E, H) * Mul(F, G), Mul(E, F) * Mul(G, H))
         /\ ~Same(s, 0) /\ ~Same(u, 0) /\ ~Same(1 + w, 0) /\ ~Same(1 - w, 0)
              => ~Same(Mul(F, G), 0)
<1> DEFINE e == s * n1
           f == u * (1 - w)
           g == s * (1 + w)
           h == u * n2
<1>1. /\ e \in Int /\ f \in Int /\ g \in Int /\ h \in Int
      /\ 1 + w \in Int /\ 1 - w \in Int
  OBVIOUS
<1>2. Same(E, e) /\ Same(F, f) /\ Same(G, g) /\ Same(H, h)
  OBVIOUS
<1>3. /\ ~Same(s, 0) /\ ~Same(u, 0) /\ ~Same(1 + w, 0) /\ ~Same(1 - w, 0)
              => ~Same(f * g, 0)
  <2> SUFFICES ASSUME ~Same(s, 0), ~Same(u, 0), ~Same(1 + w, 0), ~Same(1 - w, 0)
               PROVE  ~Same(f * g, 0)
    OBVIOUS
  <2>1. ~Same(f, 0) /\ ~Same(g, 0)
    BY <1>1, NoDivisors
  <2> HIDE DEF f, g
  <2> QED BY <1>1, <2>1, NoDivisors
<1> HIDE DEF e, f, g, h
<1>4. /\ Same(Mul(E, F), e * f) /\ Same(Mul(G, H), g * h) /\ Same(Mul(F, G), f * g)
      /\ Same(Mul(E, H), e * h)
  BY <1>1, <1>2, SameMul
<1> DEFINE X == Mul(E, F)
           Y == Mul(G, H)
           Z == Mul(F, G)
           T == Mul(E, H)
           x == e * f
           y == g * h
           z == f * g
           t == e * h
<1>5. /\ X \in Int /\ Y \in Int /\ Z \in Int /\ T \in Int
      /\ x \in Int /\ y \in Int /\ z \in Int /\ t \in Int
  <2>1. X \in Field /\ Y \in Field /\ Z \in Field /\ T \in Field
    BY Closed
  <2>2. x \in Int /\ y \in Int /\ z \in Int /\ t \in Int
    BY <1>1
  <2> HIDE DEF X, Y, Z, T
  <2> QED BY <2>1, <2>2, FieldInt
<1>6. Same(X, x) /\ Same(Y, y) /\ Same(Z, z) /\ Same(T, t)
  BY <1>4
<1>7. x * (1 + w) = z * n1 /\ y * (1 - w) = z * n2 /\ t * z = x * y
  BY ProductIdentities DEF e, f, g, h
<1> HIDE DEF X, Y, Z, T, x, y, z, t
<1>8. /\ Same(X * (1 + w), x * (1 + w)) /\ Same(Z * n1, z * n1)
      /\ Same(Y * (1 - w), y * (1 - w)) /\ Same(Z * n2, z * n2)
      /\ Same(T * Z, t * z) /\ Same(X * Y, x * y)
  BY <1>1, <1>5, <1>6, SameTerms, SameItself
<1>9. /\ X * (1 + w) \in Int /\ x * (1 + w) \in Int /\ Z * n1 \in Int
      /\ Y * (1 - w) \in Int /\ y * (1 - w) \in Int /\ Z * n2 \in Int
      /\ T * Z \in Int /\ t * z \in Int /\ X * Y \in Int
  BY <1>1, <1>5
<1>10. /\ Same(X * (1 + w), Z * n1) /\ Same(Y * (1 - w), Z * n2) /\ Same(T * Z, X * Y)
  BY <1>7, <1>8, <1>9, SameBack, SameOn
<1>11. ~Same(z, 0) => ~Same(Z, 0)
  BY <1>5, <1>6, SameBack, SameOn
<1> QED BY <1>10, <1>3, <1>11 DEF X, Y, Z, T, z

(* What is not 0 has multiples of every value.                              *)
LEMMA Quotient ==
  ASSUME NEW a \in Int, NEW n \in Int, ~Same(a, 0)
  PROVE  \E c \in Field : Same(c * a, n)
<1>1. PICK i \in Field : Same(a * i, 1)
  BY Inverse
<1> DEFINE c == (n * i) % FieldP
<1>2. i \in Int /\ n * i \in Int /\ a * i \in Int
  BY FieldInt
<1>3. c \in Field /\ Same(c, n * i) /\ c \in Int
  BY <1>2, SameMod, FieldInt
<1> HIDE DEF c
<1>4. Same(c * a, (n * i) * a) /\ (n * i) * a = n * (a * i)
  BY <1>2, <1>3, SameTerms, SameItself
<1>5. Same(n * (a * i), n * 1) /\ n * 1 = n
  BY <1>1, <1>2, SameTerms, SameItself
<1>6. c * a \in Int /\ n * (a * i) \in Int
  BY <1>2, <1>3
<1> QED BY <1>3, <1>4, <1>5, <1>6, SameOn

(* The sum of two affine points has coordinates when neither 1 + w nor 1 -  *)
(* w is 0.                                                                  *)
LEMMA SumOfExists ==
  ASSUME NEW p \in Field \X Field, NEW q \in Field \X Field, NEW w \in Int,
         Same(w, CurveD * p[1] * q[1] * p[2] * q[2]), ~Same(1 + w, 0), ~Same(1 - w, 0)
  PROVE  /\ SumOf(p, q) \in Field \X Field
         /\ Same(SumOf(p, q)[1] * (1 + w), p[1] * q[2] + q[1] * p[2])
         /\ Same(SumOf(p, q)[2] * (1 - w), p[2] * q[2] + p[1] * q[1])
<1> DEFINE n == CurveD * p[1] * q[1] * p[2] * q[2]
           v == n % FieldP
           n1 == p[1] * q[2] + q[1] * p[2]
           n2 == p[2] * q[2] + p[1] * q[1]
           Fits(c) == /\ (c[1] * (1 + v) - p[1] * q[2] - q[1] * p[2]) % FieldP = 0
                      /\ (c[2] * (1 - v) - p[2] * q[2] - p[1] * q[1]) % FieldP = 0
<1>1. /\ p[1] \in Int /\ p[2] \in Int /\ q[1] \in Int /\ q[2] \in Int /\ CurveD \in Int
  BY FieldInt, FieldFacts
<1>2. n \in Int /\ n1 \in Int /\ n2 \in Int
  BY <1>1
<1>3. SumOf(p, q) = CHOOSE c \in Field \X Field : Fits(c)
  BY DEF SumOf
<1>4. \A c \in Field \X Field :
        Fits(c) <=> Same(c[1] * (1 + v), n1) /\ Same(c[2] * (1 - v), n2)
  <2> TAKE c \in Field \X Field
  <2>1. v \in Int /\ c[1] \in Int /\ c[2] \in Int
    BY <1>2, SameMod, FieldInt
  <2> HIDE DEF v
  <2> DEFINE l1 == c[1] * (1 + v)
             l2 == c[2] * (1 - v)
  <2>2. l1 \in Int /\ l2 \in Int
    BY <2>1
  <2>3. /\ l1 - p[1] * q[2] - q[1] * p[2] = l1 - n1 /\ l2 - p[2] * q[2] - p[1] * q[1] = l2 - n2
    BY <1>1, <2>2
  <2> HIDE DEF l1, l2, n1, n2
  <2>4. l1 - n1 \in Int /\ l2 - n2 \in Int
    BY <1>2, <2>2
  <2>5. (l1 - n1) % FieldP = 0 <=> Same(l1, n1)
    BY <1>2, <2>2, <2>4, SameZero, SameDifference
  <2>6. (l2 - n2) % FieldP = 0 <=> Same(l2, n2)
    BY <1>2, <2>2, <2>4, SameZero, SameDifference
  <2> QED BY <2>3, <2>5, <2>6 DEF l1, l2
<1> HIDE DEF Fits, n, n1, n2
<1>5. v \in Int /\ Same(v, n) /\ Same(v, w) /\ Same(w, v)
  <2>1. v \in Int /\ Same(v, n)
    BY <1>2, SameMod, FieldInt
  <2> HIDE DEF v
  <2> QED BY <1>2, <2>1, SameBack, SameOn DEF n
<1> HIDE DEF v
<1>6. /\ 1 + v \in Int /\ 1 - v \in Int /\ 1 + w \in Int /\ 1 - w \in Int
      /\ Same(1 + v, 1 + w) /\ Same(1 - v, 1 - w) /\ Same(1 + w, 1 + v) /\ Same(1 - w, 1 - v)
  BY <1>5, SameTerms, SameItself
<1>7. ~Same(1 + v, 0) /\ ~Same(1 - v, 0)
  BY <1>6, SameOn
<1>8. PICK c1 \in Field : Same(c1 * (1 + v), n1)
  BY <1>2, <1>6, <1>7, Quotient
<1>9. PICK c2 \in Field : Same(c2 * (1 - v), n2)
  BY <1>2, <1>6, <1>7, Quotient
<1>10. \E c \in Field \X Field : Fits(c)
  <2>1. <<c1, c2>> \in Field \X Field /\ Fits(<<c1, c2>>)
    BY <1>4, <1>8, <1>9
  <2> QED BY <2>1
<1> DEFINE s == SumOf(p, q)
<1>11. s \in Field \X Field /\ Fits(s)
  BY <1>3, <1>10
<1> HIDE DEF s
<1>12. Same(s[1] * (1 + v), n1) /\ Same(s[2] * (1 - v), n2) /\ s[1] \in Int /\ s[2] \in Int
  BY <1>4, <1>11, FieldInt
<1>13. Same(s[1] * (1 + w), s[1] * (1 + v)) /\ Same(s[2] * (1 - w), s[2] * (1 - v))
  BY <1>6, <1>12, SameTerms, SameItself
<1>14. /\ s[1] * (1 + w) \in Int /\ s[1] * (1 + v) \in Int
       /\ s[2] * (1 - w) \in Int /\ s[2] * (1 - v) \in Int
  BY <1>6, <1>12
<1>15. Same(s[1] * (1 + w), n1) /\ Same(s[2] * (1 - w), n2)
  BY <1>2, <1>12, <1>13, <1>14, SameOn
<1> QED BY <1>11, <1>15 DEF s, n1, n2

(* Completeness: for points of the curve neither 1 + w nor 1 - w is ever 0. *)
(* The argument is that of Bernstein and Lange for x^2 + y^2 = 1 + D x^2    *)
(* y^2, with D = - d and the root of -1 times each x: v = 1 or - 1 would    *)
(* make D a square. First the terms that it compares.                       *)
LEMMA EdwardsIdentities ==
  ASSUME NEW x \in Int, NEW b \in Int, NEW y \in Int, NEW g \in Int, NEW D \in Int,
         NEW v \in Int
  PROVE  /\ (x + v * b) * (x + v * b) = (x * x + (v * v) * (b * b)) + (2 * (x * b)) * v
         /\ D * (((x * b) * (y + g)) * ((x * b) * (y + g)))
              = (D * ((x * b) * (x * b))) * (y * y + g * g)
                  + (2 * (x * b)) * (D * ((x * y) * (b * g)))
         /\ (D * ((x * b) * (x * b))) * (1 + D * ((y * g) * (y * g)))
              = D * ((x * b) * (x * b)) + (D * ((x * y) * (b * g))) * (D * ((x * y) * (b * g)))
OBVIOUS

(* With D x y b g = v, where v is 1 or - 1, (x + v b)^2 is D times a        *)
(* square.                                                                  *)
LEMMA EdwardsSquare ==
  ASSUME NEW x \in Int, NEW b \in Int, NEW y \in Int, NEW g \in Int, NEW D \in Int,
         NEW v \in Int, v * v = 1,
         Same(x * x + b * b, 1 + D * ((x * b) * (x * b))),
         Same(y * y + g * g, 1 + D * ((y * g) * (y * g))),
         Same(D * ((x * y) * (b * g)), v)
  PROVE  Same((x + v * b) * (x + v * b), D * (((x * b) * (y + g)) * ((x * b) * (y + g))))
<1> DEFINE l == (x + v * b) * (x + v * b)
           r == D * (((x * b) * (y + g)) * ((x * b) * (y + g)))
           s1 == x * x + b * b
           s2 == y * y + g * g
           d1 == D * ((x * b) * (x * b))
           d2 == D * ((y * g) * (y * g))
           w == D * ((x * y) * (b * g))
           m == 2 * (x * b)
<1>1. /\ s1 \in Int /\ s2 \in Int /\ d1 \in Int /\ d2 \in Int /\ w \in Int /\ m \in Int
      /\ l \in Int /\ r \in Int
  OBVIOUS
<1>2. Same(s1, 1 + d1) /\ Same(s2, 1 + d2) /\ Same(w, v)
  OBVIOUS
<1>3. r = d1 * s2 + m * w /\ d1 * (1 + d2) = d1 + w * w
  BY EdwardsIdentities
<1>4. l = s1 + m * v
  <2>1. l = (x * x + (v * v) * (b * b)) + m * v
    BY EdwardsIdentities
  <2>2. 1 * (b * b) = b * b
    OBVIOUS
  <2> HIDE DEF l, m
  <2> QED BY <2>1, <2>2
<1> HIDE DEF l, r, s1, s2, d1, d2, w, m
<1>5. Same(l, (1 + d1) + m * v)
  <2>1. m * v \in Int /\ 1 + d1 \in Int
    BY <1>1
  <2> DEFINE k == m * v
             e == 1 + d1
  <2>2. k \in Int /\ e \in Int /\ l = s1 + k
    BY <1>4, <2>1
  <2>3. Same(s1, e) /\ s1 \in Int
    BY <1>1, <1>2
  <2> HIDE DEF k, e
  <2>4. Same(k, k)
    BY <2>2, SameItself
  <2>5. Same(s1 + k, e + k)
    BY <2>2, <2>3, <2>4, SameTerms
  <2> QED BY <2>2, <2>5 DEF k, e
<1>6. Same(d1 * s2, d1 + w * w)
  <2> DEFINE e == 1 + d2
  <2>1. e \in Int /\ Same(s2, e) /\ s2 \in Int /\ d1 \in Int /\ d1 * e = d1 + w * w
    BY <1>1, <1>2, <1>3
  <2> HIDE DEF e
  <2>2. Same(d1, d1)
    BY <2>1, SameItself
  <2>3. Same(d1 * s2, d1 * e)
    BY <2>1, <2>2, SameTerms
  <2> QED BY <2>1, <2>3
<1>7. Same(w * w, 1)
  BY <1>1, <1>2, SameTerms
<1>8. /\ d1 * s2 \in Int /\ w * w \in Int /\ d1 + w * w \in Int /\ d1 + 1 \in Int
      /\ m * w \in Int /\ m * v \in Int
  BY <1>1
<1>9. Same(d1 + w * w, d1 + 1)
  <2> DEFINE q == w * w
  <2>1. q \in Int /\ Same(q, 1) /\ Same(d1, d1)
    BY <1>1, <1>7, <1>8, SameItself
  <2> HIDE DEF q
  <2>2. Same(d1 + q, d1 + 1)
    BY <1>1, <2>1, SameTerms
  <2> QED BY <2>2 DEF q
<1>10. Same(d1 * s2, d1 + 1)
  BY <1>6, <1>8, <1>9, SameOn
<1>11. Same(m * w, m * v)
  BY <1>1, <1>2, SameTerms, SameItself
<1>12. Same(r, (d1 + 1) + m * v)
  BY <1>3, <1>8, <1>10, <1>11, SameTerms
<1>13. (d1 + 1) + m * v = (1 + d1) + m * v /\ (1 + d1) + m * v \in Int
  BY <1>1
<1>14. Same((1 + d1) + m * v, r)
  BY <1>1, <1>12, <1>13, SameBack
<1> QED BY <1>1, <1>5, <1>13, <1>14, SameOn DEF l, r

(* SqrtM1 is a root of -1.                                                  *)
LEMMA RootOfMinusOne == SqrtM1 \in Int /\ Same(SqrtM1 * SqrtM1, 0 - 1)
<1> DEFINE s == SqrtM1 * SqrtM1
<1>1. SqrtM1 \in Int /\ s \in Int /\ FieldP \in Int
  BY FieldFacts, FieldInt
<1>2. s % FieldP = FieldP - 1
  BY CurveAssumption
<1> HIDE DEF s
<1>3. Same(FieldP - 1, s)
  BY <1>1, <1>2, SameMod
<1>4. FieldP - 1 = 0 - 1 + 1 * FieldP
  BY <1>1
<1>5. Same(FieldP - 1, 0 - 1)
  BY <1>4 DEF Same
<1>6. FieldP - 1 \in Int /\ 0 - 1 \in Int
  BY <1>1
<1> QED BY <1>1, <1>3, <1>5, <1>6, SameBack, SameOn DEF s

(* - d times a square is no square, unless it is 0: d has no root and -1    *)
(* has one.                                                                 *)
LEMMA NoRootOfD ==
  ASSUME NEW n \in Int, NEW m \in Int, Same(n * n, (0 - CurveD) * (m * m))
  PROVE  Same(m, 0)
<1> SUFFICES ASSUME ~Same(m, 0) PROVE FALSE
  OBVIOUS
<1>1. PICK k \in Field : Same(m * k, 1)
  BY Inverse
<1> DEFINE s == SqrtM1
           d == CurveD
           x == (s * n) * k
           D == 0 - d
<1>2. /\ s \in Int /\ d \in Int /\ D \in Int /\ k \in Int /\ d \in Field
      /\ x \in Int /\ Same(s * s, 0 - 1)
  BY FieldFacts, FieldInt, RootOfMinusOne
<1>3. Same(n * n, D * (m * m))
  OBVIOUS
<1> HIDE DEF s, d, D
<1>4. /\ s * s \in Int /\ n * n \in Int /\ k * k \in Int /\ m * k \in Int
      /\ (m * k) * (m * k) \in Int /\ D * (m * m) \in Int
  BY <1>2
<1>5. x * x = (s * s) * ((n * n) * (k * k))
  BY <1>2
<1>6. Same((n * n) * (k * k), (D * (m * m)) * (k * k))
  BY <1>3, <1>4, SameTerms, SameItself
<1>7. (D * (m * m)) * (k * k) = D * ((m * k) * (m * k))
  BY <1>2
<1>8. Same((m * k) * (m * k), 1 * 1)
  BY <1>1, <1>4, SameTerms
<1>9. Same(D * ((m * k) * (m * k)), D * 1) /\ D * 1 = D
  BY <1>2, <1>4, <1>8, SameTerms, SameItself
<1>10. (n * n) * (k * k) \in Int /\ D * ((m * k) * (m * k)) \in Int
  BY <1>2, <1>4
<1>11. Same((n * n) * (k * k), D)
  BY <1>2, <1>6, <1>7, <1>9, <1>10, SameOn
<1>12. Same(x * x, (0 - 1) * D)
  BY <1>2, <1>4, <1>5, <1>10, <1>11, SameTerms
<1>13. (0 - 1) * D = d
  BY <1>2 DEF D
<1> DEFINE r == x % FieldP
<1>14. r \in Field /\ Same(r, x) /\ r \in Int
  BY <1>2, SameMod, FieldInt
<1> HIDE DEF x, r
<1>15. Same(r * r, x * x)
  BY <1>2, <1>14, SameTerms
<1>16. r * r \in Int /\ x * x \in Int
  BY <1>2, <1>14
<1>17. Same(r * r, d)
  BY <1>2, <1>12, <1>13, <1>15, <1>16, SameOn
<1>18. (r * r) % FieldP \in Field /\ Same((r * r) % FieldP, r * r)
  BY <1>16, SameMod
<1> DEFINE e == (r * r) % FieldP
<1>19. e \in Field /\ e \in Int /\ Same(e, r * r) /\ e # d
  BY <1>14, <1>18, FieldInt, CurveAssumption DEF d
<1> HIDE DEF e
<1>20. Same(e, d)
  BY <1>2, <1>16, <1>17, <1>19, SameOn
<1> QED BY <1>2, <1>19, <1>20, SameElement

(* The equation of the curve, as a congruence.                              *)
OnEdwards(a, b) == Same(b * b - a * a, 1 + CurveD * ((a * b) * (a * b)))

(* A point of the curve, on the curve of Bernstein and Lange's argument.    *)
LEMMA Twisted ==
  ASSUME NEW a \in Int, NEW b \in Int, OnEdwards(a, b)
  PROVE  LET x == SqrtM1 * a
         IN  Same(x * x + b * b, 1 + (0 - CurveD) * ((x * b) * (x * b)))
<1> DEFINE s == SqrtM1
           d == CurveD
           x == s * a
           aa == a * a
           bb == b * b
           ss == s * s
<1>1. /\ s \in Int /\ d \in Int /\ aa \in Int /\ bb \in Int /\ ss \in Int /\ Same(ss, 0 - 1)
  BY FieldFacts, FieldInt, RootOfMinusOne
<1>2. /\ x * x + b * b = ss * aa + bb
      /\ 1 + (0 - d) * ((x * b) * (x * b)) = 1 + ((0 - d) * (aa * bb)) * ss
      /\ b * b - a * a = bb - aa
      /\ 1 + d * ((a * b) * (a * b)) = 1 + d * (aa * bb)
  <2>1. s \in Int /\ d \in Int
    BY <1>1
  <2> HIDE DEF s, d
  <2> QED BY <2>1
<1>3. Same(bb - aa, 1 + d * (aa * bb))
  BY <1>2 DEF OnEdwards
<1> DEFINE l == x * x + b * b
           r == 1 + (0 - d) * ((x * b) * (x * b))
<1>4. l = ss * aa + bb /\ r = 1 + ((0 - d) * (aa * bb)) * ss
  BY <1>2
<1> HIDE DEF l, r, aa, bb, ss, s, d
<1> DEFINE k == (0 - d) * (aa * bb)
           e == 1 + d * (aa * bb)
           n == 0 - 1
<1>5. k \in Int /\ e \in Int /\ bb - aa \in Int /\ ss * aa \in Int /\ k * ss \in Int
      /\ n * aa + bb = bb - aa /\ 1 + k * n = e /\ n \in Int /\ Same(ss, n)
  BY <1>1
<1>6. l = ss * aa + bb /\ r = 1 + k * ss /\ Same(bb - aa, e)
  BY <1>3, <1>4
<1> HIDE DEF k, e, n
<1>7. Same(ss * aa, n * aa) /\ Same(k * ss, k * n)
  BY <1>1, <1>5, SameBeside
<1> DEFINE u1 == ss * aa
           u2 == n * aa
           v1 == k * ss
           v2 == k * n
<1>8. u1 \in Int /\ u2 \in Int /\ v1 \in Int /\ v2 \in Int /\ Same(u1, u2) /\ Same(v1, v2)
  BY <1>1, <1>5, <1>7
<1>9. l = u1 + bb /\ r = 1 + v1 /\ u2 + bb = bb - aa /\ 1 + v2 = e
  BY <1>5, <1>6
<1> HIDE DEF u1, u2, v1, v2
<1>10. Same(u1 + bb, u2 + bb) /\ Same(1 + v1, 1 + v2)
  <2>1. Same(u1 + bb, u2 + bb)
    BY <1>1, <1>8, SameBeside
  <2> DEFINE one == 1
  <2>2. one \in Int
    OBVIOUS
  <2> HIDE DEF one
  <2>3. Same(one + v1, one + v2)
    BY <1>8, <2>2, SameBeside
  <2> QED BY <2>1, <2>3 DEF one
<1>11. l \in Int /\ r \in Int /\ e \in Int /\ bb - aa \in Int
  BY <1>1, <1>5, <1>8, <1>9
<1>12. Same(l, bb - aa) /\ Same(e, r)
  BY <1>9, <1>10, <1>11, SameBack
<1>13. Same(l, r)
  BY <1>6, <1>11, <1>12, SameOn
<1> QED BY <1>13 DEF l, r, x, s, d

(* The factors of 1 and of - 1 are not 0.                                   *)
LEMMA NotZeroAsFactor ==
  ASSUME NEW a \in Int, NEW b \in Int, NEW v \in Int, v * v = 1, Same(a * b, v)
  PROVE  ~Same(a, 0) /\ ~Same(b, 0)
<1>1. ASSUME Same(a * b, 0) PROVE FALSE
  <2> DEFINE c == a * b
  <2>1. c \in Int /\ Same(c, v) /\ Same(c, 0)
    BY <1>1
  <2> HIDE DEF c
  <2>2. Same(v, c)
    BY <2>1, SameBack
  <2>3. Same(v, 0)
    BY <2>1, <2>2, SameOn
  <2>4. Same(v * v, v * 0) /\ v * 0 = 0
    BY <2>3, SameBeside
  <2> QED BY <2>4, TwoNotZero
<1>2. /\ Same(a, 0) => Same(a * b, 0 * b)
      /\ Same(b, 0) => Same(a * b, a * 0)
  <2> DEFINE none == 0
  <2>1. none \in Int
    OBVIOUS
  <2> HIDE DEF none
  <2>2. /\ Same(a, none) => Same(a * b, none * b)
        /\ Same(b, none) => Same(a * b, a * none)
    BY <2>1, SameBeside
  <2> QED BY <2>2 DEF none
<1>3. 0 * b = 0 /\ a * 0 = 0
  OBVIOUS
<1> QED BY <1>1, <1>2, <1>3

(* The argument: d x1 x2 y1 y2 is neither 1 nor - 1.                        *)
LEMMA NoZeroDenominator ==
  ASSUME NEW a \in Int, NEW b \in Int, NEW f \in Int, NEW g \in Int, NEW v \in Int,
         OnEdwards(a, b), OnEdwards(f, g), v * v = 1
  PROVE  ~Same(CurveD * ((a * f) * (b * g)), v)
<1> SUFFICES ASSUME Same(CurveD * ((a * f) * (b * g)), v) PROVE FALSE
  OBVIOUS
<1> DEFINE s == SqrtM1
           d == CurveD
           x == s * a
           y == s * f
           D == 0 - d
           w == d * ((a * f) * (b * g))
           z == D * ((x * y) * (b * g))
<1>1. s \in Int /\ d \in Int /\ Same(s * s, 0 - 1) /\ Same(w, v)
  BY FieldFacts, FieldInt, RootOfMinusOne
<1>2. /\ Same(x * x + b * b, 1 + D * ((x * b) * (x * b)))
      /\ Same(y * y + g * g, 1 + D * ((y * g) * (y * g)))
  BY Twisted
<1> HIDE DEF s, d
<1>3. /\ x \in Int /\ y \in Int /\ D \in Int /\ w \in Int /\ z \in Int
      /\ z = (0 - w) * (s * s) /\ (0 - w) * (0 - 1) = w
  BY <1>1
<1> HIDE DEF w
<1>4. Same(z, v)
  <2> DEFINE n == 0 - 1
             ss == s * s
             k == 0 - w
  <2>1. n \in Int /\ ss \in Int /\ k \in Int /\ Same(ss, n) /\ z = k * ss /\ k * n = w
    BY <1>1, <1>3
  <2> HIDE DEF n, ss, k, z
  <2>2. Same(k * ss, k * n)
    BY <2>1, SameBeside
  <2> QED BY <1>1, <1>3, <2>1, <2>2, SameOn
<1>5. Same(D * ((x * y) * (b * g)), v)
  BY <1>4
<1> HIDE DEF x, y, D, z
<1>6. (x * b) * (y + g) \in Int /\ x + v * b \in Int
  BY <1>3
<1>7. Same((x + v * b) * (x + v * b), D * (((x * b) * (y + g)) * ((x * b) * (y + g))))
  BY <1>2, <1>3, <1>5, EdwardsSquare
<1>8. Same((x * b) * (y + g), 0)
  BY <1>6, <1>7, NoRootOfD DEF D, d
<1> DEFINE h == 0 - g
           u == 0 - v
<1>9. /\ h \in Int /\ u \in Int /\ u * u = v * v /\ h * h = g * g
      /\ (y * h) * (y * h) = (y * g) * (y * g)
      /\ D * ((x * y) * (b * h)) = 0 - z
  BY <1>3 DEF z
<1>10. Same(0 - z, u)
  BY <1>3, <1>4, SameBeside
<1> HIDE DEF h, u
<1>11. (x * b) * (y + h) \in Int /\ x + u * b \in Int
  BY <1>3, <1>9
<1>12. Same((x + u * b) * (x + u * b), D * (((x * b) * (y + h)) * ((x * b) * (y + h))))
  BY <1>2, <1>3, <1>9, <1>10, EdwardsSquare
<1>13. Same((x * b) * (y + h), 0)
  BY <1>11, <1>12, NoRootOfD DEF D, d
<1>14. z = (x * b) * (D * (y * g)) /\ z = g * (D * ((x * y) * b))
       /\ x * b \in Int /\ D * (y * g) \in Int /\ D * ((x * y) * b) \in Int
  BY <1>3 DEF z
<1>15. ~Same(x * b, 0) /\ ~Same(g, 0)
  BY <1>3, <1>4, <1>14, NotZeroAsFactor
<1>16. y + g \in Int /\ y + h \in Int
  BY <1>3, <1>9
<1>17. Same(y + g, 0) /\ Same(y + h, 0)
  BY <1>8, <1>13, <1>14, <1>15, <1>16, NoDivisors
<1>18. Same((y + g) - (y + h), 0 - 0)
  BY <1>16, <1>17, SameTerms
<1>19. (y + g) - (y + h) = 2 * g /\ 0 - 0 = 0
  BY <1>3 DEF h
<1>20. Same(2 * g, 0)
  BY <1>18, <1>19
<1> QED BY <1>15, <1>20, TwoNotZero, NoDivisors

(* The affine coordinates of a point are unique, and those of an operand    *)
(* are on the curve.                                                        *)
LEMMA AffineOfPoint ==
  ASSUME NEW p \in Point, IsPoint(p)
  PROVE  /\ AffineOf(p) \in Field \X Field /\ Scales(p, AffineOf(p))
         /\ OnEdwards(AffineOf(p)[1], AffineOf(p)[2])
<1> DEFINE Of(c) == Represents(p.x, p.y, p.z, p.t, c)
           a == AffineOf(p)
<1>1. PICK c \in Field \X Field : OnCurve(c[1], c[2]) /\ Of(c)
  BY DEF IsPoint
<1>2. a \in Field \X Field /\ Of(a)
  BY <1>1 DEF AffineOf
<1> HIDE DEF a
<1>3. Scales(p, a) /\ Scales(p, c)
  BY <1>1, <1>2, Representation
<1>4. /\ p.z \in Int /\ p.x \in Int /\ p.y \in Int
      /\ c[1] \in Int /\ c[2] \in Int /\ a[1] \in Int /\ a[2] \in Int
      /\ c[1] \in Field /\ c[2] \in Field /\ a[1] \in Field /\ a[2] \in Field
  BY <1>1, <1>2, FieldInt DEF Point
<1>5. a = c
  <2> DEFINE z == p.z
             x == p.x
             y == p.y
             c1 == c[1]
             c2 == c[2]
             a1 == a[1]
             a2 == a[2]
  <2>1. /\ Same(x, c1 * z) /\ Same(y, c2 * z) /\ Same(x, a1 * z) /\ Same(y, a2 * z)
        /\ ~Same(z, 0)
    BY <1>3 DEF Scales
  <2>2. z \in Int /\ x \in Int /\ y \in Int /\ c1 \in Int /\ c2 \in Int /\ a1 \in Int /\ a2 \in Int
    BY <1>4
  <2> HIDE DEF z, x, y, c1, c2, a1, a2
  <2>3. /\ c1 * z = z * c1 /\ c2 * z = z * c2 /\ a1 * z = z * a1 /\ a2 * z = z * a2
        /\ z * c1 \in Int /\ z * c2 \in Int /\ z * a1 \in Int /\ z * a2 \in Int
    BY <2>2
  <2>4. Same(z * a1, x) /\ Same(z * a2, y)
    BY <2>1, <2>2, <2>3, SameBack
  <2>5. Same(z * a1, z * c1) /\ Same(z * a2, z * c2)
    BY <2>1, <2>2, <2>3, <2>4, SameOn
  <2>6. Same(a1, c1) /\ Same(a2, c2)
    BY <2>1, <2>2, <2>5, Cancel
  <2>7. a1 = c1 /\ a2 = c2
    BY <1>4, <2>6, SameElement DEF a1, a2, c1, c2
  <2> QED BY <1>1, <1>2, <2>7 DEF a1, a2, c1, c2
<1>6. OnEdwards(c[1], c[2])
  <2> DEFINE x == c[1]
             y == c[2]
             d == CurveD
             l == y * y - x * x
             r == 1 + d * ((x * y) * (x * y))
             e == y * y - x * x - 1 - d * (x * x * y * y)
  <2>1. x \in Int /\ y \in Int /\ d \in Int /\ e % FieldP = 0
    BY <1>1, <1>4, FieldInt, FieldFacts DEF OnCurve
  <2> HIDE DEF x, y, d
  <2>2. l \in Int /\ r \in Int /\ e \in Int /\ e = l - r
    BY <2>1
  <2> HIDE DEF l, r, e
  <2>3. Same(l - r, 0)
    BY <2>1, <2>2, SameZero
  <2>4. Same(l, r)
    BY <2>2, <2>3, SameDifference
  <2> QED BY <2>4 DEF OnEdwards, l, r, x, y, d
<1> QED BY <1>2, <1>3, <1>5, <1>6 DEF a

(* The denominators of a sum of points of the curve are not 0.              *)
LEMMA Denominators ==
  ASSUME NEW p \in Field \X Field, NEW q \in Field \X Field,
         OnEdwards(p[1], p[2]), OnEdwards(q[1], q[2])
  PROVE  LET w == CurveD * p[1] * q[1] * p[2] * q[2]
         IN  w \in Int /\ ~Same(1 + w, 0) /\ ~Same(1 - w, 0)
<1> DEFINE a == p[1]
           b == p[2]
           f == q[1]
           g == q[2]
           d == CurveD
           w == d * a * f * b * g
           n == 0 - 1
<1>1. a \in Int /\ b \in Int /\ f \in Int /\ g \in Int /\ d \in Int
  BY FieldInt, FieldFacts
<1>2. OnEdwards(a, b) /\ OnEdwards(f, g)
  OBVIOUS
<1> HIDE DEF a, b, f, g
<1>3. n \in Int /\ n * n = 1 /\ 1 * 1 = 1
  OBVIOUS
<1> HIDE DEF n
<1>4. ~Same(d * ((a * f) * (b * g)), n) /\ ~Same(d * ((a * f) * (b * g)), 1)
  BY <1>1, <1>2, <1>3, NoZeroDenominator
<1> HIDE DEF d
<1>5. w = d * ((a * f) * (b * g)) /\ w \in Int
  BY <1>1
<1> HIDE DEF w
<1>6. ASSUME Same(1 + w, 0) PROVE FALSE
  <2>1. 1 + w \in Int /\ (1 + w) + n = w /\ 0 + n = n
    BY <1>5 DEF n
  <2>2. Same((1 + w) + n, 0 + n)
    BY <1>3, <1>6, <2>1, SameBeside
  <2> QED BY <1>4, <1>5, <2>1, <2>2
<1>7. ASSUME Same(1 - w, 0) PROVE FALSE
  <2>1. Same(1, w) /\ Same(w, 1)
    BY <1>5, <1>7, SameDifference
  <2> QED BY <1>4, <1>5, <2>1
<1> QED BY <1>5, <1>6, <1>7 DEF w, d, a, b, f, g

(* Factors with these values multiply to extended coordinates of the sum.   *)
LEMMA SumLaw ==
  ASSUME NEW p \in Field \X Field, NEW q \in Field \X Field,
         OnEdwards(p[1], p[2]), OnEdwards(q[1], q[2]),
         NEW E \in Field, NEW F \in Field, NEW G \in Field, NEW H \in Field,
         NEW s \in Int, NEW u \in Int, ~Same(s, 0), ~Same(u, 0),
         NEW w \in Int, w = CurveD * p[1] * q[1] * p[2] * q[2],
         Same(E, s * (p[1] * q[2] + q[1] * p[2])), Same(F, u * (1 - w)),
         Same(G, s * (1 + w)), Same(H, u * (p[2] * q[2] + p[1] * q[1]))
  PROVE  Represents(Mul(E, F), Mul(G, H), Mul(F, G), Mul(E, H), SumOf(p, q))
<1> DEFINE n1 == p[1] * q[2] + q[1] * p[2]
           n2 == p[2] * q[2] + p[1] * q[1]
           c == SumOf(p, q)
           X == Mul(E, F)
           Y == Mul(G, H)
           Z == Mul(F, G)
           T == Mul(E, H)
           k == 1 + w
           l == 1 - w
<1>1. n1 \in Int /\ n2 \in Int /\ w \in Int /\ k \in Int /\ l \in Int
  BY FieldInt
<1>2. ~Same(k, 0) /\ ~Same(l, 0)
  BY Denominators
<1>3. Same(w, w)
  BY SameItself
<1>4. c \in Field \X Field /\ Same(c[1] * k, n1) /\ Same(c[2] * l, n2)
  BY <1>2, <1>3, SumOfExists
<1> DEFINE x == c[1]
           y == c[2]
<1>5. x \in Int /\ y \in Int /\ Same(x * k, n1) /\ Same(y * l, n2)
  BY <1>4, FieldInt
<1>6. Same(E, s * n1) /\ Same(F, u * l) /\ Same(G, s * k) /\ Same(H, u * n2)
  OBVIOUS
<1> HIDE DEF n1, n2, c
<1>7. /\ Same(X * k, Z * n1) /\ Same(Y * l, Z * n2) /\ Same(T * Z, X * Y) /\ ~Same(Z, 0)
  <2>1. Same(E, s * n1) /\ Same(F, u * (1 - w)) /\ Same(G, s * (1 + w)) /\ Same(H, u * n2)
    BY <1>6
  <2>2. ~Same(s, 0) /\ ~Same(u, 0) /\ ~Same(1 + w, 0) /\ ~Same(1 - w, 0)
    BY <1>2
  <2>3. /\ Same(Mul(E, F) * (1 + w), Mul(F, G) * n1)
        /\ Same(Mul(G, H) * (1 - w), Mul(F, G) * n2)
        /\ Same(Mul(E, H) * Mul(F, G), Mul(E, F) * Mul(G, H))
        /\ ~Same(Mul(F, G), 0)
    BY ONLY <1>1, <2>1, <2>2, LawOfParts, E \in Field, F \in Field, G \in Field, H \in Field,
            s \in Int, u \in Int, w \in Int
  <2> QED BY <2>3
<1>8. X \in Int /\ Y \in Int /\ Z \in Int /\ T \in Int
  <2>1. X \in Field /\ Y \in Field /\ Z \in Field /\ T \in Field
    BY Closed
  <2> HIDE DEF X, Y, Z, T
  <2> QED BY <2>1, FieldInt
<1> HIDE DEF X, Y, Z, T, k, l, x, y
<1>9. /\ Same(Z * (x * k), Z * n1) /\ Same(Z * (y * l), Z * n2)
      /\ x * k \in Int /\ y * l \in Int
  <2> DEFINE m1 == x * k
             m2 == y * l
  <2>1. m1 \in Int /\ m2 \in Int /\ Same(m1, n1) /\ Same(m2, n2)
    BY <1>1, <1>5
  <2> HIDE DEF m1, m2
  <2>2. Same(Z * m1, Z * n1) /\ Same(Z * m2, Z * n2)
    BY <1>1, <1>8, <2>1, SameBeside
  <2> QED BY <2>1, <2>2 DEF m1, m2
<1>10. /\ Z * (x * k) = k * (x * Z) /\ Z * (y * l) = l * (y * Z) /\ X * k = k * X /\ Y * l = l * Y
       /\ k * (x * Z) \in Int /\ l * (y * Z) \in Int /\ Z * n1 \in Int /\ Z * n2 \in Int
       /\ k * X \in Int /\ l * Y \in Int /\ x * Z \in Int /\ y * Z \in Int
       /\ T * Z \in Int /\ X * Y \in Int
  BY <1>1, <1>5, <1>8
<1>11. Same(k * (x * Z), Z * n1) /\ Same(Z * n1, k * X) /\ Same(l * (y * Z), Z * n2)
       /\ Same(Z * n2, l * Y)
  BY <1>7, <1>9, <1>10, SameBack
<1>12. Same(k * (x * Z), k * X) /\ Same(l * (y * Z), l * Y)
  BY <1>10, <1>11, SameOn
<1>13. Same(x * Z, X) /\ Same(y * Z, Y)
  BY <1>1, <1>2, <1>8, <1>10, <1>12, Cancel
<1>14. Same(x * Z - X, 0) /\ Same(y * Z - Y, 0) /\ Same(T * Z - X * Y, 0)
  BY <1>7, <1>8, <1>10, <1>13, SameDifference
<1>15. /\ (x * Z - X) % FieldP = 0 /\ (y * Z - Y) % FieldP = 0
       /\ (T * Z - X * Y) % FieldP = 0 /\ Z % FieldP # 0
  <2>1. x * Z - X \in Int /\ y * Z - Y \in Int /\ T * Z - X * Y \in Int
    BY <1>8, <1>10
  <2> QED BY <1>7, <1>8, <1>14, <2>1, SameZero
<1> QED BY <1>15 DEF Represents, x, y, c, X, Y, Z, T

(* The scales of the factors are not 0.                                     *)
LEMMA NotZeroTwice ==
  ASSUME NEW a \in Int, NEW b \in Int, ~Same(a, 0), ~Same(b, 0)
  PROVE  ~Same(2 * (a * b), 0) /\ ~Same(0 - a * b, 0)
<1> DEFINE c == a * b
<1>1. c \in Int /\ ~Same(c, 0)
  BY NoDivisors
<1> HIDE DEF c
<1>2. ~Same(2 * c, 0)
  BY <1>1, TwoNotZero, NoDivisors
<1>3. ASSUME Same(0 - c, 0) PROVE FALSE
  <2>1. Same(0, c)
    BY <1>1, <1>3, SameDifference
  <2> QED BY <1>1, <2>1, SameBack
<1> QED BY <1>2, <1>3 DEF c

(* An operand of a sum or a double is a point of the curve.                 *)
LEMMA OperandPoints ==
  ASSUME PointInv, done
  PROVE  /\ request.a \in Point /\ request.b \in Point
         /\ request.op \in {"ADD", "DOUBLE"} => IsPoint(request.a)
         /\ request.op = "ADD" => IsPoint(request.b)
<1>1. request \in Request /\ request \in Requests
  BY DEF PointInv, ControlInv
<1> QED BY <1>1, CurveAssumption DEF Request

(* When an addition is done its outputs stand for the sum.                  *)
LEMMA SumIsExact ==
  ASSUME PointInv
  PROVE  SumExact
<1> SUFFICES ASSUME Ended("ADD")
             PROVE  flag /\ Result(SumOf(AffineOf(request.a), AffineOf(request.b)))
  BY DEF SumExact
<1> DEFINE p == request.a
           q == request.b
           a == AffineOf(p)
           b == AffineOf(q)
           s == 2 * (p.z * q.z)
           w == CurveD * a[1] * b[1] * a[2] * b[2]
<1>1. done /\ request.op = "ADD"
  BY DEF Ended
<1>2. p \in Point /\ q \in Point /\ IsPoint(p) /\ IsPoint(q)
  BY <1>1, OperandPoints
<1>3. SumOutput
  BY <1>1 DEF PointInv, OutputInv
<1> HIDE DEF p, q
<1>4. /\ a \in Field \X Field /\ Scales(p, a) /\ OnEdwards(a[1], a[2])
      /\ b \in Field \X Field /\ Scales(q, b) /\ OnEdwards(b[1], b[2])
  BY <1>2, AffineOfPoint
<1> HIDE DEF a, b
<1>5. /\ a[1] \in Int /\ a[2] \in Int /\ b[1] \in Int /\ b[2] \in Int
      /\ p.z \in Int /\ q.z \in Int /\ CurveD \in Int /\ p.z \in Field /\ q.z \in Field
  BY <1>2, <1>4, FieldInt, FieldFacts DEF Point
<1>6. Scales(p, <<a[1], a[2]>>) /\ Scales(q, <<b[1], b[2]>>)
  BY <1>4 DEF Scales
<1>7. /\ Same(SumE(p, q), 2 * ((p.z * q.z) * (a[1] * b[2] + b[1] * a[2])))
      /\ Same(SumH(p, q), 2 * ((p.z * q.z) * (a[2] * b[2] + a[1] * b[1])))
      /\ Same(SumF(p, q), 2 * ((p.z * q.z) * (1 - w)))
      /\ Same(SumG(p, q), 2 * ((p.z * q.z) * (1 + w)))
  BY <1>2, <1>5, <1>6, SumParts
<1>8. /\ 2 * ((p.z * q.z) * (a[1] * b[2] + b[1] * a[2])) = s * (a[1] * b[2] + b[1] * a[2])
      /\ 2 * ((p.z * q.z) * (a[2] * b[2] + a[1] * b[1])) = s * (a[2] * b[2] + a[1] * b[1])
      /\ 2 * ((p.z * q.z) * (1 - w)) = s * (1 - w) /\ 2 * ((p.z * q.z) * (1 + w)) = s * (1 + w)
      /\ s \in Int /\ w \in Int
  <2> DEFINE z == p.z * q.z
  <2>1. z \in Int /\ w \in Int /\ a[1] * b[2] + b[1] * a[2] \in Int
        /\ a[2] * b[2] + a[1] * b[1] \in Int
    BY <1>5
  <2> HIDE DEF z, w
  <2>2. \A n \in Int : 2 * (z * n) = (2 * z) * n
    BY <2>1
  <2>3. 1 - w \in Int /\ 1 + w \in Int /\ 2 * z \in Int
    BY <2>1
  <2> QED BY <2>1, <2>2, <2>3 DEF z
<1>9. ~Same(s, 0)
  BY <1>4, <1>5, NotZeroTwice DEF Scales
<1>10. /\ SumE(p, q) \in Field /\ SumF(p, q) \in Field /\ SumG(p, q) \in Field
       /\ SumH(p, q) \in Field
  <2>1. /\ p.x \in Field /\ p.y \in Field /\ p.t \in Field
        /\ q.x \in Field /\ q.y \in Field /\ q.t \in Field
    BY <1>2 DEF Point
  <2>2. /\ SumA(p, q) \in Field /\ SumB(p, q) \in Field /\ SumZ(p, q) \in Field
    BY <1>5, <2>1, Closed DEF SumA, SumB, SumZ
  <2>3. (2 * CurveD) % FieldP \in Field
    <3>1. 2 * CurveD \in Int
      BY <1>5
    <3> QED BY <3>1, SameMod
  <2>4. SumC(p, q) \in Field
    BY <2>1, <2>3, Closed DEF SumC
  <2> QED BY <2>2, <2>4, Closed DEF SumD, SumE, SumF, SumG, SumH
<1> HIDE DEF s, w
<1>11. /\ Same(SumE(p, q), s * (a[1] * b[2] + b[1] * a[2])) /\ Same(SumF(p, q), s * (1 - w))
       /\ Same(SumG(p, q), s * (1 + w)) /\ Same(SumH(p, q), s * (a[2] * b[2] + a[1] * b[1]))
  BY <1>7, <1>8
<1>12. Represents(Mul(SumE(p, q), SumF(p, q)), Mul(SumG(p, q), SumH(p, q)),
                  Mul(SumF(p, q), SumG(p, q)), Mul(SumE(p, q), SumH(p, q)), SumOf(a, b))
  BY <1>4, <1>8, <1>9, <1>10, <1>11, SumLaw DEF w
<1> QED BY <1>3, <1>12 DEF SumOutput, Output, Result, a, b, p, q

(* When a doubling is done its outputs stand for the double.                *)
LEMMA DoubleIsExact ==
  ASSUME PointInv
  PROVE  DoubleExact
<1> SUFFICES ASSUME Ended("DOUBLE")
             PROVE  flag /\ Result(SumOf(AffineOf(request.a), AffineOf(request.a)))
  BY DEF DoubleExact
<1> DEFINE p == request.a
           a == AffineOf(p)
           s == p.z * p.z
           u == 0 - p.z * p.z
           w == CurveD * a[1] * a[1] * a[2] * a[2]
<1>1. done /\ request.op = "DOUBLE"
  BY DEF Ended
<1>2. p \in Point /\ IsPoint(p)
  BY <1>1, OperandPoints
<1>3. DoubleOutput
  BY <1>1 DEF PointInv, OutputInv
<1> HIDE DEF p
<1>4. a \in Field \X Field /\ Scales(p, a) /\ OnEdwards(a[1], a[2])
  BY <1>2, AffineOfPoint
<1> HIDE DEF a
<1>5. a[1] \in Int /\ a[2] \in Int /\ p.z \in Int /\ CurveD \in Int /\ p.z \in Field
  BY <1>2, <1>4, FieldInt, FieldFacts DEF Point
<1>6. Scales(p, <<a[1], a[2]>>)
  BY <1>4 DEF Scales
<1>7. /\ w = CurveD * ((a[1] * a[2]) * (a[1] * a[2])) /\ w \in Int /\ s \in Int /\ u \in Int
  BY <1>5
<1>8. Same(a[2] * a[2] - a[1] * a[1], 1 + w)
  BY <1>4, <1>7 DEF OnEdwards
<1> HIDE DEF w
<1>9. /\ Same(DoubleE(p), s * (a[1] * a[2] + a[1] * a[2]))
      /\ Same(DoubleH(p), u * (a[2] * a[2] + a[1] * a[1]))
      /\ Same(DoubleF(p), u * (1 - w)) /\ Same(DoubleG(p), s * (1 + w))
  BY <1>2, <1>5, <1>6, <1>7, <1>8, DoubleParts
<1>10. ~Same(s, 0) /\ ~Same(u, 0)
  BY <1>4, <1>5, NoDivisors, NotZeroTwice DEF Scales
<1>11. /\ DoubleE(p) \in Field /\ DoubleF(p) \in Field /\ DoubleG(p) \in Field
       /\ DoubleH(p) \in Field
  <2>1. p.x \in Field /\ p.y \in Field
    BY <1>2 DEF Point
  <2>2. DoubleA(p) \in Field /\ DoubleB(p) \in Field /\ DoubleC(p) \in Field /\ DoubleS(p) \in Field
    BY <1>5, <2>1, Closed DEF DoubleA, DoubleB, DoubleC, DoubleS
  <2> QED BY <2>2, Closed DEF DoubleE, DoubleF, DoubleG, DoubleH
<1> HIDE DEF s, u
<1>12. Represents(Mul(DoubleE(p), DoubleF(p)), Mul(DoubleG(p), DoubleH(p)),
                  Mul(DoubleF(p), DoubleG(p)), Mul(DoubleE(p), DoubleH(p)), SumOf(a, a))
  BY <1>4, <1>7, <1>9, <1>10, <1>11, SumLaw DEF w
<1> QED BY <1>3, <1>12 DEF DoubleOutput, Output, Result, a, p

(* v x^2 = u is the equation of the curve.                                  *)
LEMMA RootOnCurve ==
  ASSUME NEW x \in Field, NEW y \in Field
  PROVE  Root(y, x) <=> OnCurve(x, y)
<1> DEFINE d == CurveD
           l == (y * y) * d + 1
           v == l * (x * x)
           u == y * y - 1
           e == y * y - x * x - 1 - d * (x * x * y * y)
<1>1. x \in Int /\ y \in Int /\ d \in Int /\ d \in Field /\ 1 \in Field /\ 1 \in Int
  BY FieldInt, FieldFacts
<1>2. /\ y * y \in Int /\ x * x \in Int /\ (y * y) * d \in Int /\ l \in Int /\ v \in Int
      /\ u \in Int /\ e = u - v
  BY <1>1
<1>3. Same(Mul(y, y), y * y) /\ Same(Mul(x, x), x * x) /\ Mul(y, y) \in Field /\ Mul(x, x) \in Field
  BY SameOperations, Closed
<1>4. U(y) \in Field /\ Same(U(y), u)
  BY <1>1, <1>2, <1>3, Closed, SameItself, SameAdd DEF U
<1>5. Mul(Mul(y, y), d) \in Field /\ Same(Mul(Mul(y, y), d), (y * y) * d)
  BY <1>1, <1>2, <1>3, Closed, SameItself, SameMul
<1>6. V(y) \in Field /\ Same(V(y), l)
  BY <1>1, <1>2, <1>5, Closed, SameItself, SameAdd DEF V
<1> HIDE DEF l, u, e
<1>7. Scaled(y, x) \in Field /\ Same(Scaled(y, x), v)
  BY <1>2, <1>3, <1>6, Closed, SameMul DEF Scaled
<1> HIDE DEF v
<1>8. Scaled(y, x) \in Int /\ U(y) \in Int
  BY <1>4, <1>7, FieldInt
<1>9. Scaled(y, x) = U(y) <=> Same(u, v)
  <2>1. ASSUME Scaled(y, x) = U(y) PROVE Same(u, v)
    <3>1. Same(u, U(y))
      BY <1>2, <1>4, <1>8, SameBack
    <3> QED BY <1>2, <1>7, <1>8, <2>1, <3>1, SameOn
  <2>2. ASSUME Same(u, v) PROVE Scaled(y, x) = U(y)
    <3>1. Same(v, Scaled(y, x))
      BY <1>2, <1>7, <1>8, SameBack
    <3>2. Same(u, Scaled(y, x))
      BY <1>2, <1>8, <2>2, <3>1, SameOn
    <3>3. Same(U(y), Scaled(y, x))
      BY <1>2, <1>4, <1>8, <3>2, SameOn
    <3> QED BY <1>4, <1>7, <3>3, SameElement
  <2> QED BY <2>1, <2>2
<1>10. Same(u, v) <=> e % FieldP = 0
  <2>1. u - v \in Int
    BY <1>2
  <2> QED BY <1>2, <2>1, SameZero, SameDifference
<1> QED BY <1>9, <1>10 DEF Root, OnCurve, e, d

(* The single subtraction is the remainder.                                 *)
LEMMA CanonicalMod ==
  ASSUME NEW y \in Raw
  PROVE  Canonical(y) = y % FieldP
<1>1. Canonical(y) \in Field /\ (Canonical(y) = y \/ Canonical(y) = y - FieldP)
  BY CanonicalValue
<1>2. FieldP \in Nat /\ FieldP > 0 /\ y \in Int /\ Canonical(y) \in Int
  BY <1>1, FieldFacts, FieldInt DEF Raw
<1>3. y % FieldP \in Field /\ Same(y % FieldP, y) /\ y % FieldP \in Int
  BY <1>2, SameMod, FieldInt
<1>4. y = Canonical(y) + 0 * FieldP \/ y = Canonical(y) + 1 * FieldP
  BY <1>1, <1>2
<1>5. Same(y, Canonical(y))
  BY <1>4 DEF Same
<1> QED BY <1>1, <1>2, <1>3, <1>5, SameOn, SameElement

(* What decompression outputs is the point that the encoding stands for.    *)
LEMMA DecodeIsSound ==
  ASSUME PointInv
  PROVE  DecodeSound
<1> SUFFICES ASSUME Ended("DECOMPRESS"), flag
             PROVE  /\ reg.out_z = 1 /\ Decoded(request.encoded, reg.out_x)
                    /\ Result(<<reg.out_x, request.encoded.y % FieldP>>)
  BY DEF DecodeSound
<1> DEFINE n == request.encoded.y
           y == Canonical(n)
           x == reg.out_x
           t == Mul(x, y)
<1>1. done /\ request.op = "DECOMPRESS"
  BY DEF Ended
<1>2. request \in Request /\ n \in Raw
  BY <1>1 DEF PointInv, ControlInv, Request
<1>3. y = n % FieldP /\ y \in Field /\ x \in Field
  BY <1>2, CanonicalMod, CanonicalValue, Names DEF PointInv, PointTypeOK
<1>4. SignedRoot(y, x, request.encoded.sign) /\ Output(x, y, 1, t)
  BY <1>1 DEF PointInv, OutputInv, DecodeOutput
<1>5. OnCurve(x, y)
  BY <1>3, <1>4, RootOnCurve DEF SignedRoot
<1>6. Decoded(request.encoded, x)
  BY <1>3, <1>4, <1>5 DEF Decoded, Roots, SignedRoot
<1>7. Represents(x, y, 1, t, <<x, y>>)
  <2>1. t \in Field /\ Same(t, x * y)
    BY <1>3, Closed, SameOperations
  <2>2. x \in Int /\ y \in Int /\ t \in Int
    BY <1>3, <2>1, FieldInt
  <2> HIDE DEF x, y, t
  <2>3. x * y \in Int /\ x * 1 - x = 0 /\ y * 1 - y = 0 /\ t * 1 - x * y = t - x * y
        /\ t - x * y \in Int
    BY <2>2
  <2>4. Same(t - x * y, 0) /\ Same(0, 0)
    BY <2>1, <2>2, <2>3, SameDifference, SameItself
  <2>5. (t - x * y) % FieldP = 0 /\ 0 % FieldP = 0 /\ 1 % FieldP # 0
    BY <2>3, <2>4, SameZero, TwoNotZero
  <2> QED BY <2>3, <2>5 DEF Represents
<1> QED BY <1>3, <1>4, <1>6, <1>7 DEF Output, Result
-----------------------------------------------------------------------------
(* Powers of an element of the field. *)
Power[n \in Nat] ==
  IF n = 0 THEN [x \in Field |-> 1] ELSE [x \in Field |-> Mul(Power[n - 1][x], x)]

(* The recursive definition has a value,                                    *)
LEMMA PowerValues ==
  /\ Power \in [Nat -> [Field -> Field]] /\ Power[0] = [x \in Field |-> 1]
  /\ \A n \in Nat : Power[n + 1] = [x \in Field |-> Mul(Power[n][x], x)]
<1> DEFINE Values == [Field -> Field]
           first == [x \in Field |-> 1]
           next(h) == [x \in Field |-> Mul(h[x], x)]
           grow == [n \in Nat |-> [h \in Values |-> next(h)]]
           G(f) == [n \in Nat |-> IF n = 0 THEN first ELSE next(f[n - 1])]
           S == {n \in Nat : Power[n] \in Values}
<1>1. first \in Values
  BY FieldFacts
<1>2. \A h \in Values : next(h) \in Values
  BY Closed
<1> HIDE DEF Values, first, next
<1>3. grow \in [Nat -> [Values -> Values]]
  BY <1>2
<1>4. PICK g \in [Nat -> Values] : Recursive(g, first, grow)
  <2> HIDE DEF grow
  <2> QED BY <1>1, <1>3, Recursion
<1>5. ASSUME NEW n \in Nat, n # 0 PROVE grow[n - 1][g[n - 1]] = next(g[n - 1])
  <2>1. n - 1 \in Nat /\ g[n - 1] \in Values
    BY <1>5
  <2> QED BY <2>1
<1> HIDE DEF grow
<1>6. g = G(g)
  BY <1>4, <1>5 DEF Recursive
<1>7. Power = G(Power)
  BY <1>6 DEF Power, first, next
<1>8. \A n \in Nat : Power[n] = IF n = 0 THEN first ELSE next(Power[n - 1])
  BY <1>7
<1>9. Power[0] = first /\ \A n \in Nat : Power[n + 1] = next(Power[n])
  <2>1. \A n \in Nat : n + 1 \in Nat /\ n + 1 # 0 /\ (n + 1) - 1 = n
    OBVIOUS
  <2> QED BY <1>8, <2>1
<1>10. 0 \in S
  BY <1>1, <1>9
<1>11. \A n \in Nat : n \in S => n + 1 \in S
  BY <1>2, <1>9
<1>12. \A n \in Nat : n \in S
  <2> HIDE DEF S
  <2> QED BY <1>10, <1>11, SetInduction
<1>13. Power \in [Nat -> Values]
  <2>1. \A n \in Nat : Power[n] \in Values
    BY <1>12
  <2>2. Power = [n \in Nat |-> Power[n]]
    BY <1>7
  <2> QED BY <2>1, <2>2
<1> QED BY <1>9, <1>13 DEF Values, first, next

(* each power is the one before times the element,                          *)
LEMMA PowerStep ==
  ASSUME NEW x \in Field
  PROVE  /\ \A n \in Nat : Power[n][x] \in Field /\ Power[n + 1][x] = Mul(Power[n][x], x)
         /\ Power[0][x] = 1
BY PowerValues

(* The product of the field is associative and commutative.                 *)
LEMMA MulLaws ==
  ASSUME NEW a \in Field, NEW b \in Field, NEW c \in Field
  PROVE  /\ Mul(a, b) \in Field /\ Mul(a, b) = Mul(b, a) /\ Mul(a, 1) = a
         /\ Mul(Mul(a, b), c) = Mul(a, Mul(b, c))
<1>1. a \in Int /\ b \in Int /\ c \in Int /\ FieldP \in Nat /\ FieldP > 0
  BY FieldInt, FieldFacts
<1>2. Mul(a, b) = Mul(b, a)
  <2>1. a * b = b * a
    BY <1>1
  <2> QED BY <2>1 DEF Mul
<1>3. Mul(a, 1) = a
  <2>1. 1 \in Field
    BY FieldFacts
  <2>2. Mul(a, 1) \in Field /\ Same(Mul(a, 1), a * 1) /\ a * 1 = a
    BY <1>1, <2>1, Closed, SameOperations
  <2> QED BY <2>2, SameElement
<1>4. Mul(Mul(a, b), c) = Mul(a, Mul(b, c))
  <2> DEFINE u == a * b
             v == b * c
  <2>1. u \in Int /\ v \in Int /\ u * c = a * v
    BY <1>1
  <2> HIDE DEF u, v
  <2>2. ((u % FieldP) * c) % FieldP = (u * c) % FieldP
    BY <1>1, <2>1, ModTimes
  <2>3. ((v % FieldP) * a) % FieldP = (v * a) % FieldP
    BY <1>1, <2>1, ModTimes
  <2>4. v % FieldP \in Int
    <3>1. v % FieldP \in Field
      BY <2>1, SameMod
    <3> QED BY <3>1, FieldInt
  <2>5. (v % FieldP) * a = a * (v % FieldP) /\ v * a = a * v
    BY <1>1, <2>1, <2>4
  <2> QED BY <2>1, <2>2, <2>3, <2>5 DEF Mul, u, v
<1> QED BY <1>2, <1>3, <1>4, Closed

(* the square of a product,                                                 *)
LEMMA SquareOfProduct ==
  ASSUME NEW a \in Field, NEW b \in Field
  PROVE  Mul(Mul(a, b), Mul(a, b)) = Mul(Mul(Mul(b, b), a), a)
<1> DEFINE g == Mul(b, a)
<1>1. g \in Field /\ Mul(a, b) = g
  BY MulLaws
<1>2. Mul(Mul(b, b), a) = Mul(b, g)
  BY MulLaws
<1> HIDE DEF g
<1>3. Mul(b, g) = Mul(g, b)
  BY <1>1, MulLaws
<1>4. Mul(Mul(g, b), a) = Mul(g, Mul(b, a))
  BY <1>1, MulLaws
<1> QED BY <1>1, <1>2, <1>3, <1>4 DEF g

(* exponents add,                                                           *)
LEMMA PowerSum ==
  ASSUME NEW x \in Field, NEW m \in Nat
  PROVE  \A n \in Nat : Power[m + n][x] = Mul(Power[m][x], Power[n][x])
<1> DEFINE S == {n \in Nat : Power[m + n][x] = Mul(Power[m][x], Power[n][x])}
<1>1. 0 \in S
  <2>1. m + 0 = m /\ Power[m][x] \in Field
    BY PowerStep
  <2> QED BY <2>1, PowerStep, MulLaws
<1>2. ASSUME NEW n \in Nat, n \in S PROVE n + 1 \in S
  <2>1. m + n \in Nat /\ m + (n + 1) = (m + n) + 1
    OBVIOUS
  <2>2. Power[(m + n) + 1][x] = Mul(Power[m + n][x], x) /\ Power[n + 1][x] = Mul(Power[n][x], x)
    <3> DEFINE k == m + n
    <3>1. k \in Nat
      BY <2>1
    <3> HIDE DEF k
    <3>2. Power[k + 1][x] = Mul(Power[k][x], x)
      BY <3>1, PowerStep
    <3>3. Power[n + 1][x] = Mul(Power[n][x], x)
      BY PowerStep
    <3> QED BY <3>2, <3>3 DEF k
  <2>3. Power[m + n][x] = Mul(Power[m][x], Power[n][x])
    BY <1>2
  <2>4. Power[m][x] \in Field /\ Power[n][x] \in Field
    BY PowerStep
  <2>5. Mul(Mul(Power[m][x], Power[n][x]), x) = Mul(Power[m][x], Mul(Power[n][x], x))
    <3> DEFINE a == Power[m][x]
               b == Power[n][x]
    <3>1. a \in Field /\ b \in Field
      BY <2>4
    <3> HIDE DEF a, b
    <3>2. Mul(Mul(a, b), x) = Mul(a, Mul(b, x))
      BY <3>1, MulLaws
    <3> QED BY <3>2 DEF a, b
  <2> QED BY <2>1, <2>2, <2>3, <2>5
<1> HIDE DEF S
<1>3. \A n \in Nat : n \in S
  BY <1>1, <1>2, SetInduction
<1> QED BY <1>3 DEF S

(* and double for a square.                                                 *)
LEMMA PowerOfSquare ==
  ASSUME NEW x \in Field
  PROVE  \A n \in Nat : Power[n][Mul(x, x)] = Power[2 * n][x]
<1> DEFINE s == Mul(x, x)
           S == {n \in Nat : Power[n][s] = Power[2 * n][x]}
<1>1. s \in Field /\ s = Power[2][x]
  <2>1. Power[0 + 1][x] = Mul(1, x) /\ Power[1 + 1][x] = Mul(Power[1][x], x)
    BY PowerStep
  <2>2. 1 \in Field
    BY FieldFacts
  <2>3. Mul(1, x) = x
    BY <2>2, MulLaws
  <2> QED BY <2>1, <2>3, MulLaws
<1> HIDE DEF s
<1>2. 0 \in S
  <2>1. 2 * 0 = 0
    OBVIOUS
  <2> QED BY <1>1, <2>1, PowerStep
<1>3. ASSUME NEW n \in Nat, n \in S PROVE n + 1 \in S
  <2>1. 2 * n \in Nat /\ 2 * (n + 1) = 2 * n + 2
    OBVIOUS
  <2>2. Power[n + 1][s] = Mul(Power[n][s], s)
    BY <1>1, PowerStep
  <2>3. Power[2 * n + 2][x] = Mul(Power[2 * n][x], Power[2][x])
    BY <2>1, PowerSum
  <2>4. Power[n][s] = Power[2 * n][x]
    BY <1>3
  <2> QED BY <1>1, <2>1, <2>2, <2>3, <2>4
<1> HIDE DEF S
<1>4. \A n \in Nat : n \in S
  BY <1>2, <1>3, SetInduction
<1> QED BY <1>4 DEF S, s

(* The recursive definition of repeated squaring has a value,               *)
LEMMA SquaredValues ==
  /\ Squared[0] = [c \in Field |-> c]
  /\ \A n \in Nat : Squared[n + 1] = [c \in Field |-> Squared[n][Mul(c, c)]]
<1> DEFINE Values == [Field -> Field]
           first == [c \in Field |-> c]
           next(h) == [c \in Field |-> h[(c * c) % FieldP]]
           grow == [n \in Nat |-> [h \in Values |-> next(h)]]
           G(f) == [n \in Nat |-> IF n = 0 THEN first ELSE next(f[n - 1])]
<1>1. first \in Values
  OBVIOUS
<1>2. \A h \in Values : next(h) \in Values
  BY Closed DEF Mul
<1> HIDE DEF Values, first, next
<1>3. grow \in [Nat -> [Values -> Values]]
  BY <1>2
<1>4. PICK g \in [Nat -> Values] : Recursive(g, first, grow)
  <2> HIDE DEF grow
  <2> QED BY <1>1, <1>3, Recursion
<1>5. ASSUME NEW n \in Nat, n # 0 PROVE grow[n - 1][g[n - 1]] = next(g[n - 1])
  <2>1. n - 1 \in Nat /\ g[n - 1] \in Values
    BY <1>5
  <2> QED BY <2>1
<1> HIDE DEF grow
<1>6. g = G(g)
  BY <1>4, <1>5 DEF Recursive
<1>7. Squared = G(Squared)
  BY <1>6 DEF Squared, first, next
<1>8. \A n \in Nat : Squared[n] = IF n = 0 THEN first ELSE next(Squared[n - 1])
  BY <1>7
<1>9. Squared[0] = first /\ \A n \in Nat : Squared[n + 1] = next(Squared[n])
  <2>1. \A n \in Nat : n + 1 \in Nat /\ n + 1 # 0 /\ (n + 1) - 1 = n
    OBVIOUS
  <2> QED BY <1>8, <2>1
<1> QED BY <1>9 DEF first, next, Mul

(* the power of the element with the exponent 2^n.                          *)
LEMMA SquaredPower == \A n \in Nat : \A c \in Field : Squared[n][c] = Power[Two[n]][c]
<1> DEFINE S == {n \in Nat : \A c \in Field : Squared[n][c] = Power[Two[n]][c]}
<1>1. 0 \in S
  <2> SUFFICES ASSUME NEW c \in Field PROVE Squared[0][c] = Power[Two[0]][c]
    OBVIOUS
  <2>1. Power[0 + 1][c] = Mul(1, c) /\ 1 \in Field
    BY PowerStep, FieldFacts
  <2>2. Mul(1, c) = c
    BY <2>1, MulLaws
  <2> QED BY <2>1, <2>2, SquaredValues, TwoValues
<1>2. ASSUME NEW n \in Nat, n \in S PROVE n + 1 \in S
  <2> SUFFICES ASSUME NEW c \in Field PROVE Squared[n + 1][c] = Power[Two[n + 1]][c]
    OBVIOUS
  <2>1. Mul(c, c) \in Field /\ Two[n] \in Nat /\ Two[n + 1] = 2 * Two[n]
    BY MulLaws, TwoValues
  <2>2. Squared[n + 1][c] = Squared[n][Mul(c, c)]
    <3>1. Squared[n + 1] = [e \in Field |-> Squared[n][Mul(e, e)]]
      BY SquaredValues
    <3> QED BY <3>1
  <2>3. Squared[n][Mul(c, c)] = Power[Two[n]][Mul(c, c)]
    BY <1>2, <2>1
  <2> QED BY <2>1, <2>2, <2>3, PowerOfSquare
<1> HIDE DEF S
<1>3. \A n \in Nat : n \in S
  BY <1>1, <1>2, SetInduction
<1> QED BY <1>3 DEF S

(* No power of what is not 0 is 0.                                          *)
LEMMA PowerNotZero ==
  ASSUME NEW c \in Field, c # 0
  PROVE  \A n \in Nat : ~Same(Power[n][c], 0)
<1> DEFINE S == {n \in Nat : ~Same(Power[n][c], 0)}
<1>1. ~Same(c, 0) /\ c \in Int
  BY FieldFacts, FieldInt, SameElement
<1>2. 0 \in S
  BY PowerStep, TwoNotZero
<1>3. ASSUME NEW n \in Nat, n \in S PROVE n + 1 \in S
  <2> DEFINE q == Power[n][c]
  <2>1. q \in Field /\ q \in Int /\ ~Same(q, 0) /\ Power[n + 1][c] = Mul(q, c)
    BY <1>3, PowerStep, FieldInt
  <2> HIDE DEF q
  <2>2. ~Same(q * c, 0) /\ q * c \in Int
    <3>1. ~Same(q * c, 0)
      BY <1>1, <2>1, NoDivisors
    <3>2. q * c \in Int
      BY <1>1, <2>1
    <3> QED BY <3>1, <3>2
  <2>3. Same(Mul(q, c), q * c) /\ Mul(q, c) \in Int
    BY <2>1, SameOperations, Closed, FieldInt
  <2>4. ASSUME Same(Mul(q, c), 0) PROVE FALSE
    <3>1. Same(q * c, Mul(q, c))
      BY <2>2, <2>3, SameBack
    <3>2. Same(q * c, 0)
      BY <2>2, <2>3, <2>4, <3>1, SameOn
    <3> QED BY <2>2, <3>2
  <2>5. ~Same(Power[n + 1][c], 0) /\ n + 1 \in Nat
    BY <2>1, <2>4
  <2> QED BY <2>5
<1> HIDE DEF S
<1>4. \A n \in Nat : n \in S
  BY <1>2, <1>3, SetInduction
<1> QED BY <1>4 DEF S

(* c^(4 N + 2) is 1 or - 1 for the exponent N of the chain: Euler's         *)
(* criterion, for 4 N + 2 = 2^254 - 10.                                     *)
LEMMA Euler ==
  ASSUME NEW c \in Field, c # 0
  PROVE  \/ Same(Power[4 * ChainPower + 2][c], 1)
         \/ Same(Power[4 * ChainPower + 2][c], 0 - 1)
<1> DEFINE N == ChainPower
           E == Power[4 * N + 2][c]
           T == TenthPower(c)
<1>1. /\ N \in Nat /\ 4 * N + 2 \in Nat /\ Two[254] = (4 * N + 2) + 10
      /\ Two[3] = 8 /\ Two[1] = 2
  <2>1. Two[252 + 2] = Two[252] * Two[2] /\ Two[1 + 2] = Two[1] * Two[2]
    BY TwoSum
  <2>2. Two[252] - 3 \in Nat
    BY ChainPowerNat DEF ChainPower
  <2>3. Two[252] \in Nat
    BY LargePowers
  <2>4. Two[254] = Two[252] * 4 /\ Two[3] = 8 /\ Two[1] = 2
    BY <2>1, SmallPowers
  <2> QED BY <2>2, <2>3, <2>4 DEF ChainPower
<1> HIDE DEF N
<1>2. T = Power[10][c] /\ T \in Field
  <2>1. Squared[3][c] = Power[8][c] /\ Squared[1][c] = Power[2][c]
    BY <1>1, SquaredPower
  <2>2. Power[8 + 2][c] = Mul(Power[8][c], Power[2][c]) /\ 8 + 2 = 10
    BY PowerSum
  <2>3. Power[10][c] \in Field
    BY PowerStep
  <2> QED BY <2>1, <2>2, <2>3 DEF TenthPower, Mul
<1>3. E \in Field /\ E \in Int /\ T \in Int /\ ~Same(T, 0)
  <2>1. E \in Field
    BY <1>1, PowerStep
  <2> QED BY <1>2, <2>1, FieldInt, PowerNotZero
<1>4. Mul(E, T) \in {T, FieldP - T}
  <2>1. Squared[254][c] \in {T, FieldP - T}
    BY CurveAssumption
  <2>2. Squared[254][c] = Power[Two[254]][c]
    BY SquaredPower
  <2>3. Power[(4 * N + 2) + 10][c] = Mul(E, Power[10][c])
    BY <1>1, PowerSum
  <2> QED BY <1>1, <1>2, <2>1, <2>2, <2>3
<1> HIDE DEF E, T
<1>5. Same(Mul(E, T), E * T) /\ E * T = T * E /\ E * T \in Int /\ Mul(E, T) \in Int
  <2>1. Same(Mul(E, T), E * T) /\ Mul(E, T) \in Field
    BY <1>2, <1>3, SameOperations, Closed
  <2>2. E * T = T * E /\ E * T \in Int
    BY <1>3
  <2> QED BY <2>1, <2>2, FieldInt
<1>6. Same(T * E, Mul(E, T))
  BY <1>5, SameBack
<1>7. CASE Mul(E, T) = T
  <2> DEFINE one == 1
  <2>1. T * one = T /\ one \in Int
    BY <1>3
  <2> HIDE DEF one
  <2>2. Same(T * E, T * one)
    BY <1>6, <1>7, <2>1
  <2>3. Same(E, one)
    BY <1>3, <2>1, <2>2, Cancel
  <2> QED BY <1>1, <2>3 DEF E, N, one
<1>8. CASE Mul(E, T) = FieldP - T
  <2> DEFINE n == 0 - 1
  <2>1. n \in Int /\ FieldP - T = T * n + 1 * FieldP /\ T * n \in Int /\ T * E \in Int
    <3>1. FieldP \in Int
      BY FieldFacts
    <3>2. FieldP - T = T * n + 1 * FieldP /\ n \in Int
      BY ONLY <3>1, <1>3 DEF n
    <3> QED BY <1>3, <3>2
  <2> HIDE DEF n
  <2>2. Same(FieldP - T, T * n)
    BY <2>1 DEF Same
  <2>3. Same(T * E, T * n)
    BY <1>5, <1>6, <1>8, <2>1, <2>2, SameOn
  <2>4. Same(E, n)
    BY <1>3, <2>1, <2>3, Cancel
  <2> QED BY <1>1, <2>4 DEF E, N, n
<1> QED BY <1>4, <1>7, <1>8

(* The candidate root of u/v that decompression computes, u v^3 (u v^7)^N   *)
(* with N the chain's exponent.                                             *)
V2(y) == Mul(V(y), V(y))
V3(y) == Mul(V2(y), V(y))
V4(y) == Mul(V2(y), V2(y))
UV3(y) == Mul(U(y), V3(y))
UV7(y) == Mul(UV3(y), V4(y))
Candidate(y) == Mul(UV3(y), Power[ChainPower][UV7(y)])

(* For a root z of u/v, u v^7 is a square; and v times the square of the    *)
(* candidate.                                                               *)
LEMMA CandidateIdentities ==
  ASSUME NEW u \in Int, NEW v \in Int, NEW z \in Int, NEW r \in Int
  PROVE  LET c == ((v * v) * (v * v)) * z
             uvvv == u * ((v * v) * v)
         IN  /\ ((v * (z * z)) * ((v * v) * v)) * ((v * v) * (v * v)) = c * c
             /\ v * ((uvvv * r) * (uvvv * r))
                   = u * ((((u * ((v * v) * v)) * ((v * v) * (v * v))) * r) * r)
OBVIOUS

(* The product of elements, with its type.                                  *)
LEMMA MulProduct ==
  ASSUME NEW a \in Field, NEW b \in Field, NEW c \in Int, NEW d \in Int,
         Same(a, c), Same(b, d)
  PROVE  Mul(a, b) \in Field /\ Same(Mul(a, b), c * d) /\ c * d \in Int
<1>1. c * d \in Int
  OBVIOUS
<1> QED BY <1>1, Closed, SameMul

(* The values that the search for a root computes.                          *)
LEMMA CandidateValues ==
  ASSUME NEW y \in Field
  PROVE  /\ U(y) \in Field /\ V(y) \in Field /\ V2(y) \in Field /\ V3(y) \in Field
         /\ V4(y) \in Field /\ UV3(y) \in Field /\ UV7(y) \in Field
         /\ Same(V4(y), (V(y) * V(y)) * (V(y) * V(y)))
         /\ Same(UV3(y), U(y) * ((V(y) * V(y)) * V(y)))
         /\ Same(UV7(y), (U(y) * ((V(y) * V(y)) * V(y))) * ((V(y) * V(y)) * (V(y) * V(y))))
<1> DEFINE u == U(y)
           v == V(y)
           vv == v * v
           vvv == vv * v
           vvvv == vv * vv
           uvvv == u * vvv
<1>1. u \in Field /\ v \in Field /\ u \in Int /\ v \in Int
  <2>1. u \in Field /\ v \in Field
    BY Closed, FieldFacts DEF U, V
  <2> HIDE DEF u, v
  <2> QED BY <2>1, FieldInt
<1>2. Same(u, u) /\ Same(v, v)
  BY <1>1, SameItself
<1> HIDE DEF u, v
<1>3. V2(y) \in Field /\ Same(V2(y), vv) /\ vv \in Int
  BY <1>1, <1>2, MulProduct DEF V2, v
<1> HIDE DEF vv
<1>4. V3(y) \in Field /\ Same(V3(y), vvv) /\ vvv \in Int
  BY <1>1, <1>2, <1>3, MulProduct DEF V3, v
<1>5. V4(y) \in Field /\ Same(V4(y), vvvv) /\ vvvv \in Int
  BY <1>3, MulProduct DEF V4
<1> HIDE DEF vvv, vvvv
<1>6. UV3(y) \in Field /\ Same(UV3(y), uvvv) /\ uvvv \in Int
  BY <1>1, <1>2, <1>4, MulProduct DEF UV3, u
<1> HIDE DEF uvvv
<1>7. UV7(y) \in Field /\ Same(UV7(y), uvvv * vvvv)
  BY <1>5, <1>6, MulProduct DEF UV7
<1> QED BY <1>1, <1>3, <1>4, <1>5, <1>6, <1>7 DEF u, v, vv, vvv, vvvv, uvvv

(* v x^2 for the candidate x is u (u v^7) (u v^7)^(2 N).                    *)
LEMMA CandidateScaled ==
  ASSUME NEW y \in Field
  PROVE  LET r == Power[ChainPower][UV7(y)]
         IN  /\ Scaled(y, Candidate(y)) \in Field
             /\ Same(Scaled(y, Candidate(y)), U(y) * ((UV7(y) * r) * r))
<1> DEFINE u == U(y)
           v == V(y)
           a == UV3(y)
           b == UV7(y)
           r == Power[ChainPower][b]
           x == Candidate(y)
           uvvv == u * ((v * v) * v)
           uv7 == uvvv * ((v * v) * (v * v))
<1>1. /\ u \in Field /\ v \in Field /\ a \in Field /\ b \in Field
      /\ Same(a, uvvv) /\ Same(b, uv7)
  BY CandidateValues
<1>2. r \in Field /\ ChainPower \in Nat
  <2>1. ChainPower \in Nat
    BY ChainPowerNat
  <2> HIDE DEF b
  <2> QED BY <1>1, <2>1, PowerStep
<1>3. x = Mul(a, r) /\ Scaled(y, x) = Mul(v, Mul(x, x))
  BY DEF Candidate, Scaled
<1> HIDE DEF u, v, a, b, r, x
<1>4. u \in Int /\ v \in Int /\ a \in Int /\ b \in Int /\ r \in Int
  BY <1>1, <1>2, FieldInt
<1>5. uvvv \in Int /\ uv7 \in Int /\ v * ((uvvv * r) * (uvvv * r)) = u * ((uv7 * r) * r)
  BY <1>4, CandidateIdentities
<1> HIDE DEF uvvv, uv7
<1> DEFINE e == uvvv * r
<1>6. x \in Field /\ Same(x, e) /\ e \in Int
  BY <1>1, <1>2, <1>3, <1>4, <1>5, Closed, SameItself, SameMul
<1> HIDE DEF e
<1>7. Mul(x, x) \in Field /\ Same(Mul(x, x), e * e) /\ e * e \in Int
  BY <1>6, Closed, SameMul
<1> DEFINE ee == e * e
           g == Mul(x, x)
<1>8. g \in Field /\ Same(g, ee) /\ ee \in Int /\ Same(v, v)
  BY <1>4, <1>7, SameItself
<1> HIDE DEF ee, g
<1>9. Mul(v, g) \in Field /\ Same(Mul(v, g), v * ee)
  BY <1>1, <1>4, <1>8, MulProduct
<1>10. Scaled(y, x) \in Field /\ Same(Scaled(y, x), v * (e * e)) /\ Scaled(y, x) \in Int
  BY <1>3, <1>9, FieldInt DEF ee, g
<1> DEFINE f == b * r
           h == uv7 * r
<1>11. Same(h, f) /\ h \in Int /\ f \in Int
  <2>1. Same(uv7, b)
    BY <1>1, <1>4, <1>5, SameBack
  <2>2. Same(h, f)
    BY <1>4, <1>5, <2>1, SameBeside
  <2>3. h \in Int /\ f \in Int
    BY <1>4, <1>5
  <2> QED BY <2>2, <2>3
<1>12. v * (e * e) = u * (h * r)
  BY <1>5 DEF e
<1> HIDE DEF f, h
<1>13. Same(h * r, f * r) /\ h * r \in Int /\ f * r \in Int
  <2>1. h * r \in Int /\ f * r \in Int
    BY <1>4, <1>11
  <2>2. Same(h * r, f * r)
    BY <1>4, <1>11, SameBeside
  <2> QED BY <2>1, <2>2
<1> DEFINE k == h * r
           l == f * r
<1>14. k \in Int /\ l \in Int /\ Same(k, l) /\ v * (e * e) = u * k /\ u * k \in Int /\ u * l \in Int
  BY <1>4, <1>12, <1>13
<1> HIDE DEF k, l
<1>15. Same(u * k, u * l)
  BY <1>4, <1>14, SameBeside
<1>16. Same(Scaled(y, x), u * l)
  BY <1>10, <1>14, <1>15, SameOn
<1> QED BY <1>10, <1>16 DEF u, x, b, r, l, f

(* When u/v has a root z at all, u v^7 is the square of v^4 z.              *)
LEMMA CandidateOfSquare ==
  ASSUME NEW y \in Field, NEW z \in Field, Root(y, z)
  PROVE  UV7(y) = Mul(Mul(V4(y), z), Mul(V4(y), z))
<1> DEFINE u == U(y)
           v == V(y)
           c == Mul(V4(y), z)
           vvvv == (v * v) * (v * v)
           e == vvvv * z
           w == v * (z * z)
           q == (v * v) * v
           uv7 == (u * q) * vvvv
<1>1. /\ u \in Field /\ v \in Field /\ V4(y) \in Field /\ UV7(y) \in Field
      /\ Same(V4(y), vvvv) /\ Same(UV7(y), uv7)
  BY CandidateValues
<1> HIDE DEF u, v
<1>2. u \in Int /\ v \in Int /\ z \in Int /\ vvvv \in Int /\ q \in Int
  <2>1. u \in Int /\ v \in Int /\ z \in Int
    BY <1>1, FieldInt
  <2> QED BY <2>1
<1>3. (w * q) * vvvv = e * e
  BY <1>2, CandidateIdentities
<1>4. w \in Int /\ Same(u, w)
  <2>1. Mul(z, z) \in Field /\ Same(Mul(z, z), z * z) /\ z * z \in Int
    BY <1>2, SameItself, MulProduct
  <2>2. Same(v, v)
    BY <1>2, SameItself
  <2>3. Same(Mul(v, Mul(z, z)), v * (z * z)) /\ v * (z * z) \in Int
    BY <1>1, <1>2, <2>1, <2>2, MulProduct
  <2> QED BY <2>3 DEF Root, Scaled, u, v
<1> HIDE DEF vvvv, w, q
<1>5. c \in Field /\ Same(c, e) /\ e \in Int
  BY <1>1, <1>2, SameItself, MulProduct
<1> HIDE DEF c, e
<1>6. Mul(c, c) \in Field /\ Same(Mul(c, c), e * e) /\ e * e \in Int /\ Mul(c, c) \in Int
  BY <1>5, MulProduct, FieldInt
<1>7. Same(u * q, w * q) /\ u * q \in Int /\ w * q \in Int
  <2>1. u * q \in Int /\ w * q \in Int
    BY <1>2, <1>4
  <2> QED BY <1>2, <1>4, <2>1, SameBeside
<1>8. Same(uv7, e * e) /\ uv7 \in Int
  <2> DEFINE k == u * q
             l == w * q
  <2>1. k \in Int /\ l \in Int /\ Same(k, l) /\ l * vvvv = e * e
    BY <1>3, <1>7
  <2> HIDE DEF k, l
  <2>2. Same(k * vvvv, l * vvvv) /\ k * vvvv \in Int
    <3>1. k * vvvv \in Int
      BY <1>2, <2>1
    <3> QED BY <1>2, <2>1, <3>1, SameBeside
  <2> QED BY <2>1, <2>2 DEF k
<1> HIDE DEF uv7
<1>9. UV7(y) \in Int
  BY <1>1, FieldInt
<1>10. Same(UV7(y), Mul(c, c))
  <2>1. Same(UV7(y), e * e)
    BY <1>1, <1>6, <1>8, <1>9, SameOn
  <2>2. Same(e * e, Mul(c, c))
    BY <1>6, SameBack
  <2> QED BY <1>6, <1>9, <2>1, <2>2, SameOn
<1> QED BY <1>1, <1>6, <1>10, SameElement DEF c

(* If v^4 z is 0, so is u.                                                  *)
LEMMA ZeroRoot ==
  ASSUME NEW y \in Field, NEW z \in Field, Root(y, z), Mul(V4(y), z) = 0
  PROVE  U(y) = 0
<1> DEFINE v == V(y)
           vv == V2(y)
           zz == Mul(z, z)
<1>1. /\ v \in Field /\ vv \in Field /\ zz \in Field /\ vv = Mul(v, v) /\ V4(y) = Mul(vv, vv)
      /\ U(y) = Mul(v, zz)
  BY CandidateValues, Closed DEF V2, V4, Root, Scaled
<1>2. ASSUME NEW a \in Field, NEW b \in Field PROVE Mul(a, b) = 0 <=> a = 0 \/ b = 0
  <2>1. a \in Int /\ b \in Int /\ a * b \in Int
    BY <1>2, FieldInt
  <2>2. Mul(a, b) = 0 <=> Same(a * b, 0)
    BY <2>1, SameZero DEF Mul
  <2>3. a = 0 \/ b = 0 => a * b = 0
    BY <2>1
  <2>4. Same(0, 0) /\ (Same(a, 0) <=> a = 0) /\ (Same(b, 0) <=> b = 0)
    BY FieldFacts, SameElement, SameItself
  <2>5. ~Same(a, 0) /\ ~Same(b, 0) => ~Same(a * b, 0)
    BY <2>1, NoDivisors
  <2> QED BY <2>2, <2>3, <2>4, <2>5
<1> HIDE DEF v, vv, zz
<1>3. V4(y) = 0 \/ z = 0
  <2>1. V4(y) \in Field
    BY CandidateValues
  <2> QED BY <1>2, <2>1
<1>4. v = 0 \/ zz = 0
  BY <1>1, <1>2, <1>3 DEF zz
<1> QED BY <1>1, <1>2, <1>4

(* Then v x^2 is u or - u: the candidate, or the candidate times the root   *)
(* of -1, is a root.                                                        *)
LEMMA CandidateRight ==
  ASSUME NEW y \in Field, NEW z \in Field, Root(y, z)
  PROVE  Scaled(y, Candidate(y)) \in {U(y), Neg(U(y))}
<1> DEFINE u == U(y)
           c == Mul(V4(y), z)
           b == UV7(y)
           N == ChainPower
           r == Power[N][b]
           E == Power[4 * N + 2][c]
           s == Scaled(y, Candidate(y))
<1>1. /\ c \in Field /\ b = Mul(c, c) /\ u \in Field /\ b \in Field
      /\ s \in Field /\ Same(s, u * ((b * r) * r))
  BY CandidateValues, CandidateOfSquare, CandidateScaled, Closed
<1> HIDE DEF b, s, c
<1>2. N \in Nat /\ 2 * N \in Nat /\ 2 * N + 1 \in Nat /\ (2 * N + 1) + (2 * N + 1) = 4 * N + 2
  <2>1. N \in Nat
    BY ChainPowerNat
  <2> HIDE DEF N
  <2> QED BY <2>1
<1> HIDE DEF N
<1>3. r \in Field /\ r = Power[2 * N][c]
  BY <1>1, <1>2, PowerStep, PowerOfSquare
<1> HIDE DEF r
<1>4. E = Mul(Mul(b, r), r) /\ E \in Field
  <2>1. Power[2 * N + 1][c] = Mul(r, c)
    BY <1>1, <1>2, <1>3, PowerStep
  <2>2. E = Mul(Mul(r, c), Mul(r, c))
    BY <1>1, <1>2, <2>1, PowerSum
  <2>3. Mul(Mul(r, c), Mul(r, c)) = Mul(Mul(Mul(c, c), r), r)
    BY <1>1, <1>3, SquareOfProduct
  <2>4. Mul(Mul(b, r), r) \in Field
    BY <1>1, <1>3, Closed
  <2> QED BY <1>1, <2>2, <2>3, <2>4
<1>5. u \in Int /\ b \in Int /\ r \in Int /\ E \in Int /\ s \in Int
  BY <1>1, <1>3, <1>4, FieldInt
<1>6. Same(E, (b * r) * r) /\ (b * r) * r \in Int
  <2>1. Mul(b, r) \in Field /\ Same(Mul(b, r), b * r) /\ b * r \in Int
    BY <1>1, <1>3, <1>5, SameItself, MulProduct
  <2> DEFINE k == b * r
             l == Mul(b, r)
  <2>2. k \in Int /\ l \in Field /\ Same(l, k) /\ Same(r, r)
    BY <1>5, <2>1, SameItself
  <2> HIDE DEF k, l
  <2>3. Same(Mul(l, r), k * r) /\ k * r \in Int
    BY <1>3, <1>5, <2>2, MulProduct
  <2> QED BY <1>4, <2>3 DEF k, l
<1> HIDE DEF E
<1>7. Same(s, u * E) /\ u * E \in Int
  <2> DEFINE k == (b * r) * r
  <2>1. k \in Int /\ Same(k, E) /\ Same(s, u * k)
    BY <1>1, <1>5, <1>6, SameBack
  <2> HIDE DEF k
  <2>2. u * k \in Int /\ u * E \in Int
    BY <1>5, <2>1
  <2>3. Same(u * k, u * E)
    BY <1>5, <2>1, SameBeside
  <2> QED BY <1>5, <2>1, <2>2, <2>3, SameOn
<1>8. Neg(u) \in Field /\ Same(Neg(u), 0 - u) /\ Neg(u) \in Int
  BY <1>1, Closed, SameOperations, FieldInt
<1>9. CASE Same(E, 1)
  <2> DEFINE one == 1
  <2>1. one \in Int /\ u * one = u /\ Same(E, one)
    BY <1>5, <1>9
  <2> HIDE DEF one
  <2>2. Same(u * E, u * one)
    BY <1>5, <2>1, SameBeside
  <2>3. Same(s, u)
    BY <1>5, <1>7, <2>1, <2>2, SameOn
  <2>4. s = u
    BY <1>1, <2>3, SameElement
  <2> QED BY <2>4 DEF s, u
<1>10. CASE Same(E, 0 - 1)
  <2> DEFINE n == 0 - 1
  <2>1. n \in Int /\ u * n = 0 - u /\ u * n \in Int /\ Same(E, n)
    BY <1>5, <1>10
  <2> HIDE DEF n
  <2>2. Same(u * E, u * n)
    BY <1>5, <2>1, SameBeside
  <2>3. Same(s, u * n)
    BY <1>5, <1>7, <2>1, <2>2, SameOn
  <2>4. Same(u * n, Neg(u))
    BY <1>8, <2>1, SameBack
  <2>5. Same(s, Neg(u))
    BY <1>5, <1>8, <2>1, <2>3, <2>4, SameOn
  <2>6. s = Neg(u)
    BY <1>1, <1>8, <2>5, SameElement
  <2> QED BY <2>6 DEF s, u
<1>11. CASE c = 0
  <2>1. u = 0
    BY <1>11, ZeroRoot DEF c, u
  <2>2. u * E = u
    BY <1>5, <2>1
  <2>3. Same(s, u)
    BY <1>7, <2>2
  <2>4. s = u
    BY <1>1, <2>3, SameElement
  <2> QED BY <2>4 DEF s, u
<1>12. CASE c # 0
  <2>1. Same(E, 1) \/ Same(E, 0 - 1)
    BY <1>1, <1>12, Euler DEF E, N
  <2> QED BY <1>9, <1>10, <2>1
<1> QED BY <1>11, <1>12
-----------------------------------------------------------------------------
(* What the search for a root holds at each step, up to the comparison.     *)
CandidateSteps ==
  {"DEC_2_MUL", "DEC_11_COMPARE", "DEC_11_BRANCH"} \cup RootSteps

CandidateAt(st, r, f, m, y) ==
  /\ st = "DEC_2_MUL" => r.aux_stage = V(y)
  /\ st = "DEC_3" => f = <<V(y), V(y)>>
  /\ st = "DEC_4" => f = <<V2(y), V(y)>>
  /\ st \in {"DEC_4", "DEC_5"} => r.t4 = V2(y)
  /\ st = "DEC_5" => f = <<V2(y), V2(y)>> /\ r.t5 = V3(y)
  /\ st = "DEC_6" => f = <<U(y), V3(y)>> /\ r.t6 = V4(y)
  /\ st = "DEC_7" => f = <<UV3(y), V4(y)>>
  /\ st \in {"DEC_7", "DEC_8"} \cup PowSteps => r.t7 = UV3(y)
  /\ st = "DEC_8" => r.pow_value = Power[ChainPower][UV7(y)]
  /\ st = "DEC_9" => f = <<UV3(y), Power[ChainPower][UV7(y)]>>
  /\ st \in {"DEC_10", "DEC_11", "DEC_11_COMPARE", "DEC_11_BRANCH"} => r.t8 = Candidate(y)
  /\ st = "DEC_11_BRANCH" =>
       /\ Scaled(y, Candidate(y)) = U(y) => m.pos
       /\ Scaled(y, Candidate(y)) = Neg(U(y)) => m.neg

CandidateInv == CandidateAt(step, reg, fe, match, Canonical(request.encoded.y))

(* The chain's registers hold the powers that the program says, and the     *)
(* multiplier two of them.                                                  *)
PowersAt(r, b) == \A c \in Chain : Now(c) # 0 => r[PowReg(c)] = Power[Now(c)][b]

PowersInv ==
  LET b == UV7(Canonical(request.encoded.y)) IN
  /\ step \in PowSteps => PowersAt(reg, b)
  /\ step = "POW_WAIT" => fe = <<reg[PowReg(Operands[1])], reg[PowReg(Operands[2])]>>

(* An encoding is refused because the candidate is not a root, and neither  *)
(* is the other candidate.                                                  *)
RefusalInv ==
  (step = "DONE" \/ done) /\ request.op = "DECOMPRESS" /\ ~flag =>
    LET y == Canonical(request.encoded.y)
    IN  Scaled(y, Candidate(y)) \notin {U(y), Neg(U(y))}

CompleteInv == CandidateInv /\ PowersInv /\ RefusalInv

(* Away from its own steps each of these says nothing.                      *)
LEMMA NoCandidate ==
  /\ step' \notin CandidateSteps => CandidateInv'
  /\ step' \notin PowSteps => PowersInv'
  /\ step' # "DONE" /\ ~done' => RefusalInv'
<1>1. step' \notin CandidateSteps => CandidateInv'
  BY DEF CandidateInv, CandidateAt, CandidateSteps, RootSteps, PowSteps
<1>2. step' \notin PowSteps => PowersInv'
  BY DEF PowersInv, PowSteps
<1> QED BY <1>1, <1>2 DEF RefusalInv

(* Each step of the search.                                                 *)
LEMMA CandidateKeeps ==
  ASSUME PointInv, CompleteInv, DecodeStep
  PROVE  CandidateInv'
<1> DEFINE y == Canonical(request.encoded.y)
<1>1. step \in DecodeSteps /\ UNCHANGED <<busy, request, match, flag>>
  BY DEF DecodeStep, Do, DoMul, On, OnMul, Load, DecodeSteps, RootSteps, PowSteps, SignSteps, Rest
<1>2. /\ reg \in [Reg -> Field] /\ (fe # Nothing => fe \in Field \X Field)
      /\ DecodeInv /\ CandidateInv
  BY DEF PointInv, PointTypeOK, CompleteInv
<1>3. fe # Nothing => Product = Mul(fe[1], fe[2])
  BY <1>2, ProductValue
<1>4. CASE step = "DEC_2_AUX"
  <2>1. /\ step' = "DEC_2_MUL" /\ fe' = fe
        /\ reg' = [reg EXCEPT !.t3 = Add(reg.pipe_a, reg.pipe_b),
                           !.aux_stage = Add(reg.pipe_a, reg.pipe_b)]
    BY <1>1, <1>4 DEF DecodeStep, Answered, Do, DoMul, On, OnMul, Load
  <2>2. Add(reg.pipe_a, reg.pipe_b) = V(y)
    BY <1>2, <1>3, <1>4, <2>1
    DEF DecodeInv, DecodeAt, CandidateInv, CandidateAt, RootSteps, PowSteps, V
  <2> QED BY <1>1, <1>2, <1>4, <2>1, <2>2, Names
          DEF CandidateInv, CandidateAt, DecodeInv, DecodeAt, RootSteps, PowSteps
<1>5. CASE step = "DEC_2_MUL"
  <2>1. /\ step' = "DEC_3" /\ fe' = <<reg.aux_stage, reg.aux_stage>>
        /\ reg' = reg
    BY <1>1, <1>5 DEF DecodeStep, Answered, Do, DoMul, On, OnMul, Load
  <2> QED BY <1>1, <1>2, <1>5, <2>1, Names
          DEF CandidateInv, CandidateAt, DecodeInv, DecodeAt, RootSteps, PowSteps
<1>6. CASE step = "DEC_3"
  <2>1. /\ step' = "DEC_4" /\ fe # Nothing /\ fe' = <<Product, reg.t3>>
        /\ reg' = [reg EXCEPT !.t4 = Product]
    BY <1>1, <1>6 DEF DecodeStep, Answered, Do, DoMul, On, OnMul, Load
  <2>2. Product = V2(y)
    BY <1>2, <1>3, <1>6, <2>1
    DEF DecodeInv, DecodeAt, CandidateInv, CandidateAt, RootSteps, PowSteps, V2
  <2> QED BY <1>1, <1>2, <1>6, <2>1, <2>2, Names
          DEF CandidateInv, CandidateAt, DecodeInv, DecodeAt, RootSteps, PowSteps
<1>7. CASE step = "DEC_4"
  <2>1. /\ step' = "DEC_5" /\ fe # Nothing /\ fe' = <<reg.t4, reg.t4>>
        /\ reg' = [reg EXCEPT !.t5 = Product]
    BY <1>1, <1>7 DEF DecodeStep, Answered, Do, DoMul, On, OnMul, Load
  <2>2. Product = V3(y)
    BY <1>2, <1>3, <1>7, <2>1
    DEF DecodeInv, DecodeAt, CandidateInv, CandidateAt, RootSteps, PowSteps, V3
  <2> QED BY <1>1, <1>2, <1>7, <2>1, <2>2, Names
          DEF CandidateInv, CandidateAt, DecodeInv, DecodeAt, RootSteps, PowSteps
<1>8. CASE step = "DEC_5"
  <2>1. /\ step' = "DEC_6" /\ fe # Nothing /\ fe' = <<reg.t2, reg.t5>>
        /\ reg' = [reg EXCEPT !.t6 = Product]
    BY <1>1, <1>8 DEF DecodeStep, Answered, Do, DoMul, On, OnMul, Load
  <2>2. Product = V4(y)
    BY <1>2, <1>3, <1>8, <2>1
    DEF DecodeInv, DecodeAt, CandidateInv, CandidateAt, RootSteps, PowSteps, V4
  <2> QED BY <1>1, <1>2, <1>8, <2>1, <2>2, Names
          DEF CandidateInv, CandidateAt, DecodeInv, DecodeAt, RootSteps, PowSteps
<1>9. CASE step = "DEC_6"
  <2>1. /\ step' = "DEC_7" /\ fe # Nothing /\ fe' = <<Product, reg.t6>>
        /\ reg' = [reg EXCEPT !.t7 = Product]
    BY <1>1, <1>9 DEF DecodeStep, Answered, Do, DoMul, On, OnMul, Load
  <2>2. Product = UV3(y)
    BY <1>2, <1>3, <1>9, <2>1
    DEF DecodeInv, DecodeAt, CandidateInv, CandidateAt, RootSteps, PowSteps, UV3
  <2> QED BY <1>1, <1>2, <1>9, <2>1, <2>2, Names
          DEF CandidateInv, CandidateAt, DecodeInv, DecodeAt, RootSteps, PowSteps
<1>10. CASE step = "DEC_8"
  <2>1. /\ step' = "DEC_9" /\ fe' = <<reg.t7, reg.pow_value>>
        /\ reg' = reg
    BY <1>1, <1>10 DEF DecodeStep, Answered, Do, DoMul, On, OnMul, Load
  <2> QED BY <1>1, <1>2, <1>10, <2>1, Names
          DEF CandidateInv, CandidateAt, DecodeInv, DecodeAt, RootSteps, PowSteps
<1>11. CASE step = "DEC_9"
  <2>1. /\ step' = "DEC_10" /\ fe # Nothing
        /\ reg' = [reg EXCEPT !.t8 = Product]
    BY <1>1, <1>11 DEF DecodeStep, Answered, Do, DoMul, On, OnMul, Load
  <2>2. Product = Candidate(y)
    BY <1>2, <1>3, <1>11, <2>1
    DEF DecodeInv, DecodeAt, CandidateInv, CandidateAt, RootSteps, PowSteps, Candidate
  <2> QED BY <1>1, <1>2, <1>11, <2>1, <2>2, Names
          DEF CandidateInv, CandidateAt, DecodeInv, DecodeAt, RootSteps, PowSteps
<1>12. CASE step = "DEC_10"
  <2>1. /\ step' = "DEC_11" /\ fe # Nothing
        /\ reg' = reg
    BY <1>1, <1>12 DEF DecodeStep, Answered, Do, DoMul, On, OnMul, Load
  <2> QED BY <1>1, <1>2, <1>12, <2>1, Names
          DEF CandidateInv, CandidateAt, DecodeInv, DecodeAt, RootSteps, PowSteps
<1>13. CASE step = "DEC_11"
  <2>1. /\ step' = "DEC_11_COMPARE" /\ fe # Nothing
        /\ reg' = [reg EXCEPT !.t3 = Product, !.aux_stage = Neg(reg.t2)]
    BY <1>1, <1>13 DEF DecodeStep, Answered, Do, DoMul, On, OnMul, Load
  <2> QED BY <1>1, <1>2, <1>13, <2>1, Names
          DEF CandidateInv, CandidateAt, DecodeInv, DecodeAt, RootSteps, PowSteps
<1>14. CASE step \notin {"DEC_2_AUX", "DEC_2_MUL", "DEC_3", "DEC_4", "DEC_5", "DEC_6", "DEC_8",
                     "DEC_9", "DEC_10", "DEC_11"}
  <2>1. step' \in {"DEC_2", "DEC_2_AUX", "DEC_14", "DONE"}
    BY <1>14 DEF DecodeStep, Do, DoMul, On, OnMul, Load
  <2> QED BY <2>1 DEF CandidateInv, CandidateAt, PowSteps
<1> QED BY <1>4, <1>5, <1>6, <1>7, <1>8, <1>9, <1>10, <1>11, <1>12, <1>13, <1>14

(* Each value of the chain has a register of its own.                       *)
LEMMA PowRegApart ==
  \A c, d \in Chain : c # d => PowReg(c) # PowReg(d)
BY DEF Chain, PowReg

(* The chain begins with its input,                                         *)
LEMMA BeginPowers ==
  ASSUME PointInv, CompleteInv, PowBegin
  PROVE  CompleteInv'
<1> DEFINE y == Canonical(request.encoded.y)
<1>1. /\ step = "DEC_7" /\ step' = "POW_DISPATCH" /\ fe # Nothing /\ fe' = Nothing
      /\ reg' = [reg EXCEPT !.pow_input = Product, !.pow_value = 0, !.pow_t1 = 0, !.pow_t2 = 0]
      /\ pow' = [phase |-> 1, left |-> 0]
      /\ UNCHANGED <<request, busy, done, flag, match>>
  BY DEF PowBegin, On, Load, Answered
<1>2. /\ reg \in [Reg -> Field] /\ fe \in Field \X Field /\ CandidateInv /\ ControlInv
      /\ request \in Request
  BY <1>1 DEF PointInv, PointTypeOK, CompleteInv, ControlInv
<1>3. Product = UV7(y)
  BY <1>1, <1>2, ProductValue DEF CandidateInv, CandidateAt, UV7
<1>4. UV7(y) \in Field
  BY <1>2, Operand, CanonicalValue, CandidateValues
<1>5. reg'.pow_input = UV7(y) /\ reg'.t7 = reg.t7
  BY <1>1, <1>2, <1>3, Names
<1>6. CandidateInv'
  BY <1>1, <1>2, <1>5 DEF CandidateInv, CandidateAt, PowSteps
<1>7. \A c \in Chain : Now(c)' = IF c = "input" THEN 1 ELSE 0
  <2>1. pow'.phase = 1 /\ pow'.left = 0 /\ Current'.squares = 0
    BY <1>1 DEF Current, PowProgram, Multiply, Phase
  <2>2. Current'.squares - pow'.left = 0
    BY <2>1
  <2>3. \A c \in Chain : Now(c)' = Begins(1, c)
    BY <2>1, <2>2 DEF Now, Chained
  <2> QED BY <2>3 DEF Begins, ValueBegins, T1Begins, T2Begins, Chain
<1>8. Power[1][UV7(y)] = UV7(y)
  <2>1. ASSUME NEW x \in Field PROVE Power[0 + 1][x] = Mul(1, x) /\ Mul(1, x) = x
    <3>1. Mul(1, x) = x
      <4>1. 1 \in Field
        BY FieldFacts
      <4> QED BY <4>1, MulLaws
    <3>2. 0 \in Nat
      OBVIOUS
    <3>3. Power[0 + 1][x] = Mul(Power[0][x], x) /\ Power[0][x] = 1
      BY <3>2, PowerStep
    <3> QED BY <3>1, <3>3
  <2>2. 0 + 1 = 1
    OBVIOUS
  <2> QED BY <1>4, <2>1, <2>2
<1>9. PowersInv'
  <2>1. \A c \in Chain : Now(c)' # 0 => c = "input" /\ Now(c)' = 1
    BY <1>7
  <2>2. \A c \in Chain : Now(c)' # 0 => reg'[PowReg(c)] = Power[Now(c)'][UV7(y)]
    BY <1>5, <1>8, <2>1 DEF PowReg
  <2> QED BY <1>1, <2>2 DEF PowersInv, PowersAt
<1>10. RefusalInv'
  BY <1>1, <1>2 DEF RefusalInv, ControlInv
<1> QED BY <1>6, <1>9, <1>10 DEF CompleteInv

(* asks for the product of two of its powers,                               *)
LEMMA DispatchPowers ==
  ASSUME PointInv, CompleteInv, PowDispatch
  PROVE  CompleteInv'
<1>1. /\ step = "POW_DISPATCH" /\ step' = "POW_WAIT" /\ reg' = reg
      /\ fe' = <<reg[PowReg(Operands[1])], reg[PowReg(Operands[2])]>>
      /\ UNCHANGED <<request, busy, done, flag, match, pow, exponent>>
  BY DEF PowDispatch, DoMul, Load, Rest
<1>2. ControlInv /\ CandidateInv /\ PowersInv
  BY DEF PointInv, CompleteInv
<1>3. CandidateInv'
  BY <1>1, <1>2 DEF CandidateInv, CandidateAt, PowSteps
<1>4. PowersInv'
  <2>1. Operands' = Operands /\ \A c \in Chain : Now(c)' = Now(c)
    BY <1>1 DEF Operands, Squaring, Current, Now
  <2> QED BY <1>1, <1>2, <2>1 DEF PowersInv, PowersAt, PowSteps
<1>5. RefusalInv'
  BY <1>1, <1>2 DEF RefusalInv, ControlInv
<1> QED BY <1>3, <1>4, <1>5 DEF CompleteInv

(* and stores it.                                                           *)
LEMMA AnswerPowers ==
  ASSUME PointInv, CompleteInv, PowAnswer
  PROVE  CompleteInv'
<1> DEFINE y == Canonical(request.encoded.y)
           b == UV7(y)
           m == Now(Operands[1])
           n == Now(Operands[2])
<1>1. /\ step = "POW_WAIT" /\ fe # Nothing /\ fe' = Nothing
      /\ reg' = [reg EXCEPT ![PowReg(Target)] = Product]
      /\ UNCHANGED <<request, busy, done, flag, match>>
      /\ step' \in {"POW_DISPATCH", "DEC_8"}
  BY DEF PowAnswer, On, Load, Answered
<1>2. /\ reg \in [Reg -> Field] /\ fe \in Field \X Field /\ CandidateInv /\ ControlInv
      /\ request \in Request /\ PointTypeOK /\ PowersInv
  BY <1>1 DEF PointInv, PointTypeOK, CompleteInv, ControlInv
<1>3. b \in Field
  BY <1>2, Operand, CanonicalValue, CandidateValues
<1>4. Operands[1] \in Chain /\ Operands[2] \in Chain /\ Target \in Chain
  BY <1>2, PowOperands
<1>5. m \in Nat /\ n \in Nat /\ m > 0 /\ n > 0
  BY <1>4, ChainMoves
<1> HIDE DEF b
<1>6. Product = Power[m + n][b]
  <2>1. PowersAt(reg, b) /\ fe = <<reg[PowReg(Operands[1])], reg[PowReg(Operands[2])]>>
    BY <1>1, <1>2 DEF PowersInv, PowSteps, b
  <2>2. fe[1] = Power[m][b] /\ fe[2] = Power[n][b]
    BY <1>4, <1>5, <2>1 DEF PowersAt
  <2>3. Product = Mul(fe[1], fe[2])
    BY <1>2, ProductValue
  <2> HIDE DEF m, n
  <2> QED BY <1>3, <1>5, <2>2, <2>3, PowerSum
<1>7. /\ reg'[PowReg(Target)] = Product
      /\ \A c \in Chain \ {Target} : reg'[PowReg(c)] = reg[PowReg(c)]
      /\ reg'.t7 = reg.t7
  BY <1>1, <1>2, <1>4, ChainRegisters, PowRegApart, Names
<1> HIDE DEF m, n
<1>8. RefusalInv'
  BY <1>1, <1>2 DEF RefusalInv, ControlInv
<1>9. CASE step' = "POW_DISPATCH"
  <2>1. /\ \A c \in Chain \ {Target} : Now(c)' = Now(c)
        /\ \A c \in Chain : c = Target => Now(c)' = m + n
    BY <1>9, ChainMoves DEF m, n
  <2>2. PowersAt(reg, b)
    BY <1>1, <1>2 DEF PowersInv, PowSteps, b
  <2>3. \A c \in Chain : Now(c)' # 0 => reg'[PowReg(c)] = Power[Now(c)'][b]
    <3> SUFFICES ASSUME NEW c \in Chain, Now(c)' # 0
                 PROVE  reg'[PowReg(c)] = Power[Now(c)'][b]
      OBVIOUS
    <3>1. CASE c = Target
      BY <1>6, <1>7, <2>1, <3>1
    <3>2. CASE c # Target
      BY <1>7, <2>1, <2>2, <3>2 DEF PowersAt
    <3> QED BY <3>1, <3>2
  <2>4. PowersInv'
    BY <1>1, <1>9, <2>3 DEF PowersInv, PowersAt, b
  <2>5. CandidateInv'
    BY <1>1, <1>2, <1>7, <1>9 DEF CandidateInv, CandidateAt, PowSteps
  <2> QED BY <1>8, <2>4, <2>5 DEF CompleteInv
<1>10. CASE step' = "DEC_8"
  <2>1. Target = "value" /\ ChainPower = m + n
    BY <1>10, ChainMoves DEF m, n, ChainPower
  <2>2. reg'.pow_value = Power[ChainPower][b]
    BY <1>6, <1>7, <2>1 DEF PowReg
  <2>3. CandidateInv'
    BY <1>1, <1>2, <1>7, <1>10, <2>2 DEF CandidateInv, CandidateAt, PowSteps, b
  <2>4. PowersInv'
    BY <1>10 DEF PowersInv, PowSteps
  <2> QED BY <1>8, <2>3, <2>4 DEF CompleteInv
<1> QED BY <1>1, <1>9, <1>10

(* The comparison finds both kinds of root, and only then is there none.    *)
LEMMA VerdictComplete ==
  ASSUME PointInv, CompleteInv, Compare \/ Branch
  PROVE  CompleteInv'
<1> DEFINE y == Canonical(request.encoded.y)
<1>1. CandidateInv /\ DecodeInv /\ ControlInv /\ PointTypeOK
  BY DEF PointInv, CompleteInv
<1>2. CASE Compare
  <2>1. /\ step = "DEC_11_COMPARE" /\ step' = "DEC_11_BRANCH" /\ reg' = reg /\ fe' = fe
        /\ match' = [match EXCEPT !.pos = (reg.t3 = reg.t2), !.neg = (reg.t3 = reg.aux_stage)]
        /\ UNCHANGED <<request, busy, done, flag, pow, exponent>>
    BY <1>2 DEF Compare, Do, Load
  <2>2. (match'.pos <=> reg.t3 = reg.t2) /\ (match'.neg <=> reg.t3 = reg.aux_stage)
    BY <1>1, <2>1 DEF PointTypeOK
  <2>3. /\ reg.t3 = Scaled(y, reg.t8) /\ reg.t2 = U(y) /\ reg.aux_stage = Neg(U(y))
        /\ reg.t8 = Candidate(y)
    BY <1>1, <2>1 DEF DecodeInv, DecodeAt, CandidateInv, CandidateAt
  <2>4. CandidateInv'
    BY <2>1, <2>2, <2>3 DEF CandidateInv, CandidateAt, PowSteps
  <2>5. step' \notin PowSteps /\ step' # "DONE" /\ ~done'
    BY <1>1, <2>1 DEF ControlInv, PowSteps
  <2> QED BY <2>4, <2>5, NoCandidate DEF CompleteInv
<1>3. CASE Branch
  <2>1. /\ step = "DEC_11_BRANCH" /\ step' \in {"DEC_12", "DEC_13", "DONE"}
        /\ UNCHANGED <<request, busy, done, match, pow, exponent>>
        /\ step' = "DONE" => ~match.pos /\ ~match.neg
    BY <1>3 DEF Branch, Do, DoMul, Load, Rest
  <2>2. step' \notin CandidateSteps /\ step' \notin PowSteps /\ ~done'
    BY <1>1, <2>1 DEF ControlInv, CandidateSteps, RootSteps, PowSteps
  <2>3. RefusalInv'
    <3>1. CASE step' = "DONE"
      <4>1. Scaled(y, Candidate(y)) \notin {U(y), Neg(U(y))}
        BY <1>1, <2>1, <3>1 DEF CandidateInv, CandidateAt
      <4> QED BY <2>1, <4>1 DEF RefusalInv
    <3>2. CASE step' # "DONE"
      BY <2>2, <3>2, NoCandidate
    <3> QED BY <3>1, <3>2
  <2> QED BY <2>2, <2>3, NoCandidate DEF CompleteInv
<1> QED BY <1>2, <1>3

(* Every step of the unit keeps it.                                         *)
LEMMA WorkComplete ==
  ASSUME PointInv, CompleteInv, Work
  PROVE  CompleteInv'
<1>1. ControlInv /\ RefusalInv
  BY DEF PointInv, CompleteInv
<1>2. step # "IDLE" => busy /\ ~done
  BY <1>1 DEF ControlInv
<1>3. ASSUME step' \notin CandidateSteps \cup PowSteps, step' # "DONE" \/ flag', ~done'
      PROVE  CompleteInv'
  BY <1>3, NoCandidate DEF CompleteInv, RefusalInv
<1>4. CASE AddStep \/ DoubleStep
  <2>1. step' \in AddSteps \cup DoubleSteps /\ step # "IDLE" /\ done' = done
    BY <1>4 DEF AddStep, DoubleStep, Do, DoMul, On, OnMul, Load, AddSteps, DoubleSteps, Rest
  <2>2. step' \notin CandidateSteps \cup PowSteps /\ step' # "DONE"
    BY <2>1 DEF AddSteps, DoubleSteps, CandidateSteps, RootSteps, PowSteps
  <2> QED BY <1>2, <1>3, <2>1, <2>2
<1>5. CASE LastProduct \/ OtherRoot
  <2>1. step' \in {"DONE", "DEC_13"} /\ step # "IDLE" /\ flag' = TRUE /\ done' = done
    BY <1>5 DEF LastProduct, OtherRoot, On, Load, Rest
  <2> QED BY <1>2, <1>3, <2>1 DEF CandidateSteps, RootSteps, PowSteps
<1>6. CASE DecodeStep
  <2>1. /\ step # "IDLE" /\ flag' = flag /\ done' = done /\ step' \notin PowSteps
        /\ step' = "DONE" => step = "DEC_14"
    BY <1>6 DEF DecodeStep, Do, DoMul, On, OnMul, Load, Rest, PowSteps
  <2>2. step = "DEC_14" => flag
    BY DEF PointInv, DecodeInv, SignSteps
  <2>3. RefusalInv' /\ PowersInv'
    BY <1>2, <2>1, <2>2, NoCandidate DEF RefusalInv
  <2> QED BY <1>6, <2>3, CandidateKeeps DEF CompleteInv
<1>7. CASE ChooseSign \/ ApplySign
  <2>1. step' \in {"DEC_13_AUX", "DEC_13_MUL"} /\ step # "IDLE" /\ done' = done
    BY <1>7 DEF ChooseSign, ApplySign, Do, Load, Rest
  <2> QED BY <1>2, <1>3, <2>1 DEF CandidateSteps, RootSteps, PowSteps
<1>8. CASE Finish
  <2>1. /\ step = "DONE" /\ step' = "IDLE" /\ done' = TRUE
        /\ UNCHANGED <<request, flag, reg, fe, match, pow, exponent>>
    BY <1>8 DEF Finish
  <2>2. RefusalInv'
    BY <1>1, <2>1 DEF RefusalInv
  <2> QED BY <2>1, <2>2, NoCandidate DEF CompleteInv, CandidateSteps, RootSteps, PowSteps
<1> QED BY <1>4, <1>5, <1>6, <1>7, <1>8, BeginPowers, DispatchPowers, AnswerPowers,
           VerdictComplete DEF Work

(* The unit never loses track of the powers, nor refuses an encoding whose  *)
(* candidate is a root.                                                     *)
THEOREM CompleteInvariant == Spec => []CompleteInv
<1>1. ASSUME PointInv, CompleteInv, [Next]_vars PROVE CompleteInv'
  <2>1. CASE ~busy /\ \E r \in Offered : Start(r)
    <3>1. PICK r \in Offered : Start(r)
      BY <2>1
    <3>2. step' = First(r) /\ done' = FALSE /\ r \in Request
      BY <3>1, PointAssumption DEF Start, Offered
    <3>3. step' \in {"ADD_0", "DBL_0", "DEC_1"}
      BY <3>2 DEF First, Request
    <3> QED BY <3>2, <3>3, NoCandidate DEF CompleteInv, CandidateSteps, RootSteps, PowSteps
  <2>2. CASE Settle
    <3>1. ~busy /\ done' = FALSE /\ step' = step
      BY <2>2 DEF Settle
    <3>2. step = "IDLE"
      BY <1>1, <3>1 DEF PointInv, ControlInv
    <3> QED BY <3>1, <3>2, NoCandidate DEF CompleteInv, CandidateSteps, RootSteps, PowSteps
  <2>3. CASE Work
    BY <1>1, <2>3, WorkComplete
  <2>4. CASE Reset
    <3>1. step' = "IDLE" /\ done' = FALSE
      BY <2>4 DEF Reset
    <3> QED BY <3>1, NoCandidate DEF CompleteInv, CandidateSteps, RootSteps, PowSteps
  <2>5. CASE UNCHANGED vars
    <3>1. /\ UNCHANGED <<request, busy, done, flag, step, reg, fe, match, pow, exponent>>
          /\ Operands' = Operands /\ \A c \in Chain : Now(c)' = Now(c)
      BY <2>5 DEF vars, Operands, Squaring, Current, Now
    <3>2. PowersInv'
      BY <1>1, <3>1 DEF CompleteInv, PowersInv, PowersAt
    <3> QED BY <1>1, <3>1, <3>2 DEF CompleteInv, CandidateInv, RefusalInv
  <2> QED BY <1>1, <2>1, <2>2, <2>3, <2>4, <2>5 DEF Next
<1>2. Init => CompleteInv
  BY DEF Init, CompleteInv, CandidateInv, CandidateAt, PowersInv, RefusalInv, PowSteps
<1> QED BY <1>1, <1>2, PointInvariant, PTL DEF Spec

(* When an encoding is refused there is no root.                            *)
LEMMA DecodeIsComplete ==
  ASSUME PointInv, CompleteInv
  PROVE  DecodeComplete
<1> SUFFICES ASSUME Ended("DECOMPRESS"), ~flag
             PROVE  /\ Roots(request.encoded.y % FieldP) = {}
                    /\ \A o \in Outputs : reg[o] = 0
  BY DEF DecodeComplete
<1> DEFINE n == request.encoded.y
           y == Canonical(n)
<1>1. done /\ request.op = "DECOMPRESS"
  BY DEF Ended
<1>2. request \in Request /\ n \in Raw
  BY <1>1 DEF PointInv, ControlInv, Request
<1>3. y = n % FieldP /\ y \in Field
  BY <1>2, CanonicalMod, CanonicalValue
<1>4. Output(0, 0, 0, 0)
  BY <1>1 DEF PointInv, OutputInv, DecodeOutput
<1>5. \A o \in Outputs : reg[o] = 0
  BY <1>4 DEF Output, Outputs
<1>6. Scaled(y, Candidate(y)) \notin {U(y), Neg(U(y))}
  BY <1>1 DEF CompleteInv, RefusalInv
<1> HIDE DEF y
<1>7. \A z \in Field : ~Root(y, z)
  BY <1>3, <1>6, CandidateRight
<1>8. \A z \in Field : ~OnCurve(z, y)
  BY <1>3, <1>7, RootOnCurve
<1> QED BY <1>3, <1>5, <1>8 DEF Roots
-----------------------------------------------------------------------------
(* When done is raised the outputs are the operation's result, whatever ran *)
(* before and wherever it was cut off. A sum, full or mixed, is the sum of  *)
(* the two points that the operands represent.                              *)
THEOREM SumsExact == Spec => []SumExact
<1> QED BY PointInvariant, SumIsExact, PTL

(* A double is the double of the point.                                     *)
THEOREM DoublesExact == Spec => []DoubleExact
<1> QED BY PointInvariant, DoubleIsExact, PTL

(* A decoded point is the one the encoding stands for.                      *)
THEOREM DecodesSound == Spec => []DecodeSound
<1> QED BY PointInvariant, DecodeIsSound, PTL

(* An encoding is refused only when it stands for none.                     *)
THEOREM DecodesComplete == Spec => []DecodeComplete
<1> QED BY PointInvariant, CompleteInvariant, DecodeIsComplete, PTL

(* All four: the point unit computes what the curve's group law and the     *)
(* encoding say, for every operation and every history of the unit.         *)
THEOREM PointsExact == Spec => []PointExact
<1>1. SumExact /\ DoubleExact /\ DecodeSound /\ DecodeComplete => PointExact
  BY DEF PointExact
<1> QED BY <1>1, SumsExact, DoublesExact, DecodesSound, DecodesComplete, PTL
-----------------------------------------------------------------------------
(* How long an operation can last.                                          *)

(* The multiplications of the power chain that follow each phase.           *)
LaterMuls == <<261, 260, 259, 258, 257, 256, 255, 249, 238, 217, 206, 155, 54, 3, 0>>
MulsLeft  == LaterMuls[pow.phase] + 1 + pow.left

(* The most steps from each place of the microprogram to the end.           *)
AddLeft ==
  [ADD_0 |-> 21, ADD_1 |-> 20, ADD_1_AUX |-> 19, ADD_1_MUL |-> 18, ADD_2 |-> 17, ADD_3 |-> 16,
   ADD_3_AUX |-> 15, ADD_3_MUL |-> 14, ADD_4 |-> 13, ADD_5 |-> 12, ADD_6 |-> 11, ADD_7 |-> 10,
   ADD_8 |-> 9, ADD_9 |-> 8, ADD_10 |-> 7, ADD_11 |-> 6, ADD_12 |-> 5, ADD_13 |-> 4,
   ADD_14 |-> 3, ADD_15 |-> 2]
DoubleLeft ==
  [DBL_0 |-> 19, DBL_1 |-> 18, DBL_2 |-> 17, DBL_3 |-> 16, DBL_4 |-> 15, DBL_4_AUX |-> 14,
   DBL_4_MUL |-> 13, DBL_5 |-> 12, DBL_6 |-> 11, DBL_7 |-> 10, DBL_8 |-> 9, DBL_9 |-> 8,
   DBL_10 |-> 7, DBL_11 |-> 6, DBL_12 |-> 5, DBL_13 |-> 4, DBL_14 |-> 3, DBL_15 |-> 2]
BeforePow ==
  [DEC_1 |-> 545, DEC_2 |-> 544, DEC_2_AUX |-> 543, DEC_2_MUL |-> 542, DEC_3 |-> 541,
   DEC_4 |-> 540, DEC_5 |-> 539, DEC_6 |-> 538, DEC_7 |-> 537]
AfterPow ==
  [DEC_8 |-> 12, DEC_9 |-> 11, DEC_10 |-> 10, DEC_11 |-> 9, DEC_11_COMPARE |-> 8,
   DEC_11_BRANCH |-> 7, DEC_12 |-> 6, DEC_13 |-> 5, DEC_13_AUX |-> 4, DEC_13_MUL |-> 3,
   DEC_14 |-> 2]

StepsLeft ==
  CASE step \in AddSteps -> AddLeft[step]
    [] step \in DoubleSteps -> DoubleLeft[step]
    [] step \in DOMAIN BeforePow -> BeforePow[step]
    [] step = "POW_DISPATCH" -> 12 + 2 * MulsLeft
    [] step = "POW_WAIT" -> 11 + 2 * MulsLeft
    [] step \in DOMAIN AfterPow -> AfterPow[step]
    [] step = "DONE" -> 1
    [] step = "IDLE" -> 0

OperationSteps == 545


(* The bound at each place.                                                 *)
PlaceBound ==
  /\ \A s \in AddSteps : step = s => StepsLeft = AddLeft[s]
  /\ \A s \in DoubleSteps : step = s => StepsLeft = DoubleLeft[s]
  /\ \A s \in DOMAIN BeforePow : step = s => StepsLeft = BeforePow[s]
  /\ \A s \in DOMAIN AfterPow : step = s => StepsLeft = AfterPow[s]
  /\ step = "POW_DISPATCH" => StepsLeft = 12 + 2 * MulsLeft
  /\ step = "POW_WAIT" => StepsLeft = 11 + 2 * MulsLeft
  /\ step = "DONE" => StepsLeft = 1
  /\ step = "IDLE" => StepsLeft = 0

(* Both follow from the definition of StepsLeft, before a step and after.   *)
LEMMA PlaceBounds == PlaceBound /\ PlaceBound'
BY DEF PlaceBound, StepsLeft, AddSteps, DoubleSteps, BeforePow, AfterPow

(* Each phase has its squarings and one multiplication.                     *)
LEMMA LaterMulsAre ==
  /\ \A n \in 1 .. 15 : LaterMuls[n] \in 0 .. 261
  /\ \A n \in 1 .. 14 : LaterMuls[n] = PowProgram[n + 1].squares + 1 + LaterMuls[n + 1]
  /\ LaterMuls[15] = 0
<1>1. \A n \in 1 .. 15 : LaterMuls[n] \in 0 .. 261
  BY DEF LaterMuls
<1>2. ASSUME NEW n \in 1 .. 14
      PROVE  LaterMuls[n] = PowProgram[n + 1].squares + 1 + LaterMuls[n + 1]
  <2>1. n \in {1, 2, 3, 4, 5} \/ n \in {6, 7, 8, 9, 10} \/ n \in {11, 12, 13, 14}
    OBVIOUS
  <2>2. CASE n \in {1, 2, 3, 4, 5}
    BY <2>2 DEF LaterMuls, PowProgram, Multiply, Phase
  <2>3. CASE n \in {6, 7, 8, 9, 10}
    BY <2>3 DEF LaterMuls, PowProgram, Multiply, Phase
  <2>4. CASE n \in {11, 12, 13, 14}
    BY <2>4 DEF LaterMuls, PowProgram, Multiply, Phase
  <2> QED BY <2>1, <2>2, <2>3, <2>4
<1>3. LaterMuls[15] = 0
  BY DEF LaterMuls
<1> QED BY <1>1, <1>2, <1>3

(* So never more than 262 multiplications are to come.                      *)
LEMMA MulsLeftBound ==
  ASSUME PointInv, step \in PowSteps
  PROVE  MulsLeft \in 1 .. 262
<1>1. /\ pow.phase \in 1 .. 15 /\ pow.left \in 0 .. 100
      /\ pow.left <= PowProgram[pow.phase].squares
  BY Program DEF PointInv, PointTypeOK, ChainInv, Current
<1>2. CASE pow.phase = 1
  BY <1>1, <1>2 DEF MulsLeft, LaterMuls, PowProgram, Multiply, Phase
<1>3. CASE pow.phase \in 2 .. 15
  <2>1. LaterMuls[pow.phase - 1] = PowProgram[pow.phase].squares + 1 + LaterMuls[pow.phase]
    <3>1. pow.phase - 1 \in 1 .. 14 /\ (pow.phase - 1) + 1 = pow.phase
      BY <1>3
    <3> QED BY SMTT(30), <3>1, LaterMulsAre
  <2>2. /\ LaterMuls[pow.phase - 1] \in 0 .. 261 /\ LaterMuls[pow.phase] \in 0 .. 261
        /\ PowProgram[pow.phase].squares \in 0 .. 100
    <3>1. pow.phase - 1 \in 1 .. 15
      BY <1>3
    <3> QED BY SMTT(30), <1>1, <3>1, LaterMulsAre, Program
  <2> DEFINE before == LaterMuls[pow.phase - 1]
             after == LaterMuls[pow.phase]
             squares == PowProgram[pow.phase].squares
             left == pow.left
  <2>3. /\ before = squares + 1 + after /\ before \in 0 .. 261 /\ after \in 0 .. 261
        /\ squares \in 0 .. 100 /\ left \in 0 .. 100 /\ left <= squares
    BY <1>1, <2>1, <2>2
  <2>4. MulsLeft = after + 1 + left
    BY DEF MulsLeft
  <2> HIDE DEF before, after, squares, left
  <2> QED BY <2>3, <2>4
<1> QED BY <1>1, <1>2, <1>3

(* An operation under way has at least a step to go, and never more than    *)
(* the bound.                                                               *)
LEMMA StepsBound ==
  ASSUME PointInv
  PROVE  StepsLeft \in 0 .. OperationSteps /\ (StepsLeft = 0 <=> ~busy)
<1>1. step \in AddSteps => StepsLeft \in 1 .. OperationSteps
  BY PlaceBounds DEF PlaceBound, AddSteps, AddLeft, OperationSteps
<1>2. step \in DoubleSteps => StepsLeft \in 1 .. OperationSteps
  BY PlaceBounds DEF PlaceBound, DoubleSteps, DoubleLeft, OperationSteps
<1>3. step \in {"DEC_1", "DEC_2", "DEC_2_AUX", "DEC_2_MUL", "DEC_3", "DEC_4", "DEC_5", "DEC_6", "DEC_7"}
        => StepsLeft \in 1 .. OperationSteps
  BY PlaceBounds DEF PlaceBound, BeforePow, OperationSteps
<1>4. step \in {"DEC_8", "DEC_9", "DEC_10", "DEC_11", "DEC_11_COMPARE", "DEC_11_BRANCH", "DEC_12"}
                 \cup SignSteps
        => StepsLeft \in 1 .. OperationSteps
  BY PlaceBounds DEF PlaceBound, AfterPow, SignSteps, OperationSteps
<1>5. step \in PowSteps => StepsLeft \in 1 .. OperationSteps
  <2>1. step \in PowSteps => MulsLeft \in 1 .. 262
    BY MulsLeftBound
  <2> QED BY <2>1, PlaceBounds DEF PlaceBound, PowSteps, OperationSteps
<1>6. (step = "DONE" => StepsLeft = 1) /\ (step = "IDLE" => StepsLeft = 0)
  BY PlaceBounds DEF PlaceBound
<1>7. step \in Steps /\ (busy <=> step # "IDLE")
  BY DEF PointInv, ControlInv
<1>8. 0 \in 0 .. OperationSteps /\ 1 \in 0 .. OperationSteps /\ 1 .. OperationSteps \subseteq 0 .. OperationSteps
  BY DEF OperationSteps
<1>9. CASE step = "IDLE"
  BY <1>6, <1>7, <1>8, <1>9
<1>10. CASE step # "IDLE"
  <2>1. StepsLeft \in 1 .. OperationSteps
    BY <1>1, <1>2, <1>3, <1>4, <1>5, <1>6, <1>7, <1>10
       DEF Steps, DecodeSteps, RootSteps, SignSteps, PowSteps, OperationSteps
  <2> QED BY <1>7, <1>8, <1>10, <2>1
<1> QED BY <1>9, <1>10

(* The straight parts of the program go down one place or skip some.        *)
LEMMA StraightFewer ==
  ASSUME PointInv, PointInv',
         \/ AddStep \/ DoubleStep \/ LastProduct \/ DecodeStep \/ Compare \/ Branch
         \/ OtherRoot \/ ChooseSign \/ ApplySign \/ Finish
  PROVE  StepsLeft' < StepsLeft
<1> USE PlaceBounds DEF PlaceBound, Do, DoMul, On, OnMul, Load
<1>1. CASE AddStep
  BY <1>1 DEF AddStep, AddSteps, AddLeft
<1>2. CASE DoubleStep
  BY <1>2 DEF DoubleStep, DoubleSteps, DoubleLeft
<1>3. CASE LastProduct
  BY <1>3 DEF LastProduct, AddSteps, AddLeft, DoubleSteps, DoubleLeft
<1>4. CASE DecodeStep
  BY <1>4 DEF DecodeStep, BeforePow, AfterPow
<1>5. CASE Compare \/ Branch \/ OtherRoot \/ ChooseSign \/ ApplySign
  BY <1>5 DEF Compare, Branch, OtherRoot, ChooseSign, ApplySign, AfterPow
<1>6. CASE Finish
  BY <1>6 DEF Finish
<1> QED BY <1>1, <1>2, <1>3, <1>4, <1>5, <1>6

(* The power chain has one multiplication less to do with each answer.      *)
LEMMA ChainFewer ==
  ASSUME PointInv, PointInv', PowBegin \/ PowDispatch \/ PowAnswer
  PROVE  StepsLeft' < StepsLeft
<1>1. CASE PowBegin
  <2>1. step = "DEC_7" /\ step' = "POW_DISPATCH"
    BY <1>1 DEF PowBegin, On, Load
  <2>2. MulsLeft' = 262
    BY <1>1 DEF PowBegin, MulsLeft, LaterMuls
  <2>3. StepsLeft = 537
    BY <2>1, PlaceBounds DEF PlaceBound, BeforePow
  <2>4. StepsLeft' = 12 + 2 * MulsLeft'
    BY <2>1, PlaceBounds DEF PlaceBound
  <2> QED BY <2>2, <2>3, <2>4
<1>2. CASE PowDispatch
  <2>1. step = "POW_DISPATCH" /\ step' = "POW_WAIT" /\ pow' = pow
    BY <1>2 DEF PowDispatch, DoMul, Load, Rest
  <2>2. MulsLeft' = MulsLeft /\ MulsLeft \in 1 .. 262
    BY <2>1, MulsLeftBound DEF MulsLeft, PowSteps
  <2>3. StepsLeft = 12 + 2 * MulsLeft /\ StepsLeft' = 11 + 2 * MulsLeft'
    BY <2>1, PlaceBounds DEF PlaceBound
  <2> QED BY <2>2, <2>3
<1>3. CASE PowAnswer
  <2>1. step = "POW_WAIT" /\ StepsLeft = 11 + 2 * MulsLeft
    BY <1>3, PlaceBounds DEF PlaceBound, PowAnswer, On, Load
  <2>2. MulsLeft \in 1 .. 262 /\ pow.phase \in 1 .. 15 /\ pow.left \in 0 .. 100
    BY <2>1, MulsLeftBound, Program DEF PowSteps, PointInv, PointTypeOK
  <2>3. pow \in [phase : 1 .. 15, left : 0 .. 100]
    BY Program DEF PointInv, PointTypeOK
  <2>4. CASE Squaring
    <3>1. step' = "POW_DISPATCH" /\ pow'.phase = pow.phase /\ pow'.left = pow.left - 1
      BY <1>3, <2>3, <2>4 DEF PowAnswer, On, Load
    <3>2. MulsLeft' = MulsLeft - 1
      <4> DEFINE after == LaterMuls[pow.phase]
                 left == pow.left
      <4>1. MulsLeft = after + 1 + left /\ MulsLeft' = after + 1 + (left - 1)
        BY <3>1 DEF MulsLeft
      <4>2. after \in 0 .. 261 /\ left \in 0 .. 100
        BY <2>2, LaterMulsAre
      <4> HIDE DEF after, left
      <4> QED BY <4>1, <4>2
    <3>3. StepsLeft' = 12 + 2 * MulsLeft'
      BY <3>1, PlaceBounds DEF PlaceBound
    <3> QED BY <2>1, <2>2, <3>2, <3>3
  <2>5. CASE ~Squaring /\ pow.phase < Len(PowProgram)
    <3>1. /\ step' = "POW_DISPATCH" /\ pow'.phase = pow.phase + 1
          /\ pow'.left = PowProgram[pow.phase + 1].squares /\ pow.left = 0
      BY <1>3, <2>5 DEF PowAnswer, On, Load, AfterPhase, Squaring
    <3>2. pow.phase \in 1 .. 14
      BY <2>2, <2>5, Program
    <3>3. MulsLeft' = MulsLeft - 1
      <4>1. LaterMuls[pow.phase] = PowProgram[pow.phase + 1].squares + 1 + LaterMuls[pow.phase + 1]
        BY SMTT(30), <3>2, LaterMulsAre
      <4>2. LaterMuls[pow.phase + 1] \in 0 .. 261 /\ PowProgram[pow.phase + 1].squares \in 0 .. 100
        <5>1. pow.phase + 1 \in 1 .. 15
          BY <3>2
        <5> QED BY <5>1, LaterMulsAre, Program
      <4> DEFINE now == LaterMuls[pow.phase]
                 after == LaterMuls[pow.phase + 1]
                 squares == PowProgram[pow.phase + 1].squares
      <4>3. MulsLeft = now + 1 + 0 /\ MulsLeft' = after + 1 + squares
        BY <3>1 DEF MulsLeft
      <4> HIDE DEF now, after, squares
      <4>4. now = squares + 1 + after /\ after \in 0 .. 261 /\ squares \in 0 .. 100
        BY <4>1, <4>2 DEF now, after, squares
      <4> QED BY <4>3, <4>4
    <3>4. StepsLeft' = 12 + 2 * MulsLeft'
      BY <3>1, PlaceBounds DEF PlaceBound
    <3> QED BY <2>1, <2>2, <3>3, <3>4
  <2>6. CASE ~Squaring /\ pow.phase = Len(PowProgram)
    <3>1. step' = "DEC_8"
      BY <1>3, <2>6 DEF PowAnswer, On, Load
    <3>2. StepsLeft' = 12
      BY <3>1, PlaceBounds DEF PlaceBound, AfterPow
    <3> QED BY <2>1, <2>2, <3>2
  <2> QED BY <1>3, <2>4, <2>5, <2>6 DEF PowAnswer
<1> QED BY <1>1, <1>2, <1>3

(* An operation lasts at most 545 steps of ed25519_point_core.v, counting a *)
(* multiplication as one: each step while the unit is busy leaves fewer to  *)
(* come, for every operand and whichever way a decompression branches.      *)
THEOREM OperationsAreBounded ==
  Spec => /\ [](StepsLeft \in 0 .. OperationSteps /\ (StepsLeft = 0 <=> ~busy))
          /\ [][busy => StepsLeft' < StepsLeft]_vars
<1>1. PointInv => StepsLeft \in 0 .. OperationSteps /\ (StepsLeft = 0 <=> ~busy)
  BY StepsBound
<1>2. PointInv /\ PointInv' /\ [Next]_vars => [busy => StepsLeft' < StepsLeft]_vars
  <2> SUFFICES ASSUME PointInv, PointInv', Next, busy PROVE StepsLeft' < StepsLeft
    OBVIOUS
  <2>1. CASE Work
    BY <2>1, StraightFewer, ChainFewer DEF Work
  <2>2. CASE Reset
    <3>1. StepsLeft' = 0
      BY <2>2, PlaceBounds DEF Reset, PlaceBound
    <3>2. StepsLeft \in 0 .. OperationSteps /\ StepsLeft # 0
      BY StepsBound
    <3> QED BY <3>1, <3>2 DEF OperationSteps
  <2> QED BY <2>1, <2>2 DEF Next, Settle
<1> QED BY <1>1, <1>2, PointInvariant, PTL DEF Spec
=============================================================================
