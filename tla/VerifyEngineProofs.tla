------------------------- MODULE VerifyEngineProofs -------------------------
(***************************************************************************)
(* The verify engine, for every group order, every width and every job:    *)
(* the reduction computes the digest modulo the order, the recoding the    *)
(* digits of a scalar, the joint loop their combination of points, and the *)
(* verdict is the signature equation of the mode.                          *)
(***************************************************************************)
EXTENDS VerifyEngine, WellFoundedInduction, TLAPS

Working   == States \ {"IDLE", "DONE"}
Hashed    == Working \ {"DEC_A", "DEC_R", "HASH"}
Combining == Hashed \ {"REDUCE", "RECODE_S", "RECODE_K"}

(* The points that the job's operands encode, its challenge scalar, and the *)
(* point its equation is about.                                             *)
KeyPoint   == Decode(job.A)
RPoint     == Decode(job.R)
Challenge  == LittleEndian(job.digest) % Order
Difference == job.s * BasePoint - Challenge * KeyPoint - RPoint

(* What has been checked by the time each state is reached.                 *)
AdmitInv ==
  /\ state # "IDLE" => encoded = [A |-> job.A, R |-> job.R]
  /\ state \in Working => ~Refused /\ scalar.s = job.s
  /\ state \in Working \ {"DEC_A"} => KeyPoint # Invalid /\ mult[1] = KeyPoint
  /\ state \in Hashed \cup {"HASH"} => RPoint # Invalid /\ r = RPoint
  /\ state \in Hashed => ~job.hash_error

(* The reducer has divided the part of the number that left the register.   *)
Reduced(number, unit) ==
  LET seen == number * Pow2[WideBits - unit.left]
  IN  unit.shift = seen % Wide /\ unit.remainder = (seen \div Wide) % Order

ReduceInv ==
  /\ state = "REDUCE" => reduce.left >= 1 /\ Reduced(LittleEndian(job.digest), reduce)
  /\ state \in Hashed \ {"REDUCE"} => scalar.k = Challenge

(* What the recoder's register holds before each digit of a scalar.         *)
DigitOf(x) == IF x % 2 = 1 THEN x % 16 ELSE 0
Halve(x)   == (x - DigitValue(DigitOf(x))) \div 2
Works(x)   == LET w[n \in Nat] == IF n = 0 THEN x ELSE Halve(w[n - 1]) IN w

(* The n lowest digits are those of the scalar.                             *)
Recoded(digits, x, n) == \A i \in BitIndex : i < n => digits[i] = DigitOf(Works(x)[i])

RecodeInv ==
  /\ state = "RECODE_S" =>
       recode.work = Works(scalar.s)[recode.bit] /\ Recoded(wnaf.s, scalar.s, recode.bit)
  /\ state = "RECODE_K" =>
       recode.work = Works(scalar.k)[recode.bit] /\ Recoded(wnaf.k, scalar.k, recode.bit)
  /\ state \in Combining \cup {"RECODE_K"} => Recoded(wnaf.s, scalar.s, ScalarBits)
  /\ state \in Combining => Recoded(wnaf.k, scalar.k, ScalarBits)

(* The multiples of A computed so far.                                      *)
Multiples ==
  CASE state = "ODD_A2" -> {1}
    [] state = "ODD_A3" -> {1, 2}
    [] state = "ODD_A5" -> {1, 2, 3}
    [] state = "ODD_A7" -> {1, 2, 3, 5}
    [] OTHER -> {1, 2, 3, 5, 7}

MultInv == state \in Combining => \A n \in Multiples : mult[n] = Times(n, KeyPoint)

(* The accumulator is the combination the digits taken so far stand for.    *)
Combination(s, k) == (s * BasePoint - k * KeyPoint) % GroupOrder

LoopInv ==
  LET s == TopDigits(wnaf.s)[ScalarBits - 1 - joint.bit]
      k == TopDigits(wnaf.k)[ScalarBits - 1 - joint.bit]
      s_next == 2 * s + DigitValue(joint.s)
      k_next == 2 * k + DigitValue(joint.k)
  IN  /\ state = "JOINT_DBL" => acc = Combination(s, k)
      /\ state \in {"JOINT_ADD_A", "JOINT_ADD_B", "JOINT_NEXT"} =>
           joint.s = wnaf.s[joint.bit] /\ joint.k = wnaf.k[joint.bit]
      /\ state = "JOINT_ADD_A" => acc = Combination(2 * s, 2 * k)
      /\ state = "JOINT_ADD_B" => acc = Combination(2 * s, k_next)
      /\ state = "JOINT_NEXT" => acc = Combination(s_next, k_next)

FinalInv ==
  /\ state = "FINAL_EQ" => work = Combination(job.s, Challenge)
  /\ state = "FINAL_COF_DBL" =>
       job.mode # "strict" /\ work = Times(Pow2[cofactor_double_count], Difference)

Answered == verified <=> Acceptable /\ EquationHolds
AnswerInv ==
  /\ state = "DONE" => Answered
  /\ done => state = "IDLE" /\ Answered

EngineInv ==
  /\ EngineTypeOK /\ AdmitInv /\ ReduceInv /\ RecodeInv
  /\ MultInv /\ LoopInv /\ FinalInv /\ AnswerInv
-----------------------------------------------------------------------------
(* Induction over a set of numbers: a set with zero and with the successor  *)
(* of each of its members has every number.                                 *)
LEMMA SetInduction ==
  ASSUME NEW S, 0 \in S, \A n \in Nat : n \in S => n + 1 \in S
  PROVE  \A n \in Nat : n \in S
<1> DEFINE R == {p \in Nat \X Nat : p[1] < p[2]}
<1>1. IsWellFoundedOn(R, Nat)
  <2>1. OpToRel(<, Nat) = R
    BY DEF OpToRel
  <2> QED BY <2>1, NatLessThanWellFounded
<1>2. SUFFICES ASSUME Nat \ S # {} PROVE FALSE
  OBVIOUS
<1> HIDE DEF R
<1>3. PICK m \in Nat \ S : \A k \in Nat \ S : ~(<<k, m>> \in R)
  BY <1>1, <1>2, WFMin
<1>4. m \in Nat /\ m # 0 /\ m \notin S
  OBVIOUS
<1>5. m - 1 \in Nat /\ <<m - 1, m>> \in R
  BY <1>4 DEF R
<1>6. m - 1 \in S
  BY <1>3, <1>5
<1>7. (m - 1) + 1 \in S
  BY <1>5, <1>6
<1> QED BY <1>4, <1>7

(* What a recursive function of this project computes: its first value and  *)
(* every other from the one before. step[n] takes value n to value n + 1.   *)
Follows(f, first, step, n) ==
  f[0] = first /\ \A m \in 0 .. n - 1 : f[m + 1] = step[m][f[m]]

(* Such functions exist up to every n, *)
LEMMA FollowsExist ==
  ASSUME NEW V, NEW first \in V, NEW step \in [Nat -> [V -> V]]
  PROVE  \A n \in Nat : \E f \in [Nat -> V] : Follows(f, first, step, n)
<1> DEFINE S == {n \in Nat : \E f \in [Nat -> V] : Follows(f, first, step, n)}
<1>1. 0 \in S
  <2> DEFINE f == [n \in Nat |-> first]
  <2>1. f \in [Nat -> V] /\ f[0] = first
    OBVIOUS
  <2> HIDE DEF f
  <2>2. Follows(f, first, step, 0)
    BY <2>1 DEF Follows
  <2> QED BY <2>1, <2>2
<1>2. ASSUME NEW n \in Nat, n \in S PROVE n + 1 \in S
  <2>1. PICK f \in [Nat -> V] : Follows(f, first, step, n)
    BY <1>2
  <2> DEFINE g == [f EXCEPT ![n + 1] = step[n][f[n]]]
  <2>2. step[n] \in [V -> V] /\ f[n] \in V
    OBVIOUS
  <2>3. step[n][f[n]] \in V
    BY <2>2
  <2>4. g \in [Nat -> V] /\ g[n + 1] = step[n][f[n]] /\ \A m \in 0 .. n : g[m] = f[m]
    BY <2>3
  <2> HIDE DEF g
  <2>5. ASSUME NEW m \in 0 .. (n + 1) - 1 PROVE g[m + 1] = step[m][g[m]]
    <3>1. m \in 0 .. n /\ g[m] = f[m]
      BY <2>4
    <3>2. CASE m = n
      BY <2>4, <3>1, <3>2
    <3>3. CASE m # n
      <4>1. m \in 0 .. n - 1 /\ m + 1 \in 0 .. n
        BY <3>3
      <4> QED BY <2>1, <2>4, <3>1, <4>1 DEF Follows
    <3> QED BY <3>2, <3>3
  <2>6. g[0] = first
    BY <2>1, <2>4 DEF Follows
  <2>7. Follows(g, first, step, n + 1)
    BY <2>5, <2>6 DEF Follows
  <2> QED BY <2>4, <2>7
<1> HIDE DEF S
<1>3. \A n \in Nat : n \in S
  BY <1>1, <1>2, SetInduction
<1> QED BY <1>3 DEF S

(* and agree where they overlap.                                            *)
LEMMA FollowsAgree ==
  ASSUME NEW first, NEW step, NEW p \in Nat, NEW q \in Nat, NEW f, NEW h,
         Follows(f, first, step, p), Follows(h, first, step, q)
  PROVE  \A m \in Nat : m <= p /\ m <= q => f[m] = h[m]
<1> DEFINE S == {m \in Nat : m <= p /\ m <= q => f[m] = h[m]}
<1>1. 0 \in S
  BY DEF Follows
<1>2. ASSUME NEW n \in Nat, n \in S PROVE n + 1 \in S
  <2> SUFFICES ASSUME n + 1 <= p, n + 1 <= q PROVE f[n + 1] = h[n + 1]
    OBVIOUS
  <2>1. f[n] = h[n]
    BY <1>2
  <2>2. n \in 0 .. p - 1 /\ n \in 0 .. q - 1
    OBVIOUS
  <2> QED BY <2>1, <2>2 DEF Follows
<1> HIDE DEF S
<1>3. \A n \in Nat : n \in S
  BY <1>1, <1>2, SetInduction
<1> QED BY <1>3 DEF S

(* One function does it for all n: the recursive definition has a value.    *)
Recursive(f, first, step) ==
  f = [n \in Nat |-> IF n = 0 THEN first ELSE step[n - 1][f[n - 1]]]

(* For a first value and a step on a set V, such a function into V exists.  *)
LEMMA Recursion ==
  ASSUME NEW V, NEW first \in V, NEW step \in [Nat -> [V -> V]]
  PROVE  \E f \in [Nat -> V] : Recursive(f, first, step)
<1> DEFINE Any(n) == CHOOSE f \in [Nat -> V] : Follows(f, first, step, n)
           g == [n \in Nat |-> Any(n)[n]]
<1>1. \A n \in Nat : Any(n) \in [Nat -> V] /\ Follows(Any(n), first, step, n)
  BY FollowsExist
<1> HIDE DEF Any
<1>2. g \in [Nat -> V] /\ \A n \in Nat : g[n] = Any(n)[n]
  BY <1>1
<1>3. ASSUME NEW n \in Nat
      PROVE  g[n] = IF n = 0 THEN first ELSE step[n - 1][g[n - 1]]
  <2> HIDE DEF g
  <2>1. CASE n = 0
    BY <1>1, <1>2, <2>1 DEF Follows
  <2>2. CASE n # 0
    <3>1. n - 1 \in Nat /\ n - 1 \in 0 .. n - 1 /\ (n - 1) + 1 = n
      BY <2>2
    <3>2. Any(n)[n] = step[n - 1][Any(n)[n - 1]]
      BY <1>1, <3>1 DEF Follows
    <3>3. Any(n)[n - 1] = Any(n - 1)[n - 1]
      BY <1>1, <3>1, FollowsAgree
    <3> QED BY <1>2, <2>2, <3>1, <3>2, <3>3
  <2> QED BY <2>1, <2>2
<1>4. Recursive(g, first, step)
  BY <1>3 DEF Recursive
<1> HIDE DEF g
<1> QED BY <1>2, <1>4

-----------------------------------------------------------------------------
(* Powers of two. *)
LEMMA Pow2Values ==
  /\ Pow2 \in [Nat -> Nat] /\ Pow2[0] = 1
  /\ \A n \in Nat : Pow2[n + 1] = 2 * Pow2[n]
<1> DEFINE V == Nat
           step == [n \in Nat |-> [x \in Nat |-> 2 * x]]
           G(f) == [n \in Nat |-> IF n = 0 THEN 1 ELSE 2 * f[n - 1]]
           S == {n \in Nat : Pow2[n] \in Nat}
<1>1. step \in [Nat -> [V -> V]] /\ 1 \in V
  OBVIOUS
<1>2. PICK g \in [Nat -> V] : Recursive(g, 1, step)
  <2> HIDE DEF step, V
  <2> QED BY <1>1, Recursion
<1>3. ASSUME NEW n \in Nat, n # 0 PROVE step[n - 1][g[n - 1]] = 2 * g[n - 1]
  <2>1. n - 1 \in Nat /\ g[n - 1] \in Nat
    BY <1>3
  <2> QED BY <2>1
<1> HIDE DEF step
<1>4. g = G(g)
  BY <1>2, <1>3 DEF Recursive
<1>5. Pow2 = G(Pow2)
  BY <1>4 DEF Pow2
<1>6. Pow2[0] = 1 /\ \A n \in Nat : Pow2[n + 1] = 2 * Pow2[n]
  <2>1. \A n \in Nat : Pow2[n] = IF n = 0 THEN 1 ELSE 2 * Pow2[n - 1]
    BY <1>5
  <2>2. \A n \in Nat : n + 1 \in Nat /\ n + 1 # 0 /\ (n + 1) - 1 = n
    OBVIOUS
  <2> QED BY <2>1, <2>2
<1>7. 0 \in S
  BY <1>6
<1>8. \A n \in Nat : n \in S => n + 1 \in S
  BY <1>6
<1>9. \A n \in Nat : n \in S
  <2> HIDE DEF S
  <2> QED BY <1>7, <1>8, SetInduction
<1> QED BY <1>5, <1>6, <1>9

(* They multiply by adding exponents, and double with them.                 *)
LEMMA Pow2Sum ==
  ASSUME NEW m \in Nat
  PROVE  \A n \in Nat : Pow2[m + n] = Pow2[m] * Pow2[n]
<1> DEFINE S == {n \in Nat : Pow2[m + n] = Pow2[m] * Pow2[n]}
<1>1. 0 \in S
  BY Pow2Values
<1>2. ASSUME NEW n \in Nat, n \in S PROVE n + 1 \in S
  <2>1. Pow2[(m + n) + 1] = 2 * Pow2[m + n] /\ Pow2[n + 1] = 2 * Pow2[n]
    BY Pow2Values
  <2>2. Pow2[m] \in Nat /\ Pow2[n] \in Nat /\ (m + n) + 1 = m + (n + 1)
    BY Pow2Values
  <2>3. Pow2[m + n] = Pow2[m] * Pow2[n]
    BY <1>2
  <2> QED BY <2>1, <2>2, <2>3
<1> HIDE DEF S
<1>3. \A n \in Nat : n \in S
  BY <1>1, <1>2, SetInduction
<1> QED BY <1>3 DEF S

(* A power of two is a positive number.                                     *)
LEMMA Pow2Positive ==
  \A n \in Nat : Pow2[n] \in Nat /\ Pow2[n] >= 1
<1> DEFINE S == {n \in Nat : Pow2[n] >= 1}
<1>1. 0 \in S
  BY Pow2Values
<1>2. \A n \in Nat : n \in S => n + 1 \in S
  BY Pow2Values
<1> HIDE DEF S
<1>3. \A n \in Nat : n \in S
  BY <1>1, <1>2, SetInduction
<1> QED BY <1>3, Pow2Values DEF S
-----------------------------------------------------------------------------
(* Remainders. *)
LEMMA Remainder ==
  ASSUME NEW n \in Int, NEW m \in Nat, m > 0
  PROVE  n % m \in 0 .. m - 1 /\ n \div m \in Int /\ n = m * (n \div m) + (n % m)
OBVIOUS

(* A multiple of m added to a remainder leaves the remainder.               *)
LEMMA RemainderUnique ==
  ASSUME NEW m \in Nat, NEW x \in 0 .. m - 1, NEW k \in Int
  PROVE  (x + k * m) % m = x
OBVIOUS
-----------------------------------------------------------------------------
(* The widths. *)
LEMMA Widths ==
  /\ Order \in Nat /\ Order > 1 /\ ScalarBits \in Nat /\ 4 * Order <= Pow2[ScalarBits]
  /\ ByteRadix \in Nat /\ ByteRadix >= 1
  /\ DigestBytes \in Nat /\ DigestBytes >= 1 /\ ByteBits \in Nat /\ ByteBits >= 1
  /\ WideBits \in Nat /\ WideBits >= 1 /\ Wide \in Nat /\ Wide >= 1
<1>1. /\ Order \in Nat /\ Order > 1 /\ ScalarBits \in Nat /\ 4 * Order <= Pow2[ScalarBits]
      /\ DigestBytes \in Nat /\ DigestBytes >= 1 /\ ByteBits \in Nat /\ ByteBits >= 1
  BY ScalarAssumption
<1>2. WideBits \in Nat /\ WideBits >= 1
  BY <1>1 DEF WideBits
<1>3. ByteRadix \in Nat /\ ByteRadix >= 1
  BY <1>1, Pow2Positive DEF ByteRadix
<1>4. Wide \in Nat /\ Wide >= 1
  BY <1>2, Pow2Positive DEF Wide
<1> QED BY <1>1, <1>2, <1>3, <1>4

(* A scalar has three bits at least.                                        *)
LEMMA ScalarBitsBound == ScalarBits >= 3
<1>1. Pow2[0] = 1 /\ Pow2[1] = 2 /\ Pow2[2] = 4
  <2>1. Pow2[0 + 1] = 2 * Pow2[0] /\ Pow2[1 + 1] = 2 * Pow2[1]
    BY Pow2Values
  <2> QED BY <2>1, Pow2Values
<1> QED BY <1>1, Widths

(* The number of n top bytes follows from that of one byte less.            *)
LEMMA TopBytesValues ==
  ASSUME NEW bytes \in Digests
  PROVE  /\ TopBytes(bytes)[0] = 0
         /\ \A n \in 0 .. DigestBytes - 1 : TopBytes(bytes)[n + 1]
              = ByteRadix * TopBytes(bytes)[n] + bytes[DigestBytes - n]
<1> DEFINE V == Int
           Byte(n) == IF n < DigestBytes THEN bytes[DigestBytes - n] ELSE 0
           step == [n \in Nat |-> [x \in V |-> ByteRadix * x + Byte(n)]]
           G(f) == [n \in 0 .. DigestBytes |->
                      IF n = 0 THEN 0 ELSE ByteRadix * f[n - 1] + bytes[DigestBytes - n + 1]]
<1>1. step \in [Nat -> [V -> V]] /\ 0 \in V
  <2>1. ASSUME NEW n \in Nat, NEW x \in Int PROVE ByteRadix * x + Byte(n) \in Int
    <3>1. n < DigestBytes => bytes[DigestBytes - n] \in Int
      BY Widths DEF Digests
    <3> QED BY <3>1, Widths
  <2> HIDE DEF Byte
  <2> QED BY <2>1
<1>2. PICK g \in [Nat -> V] : Recursive(g, 0, step)
  <2> HIDE DEF step, V
  <2> QED BY <1>1, Recursion
<1> DEFINE h == [n \in 0 .. DigestBytes |-> g[n]]
<1>3. h = G(h)
  <2>1. ASSUME NEW n \in 0 .. DigestBytes, n # 0
        PROVE  h[n] = ByteRadix * h[n - 1] + bytes[DigestBytes - n + 1]
    <3>1. n \in Nat /\ n - 1 \in Nat /\ n - 1 \in 0 .. DigestBytes /\ n - 1 < DigestBytes
          /\ DigestBytes - (n - 1) = DigestBytes - n + 1
      BY <2>1, Widths
    <3>2. g[n] = step[n - 1][g[n - 1]]
      BY <1>2, <2>1, <3>1 DEF Recursive
    <3>3. g[n - 1] \in V
      BY <3>1
    <3>4. step[n - 1][g[n - 1]] = ByteRadix * g[n - 1] + Byte(n - 1)
      BY <3>1, <3>3
    <3> QED BY <3>1, <3>2, <3>4
  <2>2. h[0] = 0
    BY <1>2, Widths DEF Recursive
  <2> HIDE DEF h, step
  <2>3. ASSUME NEW n \in 0 .. DigestBytes
        PROVE  h[n] = IF n = 0 THEN 0 ELSE ByteRadix * h[n - 1] + bytes[DigestBytes - n + 1]
    BY <2>1, <2>2
  <2>4. h = [n \in 0 .. DigestBytes |-> h[n]]
    BY DEF h
  <2> QED BY <2>3, <2>4
<1> DEFINE t == CHOOSE f : f = G(f)
<1>4. t = G(t)
  BY <1>3
<1>5. TopBytes(bytes) = t
  BY DEF TopBytes
<1> HIDE DEF t
<1>6. t[0] = 0
  BY <1>4, Widths
<1>7. ASSUME NEW n \in 0 .. DigestBytes - 1
      PROVE  t[n + 1] = ByteRadix * t[n] + bytes[DigestBytes - n]
  <2>1. n + 1 \in 0 .. DigestBytes /\ n + 1 # 0 /\ (n + 1) - 1 = n
        /\ DigestBytes - (n + 1) + 1 = DigestBytes - n
    BY Widths
  <2> QED BY <1>4, <2>1
<1> QED BY <1>5, <1>6, <1>7

(* A digest is a number below Wide.                                         *)
LEMMA DigestBound ==
  ASSUME NEW bytes \in Digests
  PROVE  LittleEndian(bytes) \in 0 .. Wide - 1
<1> DEFINE top == TopBytes(bytes)
           S == {n \in Nat : n <= DigestBytes => top[n] \in 0 .. Pow2[n * ByteBits] - 1}
<1>1. 0 \in S
  BY TopBytesValues, Pow2Values, Widths
<1>2. ASSUME NEW n \in Nat, n \in S PROVE n + 1 \in S
  <2> SUFFICES ASSUME n + 1 <= DigestBytes
               PROVE  top[n + 1] \in 0 .. Pow2[(n + 1) * ByteBits] - 1
    OBVIOUS
  <2>1. top[n] \in 0 .. Pow2[n * ByteBits] - 1
    BY <1>2, Widths
  <2>2. bytes[DigestBytes - n] \in 0 .. ByteRadix - 1
    BY Widths DEF Digests
  <2>3. top[n + 1] = ByteRadix * top[n] + bytes[DigestBytes - n]
    BY TopBytesValues, Widths
  <2>4. n * ByteBits \in Nat /\ (n + 1) * ByteBits = n * ByteBits + ByteBits
    BY Widths
  <2>5. Pow2[(n + 1) * ByteBits] = Pow2[n * ByteBits] * ByteRadix
    BY <2>4, Pow2Sum, Widths DEF ByteRadix
  <2>6. Pow2[n * ByteBits] \in Nat
    BY <2>4, Pow2Positive
  <2> HIDE DEF top
  <2>7. \A R, P \in Nat : \A x \in 0 .. P - 1, b \in 0 .. R - 1 : R * x + b \in 0 .. P * R - 1
    <3> TAKE R, P \in Nat
    <3> TAKE x \in 0 .. P - 1, b \in 0 .. R - 1
    <3>1. R * x <= R * (P - 1) /\ R * x >= 0 /\ R * (P - 1) = P * R - R
      OBVIOUS
    <3> QED BY <3>1
  <2> QED BY <2>1, <2>2, <2>3, <2>5, <2>6, <2>7, Widths
<1> HIDE DEF S
<1>3. DigestBytes \in S
  BY <1>1, <1>2, SetInduction, Widths
<1> QED BY <1>3, Widths DEF S, LittleEndian, Wide, WideBits
-----------------------------------------------------------------------------
(* Reduction. *)

(* q and x are what n leaves when it is divided by m.                       *)
Division(n, m, q, x) == q \in Nat /\ x \in 0 .. m - 1 /\ n = m * q + x

(* Division has one result.                                                 *)
LEMMA DivisionUnique ==
  ASSUME NEW n \in Nat, NEW m \in Nat, NEW q, NEW x, Division(n, m, q, x)
  PROVE  n \div m = q /\ n % m = x
BY DEF Division

(* A doubled number with a bit behind it: both double, with a carry.        *)
LEMMA DivisionTakesBit ==
  ASSUME NEW n \in Nat, NEW m \in Nat, NEW q, NEW x, Division(n, m, q, x), NEW b \in {0, 1}
  PROVE  Division(2 * n + b, m, 2 * q + (IF 2 * x + b >= m THEN 1 ELSE 0),
                  IF 2 * x + b >= m THEN 2 * x + b - m ELSE 2 * x + b)
<1>1. q \in Nat /\ x \in 0 .. m - 1 /\ n = m * q + x
  BY DEF Division
<1>2. 2 * n + b = m * (2 * q) + (2 * x + b) /\ m * (2 * q + 1) = m * (2 * q) + m
  BY <1>1
<1>3. CASE 2 * x + b >= m
  BY <1>1, <1>2, <1>3 DEF Division
<1>4. CASE ~(2 * x + b >= m)
  BY <1>1, <1>2, <1>4 DEF Division
<1> QED BY <1>3, <1>4

(* The reducer starts with the whole digest in its register, nothing seen.  *)
LEMMA ReduceBegins ==
  ASSUME NEW digest \in Digests
  PROVE  /\ ReduceStart(digest) \in
              [shift : 0 .. Wide - 1, remainder : 0 .. Order - 1, left : 0 .. WideBits]
         /\ ReduceStart(digest).left >= 1
         /\ Reduced(LittleEndian(digest), ReduceStart(digest))
<1> DEFINE D == LittleEndian(digest)
<1>1. D \in 0 .. Wide - 1
  BY DigestBound
<1> HIDE DEF D
<1>2. D * Pow2[WideBits - WideBits] = D
  BY <1>1, Pow2Values, Widths
<1>3. D % Wide = D /\ D \div Wide = 0 /\ 0 % Order = 0
  BY <1>1, Widths
<1> QED BY <1>1, <1>2, <1>3, Widths DEF D, ReduceStart, ShiftRegister, Reduced

(* An edge takes one bit of the number into the division: the remainder     *)
(* stays that of the bits seen, and below the order after one subtraction.  *)
LEMMA ReduceGoesOn ==
  ASSUME NEW number \in Nat,
         NEW unit \in [shift : 0 .. Wide - 1, remainder : 0 .. Order - 1, left : 0 .. WideBits],
         unit.left >= 1, Reduced(number, unit)
  PROVE  /\ ReduceEdge(unit) \in
              [shift : 0 .. Wide - 1, remainder : 0 .. Order - 1, left : 0 .. WideBits]
         /\ ReduceEdge(unit).left = unit.left - 1
         /\ Reduced(number, ReduceEdge(unit))
<1> DEFINE seen == number * Pow2[WideBits - unit.left]
           carry == IF 2 * unit.shift >= Wide THEN 1 ELSE 0
           candidate == 2 * unit.remainder + carry
           next == IF candidate >= Order THEN candidate - Order ELSE candidate
<1>1. /\ unit.left \in Nat /\ unit.left <= WideBits
      /\ unit.shift \in 0 .. Wide - 1 /\ unit.remainder \in 0 .. Order - 1
  OBVIOUS
<1>2. WideBits - unit.left \in Nat /\ WideBits - (unit.left - 1) = (WideBits - unit.left) + 1
  BY <1>1, Widths
<1>3. Pow2[WideBits - unit.left] \in Nat
      /\ Pow2[WideBits - (unit.left - 1)] = 2 * Pow2[WideBits - unit.left]
  BY <1>2, Pow2Values
<1>4. seen \in Nat /\ number * Pow2[WideBits - (unit.left - 1)] = 2 * seen
  BY <1>3
<1>5. unit.shift = seen % Wide /\ unit.remainder = (seen \div Wide) % Order
  BY DEF Reduced
<1> HIDE DEF seen
<1>6. PICK q \in Nat : q = seen \div Wide
  BY <1>4, Widths
<1>7. Division(seen, Wide, q, unit.shift) /\ Division(q, Order, q \div Order, unit.remainder)
  <2>1. Division(seen, Wide, q, unit.shift)
    BY <1>4, <1>5, <1>6, Widths DEF Division
  <2>2. Division(q, Order, q \div Order, unit.remainder)
    <3>1. \A m, n \in Nat : m > 0 => Division(n, m, n \div m, n % m)
      BY DEF Division
    <3>2. Division(q, Order, q \div Order, q % Order)
      BY <3>1, Widths
    <3> QED BY <1>5, <1>6, <3>2
  <2> QED BY <2>1, <2>2
<1>8. (2 * seen) % Wide = (2 * unit.shift) % Wide /\ ((2 * seen) \div Wide) % Order = next
  <2> DEFINE y == IF 2 * unit.shift + 0 >= Wide THEN 2 * unit.shift + 0 - Wide ELSE 2 * unit.shift + 0
             c == IF 2 * unit.shift + 0 >= Wide THEN 1 ELSE 0
             z == IF 2 * unit.remainder + carry >= Order THEN 2 * unit.remainder + carry - Order
                  ELSE 2 * unit.remainder + carry
             p == 2 * (q \div Order) + (IF 2 * unit.remainder + carry >= Order THEN 1 ELSE 0)
  <2>1. Division(2 * seen + 0, Wide, 2 * q + c, y)
    BY <1>4, <1>7, Widths, DivisionTakesBit
  <2>2. Division(2 * q + carry, Order, p, z)
    <3> carry \in {0, 1}
      OBVIOUS
    <3> HIDE DEF carry
    <3> QED BY <1>6, <1>7, Widths, DivisionTakesBit
  <2>3. y = (2 * unit.shift) % Wide /\ z = next /\ c = carry
    BY <1>1, Widths
  <2>4. 2 * seen + 0 = 2 * seen /\ 2 * seen \in Nat /\ 2 * q + carry \in Nat
    BY <1>4, <1>6
  <2> HIDE DEF y, c, z, p, next, carry
  <2>5. (2 * seen) \div Wide = 2 * q + carry /\ (2 * seen) % Wide = y
    BY <2>1, <2>3, <2>4, Widths, DivisionUnique
  <2>6. (2 * q + carry) % Order = z
    BY <2>2, <2>4, Widths, DivisionUnique
  <2> QED BY <2>3, <2>5, <2>6
<1>9. ReduceEdge(unit) = [shift |-> (2 * unit.shift) % Wide, remainder |-> next, left |-> unit.left - 1]
  BY DEF ReduceEdge
<1>10. (2 * unit.shift) % Wide \in 0 .. Wide - 1 /\ next \in 0 .. Order - 1
  <2>1. 2 * unit.shift \in Int
    BY <1>1
  <2>2. (2 * unit.shift) % Wide \in 0 .. Wide - 1
    BY <2>1, Remainder, Widths
  <2>3. next \in 0 .. Order - 1
    BY <1>1, Widths
  <2> QED BY <2>2, <2>3
<1> HIDE DEF next, carry
<1>11. Reduced(number, ReduceEdge(unit))
  BY <1>4, <1>8, <1>9 DEF Reduced
<1> QED BY <1>1, <1>9, <1>10, <1>11, Widths

(* When every bit has left the register the remainder is the number's.      *)
LEMMA ReduceEnds ==
  ASSUME NEW number \in 0 .. Wide - 1, NEW unit, unit.left = 0, Reduced(number, unit)
  PROVE  unit.remainder = number % Order
<1>1. WideBits - 0 = WideBits
  BY Widths
<1>2. unit.remainder = ((number * Wide) \div Wide) % Order
  BY <1>1 DEF Reduced, Wide
<1>3. (number * Wide) \div Wide = number
  BY Widths
<1> QED BY <1>2, <1>3
-----------------------------------------------------------------------------
(* Recoding. *)

(* A digit is zero or odd, and what is left of the number is the number     *)
(* without it, halved: a multiple of eight after a digit that is not zero.  *)
LEMMA DigitFacts ==
  ASSUME NEW x \in Nat
  PROVE  /\ DigitOf(x) \in {0, 1, 3, 5, 7, 9, 11, 13, 15}
         /\ Halve(x) \in Nat /\ x = 2 * Halve(x) + DigitValue(DigitOf(x))
         /\ DigitOf(x) # 0 => \E q \in Nat : Halve(x) = 8 * q
         /\ x % 2 = 0 => DigitOf(x) = 0 /\ x = 2 * Halve(x)
<1>1. PICK q \in Nat, l \in 0 .. 15 : x = 16 * q + l /\ l = x % 16 /\ q = x \div 16
  OBVIOUS
<1>2. x % 2 = l % 2
  BY <1>1
<1>3. CASE l % 2 = 0
  <2>1. DigitOf(x) = 0 /\ DigitValue(0) = 0
    BY <1>2, <1>3 DEF DigitOf, DigitValue, DigitNegative
  <2>2. Halve(x) \in Nat /\ x = 2 * Halve(x)
    BY <1>2, <1>3, <2>1 DEF Halve
  <2> QED BY <2>1, <2>2
<1>4. CASE l % 2 = 1
  <2>1. DigitOf(x) = l /\ l \in {1, 3, 5, 7, 9, 11, 13, 15}
    BY <1>1, <1>2, <1>4 DEF DigitOf
  <2>2. CASE l < 8
    <3>1. DigitValue(l) = l
      BY <2>1, <2>2 DEF DigitValue, DigitNegative
    <3>2. Halve(x) = 8 * q
      BY <1>1, <2>1, <3>1 DEF Halve
    <3> QED BY <1>1, <1>2, <1>4, <2>1, <3>1, <3>2
  <2>3. CASE l >= 8
    <3>1. DigitValue(l) = l - 16
      BY <2>1, <2>3 DEF DigitValue, DigitNegative
    <3>2. Halve(x) = 8 * (q + 1) /\ q + 1 \in Nat
      BY <1>1, <2>1, <3>1 DEF Halve
    <3>3. \E p \in Nat : Halve(x) = 8 * p
      BY <3>2
    <3>4. Halve(x) \in Nat /\ x = 2 * Halve(x) + DigitValue(DigitOf(x))
      BY <1>1, <2>1, <3>1, <3>2
    <3> QED BY <1>2, <1>4, <2>1, <3>3, <3>4
  <2> QED BY <2>1, <2>2, <2>3
<1> QED BY <1>3, <1>4

(* The numbers the recoder works on.                                        *)
LEMMA WorksValues ==
  ASSUME NEW x \in Nat
  PROVE  /\ Works(x) \in [Nat -> Nat] /\ Works(x)[0] = x
         /\ \A n \in Nat : Works(x)[n + 1] = Halve(Works(x)[n])
<1> DEFINE V == Nat
           step == [n \in Nat |-> [y \in V |-> Halve(y)]]
           G(f) == [n \in Nat |-> IF n = 0 THEN x ELSE Halve(f[n - 1])]
           w == CHOOSE f : f = G(f)
           S == {n \in Nat : w[n] \in Nat}
<1>1. step \in [Nat -> [V -> V]] /\ x \in V
  BY DigitFacts
<1>2. PICK g \in [Nat -> V] : Recursive(g, x, step)
  <2> HIDE DEF step, V
  <2> QED BY <1>1, Recursion
<1>3. ASSUME NEW n \in Nat, n # 0 PROVE step[n - 1][g[n - 1]] = Halve(g[n - 1])
  <2>1. n - 1 \in Nat /\ g[n - 1] \in V
    BY <1>3
  <2> QED BY <2>1
<1> HIDE DEF step
<1>4. g = G(g)
  BY <1>2, <1>3 DEF Recursive
<1>5. w = G(w)
  BY <1>4
<1>6. Works(x) = w
  BY DEF Works
<1> HIDE DEF w
<1>7. w[0] = x /\ \A n \in Nat : w[n + 1] = Halve(w[n])
  <2>1. \A n \in Nat : w[n] = IF n = 0 THEN x ELSE Halve(w[n - 1])
    BY <1>5
  <2>2. \A n \in Nat : n + 1 \in Nat /\ n + 1 # 0 /\ (n + 1) - 1 = n
    OBVIOUS
  <2> QED BY <2>1, <2>2
<1>8. 0 \in S
  BY <1>7
<1>9. ASSUME NEW n \in Nat, n \in S PROVE n + 1 \in S
  <2>1. w[n] \in Nat
    BY <1>9
  <2>2. Halve(w[n]) \in Nat
    BY <2>1, DigitFacts
  <2> QED BY <2>2, <1>7
<1>10. \A n \in Nat : n \in S
  <2> HIDE DEF S
  <2> QED BY <1>8, <1>9, SetInduction
<1> QED BY <1>5, <1>6, <1>7, <1>10

(* Halving halves the bound, the rounding up by a negative digit included.  *)
LEMMA HalveBound ==
  ASSUME NEW x \in Nat, NEW k \in Nat, 4 * x <= Pow2[k + 1]
  PROVE  4 * Halve(x) <= Pow2[k]
<1>1. Pow2[k] \in Nat /\ Pow2[k + 1] = 2 * Pow2[k]
  BY Pow2Values
<1>2. x = 2 * Halve(x) + DigitValue(DigitOf(x)) /\ Halve(x) \in Nat
  BY DigitFacts
<1>3. CASE ~DigitNegative(DigitOf(x))
  <2>1. DigitValue(DigitOf(x)) = DigitOf(x) /\ DigitOf(x) \in Nat
    BY <1>3, DigitFacts DEF DigitValue
  <2> QED BY <1>1, <1>2, <2>1
<1>4. CASE DigitNegative(DigitOf(x))
  <2>1. PICK q \in Nat, l \in 9 .. 15 :
          x = 16 * q + l /\ DigitValue(DigitOf(x)) = l - 16
    <3>1. DigitOf(x) \in 9 .. 15 /\ DigitOf(x) = x % 16
      <4>1. DigitOf(x) \in 9 .. 15
        BY <1>4, DigitFacts DEF DigitNegative
      <4> QED BY <4>1 DEF DigitOf
    <3>2. x = 16 * (x \div 16) + (x % 16) /\ x \div 16 \in Nat
      OBVIOUS
    <3> QED BY <1>4, <3>1, <3>2 DEF DigitValue
  <2>2. Halve(x) = 8 * q + 8
    BY <1>2, <2>1
  <2>3. k \in {0, 1, 2, 3, 4} \/ k - 5 \in Nat
    OBVIOUS
  <2>4. CASE k \in {0, 1, 2, 3, 4}
    <3>1. Pow2[0] = 1 /\ Pow2[1] = 2 /\ Pow2[2] = 4 /\ Pow2[3] = 8 /\ Pow2[4] = 16
      <4>1. /\ Pow2[0 + 1] = 2 * Pow2[0] /\ Pow2[1 + 1] = 2 * Pow2[1]
            /\ Pow2[2 + 1] = 2 * Pow2[2] /\ Pow2[3 + 1] = 2 * Pow2[3]
        BY Pow2Values
      <4> QED BY <4>1, Pow2Values
    <3> QED BY <1>1, <2>1, <2>4, <3>1
  <2>5. CASE k - 5 \in Nat
    <3> DEFINE j == k - 5
    <3>1. /\ Pow2[j + 1] = 2 * Pow2[j] /\ Pow2[(j + 1) + 1] = 2 * Pow2[j + 1]
          /\ Pow2[(j + 2) + 1] = 2 * Pow2[j + 2] /\ Pow2[(j + 3) + 1] = 2 * Pow2[j + 3]
          /\ Pow2[(j + 4) + 1] = 2 * Pow2[j + 4] /\ Pow2[j] \in Nat
      BY <2>5, Pow2Values
    <3>2. (j + 1) + 1 = j + 2 /\ (j + 2) + 1 = j + 3 /\ (j + 3) + 1 = j + 4 /\ (j + 4) + 1 = k
      OBVIOUS
    <3>3. Pow2[k] = 32 * Pow2[j]
      BY <3>1, <3>2
    <3> QED BY <1>1, <2>1, <2>2, <3>1, <3>3
  <2> QED BY <2>3, <2>4, <2>5
<1> QED BY <1>3, <1>4

(* So the recoder's register empties within the scalar's width.             *)
LEMMA WorksBound ==
  ASSUME NEW x \in 0 .. Order - 1
  PROVE  \A n \in 0 .. ScalarBits : 4 * Works(x)[n] <= Pow2[ScalarBits - n]
<1> DEFINE S == {n \in Nat : n <= ScalarBits => 4 * Works(x)[n] <= Pow2[ScalarBits - n]}
<1>1. x \in Nat
  BY Widths
<1>2. 0 \in S
  <2>1. Works(x)[0] = x /\ ScalarBits - 0 = ScalarBits
    BY <1>1, WorksValues, Widths
  <2>2. 4 * x <= Pow2[ScalarBits]
    BY Widths, Pow2Positive
  <2> QED BY <2>1, <2>2
<1>3. ASSUME NEW n \in Nat, n \in S PROVE n + 1 \in S
  <2> SUFFICES ASSUME n + 1 <= ScalarBits
               PROVE  4 * Works(x)[n + 1] <= Pow2[ScalarBits - (n + 1)]
    OBVIOUS
  <2>1. 4 * Works(x)[n] <= Pow2[ScalarBits - n]
    BY <1>3, Widths
  <2>2. ScalarBits - (n + 1) \in Nat /\ (ScalarBits - (n + 1)) + 1 = ScalarBits - n
    BY Widths
  <2>3. Works(x)[n] \in Nat /\ Works(x)[n + 1] = Halve(Works(x)[n])
    BY <1>1, WorksValues
  <2>4. 4 * Works(x)[n] <= Pow2[(ScalarBits - (n + 1)) + 1]
    BY <2>1, <2>2
  <2>5. 4 * Halve(Works(x)[n]) <= Pow2[ScalarBits - (n + 1)]
    BY <2>2, <2>3, <2>4, HalveBound
  <2> QED BY <2>3, <2>5
<1> HIDE DEF S
<1>4. \A n \in Nat : n \in S
  BY <1>2, <1>3, SetInduction
<1> QED BY <1>4, Widths DEF S

(* An edge of the recoder emits the digit of its register and halves it:    *)
(* nothing is cut off by the width.                                         *)
LEMMA RecodeEdgeHalves ==
  ASSUME NEW unit, unit.work \in Nat, 4 * unit.work <= Pow2[ScalarBits]
  PROVE  /\ RecodeDigit(unit) = DigitOf(unit.work)
         /\ RecodeEdge(unit) = [work |-> Halve(unit.work), bit |-> unit.bit + 1]
<1> DEFINE x == unit.work
           d == DigitOf(x)
<1>1. RecodeDigit(unit) = d
  BY DEF RecodeDigit, DigitOf
<1>2. x \in Nat /\ 4 * x <= Pow2[ScalarBits] /\ d \in Int /\ Halve(x) \in Nat
      /\ x = 2 * Halve(x) + DigitValue(d)
  <2>1. x \in Nat /\ 4 * x <= Pow2[ScalarBits]
    OBVIOUS
  <2> HIDE DEF x
  <2>2. d \in {0, 1, 3, 5, 7, 9, 11, 13, 15} /\ Halve(x) \in Nat
        /\ x = 2 * Halve(x) + DigitValue(d)
    BY <2>1, DigitFacts
  <2> HIDE DEF d
  <2> QED BY <2>1, <2>2
<1>3. Adjusted(unit) = x - DigitValue(d)
  BY <1>1, <1>2 DEF Adjusted, DigitValue, DigitAbs
<1>4. Adjusted(unit) = 2 * Halve(x)
  <2> HIDE DEF x, d
  <2>1. DigitValue(d) \in Int
    BY <1>2 DEF DigitValue
  <2> QED BY <1>2, <1>3, <2>1
<1>5. 2 * Halve(x) < Pow2[ScalarBits + 1]
  <2> DEFINE k == ScalarBits - 1
  <2>1. k \in Nat /\ k + 1 = ScalarBits
    BY Widths, ScalarBitsBound
  <2> HIDE DEF k, x
  <2>2. 4 * Halve(x) <= Pow2[k]
    BY <1>2, <2>1, HalveBound
  <2>3. Pow2[k] >= 1 /\ Pow2[k] \in Nat /\ Pow2[k + 1] = 2 * Pow2[k]
        /\ Pow2[(k + 1) + 1] = 2 * Pow2[k + 1]
    BY <2>1, Pow2Values, Pow2Positive
  <2>4. Pow2[ScalarBits + 1] = 4 * Pow2[k]
    BY <2>1, <2>3
  <2> QED BY <1>2, <2>2, <2>3, <2>4
<1>6. Pow2[ScalarBits + 1] \in Nat
  BY Widths, Pow2Values
<1>7. (Adjusted(unit) % Pow2[ScalarBits + 1]) \div 2 = Halve(x)
  <2> HIDE DEF x
  <2> QED BY <1>2, <1>4, <1>5, <1>6
<1> QED BY <1>1, <1>7 DEF RecodeEdge

(* A digit stands for an integer.                                           *)
LEMMA DigitValueType ==
  ASSUME NEW d \in Digit
  PROVE  DigitValue(d) \in Int
BY DEF Digit, DigitValue

(* The value of the n topmost digits.                                       *)
LEMMA TopDigitsValues ==
  ASSUME NEW digits \in [BitIndex -> Digit]
  PROVE  /\ TopDigits(digits)[0] = 0
         /\ \A n \in BitIndex : TopDigits(digits)[n + 1]
              = 2 * TopDigits(digits)[n] + DigitValue(digits[ScalarBits - 1 - n])
         /\ \A n \in 0 .. ScalarBits : TopDigits(digits)[n] \in Int
<1> DEFINE V == Int
           Value(n) == IF n < ScalarBits THEN DigitValue(digits[ScalarBits - 1 - n]) ELSE 0
           step == [n \in Nat |-> [x \in V |-> 2 * x + Value(n)]]
           G(f) == [n \in 0 .. ScalarBits |->
                      IF n = 0 THEN 0 ELSE 2 * f[n - 1] + DigitValue(digits[ScalarBits - n])]
<1>1. step \in [Nat -> [V -> V]] /\ 0 \in V
  <2>1. ASSUME NEW n \in Nat, NEW x \in Int PROVE 2 * x + Value(n) \in Int
    <3>1. n < ScalarBits => digits[ScalarBits - 1 - n] \in Digit
      BY Widths DEF BitIndex
    <3> QED BY <3>1, DigitValueType
  <2> HIDE DEF Value
  <2> QED BY <2>1
<1>2. PICK g \in [Nat -> V] : Recursive(g, 0, step)
  <2> HIDE DEF step, V
  <2> QED BY <1>1, Recursion
<1> DEFINE h == [n \in 0 .. ScalarBits |-> g[n]]
<1>3. h = G(h)
  <2>1. ASSUME NEW n \in 0 .. ScalarBits, n # 0
        PROVE  h[n] = 2 * h[n - 1] + DigitValue(digits[ScalarBits - n])
    <3>1. n \in Nat /\ n - 1 \in Nat /\ n - 1 \in 0 .. ScalarBits /\ n - 1 < ScalarBits
          /\ ScalarBits - 1 - (n - 1) = ScalarBits - n
      BY <2>1, Widths
    <3>2. g[n] = step[n - 1][g[n - 1]]
      BY <1>2, <2>1, <3>1 DEF Recursive
    <3>3. g[n - 1] \in V
      BY <3>1
    <3>4. step[n - 1][g[n - 1]] = 2 * g[n - 1] + Value(n - 1)
      BY <3>1, <3>3
    <3> QED BY <3>1, <3>2, <3>4
  <2>2. h[0] = 0
    BY <1>2, Widths DEF Recursive
  <2> HIDE DEF h, step
  <2>3. ASSUME NEW n \in 0 .. ScalarBits
        PROVE  h[n] = IF n = 0 THEN 0 ELSE 2 * h[n - 1] + DigitValue(digits[ScalarBits - n])
    BY <2>1, <2>2
  <2>4. h = [n \in 0 .. ScalarBits |-> h[n]]
    BY DEF h
  <2> QED BY <2>3, <2>4
<1> DEFINE t == CHOOSE f : f = G(f)
           S == {n \in Nat : n <= ScalarBits => t[n] \in Int}
<1>4. t = G(t)
  BY <1>3
<1>5. TopDigits(digits) = t
  BY DEF TopDigits
<1> HIDE DEF t
<1>6. t[0] = 0
  BY <1>4, Widths
<1>7. ASSUME NEW n \in BitIndex
      PROVE  t[n + 1] = 2 * t[n] + DigitValue(digits[ScalarBits - 1 - n])
  <2>1. n + 1 \in 0 .. ScalarBits /\ n + 1 # 0 /\ (n + 1) - 1 = n
        /\ ScalarBits - (n + 1) = ScalarBits - 1 - n
    BY Widths DEF BitIndex
  <2> QED BY <1>4, <2>1
<1>8. 0 \in S
  BY <1>6
<1>9. ASSUME NEW n \in Nat, n \in S PROVE n + 1 \in S
  <2> SUFFICES ASSUME n + 1 <= ScalarBits PROVE t[n + 1] \in Int
    OBVIOUS
  <2>1. n \in BitIndex /\ ScalarBits - 1 - n \in BitIndex /\ t[n] \in Int
    BY <1>9, Widths DEF BitIndex
  <2>2. DigitValue(digits[ScalarBits - 1 - n]) \in Int
    BY <2>1, DigitValueType
  <2> QED BY <1>7, <2>1, <2>2
<1>10. \A n \in Nat : n \in S
  <2> HIDE DEF S
  <2> QED BY <1>8, <1>9, SetInduction
<1>11. \A n \in 0 .. ScalarBits : t[n] \in Int
  BY <1>10, Widths
<1> QED BY <1>5, <1>6, <1>7, <1>11

(* The digits of a scalar have its value, from the top down to any digit.   *)
LEMMA DigitsHaveValue ==
  ASSUME NEW x \in 0 .. Order - 1, NEW digits \in [BitIndex -> Digit],
         Recoded(digits, x, ScalarBits)
  PROVE  \A n \in 0 .. ScalarBits : TopDigits(digits)[n] = Works(x)[ScalarBits - n]
<1> DEFINE w == Works(x)
           top == TopDigits(digits)
           S == {n \in Nat : n <= ScalarBits => top[n] = w[ScalarBits - n]}
<1>1. x \in Nat
  BY Widths
<1>2. w \in [Nat -> Nat] /\ w[0] = x /\ \A n \in Nat : w[n + 1] = Halve(w[n])
  BY <1>1, WorksValues
<1>3. 0 \in S
  <2>1. 4 * w[ScalarBits] <= Pow2[ScalarBits - ScalarBits]
    BY WorksBound, Widths
  <2>2. Pow2[ScalarBits - ScalarBits] = 1 /\ w[ScalarBits] \in Nat
    BY <1>2, Pow2Values, Widths
  <2>3. w[ScalarBits] = 0
    BY <2>1, <2>2
  <2>4. ScalarBits - 0 = ScalarBits /\ top[0] = 0
    BY Widths, TopDigitsValues
  <2> QED BY <2>3, <2>4
<1>4. ASSUME NEW n \in Nat, n \in S PROVE n + 1 \in S
  <2> SUFFICES ASSUME n + 1 <= ScalarBits PROVE top[n + 1] = w[ScalarBits - (n + 1)]
    OBVIOUS
  <2> DEFINE i == ScalarBits - 1 - n
  <2>1. n \in BitIndex /\ n <= ScalarBits /\ i \in BitIndex /\ i \in Nat /\ i < ScalarBits
        /\ i + 1 = ScalarBits - n /\ i = ScalarBits - (n + 1)
    BY Widths DEF BitIndex
  <2> HIDE DEF i
  <2>2. top[n] = w[i + 1]
    BY <1>4, <2>1
  <2>3. top[n + 1] = 2 * top[n] + DigitValue(digits[i])
    BY <2>1, TopDigitsValues DEF i
  <2>4. digits[i] = DigitOf(w[i])
    BY <2>1 DEF Recoded
  <2>5. w[i] = 2 * Halve(w[i]) + DigitValue(DigitOf(w[i])) /\ w[i + 1] = Halve(w[i])
    BY <1>2, <2>1, DigitFacts
  <2> HIDE DEF w, top
  <2> QED BY <2>1, <2>2, <2>3, <2>4, <2>5
<1> HIDE DEF S
<1>5. \A n \in Nat : n \in S
  BY <1>3, <1>4, SetInduction
<1> QED BY <1>5, Widths DEF S

(* They are the scalar's recoding: value and sparseness.                    *)
LEMMA RecodedIsWnaf ==
  ASSUME NEW x \in 0 .. Order - 1, NEW digits \in [BitIndex -> Digit],
         Recoded(digits, x, ScalarBits)
  PROVE  WnafOf(digits, x)
<1> DEFINE w == Works(x)
<1>1. x \in Nat
  BY Widths
<1>2. w \in [Nat -> Nat] /\ w[0] = x /\ \A n \in Nat : w[n + 1] = Halve(w[n])
  BY <1>1, WorksValues
<1>3. WnafValue(digits) = x
  <2>1. ScalarBits \in 0 .. ScalarBits /\ ScalarBits - ScalarBits = 0
    BY Widths
  <2> QED BY <1>2, <2>1, DigitsHaveValue DEF WnafValue
<1>4. ASSUME NEW i \in BitIndex, digits[i] # 0
      PROVE  /\ digits[i] % 2 = 1
             /\ \A j \in BitIndex : j \in i + 1 .. i + 3 => digits[j] = 0
  <2>1. i \in Nat /\ i < ScalarBits
    BY Widths DEF BitIndex
  <2>2. digits[i] = DigitOf(w[i]) /\ w[i] \in Nat
    BY <1>2, <2>1 DEF Recoded
  <2>3. digits[i] % 2 = 1
    <3>1. digits[i] \in {1, 3, 5, 7, 9, 11, 13, 15}
      BY <1>4, <2>2, DigitFacts
    <3> QED BY <3>1
  <2>4. PICK q \in Nat : w[i + 1] = 8 * q
    BY <1>2, <1>4, <2>1, <2>2, DigitFacts
  <2>5. \A n \in Nat, p \in Nat : w[n] = 2 * p => DigitOf(w[n]) = 0 /\ w[n + 1] = p
    <3> TAKE n \in Nat, p \in Nat
    <3> HAVE w[n] = 2 * p
    <3>1. w[n] \in Nat /\ w[n] % 2 = 0
      BY <1>2
    <3>2. DigitOf(w[n]) = 0 /\ w[n] = 2 * Halve(w[n]) /\ Halve(w[n]) \in Nat
      BY <3>1, DigitFacts
    <3> HIDE DEF w
    <3> QED BY <1>2, <3>2
  <2>6. DigitOf(w[i + 1]) = 0 /\ w[(i + 1) + 1] = 4 * q
    <3>1. i + 1 \in Nat /\ 4 * q \in Nat /\ 8 * q = 2 * (4 * q)
      BY <2>1
    <3> HIDE DEF w
    <3> QED BY <2>4, <2>5, <3>1
  <2>7. DigitOf(w[i + 2]) = 0 /\ w[(i + 2) + 1] = 2 * q
    <3>1. i + 2 \in Nat /\ 2 * q \in Nat /\ 4 * q = 2 * (2 * q) /\ (i + 1) + 1 = i + 2
      BY <2>1
    <3> HIDE DEF w
    <3> QED BY <2>6, <2>5, <3>1
  <2>8. DigitOf(w[i + 3]) = 0
    <3>1. i + 3 \in Nat /\ (i + 2) + 1 = i + 3
      BY <2>1
    <3> HIDE DEF w
    <3> QED BY <2>7, <2>5, <3>1
  <2>9. ASSUME NEW j \in BitIndex, j \in i + 1 .. i + 3 PROVE digits[j] = 0
    <3>1. digits[j] = DigitOf(w[j])
      BY Widths DEF Recoded, BitIndex
    <3>2. j = i + 1 \/ j = i + 2 \/ j = i + 3
      BY <2>1, <2>9
    <3> HIDE DEF w
    <3> QED BY <2>6, <2>7, <2>8, <3>1, <3>2
  <2> QED BY <2>3, <2>9
<1> QED BY <1>3, <1>4 DEF WnafOf
-----------------------------------------------------------------------------
(* The group: points are residues, and what the point unit returns for      *)
(* residues is the residue of the result.                                   *)
Residue(n) == n % GroupOrder

(* The group has sixteen points at least.                                   *)
LEMMA GroupSize == GroupOrder \in Nat /\ GroupOrder >= 16
BY Widths DEF GroupOrder

(* The residue of an integer is a point,                                    *)
LEMMA ResidueIsPoint ==
  ASSUME NEW n \in Int
  PROVE  Residue(n) \in Point
BY GroupSize, Remainder DEF Residue, Point

(* and a point is its own residue.                                          *)
LEMMA PointIsResidue ==
  ASSUME NEW p \in Point
  PROVE  Residue(p) = p /\ p \in Nat
BY GroupSize DEF Residue, Point

(* What differs by a multiple of the group order is the same point.         *)
LEMMA ResidueClass ==
  ASSUME NEW n \in Int
  PROVE  \E q \in Int : n = Residue(n) + q * GroupOrder
<1>1. n = GroupOrder * (n \div GroupOrder) + (n % GroupOrder) /\ n \div GroupOrder \in Int
  BY GroupSize, Remainder
<1>2. n % GroupOrder \in Int
  BY GroupSize
<1>3. n = Residue(n) + (n \div GroupOrder) * GroupOrder
  BY <1>1, <1>2, GroupSize DEF Residue
<1> QED BY <1>1, <1>3

Congruent(a, b) == \E k \in Int : a = b + k * GroupOrder

(* Congruent integers are the same point.                                   *)
LEMMA CongruentResidues ==
  ASSUME NEW a \in Int, NEW b \in Int, Congruent(a, b)
  PROVE  Residue(a) = Residue(b)
<1>1. PICK k \in Int : a = b + k * GroupOrder
  BY DEF Congruent
<1>2. PICK x \in 0 .. GroupOrder - 1, q \in Int : b = GroupOrder * q + x /\ b % GroupOrder = x
  BY Remainder, GroupSize
<1>3. a = x + (q + k) * GroupOrder
  BY <1>1, <1>2, GroupSize
<1>4. (x + (q + k) * GroupOrder) % GroupOrder = x
  BY RemainderUnique, GroupSize
<1> QED BY <1>2, <1>3, <1>4 DEF Residue

(* The sum of two points is the point of the sum,                           *)
LEMMA ResidueOfSum ==
  ASSUME NEW a \in Int, NEW b \in Int
  PROVE  Add(Residue(a), Residue(b)) = Residue(a + b)
<1>1. PICK p \in Int : a = Residue(a) + p * GroupOrder
  BY ResidueClass
<1>2. PICK q \in Int : b = Residue(b) + q * GroupOrder
  BY ResidueClass
<1>3. Residue(a) \in Int /\ Residue(b) \in Int
  BY ResidueIsPoint, PointIsResidue
<1>4. a + b = (Residue(a) + Residue(b)) + (p + q) * GroupOrder
  BY <1>1, <1>2, <1>3, GroupSize
<1>5. Congruent(a + b, Residue(a) + Residue(b))
  BY <1>4 DEF Congruent
<1>6. Residue(a + b) = Residue(Residue(a) + Residue(b))
  BY <1>3, <1>5, CongruentResidues
<1> QED BY <1>6 DEF Add, Residue

(* the negative of a point the point of the negative,                       *)
LEMMA ResidueOfNegative ==
  ASSUME NEW a \in Int
  PROVE  Neg(Residue(a)) = Residue(-a)
<1>1. PICK p \in Int : a = Residue(a) + p * GroupOrder
  BY ResidueClass
<1>2. Residue(a) \in Int
  BY ResidueIsPoint, PointIsResidue
<1>3. GroupOrder - Residue(a) = (-a) + (p + 1) * GroupOrder
  BY <1>1, <1>2, GroupSize
<1>4. Congruent(GroupOrder - Residue(a), -a)
  BY <1>3 DEF Congruent
<1>5. GroupOrder - Residue(a) \in Int
  BY <1>2, GroupSize
<1>6. Residue(GroupOrder - Residue(a)) = Residue(-a)
  BY <1>4, <1>5, CongruentResidues
<1> QED BY <1>6 DEF Neg, Residue

(* and a multiple of a point the point of the product.                      *)
LEMMA ResidueOfProduct ==
  ASSUME NEW n \in Int, NEW a \in Int
  PROVE  Times(n, Residue(a)) = Residue(n * a)
<1>1. PICK p \in Int : a = Residue(a) + p * GroupOrder
  BY ResidueClass
<1>2. Residue(a) \in Int
  BY ResidueIsPoint, PointIsResidue
<1>3. n * a = n * Residue(a) + (n * p) * GroupOrder /\ n * p \in Int
  BY <1>1, <1>2, GroupSize
<1>4. Congruent(n * a, n * Residue(a))
  BY <1>3 DEF Congruent
<1>5. n * a \in Int /\ n * Residue(a) \in Int
  BY <1>2
<1>6. Residue(n * a) = Residue(n * Residue(a))
  BY <1>4, <1>5, CongruentResidues
<1> QED BY <1>6 DEF Times, Residue

(* The operands of the loop are the multiples their digits call for.        *)
OddDigits == {0, 1, 3, 5, 7, 9, 11, 13, 15}

(* A digit of s adds that multiple of the base point, its sign included.    *)
LEMMA BaseOperandIsMultiple ==
  ASSUME NEW d \in OddDigits
  PROVE  BaseOperand(d) = Residue(DigitValue(d) * BasePoint)
<1>1. \A n \in Int : BasePointTable(n) = Residue(n * BasePoint)
  BY DEF BasePointTable, Times, Residue
<1>2. d \in Int /\ BasePoint \in Int
  BY DEF OddDigits, BasePoint
<1>3. CASE DigitNegative(d)
  <2>1. DigitAbs(d) = 16 - d /\ DigitValue(d) = d - 16
    BY <1>3 DEF DigitAbs, DigitValue
  <2>2. (16 - d) * BasePoint \in Int /\ -((16 - d) * BasePoint) = (d - 16) * BasePoint
    BY <1>2
  <2> QED BY <1>1, <1>2, <1>3, <2>1, <2>2, ResidueOfNegative DEF BaseOperand
<1>4. CASE ~DigitNegative(d)
  BY <1>1, <1>2, <1>4 DEF BaseOperand, DigitAbs, DigitValue
<1> QED BY <1>3, <1>4

(* A digit of k subtracts that multiple of A, taken from the odd multiples. *)
LEMMA AOperandIsMultiple ==
  ASSUME NEW A \in Point, NEW d \in OddDigits,
         \A n \in {1, 2, 3, 5, 7} : mult[n] = Times(n, A)
  PROVE  AOperand(d) = Residue(-(DigitValue(d) * A))
<1>1. d \in Int /\ A \in Int
  BY PointIsResidue DEF OddDigits
<1>2. d # 0 => DigitAbs(d) \in {1, 3, 5, 7}
  BY DEF OddDigits, DigitAbs, DigitNegative
<1>3. d # 0 => mult[DigitAbs(d)] = Residue(DigitAbs(d) * A)
  BY <1>2 DEF Times, Residue
<1>4. CASE d = 0
  <2>1. DigitValue(d) = 0 /\ -(0 * A) = 0
    BY <1>1, <1>4 DEF DigitValue, DigitNegative
  <2>2. Residue(0) = 0
    BY GroupSize DEF Residue
  <2> QED BY <1>4, <2>1, <2>2 DEF AOperand, Identity
<1>5. CASE d # 0 /\ DigitNegative(d)
  <2>1. DigitAbs(d) = 16 - d /\ DigitValue(d) = d - 16
    BY <1>5 DEF DigitAbs, DigitValue
  <2>2. -((d - 16) * A) = (16 - d) * A
    BY <1>1
  <2> QED BY <1>3, <1>5, <2>1, <2>2 DEF AOperand
<1>6. CASE d # 0 /\ ~DigitNegative(d)
  <2>1. DigitAbs(d) = d /\ DigitValue(d) = d /\ d * A \in Int
    BY <1>1, <1>6 DEF DigitAbs, DigitValue
  <2> QED BY <1>3, <1>6, <2>1, ResidueOfNegative DEF AOperand
<1> QED BY <1>5, <1>6, <1>4
-----------------------------------------------------------------------------
(* An encoding decodes to a point, or has a y coordinate that none has.     *)
LEMMA DecodedPoint ==
  ASSUME NEW e \in Encoding
  PROVE  /\ Decode(e) \in Point \cup {Invalid}
         /\ Decode(e) = Invalid <=> e.y = Invalid
<1>1. e.y \in Point \cup {Invalid}
  BY Widths DEF Encoding, Point, Invalid, GroupOrder
<1>2. e.y \in Point => Neg(e.y) \in Point
  BY GroupSize DEF Neg, Point
<1>3. Invalid \notin Point
  BY GroupSize DEF Invalid, Point
<1>4. CASE e.y = Invalid
  BY <1>4 DEF Decode
<1>5. CASE e.y # Invalid
  <2>1. e.y \in Point
    BY <1>1, <1>5 DEF Invalid
  <2>2. Decode(e) \in Point
    BY <1>2, <1>5, <2>1 DEF Decode
  <2> QED BY <1>3, <1>5, <2>2
<1> QED BY <1>4, <1>5

(* The points of small order are the eight multiples of the order.          *)
LEMMA SmallOrderPoints ==
  ASSUME NEW p \in Point
  PROVE  SmallOrder(p) <=> \E n \in 0 .. 7 : p = n * Order
<1> DEFINE n == p \div Order
           x == p % Order
<1>1. Order \in Nat /\ Order > 1 /\ p \in 0 .. 8 * Order - 1
  BY Widths DEF Point, GroupOrder
<1>2. x \in 0 .. Order - 1 /\ n \in Int /\ p = Order * n + x
  BY <1>1, Remainder
<1> HIDE DEF n, x
<1>3. n \in 0 .. 7
  <2>1. n >= 0
    <3> SUFFICES ASSUME n <= -1 PROVE FALSE
      BY <1>2
    <3>1. Order * n <= -Order
      BY <1>1, <1>2
    <3> QED BY <1>1, <1>2, <3>1
  <2>2. n <= 7
    <3> SUFFICES ASSUME n >= 8 PROVE FALSE
      BY <1>2
    <3>1. Order * n >= 8 * Order
      BY <1>1, <1>2
    <3> QED BY <1>1, <1>2, <3>1
  <2> QED BY <1>2, <2>1, <2>2
<1>4. (8 * x + n * GroupOrder) % GroupOrder = 8 * x
  <2>1. 8 * x \in 0 .. GroupOrder - 1
    BY <1>1, <1>2 DEF GroupOrder
  <2> QED BY <1>2, <2>1, GroupSize, RemainderUnique
<1>5. 8 * p = 8 * x + n * GroupOrder
  BY <1>1, <1>2 DEF GroupOrder
<1>6. SmallOrder(p) <=> x = 0
  BY <1>2, <1>4, <1>5 DEF SmallOrder, Times, Identity
<1>7. x = 0 => p = n * Order
  BY <1>1, <1>2
<1>8. ASSUME NEW m \in 0 .. 7, p = m * Order PROVE x = 0
  <2>1. m \in {0, 1, 2, 3, 4, 5, 6, 7} /\ n \in {0, 1, 2, 3, 4, 5, 6, 7}
    BY <1>3
  <2> QED BY <1>1, <1>2, <1>8, <2>1
<1> QED BY <1>3, <1>6, <1>7, <1>8

(* The list of encodings that strict mode refuses holds every encoding of a *)
(* point of small order but those with a sign bit on x = 0.                 *)
LEMMA ListedEncodings ==
  ASSUME NEW e \in Encoding
  PROVE  point_encoding_is_small_order(e) <=>
           Decode(e) # Invalid /\ SmallOrder(Decode(e)) /\ ~NegativeZero(e)
<1> DEFINE y == e.y
<1>1. /\ Order \in Nat /\ Order > 1 /\ GroupOrder = 8 * Order
      /\ y \in 0 .. 4 * Order \cup {Invalid} /\ e.sign \in {0, 1}
  BY Widths DEF Encoding, GroupOrder
<1>2. CASE y = Invalid
  <2>1. Decode(e) = Invalid
    BY <1>2 DEF Decode
  <2>2. ~point_encoding_is_small_order(e)
    BY <1>1, <1>2 DEF point_encoding_is_small_order, Invalid
  <2> QED BY <2>1, <2>2
<1>3. CASE y # Invalid
  <2>1. y \in 0 .. 4 * Order /\ y \in Point
    BY <1>1, <1>3 DEF Point
  <2>2. Neg(y) = (IF y = 0 THEN 0 ELSE 8 * Order - y) /\ Neg(y) \in Point
    BY <1>1, <2>1 DEF Neg, Point
  <2>3. Neg(Neg(y)) = y
    BY <1>1, <2>1, <2>2 DEF Neg
  <2>4. SmallOrder(y) <=> y \in {0, Order, 2 * Order, 3 * Order, 4 * Order}
    <3>1. SmallOrder(y) <=> \E n \in 0 .. 7 : y = n * Order
      BY <2>1, SmallOrderPoints
    <3>2. \A n \in 0 .. 7 : n \in {0, 1, 2, 3, 4, 5, 6, 7}
      OBVIOUS
    <3> QED BY <1>1, <2>1, <3>1, <3>2
  <2>5. SmallOrder(Neg(y)) <=> y \in {0, Order, 2 * Order, 3 * Order, 4 * Order}
    <3>1. SmallOrder(Neg(y)) <=> \E n \in 0 .. 7 : Neg(y) = n * Order
      BY <2>2, SmallOrderPoints
    <3>2. \A n \in 0 .. 7 : n \in {0, 1, 2, 3, 4, 5, 6, 7}
      OBVIOUS
    <3> HIDE DEF y
    <3> QED BY <1>1, <2>1, <2>2, <3>1, <3>2
  <2>6. Invalid \notin Point
    BY <1>1 DEF Point, Invalid
  <2>7. CASE e.sign = 0
    <3>1. Decode(e) = y /\ ~NegativeZero(e)
      BY <1>3, <2>7 DEF Decode, NegativeZero
    <3>2. point_encoding_is_small_order(e) <=> y \in {0, Order, 2 * Order, 3 * Order, 4 * Order}
      BY <2>7 DEF point_encoding_is_small_order
    <3> QED BY <2>1, <2>4, <2>6, <3>1, <3>2
  <2>8. CASE e.sign = 1
    <3>1. Decode(e) = Neg(y)
      BY <1>3, <2>8 DEF Decode
    <3>2. NegativeZero(e) <=> y \in {0, 4 * Order}
      <4>1. NegativeZero(e) <=> y = Neg(y)
        BY <2>3, <2>8, <3>1 DEF NegativeZero
      <4> HIDE DEF y
      <4> QED BY <1>1, <2>1, <2>2, <4>1
    <3>3. point_encoding_is_small_order(e) <=> y \in {Order, 2 * Order, 3 * Order}
      BY <2>8 DEF point_encoding_is_small_order
    <3>4. /\ 0 \notin {Order, 2 * Order, 3 * Order}
          /\ 4 * Order \notin {Order, 2 * Order, 3 * Order}
      BY <1>1
    <3> HIDE DEF y
    <3> QED BY <2>2, <2>5, <2>6, <3>1, <3>2, <3>3, <3>4
  <2> QED BY <1>1, <2>7, <2>8
<1> QED BY <1>2, <1>3

(* What the invariant says of the job's fields and of the registers. *)
LEMMA JobFields ==
  ASSUME job \in Job
  PROVE  /\ job.A \in Encoding /\ job.R \in Encoding
         /\ KeyPoint \in Point \cup {Invalid} /\ RPoint \in Point \cup {Invalid}
         /\ job.s \in 0 .. Pow2[ScalarBits] - 1 /\ job.s \in Nat /\ job.digest \in Digests
         /\ job.mode \in {"strict", "agave_zebra"}
         /\ Challenge \in 0 .. Order - 1
<1>1. /\ job.A \in Encoding /\ job.R \in Encoding
      /\ job.s \in 0 .. Pow2[ScalarBits] - 1 /\ job.digest \in Digests
      /\ job.mode \in {"strict", "agave_zebra"}
  BY DEF Job
<1>2. LittleEndian(job.digest) \in 0 .. Wide - 1
  BY <1>1, DigestBound
<1>3. Challenge \in 0 .. Order - 1
  BY <1>2, Widths DEF Challenge
<1>4. KeyPoint \in Point \cup {Invalid} /\ RPoint \in Point \cup {Invalid}
  BY <1>1, DecodedPoint DEF KeyPoint, RPoint
<1> QED BY <1>1, <1>3, <1>4

(* What is said of a job alone stays true while the job stays.              *)
LEMMA SameJob ==
  ASSUME job' = job
  PROVE  /\ Refused' <=> Refused
         /\ KeyPoint' = KeyPoint /\ RPoint' = RPoint
         /\ Challenge' = Challenge /\ Difference' = Difference
         /\ Acceptable' <=> Acceptable
         /\ EquationHolds' <=> EquationHolds
<1>1. Refused' <=> Refused
  BY DEF Refused
<1>2. Challenge' = Challenge
  BY DEF Challenge
<1>3. KeyPoint' = KeyPoint /\ RPoint' = RPoint /\ Difference' = Difference
  BY <1>2 DEF KeyPoint, RPoint, Difference
<1>4. Acceptable' <=> Acceptable
  BY DEF Acceptable
<1>5. EquationHolds' <=> EquationHolds
  BY DEF EquationHolds
<1> QED BY <1>1, <1>2, <1>3, <1>4, <1>5

(* Registers at their reset values have their types.                        *)
LEMMA ResetTypes ==
  /\ Identity \in Point /\ NoMultiples \in [{1, 2, 3, 5, 7} -> Point]
  /\ Zero.encoded \in [A : Encoding, R : Encoding]
  /\ Zero.scalar \in [s : 0 .. Order - 1, k : 0 .. Order - 1]
  /\ Zero.wnaf \in [s : [BitIndex -> Digit], k : [BitIndex -> Digit]]
  /\ Zero.joint \in [bit : BitIndex, s : Digit, k : Digit]
  /\ IdleReduce \in [shift : 0 .. Wide - 1, remainder : 0 .. Order - 1, left : 0 .. WideBits]
  /\ IdleRecode \in [work : 0 .. Pow2[ScalarBits] - 1, bit : BitIndex]
<1>1. 0 \in Point /\ 0 \in BitIndex /\ 0 \in Digit /\ 0 \in 0 .. Order - 1
      /\ 0 \in 0 .. Wide - 1 /\ 0 \in 0 .. WideBits /\ 0 \in 0 .. Pow2[ScalarBits] - 1
  <2>1. Pow2[ScalarBits] \in Nat /\ Pow2[ScalarBits] >= 1
    BY Widths, Pow2Positive
  <2> QED BY <2>1, Widths, GroupSize, ScalarBitsBound DEF Point, BitIndex, Digit
<1>2. NoDigits \in [BitIndex -> Digit]
  BY <1>1 DEF NoDigits
<1>3. ZeroEncoding \in Encoding
  BY Widths DEF ZeroEncoding, Encoding
<1> QED BY <1>1, <1>2, <1>3 DEF Zero, Identity, NoMultiples, IdleReduce, IdleRecode

(* What Start refuses is not acceptable, and what it admits is, unless an    *)
(* operand does not decode or the hash fails.                               *)
LEMMA RefusedOrAdmitted ==
  ASSUME job \in Job
  PROVE  /\ Acceptable => KeyPoint # Invalid /\ RPoint # Invalid /\ ~job.hash_error
         /\ Refused => ~Acceptable
         /\ ~Refused /\ KeyPoint # Invalid /\ RPoint # Invalid /\ ~job.hash_error => Acceptable
<1>1. job.s \in Nat /\ Order \in Nat /\ job.A \in Encoding /\ job.R \in Encoding
  BY JobFields, Widths
<1>2. \A e \in {job.A, job.R} : point_encoding_is_small_order(e) <=>
        Decode(e) # Invalid /\ SmallOrder(Decode(e)) /\ ~NegativeZero(e)
  BY <1>1, ListedEncodings
<1> QED BY <1>1, <1>2 DEF Acceptable, Refused, KeyPoint, RPoint

(* A job whose challenge is reduced has passed every check but the equation.*)
LEMMA Admitted ==
  ASSUME EngineInv, state \in Hashed
  PROVE  Acceptable /\ KeyPoint \in Point /\ RPoint \in Point /\ r = RPoint
<1>1. job \in Job /\ state \in Working /\ state # "DEC_A"
  BY DEF EngineInv, EngineTypeOK, Hashed, Working
<1>2. ~Refused /\ KeyPoint # Invalid /\ RPoint # Invalid /\ r = RPoint /\ ~job.hash_error
  BY <1>1 DEF EngineInv, AdmitInv
<1>3. KeyPoint \in Point /\ RPoint \in Point /\ job.s < Order
  BY <1>1, <1>2, JobFields, Widths DEF Refused
<1> QED BY <1>1, <1>2, <1>3, RefusedOrAdmitted

(* The equation of a mode, by the residue of its difference.                *)
LEMMA EquationIsResidue ==
  EquationHolds <=> IF job.mode = "strict" THEN Residue(Difference) = 0
                    ELSE Times(8, Residue(Difference)) = 0
BY DEF EquationHolds, Residue, Times, Difference, Challenge, KeyPoint, RPoint
-----------------------------------------------------------------------------
(* Every step keeps the invariant. *)
LEMMA EngineInitially ==
  ASSUME Init
  PROVE  EngineInv
<1>1. EngineTypeOK
  <2>1. job \in Job
    BY EngineAssumption DEF Init
  <2>2. state \in States /\ verified \in BOOLEAN /\ done \in BOOLEAN
    BY DEF Init, States
  <2>3. /\ encoded = Zero.encoded /\ mult = NoMultiples /\ r = Identity
        /\ scalar = Zero.scalar /\ wnaf = Zero.wnaf /\ joint = Zero.joint
        /\ reduce = IdleReduce /\ recode = IdleRecode
        /\ acc = Identity /\ work = Identity /\ cofactor_double_count \in 0 .. 2
    BY DEF Init
  <2> QED BY <2>1, <2>2, <2>3, ResetTypes DEF EngineTypeOK
<1>2. AdmitInv /\ ReduceInv /\ RecodeInv
  BY DEF Init, AdmitInv, ReduceInv, RecodeInv, Combining, Hashed, Working
<1>3. MultInv /\ LoopInv /\ FinalInv /\ AnswerInv
  BY DEF Init, MultInv, LoopInv, FinalInv, AnswerInv, Combining, Hashed, Working
<1> QED BY <1>1, <1>2, <1>3 DEF EngineInv

(* A refused job ends with a verdict of FALSE, which is right; any other    *)
(* enters the work with its s below the order.                              *)
LEMMA StartKeeps ==
  ASSUME EngineInv, Start
  PROVE  EngineInv'
<1>1. EngineTypeOK'
  <2>1. job \in Job
    BY DEF EngineInv, EngineTypeOK
  <2>2. scalar' \in [s : 0 .. Order - 1, k : 0 .. Order - 1]
    <3>1. ~Refused => job.s \in 0 .. Order - 1
      BY <2>1, JobFields, Widths DEF Refused
    <3> QED BY <3>1 DEF Start, EngineInv, EngineTypeOK
  <2>3. encoded' \in [A : Encoding, R : Encoding]
    BY <2>1, JobFields DEF Start
  <2> QED BY <2>2, <2>3, ResetTypes DEF EngineInv, Start, EngineTypeOK, States
<1>2. AdmitInv'
  BY SameJob DEF EngineInv, EngineTypeOK, Start, AdmitInv, Working, Hashed, States
<1>3. ReduceInv'
  BY SameJob DEF EngineInv, Start, outputs, operands, scalars, loop, ReduceInv, Hashed, Working, States
<1>4. RecodeInv'
  BY DEF EngineInv, Start, outputs, operands, scalars, loop, RecodeInv, Combining, Hashed, Working, States
<1>5. MultInv'
  BY DEF EngineInv, Start, outputs, operands, scalars, loop, MultInv, Multiples, Combining, Hashed, Working, States
<1>6. LoopInv'
  BY DEF EngineInv, Start, outputs, operands, scalars, loop, LoopInv, Combination
<1>7. FinalInv'
  BY SameJob DEF EngineInv, Start, outputs, operands, scalars, loop, FinalInv, Combination
<1>8. AnswerInv'
  <2>1. Refused => ~Acceptable
    BY RefusedOrAdmitted DEF EngineInv, EngineTypeOK
  <2> QED BY <2>1, SameJob DEF Start, AnswerInv, Answered
<1> QED BY <1>1, <1>2, <1>3, <1>4, <1>5, <1>6, <1>7, <1>8 DEF EngineInv

(* done falls after one edge.                                               *)
LEMMA RestKeeps ==
  ASSUME EngineInv, Rest
  PROVE  EngineInv'
<1>1. EngineTypeOK'
  BY DEF EngineInv, Rest, outputs, operands, scalars, loop, EngineTypeOK, States
<1>2. AdmitInv'
  BY SameJob DEF EngineInv, Rest, outputs, operands, scalars, loop, AdmitInv, Working, Hashed, States
<1>3. ReduceInv'
  BY SameJob DEF EngineInv, Rest, outputs, operands, scalars, loop, ReduceInv, Hashed, Working, States
<1>4. RecodeInv'
  BY DEF EngineInv, Rest, outputs, operands, scalars, loop, RecodeInv, Combining, Hashed, Working, States
<1>5. MultInv'
  BY DEF EngineInv, Rest, outputs, operands, scalars, loop, MultInv, Multiples, Combining, Hashed, Working, States
<1>6. LoopInv'
  BY DEF EngineInv, Rest, outputs, operands, scalars, loop, LoopInv, Combination
<1>7. FinalInv'
  BY SameJob DEF EngineInv, Rest, outputs, operands, scalars, loop, FinalInv, Combination
<1>8. AnswerInv'
  BY SameJob DEF EngineInv, Rest, outputs, operands, scalars, loop, AnswerInv, Answered
<1> QED BY <1>1, <1>2, <1>3, <1>4, <1>5, <1>6, <1>7, <1>8 DEF EngineInv

(* A new job arrives only while no verdict is up.                           *)
LEMMA OfferKeeps ==
  ASSUME EngineInv, NEW j \in Later, Offer(j)
  PROVE  EngineInv'
<1>1. EngineTypeOK'
  <2>1. job' \in Job
    BY EngineAssumption DEF Offer
  <2> QED BY <2>1 DEF EngineInv, Offer, outputs, operands, scalars, loop, EngineTypeOK
<1>2. AdmitInv'
  BY SameJob DEF EngineInv, Offer, outputs, operands, scalars, loop, AdmitInv, Working, Hashed, States
<1>3. ReduceInv'
  BY DEF EngineInv, Offer, outputs, operands, scalars, loop, ReduceInv, Hashed, Working, States
<1>4. RecodeInv'
  BY DEF EngineInv, Offer, outputs, operands, scalars, loop, RecodeInv, Combining, Hashed, Working, States
<1>5. MultInv'
  BY DEF EngineInv, Offer, outputs, operands, scalars, loop, MultInv, Multiples, Combining, Hashed, Working, States
<1>6. LoopInv'
  BY DEF EngineInv, Offer, outputs, operands, scalars, loop, LoopInv, Combination
<1>7. FinalInv'
  BY DEF EngineInv, Offer, outputs, operands, scalars, loop, FinalInv, Combination
<1>8. AnswerInv'
  BY DEF EngineInv, Offer, outputs, operands, scalars, loop, AnswerInv, Answered
<1> QED BY <1>1, <1>2, <1>3, <1>4, <1>5, <1>6, <1>7, <1>8 DEF EngineInv

(* A is decoded, or the job is refused for an A that does not decode.       *)
LEMMA DecodeAKeeps ==
  ASSUME EngineInv, DecodeA
  PROVE  EngineInv'
<1>0. Decode(encoded.A) = KeyPoint /\ KeyPoint \in Point \cup {Invalid}
  BY JobFields DEF EngineInv, EngineTypeOK, AdmitInv, DecodeA, KeyPoint
<1>1. EngineTypeOK'
  <2>1. mult' \in [{1, 2, 3, 5, 7} -> Point]
    BY <1>0 DEF EngineInv, EngineTypeOK, DecodeA
  <2> QED BY <2>1 DEF EngineInv, DecodeA, outputs, scalars, loop, EngineTypeOK, States
<1>2. AdmitInv'
  BY <1>0, SameJob DEF EngineInv, EngineTypeOK, DecodeA, scalars, AdmitInv, Working, Hashed, States
<1>3. ReduceInv'
  BY SameJob DEF EngineInv, DecodeA, outputs, operands, scalars, loop, ReduceInv, Hashed, Working, States
<1>4. RecodeInv'
  BY DEF EngineInv, DecodeA, outputs, operands, scalars, loop, RecodeInv, Combining, Hashed, Working, States
<1>5. MultInv'
  BY DEF EngineInv, DecodeA, outputs, operands, scalars, loop, MultInv, Multiples, Combining, Hashed, Working, States
<1>6. LoopInv'
  BY DEF EngineInv, DecodeA, outputs, operands, scalars, loop, LoopInv, Combination, KeyPoint
<1>7. FinalInv'
  BY SameJob DEF EngineInv, DecodeA, outputs, operands, scalars, loop, FinalInv, Combination
<1>8. AnswerInv'
  <2>1. Decode(encoded.A) = Invalid => ~Acceptable
    BY <1>0, RefusedOrAdmitted DEF EngineInv, EngineTypeOK
  <2> QED BY <2>1, SameJob DEF EngineInv, DecodeA, AnswerInv, Answered
<1> QED BY <1>1, <1>2, <1>3, <1>4, <1>5, <1>6, <1>7, <1>8 DEF EngineInv

(* The same for R.                                                          *)
LEMMA DecodeRKeeps ==
  ASSUME EngineInv, DecodeR
  PROVE  EngineInv'
<1>0. Decode(encoded.R) = RPoint /\ RPoint \in Point \cup {Invalid}
  BY JobFields DEF EngineInv, EngineTypeOK, AdmitInv, DecodeR, RPoint
<1>1. EngineTypeOK'
  BY <1>0 DEF EngineInv, DecodeR, outputs, operands, scalars, loop, EngineTypeOK, States
<1>2. AdmitInv'
  BY <1>0, SameJob DEF EngineInv, EngineTypeOK, DecodeR, scalars, AdmitInv, Working, Hashed, States
<1>3. ReduceInv'
  BY SameJob DEF EngineInv, DecodeR, outputs, operands, scalars, loop, ReduceInv, Hashed, Working, States
<1>4. RecodeInv'
  BY DEF EngineInv, DecodeR, outputs, operands, scalars, loop, RecodeInv, Combining, Hashed, Working, States
<1>5. MultInv'
  BY DEF EngineInv, DecodeR, outputs, operands, scalars, loop, MultInv, Multiples, Combining, Hashed, Working, States
<1>6. LoopInv'
  BY DEF EngineInv, DecodeR, outputs, operands, scalars, loop, LoopInv, Combination
<1>7. FinalInv'
  BY SameJob DEF EngineInv, DecodeR, outputs, operands, scalars, loop, FinalInv, Combination
<1>8. AnswerInv'
  <2>1. Decode(encoded.R) = Invalid => ~Acceptable
    BY <1>0, RefusedOrAdmitted DEF EngineInv, EngineTypeOK
  <2> QED BY <2>1, SameJob DEF EngineInv, DecodeR, AnswerInv, Answered
<1> QED BY <1>1, <1>2, <1>3, <1>4, <1>5, <1>6, <1>7, <1>8 DEF EngineInv

(* The digest enters the reducer, or a hash error refuses the job.          *)
LEMMA HashKeeps ==
  ASSUME EngineInv, Hash
  PROVE  EngineInv'
<1>1. EngineTypeOK'
  <2>1. ReduceStart(job.digest) \in
          [shift : 0 .. Wide - 1, remainder : 0 .. Order - 1, left : 0 .. WideBits]
    BY JobFields, ReduceBegins DEF EngineInv, EngineTypeOK
  <2> QED BY <2>1 DEF EngineInv, Hash, operands, loop, EngineTypeOK, States
<1>2. AdmitInv'
  BY SameJob DEF EngineInv, Hash, operands, AdmitInv, Working, Hashed, States
<1>3. ReduceInv'
  <2>1. /\ ReduceStart(job.digest).left >= 1
        /\ Reduced(LittleEndian(job.digest), ReduceStart(job.digest))
    BY JobFields, ReduceBegins DEF EngineInv, EngineTypeOK
  <2> QED BY <2>1 DEF Hash, ReduceInv, Hashed, Working
<1>4. RecodeInv'
  BY DEF EngineInv, Hash, outputs, operands, scalars, loop, RecodeInv, Combining, Hashed, Working, States
<1>5. MultInv'
  BY DEF EngineInv, Hash, outputs, operands, scalars, loop, MultInv, Multiples, Combining, Hashed, Working, States
<1>6. LoopInv'
  BY DEF EngineInv, Hash, outputs, operands, scalars, loop, LoopInv, Combination
<1>7. FinalInv'
  BY SameJob DEF EngineInv, Hash, outputs, operands, scalars, loop, FinalInv, Combination
<1>8. AnswerInv'
  <2>1. job.hash_error => ~Acceptable
    BY DEF Acceptable
  <2> QED BY <2>1, SameJob DEF EngineInv, Hash, AnswerInv, Answered
<1> QED BY <1>1, <1>2, <1>3, <1>4, <1>5, <1>6, <1>7, <1>8 DEF EngineInv

(* One edge of the reduction; the last gives the challenge scalar.          *)
LEMMA ReduceStepKeeps ==
  ASSUME EngineInv, ReduceStep
  PROVE  EngineInv'
<1> DEFINE number == LittleEndian(job.digest)
<1>1. number \in 0 .. Wide - 1 /\ number \in Nat
  BY JobFields, DigestBound, Widths DEF EngineInv, EngineTypeOK
<1>2. /\ reduce \in [shift : 0 .. Wide - 1, remainder : 0 .. Order - 1, left : 0 .. WideBits]
      /\ reduce.left >= 1 /\ Reduced(number, reduce) /\ job' = job
      /\ reduce' = ReduceEdge(reduce)
  BY DEF EngineInv, EngineTypeOK, ReduceInv, ReduceStep
<1> HIDE DEF number
<1>3. /\ reduce' \in [shift : 0 .. Wide - 1, remainder : 0 .. Order - 1, left : 0 .. WideBits]
      /\ reduce'.left = reduce.left - 1 /\ Reduced(number, reduce')
  BY <1>1, <1>2, ReduceGoesOn
<1>4. reduce'.left = 0 => reduce'.remainder = Challenge
  BY <1>1, <1>3, ReduceEnds DEF Challenge, number
<1>5. scalar.s \in 0 .. Order - 1 /\ scalar.s \in Nat
  BY Widths DEF EngineInv, EngineTypeOK
<1>6. EngineTypeOK'
  <2>1. reduce'.remainder \in 0 .. Order - 1
    BY <1>3
  <2>2. RecodeStart(scalar.s) \in [work : 0 .. Pow2[ScalarBits] - 1, bit : BitIndex]
    <3>1. scalar.s \in 0 .. Pow2[ScalarBits] - 1 /\ 0 \in BitIndex
      BY <1>5, Widths, ScalarBitsBound, Pow2Positive DEF BitIndex
    <3> QED BY <3>1 DEF RecodeStart
  <2>3. scalar' \in [s : 0 .. Order - 1, k : 0 .. Order - 1]
    BY <2>1 DEF EngineInv, EngineTypeOK, ReduceStep
  <2>4. recode' \in [work : 0 .. Pow2[ScalarBits] - 1, bit : BitIndex]
    BY <2>2 DEF EngineInv, EngineTypeOK, ReduceStep
  <2> QED BY <1>3, <2>3, <2>4 DEF EngineInv, ReduceStep, outputs, operands, loop, EngineTypeOK, States
<1>7. AdmitInv'
  BY SameJob DEF EngineInv, EngineTypeOK, ReduceStep, outputs, operands, loop, AdmitInv, Working, Hashed, States
<1>8. ReduceInv'
  <2>1. state' = "REDUCE" => reduce'.left # 0
    BY DEF ReduceStep
  <2>2. state' = "REDUCE" => reduce'.left >= 1
    <3>1. reduce'.left \in 0 .. WideBits
      BY <1>3
    <3> QED BY <2>1, <3>1, Widths
  <2>3. state' # "REDUCE" => scalar'.k = Challenge
    BY <1>4 DEF ReduceStep, EngineInv, EngineTypeOK
  <2>4. number' = number
    BY <1>2 DEF number
  <2> QED BY <1>2, <1>3, <2>2, <2>3, <2>4, SameJob DEF ReduceInv, number
<1>9. RecodeInv'
  <2>1. state' \in {"REDUCE", "RECODE_S"}
    BY DEF ReduceStep
  <2>2. state' = "RECODE_S" => recode'.work = scalar'.s /\ recode'.bit = 0 /\ scalar'.s = scalar.s
    BY DEF ReduceStep, RecodeStart, EngineInv, EngineTypeOK
  <2>3. Works(scalar.s)[0] = scalar.s
    BY <1>5, WorksValues
  <2>4. Recoded(wnaf'.s, scalar'.s, 0)
    BY Widths DEF Recoded, BitIndex
  <2> QED BY <2>1, <2>2, <2>3, <2>4 DEF RecodeInv, Combining, Hashed, Working
<1>10. MultInv' /\ LoopInv' /\ FinalInv'
  BY DEF ReduceStep, MultInv, LoopInv, FinalInv, Combining, Hashed, Working
<1>11. AnswerInv'
  BY DEF EngineInv, ReduceStep, outputs, AnswerInv
<1> QED BY <1>6, <1>7, <1>8, <1>9, <1>10, <1>11 DEF EngineInv

(* One digit leaves the recoder: it is the next of its scalar.              *)
LEMMA RecoderTakesDigit ==
  ASSUME NEW x \in 0 .. Order - 1, NEW digits \in [BitIndex -> Digit],
         recode \in [work : 0 .. Pow2[ScalarBits] - 1, bit : BitIndex],
         recode.work = Works(x)[recode.bit], Recoded(digits, x, recode.bit)
  PROVE  LET taken == [digits EXCEPT ![recode.bit] = RecodeDigit(recode)]
             next == RecodeEdge(recode)
         IN  /\ RecodeDigit(recode) \in Digit
             /\ Recoded(taken, x, recode.bit + 1)
             /\ recode.bit # ScalarBits - 1 =>
                  /\ next \in [work : 0 .. Pow2[ScalarBits] - 1, bit : BitIndex]
                  /\ next.bit = recode.bit + 1 /\ next.work = Works(x)[next.bit]
<1> DEFINE w == Works(x)
           b == recode.bit
<1>1. x \in Nat /\ b \in BitIndex /\ b \in Nat /\ b < ScalarBits /\ b \in 0 .. ScalarBits
  BY Widths DEF BitIndex
<1>2. w \in [Nat -> Nat] /\ \A n \in Nat : w[n + 1] = Halve(w[n])
  BY <1>1, WorksValues
<1>3. 4 * w[b] <= Pow2[ScalarBits - b] /\ w[b] \in Nat
  BY <1>1, <1>2, WorksBound
<1>4. \A m \in 0 .. ScalarBits : Pow2[m] <= Pow2[ScalarBits]
  <2> TAKE m \in 0 .. ScalarBits
  <2>1. m \in Nat /\ ScalarBits - m \in Nat /\ m + (ScalarBits - m) = ScalarBits
    BY Widths
  <2>2. Pow2[ScalarBits] = Pow2[m] * Pow2[ScalarBits - m]
    BY <2>1, Pow2Sum
  <2>3. Pow2[m] \in Nat /\ Pow2[ScalarBits - m] \in Nat /\ Pow2[ScalarBits - m] >= 1
    BY <2>1, Pow2Positive
  <2>4. \A p, q \in Nat : q >= 1 => p <= p * q
    OBVIOUS
  <2> QED BY <2>2, <2>3, <2>4
<1>5. 4 * w[b] <= Pow2[ScalarBits]
  <2>1. ScalarBits - b \in 0 .. ScalarBits
    BY <1>1, Widths
  <2>2. Pow2[ScalarBits - b] <= Pow2[ScalarBits] /\ Pow2[ScalarBits] \in Nat /\ Pow2[ScalarBits - b] \in Nat
    BY <2>1, <1>4, Widths, Pow2Values
  <2> HIDE DEF w, b
  <2> QED BY <1>3, <2>2
<1>6. /\ RecodeDigit(recode) = DigitOf(w[b])
      /\ RecodeEdge(recode) = [work |-> Halve(w[b]), bit |-> b + 1]
  <2>1. recode.work = w[b]
    OBVIOUS
  <2> QED BY <1>3, <1>5, <2>1, RecodeEdgeHalves
<1>7. DigitOf(w[b]) \in Digit /\ Halve(w[b]) \in Nat
  <2> HIDE DEF w, b
  <2>1. DigitOf(w[b]) \in {0, 1, 3, 5, 7, 9, 11, 13, 15} /\ Halve(w[b]) \in Nat
    BY <1>3, DigitFacts
  <2> QED BY <2>1 DEF Digit
<1>8. Recoded([digits EXCEPT ![b] = DigitOf(w[b])], x, b + 1)
  <2> SUFFICES ASSUME NEW i \in BitIndex, i < b + 1
               PROVE  [digits EXCEPT ![b] = DigitOf(w[b])][i] = DigitOf(w[i])
    BY DEF Recoded
  <2>1. i \in Nat /\ (i < b \/ i = b)
    BY <1>1, Widths DEF BitIndex
  <2>2. i < b => digits[i] = DigitOf(w[i])
    BY DEF Recoded
  <2> HIDE DEF w, b
  <2> QED BY <1>1, <2>1, <2>2
<1>9. ASSUME b # ScalarBits - 1
      PROVE  /\ Halve(w[b]) \in 0 .. Pow2[ScalarBits] - 1 /\ b + 1 \in BitIndex
             /\ Halve(w[b]) = w[b + 1]
  <2>1. b + 1 \in BitIndex /\ b + 1 \in 0 .. ScalarBits
    BY <1>1, <1>9, Widths DEF BitIndex
  <2>2. Halve(w[b]) = w[b + 1]
    BY <1>1, <1>2
  <2>3. 4 * w[b + 1] <= Pow2[ScalarBits - (b + 1)]
    BY <2>1, WorksBound
  <2>4. ScalarBits - (b + 1) \in 0 .. ScalarBits
    BY <1>1, <2>1, Widths DEF BitIndex
  <2>5. /\ Pow2[ScalarBits - (b + 1)] <= Pow2[ScalarBits] /\ Pow2[ScalarBits] \in Nat
        /\ Pow2[ScalarBits] >= 1 /\ Pow2[ScalarBits - (b + 1)] \in Nat
    BY <1>4, <2>4, Widths, Pow2Positive
  <2> HIDE DEF w, b
  <2>6. Halve(w[b]) \in 0 .. Pow2[ScalarBits] - 1
    BY <1>7, <2>2, <2>3, <2>5
  <2> QED BY <2>1, <2>2, <2>6
<1> HIDE DEF w
<1> QED BY <1>6, <1>7, <1>8, <1>9 DEF w

(* The digits of s come one by one, and after the last those of k begin.    *)
LEMMA RecodeSKeeps ==
  ASSUME EngineInv, RecodeStep("s", "RECODE_S", "RECODE_K")
  PROVE  EngineInv'
<1> DEFINE digits == wnaf.s
           taken == [digits EXCEPT ![recode.bit] = RecodeDigit(recode)]
           next == RecodeEdge(recode)
           last == recode.bit = ScalarBits - 1
<1>1. /\ scalar.s \in 0 .. Order - 1 /\ digits \in [BitIndex -> Digit]
      /\ recode \in [work : 0 .. Pow2[ScalarBits] - 1, bit : BitIndex]
      /\ recode.work = Works(scalar.s)[recode.bit] /\ Recoded(digits, scalar.s, recode.bit)
  BY DEF EngineInv, EngineTypeOK, RecodeInv, RecodeStep
<1>2. /\ RecodeDigit(recode) \in Digit
      /\ Recoded(taken, scalar.s, recode.bit + 1)
      /\ ~last => /\ next \in [work : 0 .. Pow2[ScalarBits] - 1, bit : BitIndex]
                  /\ next.bit = recode.bit + 1 /\ next.work = Works(scalar.s)[next.bit]
  <2> HIDE DEF digits
  <2> QED BY <1>1, RecoderTakesDigit
<1>3. taken \in [BitIndex -> Digit]
  BY <1>1, <1>2
<1> HIDE DEF taken, next
<1>4. /\ wnaf' = [wnaf EXCEPT !.s = taken]
      /\ last => state' = "RECODE_K" /\ recode' = RecodeStart(scalar.k)
      /\ ~last => state' = "RECODE_S" /\ recode' = next
      /\ state = "RECODE_S" /\ job' = job /\ scalar' = scalar /\ reduce' = reduce
      /\ UNCHANGED <<outputs, operands, loop>>
  BY DEF RecodeStep, taken, next
<1>5. last => recode.bit + 1 = ScalarBits
  BY Widths
<1>6. /\ RecodeStart(scalar.k) \in [work : 0 .. Pow2[ScalarBits] - 1, bit : BitIndex]
      /\ RecodeStart(scalar.k).work = Works(scalar.k)[RecodeStart(scalar.k).bit]
      /\ RecodeStart(scalar.k).bit = 0
  <2>1. scalar.k \in 0 .. Order - 1 /\ scalar.k \in Nat
    BY Widths DEF EngineInv, EngineTypeOK
  <2>2. scalar.k \in 0 .. Pow2[ScalarBits] - 1 /\ 0 \in BitIndex
    BY <2>1, Widths, ScalarBitsBound, Pow2Positive DEF BitIndex
  <2>3. Works(scalar.k)[0] = scalar.k
    BY <2>1, WorksValues
  <2> QED BY <2>2, <2>3 DEF RecodeStart
<1> HIDE DEF last
<1>7. wnaf'.s = taken /\ wnaf'.k = wnaf.k /\ wnaf' \in [s : [BitIndex -> Digit], k : [BitIndex -> Digit]]
  BY <1>3, <1>4 DEF EngineInv, EngineTypeOK
<1>8. EngineTypeOK'
  <2>1. recode' \in [work : 0 .. Pow2[ScalarBits] - 1, bit : BitIndex]
    BY <1>2, <1>4, <1>6
  <2> QED BY <1>4, <1>7, <2>1 DEF EngineInv, EngineTypeOK, States, outputs, operands, loop
<1>9. AdmitInv'
  BY <1>4, SameJob DEF EngineInv, AdmitInv, Working, Hashed, States, outputs, operands
<1>10. ReduceInv'
  BY <1>4, SameJob DEF EngineInv, ReduceInv, Hashed, Working, States
<1>11. RecodeInv'
  <2>1. CASE last
    <3>1. Recoded(wnaf'.s, scalar'.s, ScalarBits)
      BY <1>2, <1>4, <1>5, <1>7, <2>1
    <3>2. Recoded(wnaf'.k, scalar'.k, 0)
      BY Widths DEF Recoded, BitIndex
    <3> QED BY <1>4, <1>6, <2>1, <3>1, <3>2 DEF RecodeInv, Combining, Hashed, Working
  <2>2. CASE ~last
    BY <1>2, <1>4, <1>7, <2>2 DEF RecodeInv, Combining, Hashed, Working
  <2> QED BY <2>1, <2>2
<1>12. MultInv'
  BY <1>4 DEF MultInv, Combining
<1>13. LoopInv' /\ FinalInv'
  BY <1>4 DEF LoopInv, FinalInv
<1>14. AnswerInv'
  BY <1>4 DEF EngineInv, AnswerInv, outputs
<1> QED BY <1>8, <1>9, <1>10, <1>11, <1>12, <1>13, <1>14 DEF EngineInv

(* The digits of k come one by one; those of s stay.                        *)
LEMMA RecodeKKeeps ==
  ASSUME EngineInv, RecodeStep("k", "RECODE_K", "ODD_A2")
  PROVE  EngineInv'
<1> DEFINE digits == wnaf.k
           taken == [digits EXCEPT ![recode.bit] = RecodeDigit(recode)]
           next == RecodeEdge(recode)
           last == recode.bit = ScalarBits - 1
<1>1. /\ scalar.k \in 0 .. Order - 1 /\ digits \in [BitIndex -> Digit]
      /\ recode \in [work : 0 .. Pow2[ScalarBits] - 1, bit : BitIndex]
      /\ recode.work = Works(scalar.k)[recode.bit] /\ Recoded(digits, scalar.k, recode.bit)
  BY DEF EngineInv, EngineTypeOK, RecodeInv, RecodeStep
<1>2. /\ RecodeDigit(recode) \in Digit
      /\ Recoded(taken, scalar.k, recode.bit + 1)
      /\ ~last => /\ next \in [work : 0 .. Pow2[ScalarBits] - 1, bit : BitIndex]
                  /\ next.bit = recode.bit + 1 /\ next.work = Works(scalar.k)[next.bit]
  <2> HIDE DEF digits
  <2> QED BY <1>1, RecoderTakesDigit
<1>3. taken \in [BitIndex -> Digit]
  BY <1>1, <1>2
<1> HIDE DEF taken, next
<1>4. /\ wnaf' = [wnaf EXCEPT !.k = taken]
      /\ last => state' = "ODD_A2" /\ recode' = RecodeStart(scalar.k)
      /\ ~last => state' = "RECODE_K" /\ recode' = next
      /\ state = "RECODE_K" /\ job' = job /\ scalar' = scalar /\ reduce' = reduce
      /\ UNCHANGED <<outputs, operands, loop>>
  BY DEF RecodeStep, taken, next
<1>5. last => recode.bit + 1 = ScalarBits
  BY Widths
<1>6. /\ RecodeStart(scalar.k) \in [work : 0 .. Pow2[ScalarBits] - 1, bit : BitIndex]
      /\ RecodeStart(scalar.k).work = Works(scalar.k)[RecodeStart(scalar.k).bit]
      /\ RecodeStart(scalar.k).bit = 0
  <2>1. scalar.k \in 0 .. Order - 1 /\ scalar.k \in Nat
    BY Widths DEF EngineInv, EngineTypeOK
  <2>2. scalar.k \in 0 .. Pow2[ScalarBits] - 1 /\ 0 \in BitIndex
    BY <2>1, Widths, ScalarBitsBound, Pow2Positive DEF BitIndex
  <2>3. Works(scalar.k)[0] = scalar.k
    BY <2>1, WorksValues
  <2> QED BY <2>2, <2>3 DEF RecodeStart
<1> HIDE DEF last
<1>7. wnaf'.k = taken /\ wnaf'.s = wnaf.s /\ wnaf' \in [s : [BitIndex -> Digit], k : [BitIndex -> Digit]]
  BY <1>3, <1>4 DEF EngineInv, EngineTypeOK
<1>8. EngineTypeOK'
  <2>1. recode' \in [work : 0 .. Pow2[ScalarBits] - 1, bit : BitIndex]
    BY <1>2, <1>4, <1>6
  <2> QED BY <1>4, <1>7, <2>1 DEF EngineInv, EngineTypeOK, States, outputs, operands, loop
<1>9. AdmitInv'
  BY <1>4, SameJob DEF EngineInv, AdmitInv, Working, Hashed, States, outputs, operands
<1>10. ReduceInv'
  BY <1>4, SameJob DEF EngineInv, ReduceInv, Hashed, Working, States
<1>11. RecodeInv'
  <2>1. Recoded(wnaf'.s, scalar'.s, ScalarBits)
    BY <1>4, <1>7 DEF EngineInv, RecodeInv
  <2>2. CASE last
    <3>1. Recoded(wnaf'.k, scalar'.k, ScalarBits)
      BY <1>2, <1>4, <1>5, <1>7, <2>2
    <3> QED BY <1>4, <2>1, <2>2, <3>1 DEF RecodeInv
  <2>3. CASE ~last
    BY <1>2, <1>4, <1>7, <2>1, <2>3 DEF RecodeInv, Combining
  <2> QED BY <2>2, <2>3
<1>12. MultInv'
  <2>1. KeyPoint \in Point /\ mult[1] = KeyPoint
    <3>1. state \in Hashed /\ state \in Working \ {"DEC_A"}
      BY <1>4 DEF Hashed, Working, States
    <3> QED BY <3>1, Admitted DEF EngineInv, AdmitInv
  <2>2. Times(1, KeyPoint) = KeyPoint
    BY <2>1, PointIsResidue DEF Times, Residue
  <2>3. state' \in Combining => Multiples' = {1}
    BY <1>4 DEF Combining, Multiples
  <2>4. mult'[1] = Times(1, KeyPoint')
    BY <1>4, <2>1, <2>2 DEF operands, KeyPoint
  <2> QED BY <2>3, <2>4 DEF MultInv
<1>13. LoopInv' /\ FinalInv'
  BY <1>4 DEF LoopInv, FinalInv
<1>14. AnswerInv'
  BY <1>4 DEF EngineInv, AnswerInv, outputs
<1> QED BY <1>8, <1>9, <1>10, <1>11, <1>12, <1>13, <1>14 DEF EngineInv

(* The multiples of A are added up from those before.                       *)
LEMMA PrecomputeKeeps ==
  ASSUME EngineInv, PrecomputeOdd
  PROVE  EngineInv'
<1> DEFINE Sum(n) == CASE n = 2 -> Add(mult[1], mult[1])
                       [] n = 3 -> Add(mult[2], mult[1])
                       [] n = 5 -> Add(mult[3], mult[2])
                       [] n = 7 -> Add(mult[5], mult[2])
<1>1. PICK n \in {2, 3, 5, 7} :
        /\ <<state, n, state'>> \in {<<"ODD_A2", 2, "ODD_A3">>, <<"ODD_A3", 3, "ODD_A5">>,
                                   <<"ODD_A5", 5, "ODD_A7">>, <<"ODD_A7", 7, "JOINT_INIT">>}
        /\ mult' = [mult EXCEPT ![n] = Sum(n)]
        /\ UNCHANGED <<job, outputs, encoded, r, scalars, loop>>
  <2>1. CASE Precompute("ODD_A2", 2, Double(mult[1]), "ODD_A3")
    BY <2>1 DEF Precompute, Double
  <2>2. CASE Precompute("ODD_A3", 3, Add(mult[2], mult[1]), "ODD_A5")
    BY <2>2 DEF Precompute
  <2>3. CASE Precompute("ODD_A5", 5, Add(mult[3], mult[2]), "ODD_A7")
    BY <2>3 DEF Precompute
  <2>4. CASE Precompute("ODD_A7", 7, Add(mult[5], mult[2]), "JOINT_INIT")
    BY <2>4 DEF Precompute
  <2> QED BY <2>1, <2>2, <2>3, <2>4 DEF PrecomputeOdd
<1> DEFINE sum == Sum(n)
<1>2. state \in Combining /\ state' \in Combining /\ state' \in States /\ state \in Hashed
  BY <1>1 DEF Combining, Hashed, Working, States
<1>3. KeyPoint \in Point /\ job' = job
  BY <1>1, <1>2, Admitted
<1>4. sum = Times(n, KeyPoint)
  <2>1. \A m \in {1, 2, 3, 5, 7} : Times(m, KeyPoint) = Residue(m * KeyPoint) /\ m * KeyPoint \in Int
    BY <1>3, PointIsResidue DEF Times, Residue
  <2>2. \A m, i, j \in {1, 2, 3, 5, 7} :
          m = i + j => Add(Times(i, KeyPoint), Times(j, KeyPoint)) = Times(m, KeyPoint)
    <3> TAKE m, i, j \in {1, 2, 3, 5, 7}
    <3> HAVE m = i + j
    <3>1. Add(Residue(i * KeyPoint), Residue(j * KeyPoint)) = Residue(i * KeyPoint + j * KeyPoint)
      BY <2>1, ResidueOfSum
    <3>2. i * KeyPoint + j * KeyPoint = m * KeyPoint
      BY <1>3, PointIsResidue
    <3> QED BY <2>1, <3>1, <3>2
  <2>3. \A m \in Multiples : mult[m] = Times(m, KeyPoint)
    BY <1>2 DEF EngineInv, MultInv
  <2>4. CASE n = 2
    <3>1. Multiples = {1}
      BY <1>1, <2>4 DEF Multiples
    <3>2. mult[1] = Times(1, KeyPoint)
      BY <2>3, <3>1
    <3> QED BY <1>1, <2>2, <2>4, <3>2
  <2>5. CASE n = 3
    <3>1. Multiples = {1, 2}
      BY <1>1, <2>5 DEF Multiples
    <3>2. mult[1] = Times(1, KeyPoint) /\ mult[2] = Times(2, KeyPoint)
      BY <2>3, <3>1
    <3> QED BY <1>1, <2>2, <2>5, <3>2
  <2>6. CASE n = 5
    <3>1. Multiples = {1, 2, 3}
      BY <1>1, <2>6 DEF Multiples
    <3>2. mult[2] = Times(2, KeyPoint) /\ mult[3] = Times(3, KeyPoint)
      BY <2>3, <3>1
    <3> QED BY <1>1, <2>2, <2>6, <3>2
  <2>7. CASE n = 7
    <3>1. Multiples = {1, 2, 3, 5}
      BY <1>1, <2>7 DEF Multiples
    <3>2. mult[2] = Times(2, KeyPoint) /\ mult[5] = Times(5, KeyPoint)
      BY <2>3, <3>1
    <3> QED BY <1>1, <2>2, <2>7, <3>2
  <2> QED BY <2>4, <2>5, <2>6, <2>7
<1> HIDE DEF Sum
<1>5. sum \in Point
  BY <1>3, <1>4, PointIsResidue, ResidueIsPoint DEF Times, Residue
<1>6. EngineTypeOK'
  BY <1>1, <1>2, <1>5 DEF EngineInv, EngineTypeOK, outputs, scalars, loop
<1>7. AdmitInv'
  <2>1. mult'[1] = mult[1]
    BY <1>1 DEF EngineInv, EngineTypeOK
  <2>2. state # "IDLE" /\ state \in Working \ {"DEC_A"} /\ state \in Working
    BY <1>1 DEF Working, States
  <2> QED BY <1>1, <1>2, <1>3, <2>1, <2>2, SameJob DEF EngineInv, AdmitInv, scalars
<1>8. ReduceInv'
  BY <1>1, <1>3, SameJob DEF EngineInv, ReduceInv, Hashed, Working, States, scalars
<1>9. RecodeInv'
  <2>1. state' \notin {"RECODE_S", "RECODE_K"} /\ wnaf' = wnaf /\ scalar' = scalar
    BY <1>1 DEF scalars
  <2> QED BY <1>2, <2>1 DEF EngineInv, RecodeInv
<1>10. MultInv'
  <2> SUFFICES ASSUME NEW m \in Multiples' PROVE mult'[m] = Times(m, KeyPoint)
    BY <1>3 DEF MultInv, KeyPoint
  <2>1. m \in Multiples \cup {n} /\ m \in {1, 2, 3, 5, 7}
    BY <1>1 DEF Multiples
  <2>2. m # n => mult'[m] = mult[m] /\ mult[m] = Times(m, KeyPoint)
    BY <1>1, <1>2, <2>1 DEF EngineInv, MultInv, EngineTypeOK
  <2> QED BY <1>1, <1>4, <2>1, <2>2 DEF EngineInv, EngineTypeOK
<1>11. LoopInv' /\ FinalInv'
  BY <1>1 DEF LoopInv, FinalInv
<1>12. AnswerInv'
  <2>1. state' # "DONE" /\ ~done /\ done' = done
    BY <1>1 DEF EngineInv, AnswerInv, outputs
  <2> QED BY <2>1 DEF AnswerInv
<1> QED BY <1>6, <1>7, <1>8, <1>9, <1>10, <1>11, <1>12 DEF EngineInv


(* The loop starts with no digit taken, and the identity is their           *)
(* combination.                                                             *)
LEMMA JointInitKeeps ==
  ASSUME EngineInv, JointInit
  PROVE  EngineInv'
<1>1. EngineTypeOK'
  <2>1. ScalarBits - 1 \in BitIndex /\ 0 \in Digit
    BY ScalarBitsBound, Widths DEF BitIndex, Digit
  <2> QED BY <2>1, ResetTypes DEF EngineInv, JointInit, outputs, operands, scalars, EngineTypeOK, States
<1>2. AdmitInv'
  BY SameJob DEF EngineInv, JointInit, outputs, operands, scalars, loop, AdmitInv, Working, Hashed, States
<1>3. ReduceInv'
  BY SameJob DEF EngineInv, JointInit, outputs, operands, scalars, loop, ReduceInv, Hashed, Working, States
<1>4. RecodeInv'
  BY DEF EngineInv, JointInit, outputs, operands, scalars, loop, RecodeInv, Combining, Hashed, Working, States
<1>5. MultInv'
  BY DEF EngineInv, JointInit, outputs, operands, scalars, loop, MultInv, Multiples, Combining, Hashed, Working, States, KeyPoint
<1>6. LoopInv'
  <2>1. TopDigits(wnaf.s)[0] = 0 /\ TopDigits(wnaf.k)[0] = 0
    BY TopDigitsValues DEF EngineInv, EngineTypeOK
  <2>2. joint'.bit = ScalarBits - 1 /\ ScalarBits - 1 - (ScalarBits - 1) = 0
    BY Widths DEF JointInit
  <2>3. Combination(0, 0) = Identity
    <3>1. KeyPoint \in Point
      BY Admitted DEF JointInit, Hashed, Working, States
    <3>2. 0 * BasePoint - 0 * KeyPoint = 0
      BY <3>1, PointIsResidue DEF BasePoint
    <3> QED BY <3>2, GroupSize DEF Combination, Identity
  <2>4. wnaf' = wnaf /\ job' = job /\ acc' = Identity /\ state' = "JOINT_DBL"
    BY DEF JointInit, scalars
  <2>5. Combination(0, 0)' = Combination(0, 0)
    BY <2>4 DEF Combination, KeyPoint
  <2> QED BY <2>1, <2>2, <2>3, <2>4, <2>5 DEF LoopInv
<1>7. FinalInv'
  BY SameJob DEF EngineInv, JointInit, outputs, operands, scalars, loop, FinalInv, Combination
<1>8. AnswerInv'
  BY SameJob DEF EngineInv, JointInit, outputs, operands, scalars, loop, AnswerInv, Answered
<1> QED BY <1>1, <1>2, <1>3, <1>4, <1>5, <1>6, <1>7, <1>8 DEF EngineInv

(* Subtracting R leaves the difference of the equation: the strict mode     *)
(* compares it with the identity, the other starts doubling it.             *)
LEMMA FinalEquationKeeps ==
  ASSUME EngineInv, FinalEquation
  PROVE  EngineInv'
<1> DEFINE difference == Add(work, Neg(r))
<1>0. difference = Residue(Difference) /\ Difference \in Int
  <2>1. Acceptable /\ KeyPoint \in Point /\ RPoint \in Point /\ r = RPoint
    BY Admitted DEF FinalEquation, Hashed, Working, States
  <2> DEFINE c == job.s * BasePoint - Challenge * KeyPoint
  <2>2. c \in Int /\ RPoint \in Int /\ Difference = c + (-RPoint)
    <3>1. job.s \in Int /\ Challenge \in Int /\ KeyPoint \in Int /\ RPoint \in Int
      BY <2>1, JobFields, PointIsResidue, Widths DEF EngineInv, EngineTypeOK
    <3> QED BY <3>1 DEF Difference, BasePoint
  <2>3. work = Residue(c)
    BY DEF EngineInv, FinalInv, FinalEquation, Combination, Residue
  <2>4. r = Residue(RPoint)
    BY <2>1, PointIsResidue
  <2> HIDE DEF c
  <2>5. Neg(r) = Residue(-RPoint) /\ -RPoint \in Int
    BY <2>2, <2>4, ResidueOfNegative
  <2>6. Add(work, Neg(r)) = Residue(c + (-RPoint))
    BY <2>2, <2>3, <2>5, ResidueOfSum
  <2> QED BY <2>2, <2>6
<1> HIDE DEF difference
<1>1. EngineTypeOK'
  <2>1. difference \in Point
    BY <1>0, ResidueIsPoint
  <2>2. work' \in Point /\ cofactor_double_count' \in 0 .. 2
    BY <2>1 DEF EngineInv, FinalEquation, EngineTypeOK, difference
  <2>3. verified' \in BOOLEAN /\ state' \in States
    BY DEF EngineInv, EngineTypeOK, FinalEquation, States
  <2> QED BY <2>2, <2>3 DEF EngineInv, FinalEquation, operands, scalars, EngineTypeOK
<1>2. AdmitInv'
  BY SameJob DEF EngineInv, FinalEquation, outputs, operands, scalars, loop, AdmitInv, Working, Hashed, States
<1>3. ReduceInv'
  BY SameJob DEF EngineInv, FinalEquation, outputs, operands, scalars, loop, ReduceInv, Hashed, Working, States
<1>4. RecodeInv'
  BY DEF EngineInv, FinalEquation, outputs, operands, scalars, loop, RecodeInv, Combining, Hashed, Working, States
<1>5. MultInv'
  BY DEF EngineInv, FinalEquation, outputs, operands, scalars, loop, MultInv, Multiples, Combining, Hashed, Working, States, KeyPoint
<1>6. LoopInv'
  BY DEF EngineInv, FinalEquation, outputs, operands, scalars, loop, LoopInv, Combination
<1>7. FinalInv'
  <2>1. Times(Pow2[0], Difference) = Residue(Difference)
    BY <1>0, Pow2Values DEF Times, Residue
  <2>2. state' = "FINAL_COF_DBL" => job.mode # "strict" /\ work' = Residue(Difference) /\ cofactor_double_count' = 0
    BY <1>0 DEF FinalEquation, difference
  <2>3. job' = job /\ state' # "FINAL_EQ"
    BY DEF FinalEquation
  <2> QED BY <2>1, <2>2, <2>3, SameJob DEF FinalInv
<1>8. AnswerInv'
  <2>1. Acceptable
    BY Admitted DEF FinalEquation, Hashed, Working, States
  <2>2. state' = "DONE" => job.mode = "strict" /\ (verified' <=> difference = 0)
    BY JobFields DEF EngineInv, EngineTypeOK, FinalEquation, difference, Identity
  <2>3. job' = job /\ done' = done /\ ~done
    BY DEF FinalEquation, EngineInv, AnswerInv
  <2>4. job.mode = "strict" => (EquationHolds <=> difference = 0)
    BY <1>0, EquationIsResidue
  <2>5. state' = "DONE" => (verified' <=> Acceptable /\ EquationHolds)
    BY <2>1, <2>2, <2>4
  <2>6. Acceptable' <=> Acceptable
    BY <2>3, SameJob
  <2>7. EquationHolds' <=> EquationHolds
    BY <2>3, SameJob
  <2>8. state' = "DONE" => Answered'
    BY <2>5, <2>6, <2>7 DEF Answered
  <2> QED BY <2>3, <2>8 DEF AnswerInv
<1> QED BY <1>1, <1>2, <1>3, <1>4, <1>5, <1>6, <1>7, <1>8 DEF EngineInv

(* The third doubling makes it eight times the difference.                  *)
LEMMA FinalDoubleKeeps ==
  ASSUME EngineInv, FinalDouble
  PROVE  EngineInv'
<1> DEFINE c == cofactor_double_count
<1>0. /\ c \in {0, 1, 2} /\ Difference \in Int
      /\ work' = Residue(Pow2[c + 1] * Difference)
      /\ Pow2[c + 1] * Difference \in Int /\ Pow2[2 + 1] = 8
  <2>1. Acceptable /\ KeyPoint \in Point /\ RPoint \in Point
    BY Admitted DEF FinalDouble, Hashed, Working, States
  <2>2. Difference \in Int
    <3>1. job.s \in Int /\ Challenge \in Int /\ KeyPoint \in Int /\ RPoint \in Int
      BY <2>1, JobFields, PointIsResidue, Widths DEF EngineInv, EngineTypeOK
    <3> QED BY <3>1 DEF Difference, BasePoint
  <2>3. c \in {0, 1, 2}
    BY DEF EngineInv, EngineTypeOK
  <2>4. Pow2[c] \in Nat /\ Pow2[c + 1] = 2 * Pow2[c]
    BY <2>3, Pow2Values
  <2>5. Pow2[2 + 1] = 8
    <3>1. Pow2[0 + 1] = 2 * Pow2[0] /\ Pow2[1 + 1] = 2 * Pow2[1] /\ Pow2[2 + 1] = 2 * Pow2[2]
      BY Pow2Values
    <3> QED BY <3>1, Pow2Values
  <2>6. work = Residue(Pow2[c] * Difference)
    BY DEF EngineInv, FinalInv, FinalDouble, Times, Residue
  <2>7. work' = Add(work, work)
    BY DEF FinalDouble, Double
  <2> HIDE DEF c
  <2>8. PICK p \in Int : p = Pow2[c] * Difference
    BY <2>2, <2>4
  <2>9. Pow2[c + 1] * Difference = p + p
    BY <2>2, <2>4, <2>8
  <2>10. Add(Residue(p), Residue(p)) = Residue(p + p)
    BY ResidueOfSum
  <2> QED BY <2>2, <2>3, <2>5, <2>6, <2>7, <2>8, <2>9, <2>10
<1>1. EngineTypeOK'
  <2>1. work' \in Point
    BY <1>0, ResidueIsPoint
  <2>2. cofactor_double_count' \in 0 .. 2
    BY <1>0 DEF FinalDouble
  <2>3. verified' \in BOOLEAN /\ state' \in States
    BY DEF EngineInv, EngineTypeOK, FinalDouble, States
  <2> QED BY <2>1, <2>2, <2>3 DEF EngineInv, FinalDouble, operands, scalars, EngineTypeOK
<1>2. AdmitInv'
  BY SameJob DEF EngineInv, FinalDouble, outputs, operands, scalars, loop, AdmitInv, Working, Hashed, States
<1>3. ReduceInv'
  BY SameJob DEF EngineInv, FinalDouble, outputs, operands, scalars, loop, ReduceInv, Hashed, Working, States
<1>4. RecodeInv'
  BY DEF EngineInv, FinalDouble, outputs, operands, scalars, loop, RecodeInv, Combining, Hashed, Working, States
<1>5. MultInv'
  BY DEF EngineInv, FinalDouble, outputs, operands, scalars, loop, MultInv, Multiples, Combining, Hashed, Working, States, KeyPoint
<1>6. LoopInv'
  BY DEF EngineInv, FinalDouble, outputs, operands, scalars, loop, LoopInv, Combination
<1>7. FinalInv'
  <2>1. state' = "FINAL_COF_DBL" => cofactor_double_count' = c + 1
    BY DEF FinalDouble
  <2>2. job.mode # "strict" /\ job' = job /\ state' # "FINAL_EQ"
    BY DEF EngineInv, FinalInv, FinalDouble
  <2>3. work' = Times(Pow2[c + 1], Difference)
    BY <1>0 DEF Times, Residue
  <2> HIDE DEF c
  <2> QED BY <2>1, <2>2, <2>3, SameJob DEF FinalInv
<1>8. AnswerInv'
  <2>1. Acceptable
    BY Admitted DEF FinalDouble, Hashed, Working, States
  <2>2. job.mode # "strict" /\ job' = job /\ done' = done /\ ~done
    BY DEF EngineInv, FinalInv, FinalDouble, AnswerInv
  <2>3. state' = "DONE" => (verified' <=> Residue(8 * Difference) = 0)
    <3>1. state' = "DONE" => c = 2 /\ verified' = (work' = 0)
      BY DEF FinalDouble, Identity
    <3>2. c = 2 => work' = Residue(8 * Difference)
      BY <1>0
    <3> QED BY <3>1, <3>2
  <2>4. EquationHolds <=> Residue(8 * Difference) = 0
    <3>1. Times(8, Residue(Difference)) = Residue(8 * Difference)
      BY <1>0, ResidueOfProduct
    <3> QED BY <2>2, <3>1, EquationIsResidue
  <2>5. state' = "DONE" => (verified' <=> Acceptable /\ EquationHolds)
    BY <2>1, <2>3, <2>4
  <2>6. Acceptable' <=> Acceptable
    BY <2>2, SameJob
  <2>7. EquationHolds' <=> EquationHolds
    BY <2>2, SameJob
  <2>8. state' = "DONE" => Answered'
    BY <2>5, <2>6, <2>7 DEF Answered
  <2> QED BY <2>2, <2>8 DEF AnswerInv
<1> QED BY <1>1, <1>2, <1>3, <1>4, <1>5, <1>6, <1>7, <1>8 DEF EngineInv

(* done rises with the verdict that was reached.                            *)
LEMMA FinishKeeps ==
  ASSUME EngineInv, Finish
  PROVE  EngineInv'
<1>1. EngineTypeOK'
  BY DEF EngineInv, Finish, outputs, operands, scalars, loop, EngineTypeOK, States
<1>2. AdmitInv'
  BY SameJob DEF EngineInv, Finish, outputs, operands, scalars, loop, AdmitInv, Working, Hashed, States
<1>3. ReduceInv'
  BY SameJob DEF EngineInv, Finish, outputs, operands, scalars, loop, ReduceInv, Hashed, Working, States
<1>4. RecodeInv'
  BY DEF EngineInv, Finish, outputs, operands, scalars, loop, RecodeInv, Combining, Hashed, Working, States
<1>5. MultInv'
  BY DEF EngineInv, Finish, outputs, operands, scalars, loop, MultInv, Multiples, Combining, Hashed, Working, States
<1>6. LoopInv'
  BY DEF EngineInv, Finish, outputs, operands, scalars, loop, LoopInv, Combination
<1>7. FinalInv'
  BY SameJob DEF EngineInv, Finish, outputs, operands, scalars, loop, FinalInv, Combination
<1>8. AnswerInv'
  BY SameJob DEF EngineInv, Finish, outputs, operands, scalars, loop, AnswerInv, Answered
<1> QED BY <1>1, <1>2, <1>3, <1>4, <1>5, <1>6, <1>7, <1>8 DEF EngineInv

(* An abort leaves nothing behind that a later job could find.              *)
LEMMA AbortKeeps ==
  ASSUME EngineInv, Abort
  PROVE  EngineInv'
<1>1. EngineTypeOK'
  <2>1. job' \in Job /\ state' \in States /\ verified' \in BOOLEAN /\ done' \in BOOLEAN
    BY DEF EngineInv, EngineTypeOK, Abort, States
  <2>2. /\ encoded' = Zero.encoded /\ mult' = NoMultiples /\ r' = Identity
        /\ scalar' = Zero.scalar /\ wnaf' = Zero.wnaf /\ joint' = Zero.joint
        /\ reduce' = IdleReduce /\ recode' = IdleRecode
        /\ acc' = Identity /\ work' = Identity /\ cofactor_double_count' \in 0 .. 2
    BY DEF Abort
  <2> QED BY <2>1, <2>2, ResetTypes DEF EngineTypeOK
<1>2. AdmitInv'
  BY SameJob DEF EngineInv, Abort, outputs, operands, scalars, loop, AdmitInv, Working, Hashed, States
<1>3. ReduceInv'
  BY SameJob DEF EngineInv, Abort, outputs, operands, scalars, loop, ReduceInv, Hashed, Working, States
<1>4. RecodeInv'
  BY DEF EngineInv, Abort, outputs, operands, scalars, loop, RecodeInv, Combining, Hashed, Working, States
<1>5. MultInv'
  BY DEF EngineInv, Abort, outputs, operands, scalars, loop, MultInv, Multiples, Combining, Hashed, Working, States
<1>6. LoopInv'
  BY DEF EngineInv, Abort, outputs, operands, scalars, loop, LoopInv, Combination
<1>7. FinalInv'
  BY SameJob DEF EngineInv, Abort, outputs, operands, scalars, loop, FinalInv, Combination
<1>8. AnswerInv'
  BY SameJob DEF EngineInv, Abort, outputs, operands, scalars, loop, AnswerInv, Answered
<1> QED BY <1>1, <1>2, <1>3, <1>4, <1>5, <1>6, <1>7, <1>8 DEF EngineInv

(* A step of the environment changes nothing.                               *)
LEMMA StutterKeeps ==
  ASSUME EngineInv, UNCHANGED vars
  PROVE  EngineInv'
<1>1. EngineTypeOK'
  BY DEF EngineInv, vars, outputs, operands, scalars, loop, EngineTypeOK, States
<1>2. AdmitInv'
  BY SameJob DEF EngineInv, vars, outputs, operands, scalars, loop, AdmitInv, Working, Hashed, States
<1>3. ReduceInv'
  BY SameJob DEF EngineInv, vars, outputs, operands, scalars, loop, ReduceInv, Hashed, Working, States
<1>4. RecodeInv'
  BY DEF EngineInv, vars, outputs, operands, scalars, loop, RecodeInv, Combining, Hashed, Working, States
<1>5. MultInv'
  BY DEF EngineInv, vars, outputs, operands, scalars, loop, MultInv, Multiples, Combining, Hashed, Working, States, KeyPoint
<1>6. LoopInv'
  BY DEF EngineInv, vars, outputs, operands, scalars, loop, LoopInv, Combination, KeyPoint
<1>7. FinalInv'
  BY SameJob DEF EngineInv, vars, outputs, operands, scalars, loop, FinalInv, Combination
<1>8. AnswerInv'
  BY SameJob DEF EngineInv, vars, outputs, operands, scalars, loop, AnswerInv, Answered
<1> QED BY <1>1, <1>2, <1>3, <1>4, <1>5, <1>6, <1>7, <1>8 DEF EngineInv
-----------------------------------------------------------------------------
(* The joint loop. *)

(* What one digit of k adds to the accumulator.                             *)
MinusA(d) == Residue(-(d * KeyPoint))

(* What one digit adds to a combination.                                    *)
LEMMA CombinationSteps ==
  ASSUME KeyPoint \in Point, NEW s \in Int, NEW k \in Int, NEW d \in Int
  PROVE  /\ Combination(s, k) \in Point
         /\ Double(Combination(s, k)) = Combination(2 * s, 2 * k)
         /\ Add(Combination(s, k), MinusA(d)) = Combination(s, k + d)
         /\ Add(Combination(s, k), Residue(d * BasePoint)) = Combination(s + d, k)
<1> DEFINE A == KeyPoint
           c == s * BasePoint - k * A
<1>1. A \in Int /\ BasePoint \in Int
  BY PointIsResidue DEF BasePoint
<1> HIDE DEF A
<1>2. c \in Int /\ -(d * A) \in Int /\ d * BasePoint \in Int
  BY <1>1
<1>3. \A m, n \in Int : Combination(m, n) = Residue(m * BasePoint - n * A)
  BY DEF Combination, Residue, A
<1>4. Combination(s, k) = Residue(c)
  BY <1>3
<1>5. /\ c + c = (2 * s) * BasePoint - (2 * k) * A
      /\ c + (-(d * A)) = s * BasePoint - (k + d) * A
      /\ c + d * BasePoint = (s + d) * BasePoint - k * A
  BY <1>1
<1> HIDE DEF c
<1>6. Double(Combination(s, k)) = Combination(2 * s, 2 * k)
  <2>1. Add(Residue(c), Residue(c)) = Residue(c + c)
    BY <1>2, ResidueOfSum
  <2> QED BY <1>3, <1>4, <1>5, <2>1 DEF Double
<1>7. Add(Combination(s, k), MinusA(d)) = Combination(s, k + d)
  <2>1. Add(Residue(c), Residue(-(d * A))) = Residue(c + (-(d * A)))
    BY <1>2, ResidueOfSum
  <2>2. MinusA(d) = Residue(-(d * A))
    BY DEF MinusA, A
  <2> QED BY <1>3, <1>4, <1>5, <2>1, <2>2
<1>8. Add(Combination(s, k), Residue(d * BasePoint)) = Combination(s + d, k)
  <2>1. Add(Residue(c), Residue(d * BasePoint)) = Residue(c + d * BasePoint)
    BY <1>2, ResidueOfSum
  <2> QED BY <1>3, <1>4, <1>5, <2>1
<1> QED BY <1>2, <1>4, <1>6, <1>7, <1>8, ResidueIsPoint DEF A

(* Once both scalars are recoded, their digits are odd or zero, and the     *)
(* values of the topmost digits step up to the scalars.                     *)
LEMMA RecodedDigits ==
  ASSUME EngineInv, state \in Combining, NEW j \in BitIndex
  PROVE  /\ wnaf.s \in [BitIndex -> Digit] /\ wnaf.k \in [BitIndex -> Digit]
         /\ wnaf.s[j] \in OddDigits /\ wnaf.k[j] \in OddDigits
         /\ DigitValue(wnaf.s[j]) \in Int /\ DigitValue(wnaf.k[j]) \in Int
         /\ \A digits \in {wnaf.s, wnaf.k} :
              /\ TopDigits(digits)[ScalarBits - 1 - j] \in Int
              /\ TopDigits(digits)[ScalarBits - j]
                   = 2 * TopDigits(digits)[ScalarBits - 1 - j] + DigitValue(digits[j])
<1>1. wnaf.s \in [BitIndex -> Digit] /\ wnaf.k \in [BitIndex -> Digit]
      /\ scalar.s \in Nat /\ scalar.k \in Nat
  BY Widths DEF EngineInv, EngineTypeOK
<1>2. Recoded(wnaf.s, scalar.s, ScalarBits) /\ Recoded(wnaf.k, scalar.k, ScalarBits)
  BY DEF EngineInv, RecodeInv
<1>3. j \in Nat /\ j < ScalarBits /\ ScalarBits - 1 - j \in BitIndex
      /\ ScalarBits - 1 - j \in 0 .. ScalarBits /\ ScalarBits - 1 - (ScalarBits - 1 - j) = j
      /\ (ScalarBits - 1 - j) + 1 = ScalarBits - j
  BY Widths DEF BitIndex
<1>4. \A x \in Nat : DigitOf(Works(x)[j]) \in OddDigits
  <2> TAKE x \in Nat
  <2> DEFINE y == Works(x)[j]
  <2>1. y \in Nat
    BY <1>3, WorksValues
  <2> HIDE DEF y
  <2>2. DigitOf(y) \in {0, 1, 3, 5, 7, 9, 11, 13, 15}
    BY <2>1, DigitFacts
  <2> QED BY <2>2 DEF OddDigits, y
<1>5. wnaf.s[j] \in OddDigits /\ wnaf.k[j] \in OddDigits
  BY <1>1, <1>2, <1>3, <1>4 DEF Recoded
<1>6. \A digits \in {wnaf.s, wnaf.k} :
        /\ TopDigits(digits)[ScalarBits - 1 - j] \in Int
        /\ TopDigits(digits)[ScalarBits - j]
             = 2 * TopDigits(digits)[ScalarBits - 1 - j] + DigitValue(digits[j])
  <2> TAKE digits \in {wnaf.s, wnaf.k}
  <2>1. digits \in [BitIndex -> Digit]
    BY <1>1
  <2>2. TopDigits(digits)[(ScalarBits - 1 - j) + 1] = 2 * TopDigits(digits)[ScalarBits - 1 - j]
          + DigitValue(digits[ScalarBits - 1 - (ScalarBits - 1 - j)])
    BY <1>3, <2>1, TopDigitsValues
  <2>3. TopDigits(digits)[ScalarBits - 1 - j] \in Int
    BY <1>3, <2>1, TopDigitsValues
  <2> QED BY <1>3, <2>2, <2>3
<1> QED BY <1>1, <1>5, <1>6, DigitValueType

(* The digits of both scalars stand for the scalars.                        *)
LEMMA RecodedScalars ==
  ASSUME EngineInv, state \in Combining
  PROVE  /\ WnafOf(wnaf.s, job.s) /\ WnafOf(wnaf.k, Challenge)
         /\ TopDigits(wnaf.s)[ScalarBits] = job.s /\ TopDigits(wnaf.k)[ScalarBits] = Challenge
<1>1. wnaf.s \in [BitIndex -> Digit] /\ wnaf.k \in [BitIndex -> Digit]
      /\ scalar.s \in 0 .. Order - 1 /\ scalar.k \in 0 .. Order - 1
  BY DEF EngineInv, EngineTypeOK
<1>2. Recoded(wnaf.s, scalar.s, ScalarBits) /\ Recoded(wnaf.k, scalar.k, ScalarBits)
  BY DEF EngineInv, RecodeInv
<1>3. state \in Working /\ state \in Hashed \ {"REDUCE"}
  BY DEF Combining, Hashed, Working
<1>4. scalar.s = job.s /\ scalar.k = Challenge
  BY <1>3 DEF EngineInv, AdmitInv, ReduceInv
<1>5. WnafOf(wnaf.s, job.s) /\ WnafOf(wnaf.k, Challenge)
  BY <1>1, <1>2, <1>4, RecodedIsWnaf
<1> QED BY <1>5 DEF WnafOf, WnafValue

(* A step of the loop leaves the operands and the scalars alone.            *)
LEMMA LoopKeepsOperands ==
  ASSUME EngineInv, state \in {"JOINT_DBL", "JOINT_ADD_A", "JOINT_ADD_B", "JOINT_NEXT"},
         state' \in {"JOINT_DBL", "JOINT_ADD_A", "JOINT_ADD_B", "JOINT_NEXT", "FINAL_EQ"},
         UNCHANGED <<job, outputs, operands, scalars>>
  PROVE  AdmitInv' /\ ReduceInv' /\ RecodeInv' /\ MultInv' /\ AnswerInv'
<1>1. AdmitInv'
  BY SameJob DEF EngineInv, AdmitInv, Working, Hashed, States, operands, scalars
<1>2. ReduceInv'
  BY SameJob DEF EngineInv, ReduceInv, Working, Hashed, States, scalars
<1>3. RecodeInv'
  BY DEF EngineInv, RecodeInv, Combining, Working, Hashed, States, scalars
<1>4. MultInv'
  BY DEF EngineInv, MultInv, Multiples, Combining, Working, Hashed, States, operands, KeyPoint
<1>5. AnswerInv'
  BY DEF EngineInv, AnswerInv, outputs
<1> QED BY <1>1, <1>2, <1>3, <1>4, <1>5

(* The digits at the loop's position, and the values above it.              *)
LEMMA LoopFacts ==
  ASSUME EngineInv, state \in {"JOINT_DBL", "JOINT_ADD_A", "JOINT_ADD_B", "JOINT_NEXT"}
  PROVE  /\ state \in Combining /\ state \in Hashed
         /\ joint.bit \in BitIndex /\ joint.s \in Digit /\ joint.k \in Digit
         /\ KeyPoint \in Point /\ acc \in Point
         /\ TopDigits(wnaf.s)[ScalarBits - 1 - joint.bit] \in Int
         /\ TopDigits(wnaf.k)[ScalarBits - 1 - joint.bit] \in Int
<1>1. state \in Combining /\ state \in Hashed
  BY DEF Combining, Hashed, Working, States
<1>2. joint.bit \in BitIndex /\ joint.s \in Digit /\ joint.k \in Digit /\ acc \in Point
  BY DEF EngineInv, EngineTypeOK
<1> QED BY <1>1, <1>2, Admitted, RecodedDigits

(* Doubling makes room for the next digits: the combination of the values   *)
(* above them, doubled.                                                     *)
LEMMA JointDoubleKeeps ==
  ASSUME EngineInv, JointDouble
  PROVE  EngineInv'
<1> DEFINE j == joint.bit
           s == TopDigits(wnaf.s)[ScalarBits - 1 - j]
           k == TopDigits(wnaf.k)[ScalarBits - 1 - j]
<1>1. /\ state = "JOINT_DBL" /\ acc' = Double(acc)
      /\ joint' = [joint EXCEPT !.s = wnaf.s[j], !.k = wnaf.k[j]]
      /\ UNCHANGED <<job, outputs, operands, scalars, work, cofactor_double_count>>
  BY DEF JointDouble
<1>2. /\ j \in BitIndex /\ KeyPoint \in Point /\ s \in Int /\ k \in Int
      /\ state \in Combining
  BY <1>1, LoopFacts
<1>3. /\ joint'.bit = j /\ joint'.s = wnaf.s[j] /\ joint'.k = wnaf.k[j]
      /\ joint' \in [bit : BitIndex, s : Digit, k : Digit] /\ wnaf' = wnaf
  BY <1>1, <1>2 DEF EngineInv, EngineTypeOK, scalars
<1>4. /\ wnaf.k[j] # 0 => state' = "JOINT_ADD_A"
      /\ wnaf.k[j] = 0 /\ wnaf.s[j] # 0 => state' = "JOINT_ADD_B"
      /\ wnaf.k[j] = 0 /\ wnaf.s[j] = 0 => state' = "JOINT_NEXT"
  BY DEF JointDouble, AfterAddA
<1>5. state' \in {"JOINT_ADD_A", "JOINT_ADD_B", "JOINT_NEXT"}
  BY <1>4
<1>6. acc' = Combination(2 * s, 2 * k) /\ acc' \in Point
  <2>1. acc = Combination(s, k)
    BY <1>1 DEF EngineInv, LoopInv
  <2>2. 0 \in Int /\ 2 * s \in Int /\ 2 * k \in Int
    BY <1>2
  <2> HIDE DEF s, k
  <2>3. Double(Combination(s, k)) = Combination(2 * s, 2 * k)
    BY <1>2, <2>2, CombinationSteps
  <2>4. Combination(2 * s, 2 * k) \in Point
    BY <1>2, <2>2, CombinationSteps
  <2> QED BY <1>1, <2>1, <2>3, <2>4
<1>7. EngineTypeOK'
  BY <1>1, <1>3, <1>5, <1>6 DEF EngineInv, EngineTypeOK, States, outputs, operands, scalars
<1>8. AdmitInv' /\ ReduceInv' /\ RecodeInv' /\ MultInv' /\ AnswerInv'
  BY <1>1, <1>5, LoopKeepsOperands
<1>9. LoopInv'
  <2>1. \A m, n : Combination(m, n)' = Combination(m, n)
    BY <1>1 DEF Combination, KeyPoint
  <2>2. s' = s /\ k' = k
    BY <1>3
  <2>3. DigitValue(0) = 0
    BY DEF DigitValue, DigitNegative
  <2>4. wnaf.k[j] = 0 => 2 * k + DigitValue(wnaf.k[j]) = 2 * k
    BY <1>2, <2>3
  <2>5. wnaf.s[j] = 0 => 2 * s + DigitValue(wnaf.s[j]) = 2 * s
    BY <1>2, <2>3
  <2> QED BY <1>1, <1>3, <1>4, <1>6, <2>4, <2>5 DEF LoopInv, Combination, KeyPoint
<1>10. FinalInv'
  BY <1>5 DEF FinalInv
<1> QED BY <1>7, <1>8, <1>9, <1>10 DEF EngineInv

(* A digit of k that is not zero joins the combination.                     *)
LEMMA JointAddAKeeps ==
  ASSUME EngineInv, JointAddA
  PROVE  EngineInv'
<1> DEFINE j == joint.bit
           s == TopDigits(wnaf.s)[ScalarBits - 1 - j]
           k == TopDigits(wnaf.k)[ScalarBits - 1 - j]
<1>1. /\ state = "JOINT_ADD_A" /\ acc' = Add(acc, AOperand(joint.k))
      /\ joint.s # 0 => state' = "JOINT_ADD_B"
      /\ joint.s = 0 => state' = "JOINT_NEXT"
      /\ UNCHANGED <<job, outputs, operands, scalars, work, joint, cofactor_double_count>>
  BY DEF JointAddA, AfterAddA
<1>2. /\ j \in BitIndex /\ KeyPoint \in Point /\ s \in Int /\ k \in Int
      /\ state \in Combining /\ joint.s = wnaf.s[j] /\ joint.k = wnaf.k[j]
  BY <1>1, LoopFacts DEF EngineInv, LoopInv
<1>3. joint.k \in OddDigits /\ DigitValue(joint.k) \in Int
  BY <1>2, RecodedDigits
<1>4. AOperand(joint.k) = MinusA(DigitValue(joint.k))
  <2>1. \A n \in {1, 2, 3, 5, 7} : mult[n] = Times(n, KeyPoint)
    BY <1>1, <1>2 DEF EngineInv, MultInv, Multiples
  <2> QED BY <1>2, <1>3, <2>1, AOperandIsMultiple DEF MinusA
<1>5. acc' = Combination(2 * s, 2 * k + DigitValue(joint.k)) /\ acc' \in Point
  <2>1. acc = Combination(2 * s, 2 * k)
    BY <1>1 DEF EngineInv, LoopInv
  <2> DEFINE s2 == 2 * s
             k2 == 2 * k
  <2>2. 0 \in Int /\ s2 \in Int /\ k2 \in Int /\ k2 + DigitValue(joint.k) \in Int
    BY <1>2, <1>3
  <2> HIDE DEF s, k, s2, k2
  <2>3. Add(Combination(s2, k2), MinusA(DigitValue(joint.k))) = Combination(s2, k2 + DigitValue(joint.k))
    BY <1>2, <1>3, <2>2, CombinationSteps
  <2>4. Combination(s2, k2 + DigitValue(joint.k)) \in Point
    BY <1>2, <2>2, CombinationSteps
  <2> QED BY <1>1, <1>4, <2>1, <2>3, <2>4 DEF s2, k2
<1>6. state' \in {"JOINT_ADD_B", "JOINT_NEXT"}
  BY <1>1
<1>7. EngineTypeOK'
  BY <1>1, <1>5, <1>6 DEF EngineInv, EngineTypeOK, States, outputs, operands, scalars
<1>8. AdmitInv' /\ ReduceInv' /\ RecodeInv' /\ MultInv' /\ AnswerInv'
  BY <1>1, <1>6, LoopKeepsOperands
<1>9. LoopInv'
  <2>1. joint.s = 0 => 2 * s + DigitValue(joint.s) = 2 * s
    BY <1>2 DEF DigitValue, DigitNegative
  <2>2. wnaf' = wnaf
    BY <1>1 DEF scalars
  <2> QED BY <1>1, <1>2, <1>5, <2>1, <2>2 DEF LoopInv, Combination, KeyPoint
<1>10. FinalInv'
  BY <1>6 DEF FinalInv
<1> QED BY <1>7, <1>8, <1>9, <1>10 DEF EngineInv

(* So does a digit of s.                                                    *)
LEMMA JointAddBKeeps ==
  ASSUME EngineInv, JointAddB
  PROVE  EngineInv'
<1> DEFINE j == joint.bit
           s == TopDigits(wnaf.s)[ScalarBits - 1 - j]
           k == TopDigits(wnaf.k)[ScalarBits - 1 - j]
           k_next == 2 * k + DigitValue(joint.k)
<1>1. /\ state = "JOINT_ADD_B" /\ acc' = Add(acc, BaseOperand(joint.s)) /\ state' = "JOINT_NEXT"
      /\ UNCHANGED <<job, outputs, operands, scalars, work, joint, cofactor_double_count>>
  BY DEF JointAddB
<1>2. /\ j \in BitIndex /\ KeyPoint \in Point /\ s \in Int /\ k \in Int
      /\ state \in Combining /\ joint.s = wnaf.s[j] /\ joint.k = wnaf.k[j]
  BY <1>1, LoopFacts DEF EngineInv, LoopInv
<1>3. joint.s \in OddDigits /\ DigitValue(joint.s) \in Int /\ DigitValue(joint.k) \in Int
  BY <1>2, RecodedDigits
<1>4. BaseOperand(joint.s) = Residue(DigitValue(joint.s) * BasePoint)
  BY <1>3, BaseOperandIsMultiple
<1>5. acc' = Combination(2 * s + DigitValue(joint.s), k_next) /\ acc' \in Point
  <2>1. acc = Combination(2 * s, k_next)
    BY <1>1 DEF EngineInv, LoopInv
  <2> DEFINE s2 == 2 * s
  <2>2. 0 \in Int /\ s2 \in Int /\ k_next \in Int /\ s2 + DigitValue(joint.s) \in Int
    BY <1>2, <1>3
  <2> DEFINE d == DigitValue(joint.s)
  <2> HIDE DEF s, s2, k_next
  <2>3. Add(Combination(s2, k_next), Residue(DigitValue(joint.s) * BasePoint))
          = Combination(s2 + DigitValue(joint.s), k_next)
    <3>1. KeyPoint \in Point /\ d \in Int /\ s2 \in Int /\ k_next \in Int
      BY <1>2, <1>3, <2>2
    <3> HIDE DEF d
    <3>2. Add(Combination(s2, k_next), Residue(d * BasePoint)) = Combination(s2 + d, k_next)
      BY <3>1, CombinationSteps
    <3> QED BY <3>2 DEF d
  <2>4. Combination(s2 + DigitValue(joint.s), k_next) \in Point
    BY <1>2, <2>2, CombinationSteps
  <2> QED BY <1>1, <1>4, <2>1, <2>3, <2>4 DEF s2
<1>6. EngineTypeOK'
  BY <1>1, <1>5 DEF EngineInv, EngineTypeOK, States, outputs, operands, scalars
<1>7. AdmitInv' /\ ReduceInv' /\ RecodeInv' /\ MultInv' /\ AnswerInv'
  BY <1>1, LoopKeepsOperands
<1>8. LoopInv'
  <2>1. wnaf' = wnaf
    BY <1>1 DEF scalars
  <2> QED BY <1>1, <1>2, <1>5, <2>1 DEF LoopInv, Combination, KeyPoint
<1>9. FinalInv'
  BY <1>1 DEF FinalInv
<1> QED BY <1>6, <1>7, <1>8, <1>9 DEF EngineInv

(* The next position, or after the lowest the whole combination: the        *)
(* digits' values are then the scalars.                                     *)
LEMMA JointNextKeeps ==
  ASSUME EngineInv, JointNext
  PROVE  EngineInv'
<1> DEFINE j == joint.bit
           s == TopDigits(wnaf.s)[ScalarBits - 1 - j]
           k == TopDigits(wnaf.k)[ScalarBits - 1 - j]
<1>1. /\ state = "JOINT_NEXT"
      /\ j = 0 => state' = "FINAL_EQ" /\ work' = acc /\ joint' = joint
      /\ j # 0 => state' = "JOINT_DBL" /\ joint' = [joint EXCEPT !.bit = j - 1] /\ work' = work
      /\ UNCHANGED <<job, outputs, operands, scalars, acc, cofactor_double_count>>
  BY DEF JointNext
<1>2. /\ j \in BitIndex /\ KeyPoint \in Point /\ acc \in Point
      /\ state \in Combining /\ joint.s = wnaf.s[j] /\ joint.k = wnaf.k[j]
  BY <1>1, LoopFacts DEF EngineInv, LoopInv
<1>3. acc = Combination(TopDigits(wnaf.s)[ScalarBits - j], TopDigits(wnaf.k)[ScalarBits - j])
  <2>1. acc = Combination(2 * s + DigitValue(joint.s), 2 * k + DigitValue(joint.k))
    BY <1>1 DEF EngineInv, LoopInv
  <2> QED BY <1>2, <2>1, RecodedDigits
<1>4. j # 0 => j - 1 \in BitIndex /\ ScalarBits - 1 - (j - 1) = ScalarBits - j
  BY <1>2, Widths DEF BitIndex
<1>5. state' \in {"JOINT_DBL", "FINAL_EQ"}
  BY <1>1
<1>6. joint' \in [bit : BitIndex, s : Digit, k : Digit] /\ work' \in Point
      /\ (j # 0 => joint'.bit = j - 1)
  BY <1>1, <1>2, <1>4 DEF EngineInv, EngineTypeOK
<1>7. EngineTypeOK'
  BY <1>1, <1>5, <1>6 DEF EngineInv, EngineTypeOK, States, outputs, operands, scalars
<1>8. AdmitInv' /\ ReduceInv' /\ RecodeInv' /\ MultInv' /\ AnswerInv'
  BY <1>1, <1>5, LoopKeepsOperands
<1>9. LoopInv'
  <2>1. wnaf' = wnaf
    BY <1>1 DEF scalars
  <2> QED BY <1>1, <1>3, <1>4, <1>6, <2>1 DEF LoopInv, Combination, KeyPoint
<1>10. FinalInv'
  <2>1. j = 0 => acc = Combination(job.s, Challenge)
    <3>1. TopDigits(wnaf.s)[ScalarBits] = job.s /\ TopDigits(wnaf.k)[ScalarBits] = Challenge
      BY <1>2, RecodedScalars
    <3>2. j = 0 => ScalarBits - j = ScalarBits
      BY Widths
    <3> QED BY <1>3, <3>1, <3>2
  <2>2. job' = job /\ Challenge' = Challenge
    BY <1>1, SameJob
  <2> QED BY <1>1, <1>5, <2>1, <2>2 DEF FinalInv, Combination, KeyPoint
<1> QED BY <1>7, <1>8, <1>9, <1>10 DEF EngineInv

(* At every state of the controller its registers hold what the job's       *)
(* operands determine: what was checked, the reduced prefix of the digest,  *)
(* the digits emitted, the multiples of A, the combination of the digits    *)
(* taken, the difference, the verdict. For every order, width and job.      *)
THEOREM EngineInvariant == Spec => []EngineInv
<1>1. Init => EngineInv
  BY EngineInitially
<1>2. EngineInv /\ [Next]_vars => EngineInv'
  <2> SUFFICES ASSUME EngineInv, [Next]_vars PROVE EngineInv'
    OBVIOUS
  <2>1. CASE Start
    BY <2>1, StartKeeps
  <2>2. CASE Rest
    BY <2>2, RestKeeps
  <2>3. CASE \E j \in Later : Offer(j)
    BY <2>3, OfferKeeps
  <2>4. CASE DecodeA \/ DecodeR \/ Hash \/ ReduceStep
    BY <2>4, DecodeAKeeps, DecodeRKeeps, HashKeeps, ReduceStepKeeps
  <2>5. CASE Recode
    BY <2>5, RecodeSKeeps, RecodeKKeeps DEF Recode
  <2>6. CASE PrecomputeOdd
    BY <2>6, PrecomputeKeeps
  <2>7. CASE JointInit \/ JointDouble \/ JointAddA \/ JointAddB \/ JointNext
    BY <2>7, JointInitKeeps, JointDoubleKeeps, JointAddAKeeps, JointAddBKeeps, JointNextKeeps
  <2>8. CASE FinalEquation \/ FinalDouble \/ Finish
    BY <2>8, FinalEquationKeeps, FinalDoubleKeeps, FinishKeeps
  <2>9. CASE Abort
    BY <2>9, AbortKeeps
  <2>10. CASE UNCHANGED vars
    BY <2>10, StutterKeeps
  <2> QED BY <2>1, <2>2, <2>3, <2>4, <2>5, <2>6, <2>7, <2>8, <2>9, <2>10 DEF Next, Work
<1> QED BY <1>1, <1>2, PTL DEF Spec

(* The registers of ed25519_verify_engine.v and of its scalar units stay in *)
(* their widths: no bit of the recoder's register is lost, and the          *)
(* reduction subtracts the order at most once an edge.                      *)
THEOREM EngineTypes == Spec => []EngineTypeOK
<1>1. EngineInv => EngineTypeOK
  BY DEF EngineInv
<1> QED BY <1>1, EngineInvariant, PTL

(* From the end of the recoding to the verdict the packed digits of s and   *)
(* of the challenge have the scalars' values and the sparseness of their    *)
(* form: the recoder's register is empty before the packed digits are full. *)
THEOREM DigitsAreExact == Spec => []DigitsExact
<1>1. EngineInv => DigitsExact
  <2> SUFFICES ASSUME EngineInv, state \in Combining PROVE DigitsExact
    BY DEF DigitsExact, Combining, Hashed, Working
  <2> QED BY RecodedScalars DEF DigitsExact, Challenge
<1> QED BY <1>1, EngineInvariant, PTL

(* When ed25519_verify_engine.v raises done, verified is the signature      *)
(* equation of the mode on the job's operands, whatever jobs or aborts came *)
(* before: for every order and width with the code's headroom.              *)
THEOREM VerdictsAreTheEquation == Spec => []VerdictIsEquation
<1>1. EngineInv => VerdictIsEquation
  BY DEF EngineInv, AnswerInv, Answered, VerdictIsEquation
<1> QED BY <1>1, EngineInvariant, PTL
-----------------------------------------------------------------------------
(* How long a job can last.                                                 *)

(* The most steps until the controller is idle again: each bit of the loop  *)
(* takes four, each digit of a recoding and each bit of a reduction one.    *)
JointSteps(bit, place) == 5 + 4 * bit + place

StepsLeft ==
  CASE state = "IDLE" -> 0
    [] state = "DONE" -> 1
    [] state = "FINAL_COF_DBL" -> 4 - cofactor_double_count
    [] state = "FINAL_EQ" -> 5
    [] state = "JOINT_NEXT" -> JointSteps(joint.bit, 1)
    [] state = "JOINT_ADD_B" -> JointSteps(joint.bit, 2)
    [] state = "JOINT_ADD_A" -> JointSteps(joint.bit, 3)
    [] state = "JOINT_DBL" -> JointSteps(joint.bit, 4)
    [] state = "JOINT_INIT" -> 4 * ScalarBits + 6
    [] state = "ODD_A7" -> 4 * ScalarBits + 7
    [] state = "ODD_A5" -> 4 * ScalarBits + 8
    [] state = "ODD_A3" -> 4 * ScalarBits + 9
    [] state = "ODD_A2" -> 4 * ScalarBits + 10
    [] state = "RECODE_K" -> 5 * ScalarBits + 10 - recode.bit
    [] state = "RECODE_S" -> 6 * ScalarBits + 10 - recode.bit
    [] state = "REDUCE" -> 6 * ScalarBits + 10 + reduce.left
    [] state = "HASH" -> 6 * ScalarBits + 11 + WideBits
    [] state = "DEC_R" -> 6 * ScalarBits + 12 + WideBits
    [] state = "DEC_A" -> 6 * ScalarBits + 13 + WideBits

JobSteps == 6 * ScalarBits + WideBits + 13

(* The registers the bound is made of.                                      *)
LEMMA StepFacts ==
  ASSUME EngineInv
  PROVE  /\ ScalarBits \in Nat /\ ScalarBits >= 3 /\ WideBits \in Nat
         /\ state \in States
         /\ cofactor_double_count \in 0 .. 2
         /\ joint.bit \in 0 .. ScalarBits - 1 /\ recode.bit \in 0 .. ScalarBits - 1
         /\ reduce.left \in 0 .. WideBits
         /\ state = "REDUCE" => reduce.left >= 1
<1>1. ScalarBits \in Nat /\ ScalarBits >= 3 /\ WideBits \in Nat
  BY Widths, ScalarBitsBound
<1>2. /\ state \in States /\ cofactor_double_count \in 0 .. 2
      /\ joint.bit \in 0 .. ScalarBits - 1 /\ recode.bit \in 0 .. ScalarBits - 1
      /\ reduce.left \in 0 .. WideBits
  BY DEF EngineInv, EngineTypeOK, BitIndex
<1>3. state = "REDUCE" => reduce.left >= 1
  BY DEF EngineInv, ReduceInv
<1> QED BY <1>1, <1>2, <1>3

(* A job that is under way has at least a step to go, and never more than   *)
(* the bound.                                                               *)
LEMMA StepsBound ==
  ASSUME EngineInv
  PROVE  StepsLeft \in 0 .. JobSteps /\ (StepsLeft = 0 <=> state = "IDLE")
<1>1. /\ ScalarBits \in Int /\ ScalarBits >= 3 /\ WideBits \in Int /\ WideBits >= 0
      /\ joint.bit \in Int /\ 0 <= joint.bit /\ joint.bit < ScalarBits
      /\ recode.bit \in Int /\ 0 <= recode.bit /\ recode.bit < ScalarBits
      /\ reduce.left \in Int /\ 0 <= reduce.left /\ reduce.left <= WideBits
      /\ cofactor_double_count \in {0, 1, 2}
  BY StepFacts
<1>2. /\ state \in {"REDUCE", "HASH", "DEC_R", "DEC_A"} =>
           StepsLeft \in 6 * ScalarBits + 11 .. JobSteps
      /\ state \in {"JOINT_INIT", "ODD_A7", "ODD_A5", "ODD_A3", "ODD_A2", "RECODE_K", "RECODE_S"} =>
           StepsLeft \in 4 * ScalarBits + 6 .. 6 * ScalarBits + 10
      /\ state \in {"JOINT_NEXT", "JOINT_ADD_B", "JOINT_ADD_A", "JOINT_DBL"} =>
           StepsLeft \in 6 .. 4 * ScalarBits + 5
      /\ state \in {"DONE", "FINAL_COF_DBL", "FINAL_EQ"} => StepsLeft \in 1 .. 5
      /\ state = "IDLE" => StepsLeft = 0
  <2>1. state \in {"REDUCE", "HASH", "DEC_R", "DEC_A"} =>
          StepsLeft \in 6 * ScalarBits + 11 .. JobSteps
    BY <1>1, StepFacts DEF StepsLeft, JobSteps
  <2>2. state \in {"JOINT_INIT", "ODD_A7", "ODD_A5", "ODD_A3", "ODD_A2", "RECODE_K", "RECODE_S"} =>
          StepsLeft \in 4 * ScalarBits + 6 .. 6 * ScalarBits + 10
    BY <1>1 DEF StepsLeft
  <2>3. state \in {"JOINT_NEXT", "JOINT_ADD_B", "JOINT_ADD_A", "JOINT_DBL"} =>
          StepsLeft \in 6 .. 4 * ScalarBits + 5
    <3>1. \A place \in 1 .. 4 : JointSteps(joint.bit, place) \in 6 .. 4 * ScalarBits + 5
      BY <1>1 DEF JointSteps
    <3>2. state \in {"JOINT_NEXT", "JOINT_ADD_B", "JOINT_ADD_A", "JOINT_DBL"} =>
            \E place \in 1 .. 4 : StepsLeft = JointSteps(joint.bit, place)
      BY DEF StepsLeft
    <3> QED BY <3>1, <3>2
  <2>4. state \in {"DONE", "FINAL_COF_DBL", "FINAL_EQ"} => StepsLeft \in 1 .. 5
    BY <1>1 DEF StepsLeft
  <2>5. state = "IDLE" => StepsLeft = 0
    BY DEF StepsLeft
  <2> QED BY <2>1, <2>2, <2>3, <2>4, <2>5
<1>3. JobSteps = 6 * ScalarBits + WideBits + 13
  BY DEF JobSteps
<1> QED BY <1>1, <1>2, <1>3, StepFacts DEF States

(* The first part of a job: the checks, the reduction and the recoding.     *)
LEMMA ScalarStepsFewer ==
  ASSUME EngineInv, EngineInv', DecodeA \/ DecodeR \/ Hash \/ ReduceStep \/ Recode
  PROVE  StepsLeft' < StepsLeft
<1>1. CASE DecodeA \/ DecodeR \/ Hash
  <2>1. \/ state' = "DONE" /\ state \in {"DEC_A", "DEC_R", "HASH"}
        \/ state = "DEC_A" /\ state' = "DEC_R"
        \/ state = "DEC_R" /\ state' = "HASH"
        \/ state = "HASH" /\ state' = "REDUCE" /\ reduce'.left = WideBits
    BY <1>1 DEF DecodeA, DecodeR, Hash, ReduceStart
  <2> QED BY <2>1, StepFacts DEF StepsLeft
<1>2. CASE ReduceStep
  <2>1. /\ state = "REDUCE" /\ reduce'.left = reduce.left - 1
        /\ \/ state' = "REDUCE"
           \/ state' = "RECODE_S" /\ recode'.bit = 0
    BY <1>2 DEF ReduceStep, ReduceEdge, RecodeStart
  <2> QED BY <2>1, StepFacts DEF StepsLeft
<1>3. CASE Recode
  <2>1. \/ /\ state = "RECODE_S"
           /\ \/ state' = "RECODE_S" /\ recode'.bit = recode.bit + 1
              \/ state' = "RECODE_K" /\ recode'.bit = 0
        \/ /\ state = "RECODE_K"
           /\ \/ state' = "RECODE_K" /\ recode'.bit = recode.bit + 1
              \/ state' = "ODD_A2"
    BY <1>3 DEF Recode, RecodeStep, RecodeEdge, RecodeStart
  <2> QED BY <2>1, StepFacts DEF StepsLeft
<1> QED BY <1>1, <1>2, <1>3

(* The second part: the multiples of A, the joint loop and the verdict.     *)
LEMMA LoopStepsFewer ==
  ASSUME EngineInv, EngineInv',
         \/ PrecomputeOdd \/ JointInit \/ JointDouble \/ JointAddA \/ JointAddB \/ JointNext
         \/ FinalEquation \/ FinalDouble \/ Finish
  PROVE  StepsLeft' < StepsLeft
<1>1. CASE PrecomputeOdd
  <2>1. \/ state = "ODD_A2" /\ state' = "ODD_A3"
        \/ state = "ODD_A3" /\ state' = "ODD_A5"
        \/ state = "ODD_A5" /\ state' = "ODD_A7"
        \/ state = "ODD_A7" /\ state' = "JOINT_INIT"
    BY <1>1 DEF PrecomputeOdd, Precompute
  <2> QED BY <2>1, StepFacts DEF StepsLeft
<1>2. CASE JointInit
  <2>1. state = "JOINT_INIT" /\ state' = "JOINT_DBL" /\ joint'.bit = ScalarBits - 1
    BY <1>2 DEF JointInit
  <2> QED BY <2>1, StepFacts DEF StepsLeft, JointSteps
<1>3. CASE JointDouble \/ JointAddA \/ JointAddB
  <2>1. joint'.bit = joint.bit
    BY <1>3 DEF JointDouble, JointAddA, JointAddB, EngineInv, EngineTypeOK
  <2>2. \/ state = "JOINT_DBL" /\ state' \in {"JOINT_ADD_A", "JOINT_ADD_B", "JOINT_NEXT"}
        \/ state = "JOINT_ADD_A" /\ state' \in {"JOINT_ADD_B", "JOINT_NEXT"}
        \/ state = "JOINT_ADD_B" /\ state' = "JOINT_NEXT"
    BY <1>3 DEF JointDouble, JointAddA, JointAddB, AfterAddA
  <2> QED BY <2>1, <2>2, StepFacts DEF StepsLeft, JointSteps
<1>4. CASE JointNext
  <2>1. /\ state = "JOINT_NEXT"
        /\ \/ state' = "FINAL_EQ"
           \/ state' = "JOINT_DBL" /\ joint'.bit = joint.bit - 1
    BY <1>4 DEF JointNext, EngineInv, EngineTypeOK
  <2> QED BY <2>1, StepFacts DEF StepsLeft, JointSteps
<1>5. CASE FinalEquation \/ FinalDouble \/ Finish
  <2>1. \/ /\ state = "FINAL_EQ"
           /\ state' = "DONE" \/ (state' = "FINAL_COF_DBL" /\ cofactor_double_count' = 0)
        \/ state = "FINAL_COF_DBL" /\ state' = "DONE"
        \/ /\ state = "FINAL_COF_DBL" /\ state' = "FINAL_COF_DBL"
           /\ cofactor_double_count' = cofactor_double_count + 1
        \/ state = "DONE" /\ state' = "IDLE"
    BY <1>5 DEF FinalEquation, FinalDouble, Finish
  <2> QED BY <2>1, StepFacts DEF StepsLeft
<1> QED BY <1>1, <1>2, <1>3, <1>4, <1>5

(* A job lasts at most JobSteps steps of ed25519_verify_engine.v: whatever  *)
(* the operands, each step while it is under way leaves fewer to come, and  *)
(* only an idle controller has none.                                        *)
THEOREM JobsAreBounded ==
  Spec => /\ [](StepsLeft \in 0 .. JobSteps /\ (StepsLeft = 0 <=> state = "IDLE"))
          /\ [][state # "IDLE" => StepsLeft' < StepsLeft]_vars
<1>1. EngineInv => StepsLeft \in 0 .. JobSteps /\ (StepsLeft = 0 <=> state = "IDLE")
  BY StepsBound
<1>2. EngineInv /\ EngineInv' /\ [Next]_vars => [state # "IDLE" => StepsLeft' < StepsLeft]_vars
  <2> SUFFICES ASSUME EngineInv, EngineInv', Next, state # "IDLE" PROVE StepsLeft' < StepsLeft
    OBVIOUS
  <2>1. CASE Work
    BY <2>1, ScalarStepsFewer, LoopStepsFewer DEF Work
  <2>2. CASE Abort
    <3>1. StepsLeft' = 0
      BY <2>2 DEF Abort, StepsLeft
    <3>2. StepsLeft # 0 /\ StepsLeft \in 0 .. JobSteps
      BY StepsBound
    <3>3. JobSteps \in Nat
      BY StepFacts DEF JobSteps
    <3> QED BY <3>1, <3>2, <3>3
  <2> QED BY <2>1, <2>2 DEF Next, Start, Rest, Offer
<1> QED BY <1>1, <1>2, EngineInvariant, PTL DEF Spec
=============================================================================
