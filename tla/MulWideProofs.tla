--------------------------- MODULE MulWideProofs ----------------------------
(***************************************************************************)
(* The multiplier of the point core, for every width of its limbs and every *)
(* constant of the prime that fits one: no coefficient and no limb leaves   *)
(* its register, and the result is the product modulo the prime unless the *)
(* last fold of a carry has lifted limb 0 above its width.                  *)
(***************************************************************************)
EXTENDS MulWide, TLAPS

Square == Radix * Radix
Sum(l) == l[0] + l[1] + l[2] + l[3] + l[4]
DiagonalSum(d) == Sum(LaneProducts(d))

MulStates == {"IDLE", "MUL", "MUL_FLUSH", "FOLD", "CARRY", "PACK", "REDUCE", "FINISH"}

TypeInv ==
  /\ state \in MulStates /\ done \in BOOLEAN
  /\ a_limb \in Element /\ b_limb \in Element
  /\ product \in [LimbIndex -> Nat]
  /\ coeff \in [Diagonal -> Nat]
  /\ red \in [LimbIndex -> Nat]
  /\ diag \in [index : Diagonal, registered : Diagonal, valid : BOOLEAN]
  /\ carry \in [index : LimbIndex, pass : {0, 1}]
  /\ candidate \in [number : Nat, minus_p : Int, ge_p : BOOLEAN]

(* The diagonals summed so far, and the one in the product registers.       *)
DiagonalInv ==
  /\ state = "MUL" =>
       /\ diag.valid => diag.index = diag.registered + 1 /\ product = LaneProducts(diag.registered)
       /\ ~diag.valid => diag.index = 0
       /\ \A d \in Diagonal : d + 1 < diag.index => coeff[d] = DiagonalSum(d)
  /\ state = "MUL_FLUSH" =>
       /\ diag.valid /\ diag.registered = 8 /\ product = LaneProducts(8)
       /\ \A d \in Diagonal : d < 8 => coeff[d] = DiagonalSum(d)
  /\ state = "FOLD" => \A d \in Diagonal : coeff[d] = DiagonalSum(d)

(* From the fold on the limbs stand for the product, modulo the prime.      *)
Congruent ==
  \E k \in Int : Number(a_limb) * Number(b_limb) = Number(red) + k * FieldP

(* What is still to be carried, in squares of the radix.                    *)
CarryBound == (400 * (carry.index + 1) + 2400 * carry.pass) * Square

CarryInv ==
  state = "CARRY" =>
    /\ Congruent
    /\ red[carry.index] <= CarryBound
    /\ \A i \in LimbIndex : i # carry.index => red[i] <= 400 * Square
    /\ \A i \in LimbIndex : i < carry.index => red[i] < Radix
    /\ carry.pass = 1 => \A i \in LimbIndex : i # carry.index => red[i] < Radix

PackInv ==
  state \in {"PACK", "REDUCE", "FINISH"} => Congruent /\ \A i \in 1 .. 4 : red[i] < Radix

CandidateInv ==
  /\ state \in {"REDUCE", "FINISH"} =>
       /\ candidate.number < Radix5
       /\ red[0] < Radix => candidate.number = Number(red)
  /\ state = "FINISH" =>
       /\ candidate.ge_p = (candidate.number >= FieldP)
       /\ candidate.minus_p = (candidate.number - FieldP) % Radix5

ResultInv == done => state = "IDLE" /\ ProductUnlessCut

MulInv == TypeInv /\ DiagonalInv /\ CarryInv /\ PackInv /\ CandidateInv /\ ResultInv
-----------------------------------------------------------------------------
(* Integer facts the edges rest on. *)
LEMMA ProductBound ==
  ASSUME NEW n \in Nat, NEW x \in 0 .. n - 1, NEW y \in 0 .. n - 1
  PROVE  x * y \in Nat /\ x * y <= n * n
OBVIOUS

(* Division, as carrying uses it: what stays and what moves. *)
LEMMA DivMod ==
  ASSUME NEW n \in Nat, NEW m \in Nat, m > 0
  PROVE  /\ n \div m \in Nat /\ n % m \in 0 .. m - 1
         /\ n = m * (n \div m) + (n % m)
         /\ n \div m <= n
OBVIOUS

(* A number below the modulus is its own remainder. *)
LEMMA SmallMod ==
  ASSUME NEW n \in Nat, NEW m \in Nat, n < m
  PROVE  n % m = n
OBVIOUS

(* A number below the prime is the residue of all its class. *)
LEMMA ModUnique ==
  ASSUME NEW p \in Nat, NEW n \in Nat, n < p, NEW k \in Int
  PROVE  (n + k * p) % p = n
OBVIOUS

(* A carry moves a multiple of the radix one limb up. *)
LEMMA CarryKeepsNumber ==
  ASSUME NEW r \in Nat, NEW q \in Nat, NEW m \in Nat, NEW x0 \in Nat, NEW x1 \in Nat,
         NEW x2 \in Nat, NEW x3 \in Nat, NEW x4 \in Nat
  PROVE  /\ (r * q + m) + r * (x1 + r * (x2 + r * (x3 + r * x4)))
              = m + r * ((x1 + q) + r * (x2 + r * (x3 + r * x4)))
         /\ x0 + r * ((r * q + m) + r * (x2 + r * (x3 + r * x4)))
              = x0 + r * (m + r * ((x2 + q) + r * (x3 + r * x4)))
         /\ x0 + r * (x1 + r * ((r * q + m) + r * (x3 + r * x4)))
              = x0 + r * (x1 + r * (m + r * ((x3 + q) + r * x4)))
         /\ x0 + r * (x1 + r * (x2 + r * ((r * q + m) + r * x4)))
              = x0 + r * (x1 + r * (x2 + r * (m + r * (x4 + q))))
OBVIOUS

(* The carry out of the top limb comes back FieldC times at the bottom.     *)
LEMMA FoldKeepsClass ==
  ASSUME NEW r \in Nat, NEW q \in Nat, NEW m \in Nat, NEW c \in Nat, NEW x0 \in Nat,
         NEW x1 \in Nat, NEW x2 \in Nat, NEW x3 \in Nat
  PROVE  x0 + r * (x1 + r * (x2 + r * (x3 + r * (r * q + m))))
           = (x0 + c * q) + r * (x1 + r * (x2 + r * (x3 + r * m)))
             + q * (r * r * r * r * r - c)
OBVIOUS
-----------------------------------------------------------------------------
(* How radix, prime and constant compare. *)
LEMMA Sizes ==
  ASSUME MulWidths
  PROVE  /\ Radix \in Nat /\ Radix > 1 /\ FieldC \in 1 .. 64 /\ FieldC < Radix
         /\ Square \in Nat /\ Square >= Radix
         /\ Radix5 \in Nat /\ Radix5 >= Square /\ FieldP \in Nat /\ FieldC < FieldP
<1>1. Radix \in Nat /\ FieldC \in 1 .. 64 /\ FieldC < Radix /\ Radix > 1
  BY DEF MulWidths
<1>2. Square \in Nat /\ Square >= Radix /\ Square >= 2 * Radix
  BY <1>1 DEF Square
<1>3. \A n \in Nat : n * Radix \in Nat /\ n * Radix >= n
  BY <1>1
<1>4. Radix5 = Square * Radix * Radix * Radix
  BY <1>1 DEF Radix5, Square
<1>5. Radix5 \in Nat /\ Radix5 >= Square
  BY <1>2, <1>3, <1>4
<1> QED BY <1>1, <1>2, <1>5 DEF FieldP

(* Lane products are squares of the radix at most, and a diagonal five.     *)
LEMMA LaneProductsBound ==
  ASSUME MulWidths, a_limb \in Element, b_limb \in Element, NEW d \in Diagonal
  PROVE  /\ LaneProducts(d) \in [LimbIndex -> Nat]
         /\ \A i \in LimbIndex : LaneProducts(d)[i] <= Square
<1> SUFFICES ASSUME NEW i \in LimbIndex
             PROVE  LaneProducts(d)[i] \in Nat /\ LaneProducts(d)[i] <= Square
  BY DEF LaneProducts
<1>1. Square \in Nat BY Sizes
<1>2. CASE d - i \in LimbIndex
  <2>1. a_limb[i] \in 0 .. Radix - 1 /\ b_limb[d - i] \in 0 .. Radix - 1
    BY <1>2 DEF Element
  <2> QED BY <1>2, <2>1, ProductBound, Sizes DEF LaneProducts, Square
<1>3. CASE d - i \notin LimbIndex
  BY <1>1, <1>3 DEF LaneProducts
<1> QED BY <1>2, <1>3

(* A diagonal fits the 108 bits it is registered in. *)
LEMMA DiagonalBound ==
  ASSUME MulWidths, a_limb \in Element, b_limb \in Element, NEW d \in Diagonal
  PROVE  /\ DiagonalSum(d) \in Nat /\ DiagonalSum(d) <= 5 * Square
         /\ Coefficient(DiagonalSum(d)) = DiagonalSum(d)
<1>1. Square \in Nat /\ Square > 0 BY Sizes
<1> DEFINE l == LaneProducts(d)
<1>2. /\ l[0] \in Nat /\ l[1] \in Nat /\ l[2] \in Nat /\ l[3] \in Nat /\ l[4] \in Nat
      /\ l[0] <= Square /\ l[1] <= Square /\ l[2] <= Square /\ l[3] <= Square /\ l[4] <= Square
  BY LaneProductsBound DEF LimbIndex, LIMBS
<1>3. DiagonalSum(d) \in Nat /\ DiagonalSum(d) <= 5 * Square
  BY <1>1, <1>2 DEF DiagonalSum, Sum
<1>4. 64 * Square \in Nat /\ DiagonalSum(d) < 64 * Square
  BY <1>1, <1>3
<1> QED BY <1>3, <1>4, SmallMod DEF Coefficient, Square
-----------------------------------------------------------------------------
(* What a start or a reset loads. *)
LEMMA ClearedTypes ==
  ASSUME MulWidths
  PROVE  /\ NoLimbs \in [LimbIndex -> Nat] /\ NoLimbs \in Element
         /\ [d \in Diagonal |-> 0] \in [Diagonal -> Nat]
         /\ NoDiag \in [index : Diagonal, registered : Diagonal, valid : BOOLEAN]
         /\ NoCarry \in [index : LimbIndex, pass : {0, 1}]
         /\ NoNumber \in [number : Nat, minus_p : Int, ge_p : BOOLEAN]
<1>1. NoLimbs \in [LimbIndex -> Nat] /\ NoLimbs \in Element
  BY Sizes DEF NoLimbs, Element
<1>2. 0 \in Diagonal /\ 0 \in LimbIndex
  BY DEF Diagonal, LimbIndex, LIMBS
<1>3. NoDiag \in [index : Diagonal, registered : Diagonal, valid : BOOLEAN]
  BY <1>2 DEF NoDiag
<1>4. NoCarry \in [index : LimbIndex, pass : {0, 1}]
  BY <1>2 DEF NoCarry
<1>5. NoNumber \in [number : Nat, minus_p : Int, ge_p : BOOLEAN]
  BY DEF NoNumber
<1> QED BY <1>1, <1>3, <1>4, <1>5

(* A start or a reset leaves nothing of the product before.                 *)
LEMMA InitInv ==
  ASSUME MulWidths, Init
  PROVE  MulInv
<1>1. TypeInv
  BY ClearedTypes DEF Init, TypeInv, MulStates
<1> QED
  BY <1>1 DEF Init, MulInv, DiagonalInv, CarryInv, PackInv, CandidateInv, ResultInv

(* A start. *)
LEMMA StartInv ==
  ASSUME MulWidths, MulInv, NEW o \in Operands, Start(o[1], o[2])
  PROVE  MulInv'
<1>1. o[1] \in Element /\ o[2] \in Element
  BY DEF MulWidths
<1>2. TypeInv'
  BY <1>1, ClearedTypes DEF MulInv, TypeInv, Start, MulStates
<1>3. DiagonalInv'
  BY DEF DiagonalInv, Start, NoDiag, Diagonal, LIMBS
<1> QED
  BY <1>2, <1>3 DEF Start, MulInv, CarryInv, PackInv, CandidateInv, ResultInv

(* A reset, at any edge. *)
LEMMA ResetInv ==
  ASSUME MulWidths, MulInv, Reset
  PROVE  MulInv'
<1>1. TypeInv'
  BY ClearedTypes DEF MulInv, TypeInv, Reset, MulStates
<1> QED
  BY <1>1 DEF Reset, MulInv, DiagonalInv, CarryInv, PackInv, CandidateInv, ResultInv

(* The edge that sums a diagonal while the next one is multiplied.          *)
LEMMA CollectedDiagonal ==
  ASSUME MulWidths, TypeInv, CollectDiagonal, diag.valid, product = LaneProducts(diag.registered)
  PROVE  coeff' = [coeff EXCEPT ![diag.registered] = DiagonalSum(diag.registered)]
<1>1. a_limb \in Element /\ b_limb \in Element /\ diag.registered \in Diagonal
  BY DEF TypeInv
<1>2. Coefficient(Sum(product)) = DiagonalSum(diag.registered)
  BY <1>1, DiagonalBound DEF DiagonalSum
<1> QED BY <1>2 DEF CollectDiagonal, Sum

(* An edge that multiplies one diagonal and sums the one before. *)
LEMMA MulStepInv ==
  ASSUME MulWidths, MulInv, Mul
  PROVE  MulInv'
<1> USE DEF Diagonal, LIMBS
<1>1. a_limb \in Element /\ b_limb \in Element /\ diag.index \in Diagonal
      /\ diag.registered \in Diagonal /\ coeff \in [Diagonal -> Nat] /\ diag.valid \in BOOLEAN
  BY DEF MulInv, TypeInv
<1>2. UNCHANGED <<a_limb, b_limb>> /\ done' = done /\ state = "MUL"
  BY Zenon DEF Mul
<1>3. \A d \in Diagonal : DiagonalSum(d)' = DiagonalSum(d) /\ DiagonalSum(d) \in Nat
                          /\ LaneProducts(d)' = LaneProducts(d)
  BY <1>1, <1>2, DiagonalBound, Zenon DEF DiagonalSum, LaneProducts, Sum
<1>4. coeff' = IF diag.valid THEN [coeff EXCEPT ![diag.registered] = DiagonalSum(diag.registered)]
               ELSE coeff
  BY <1>2, CollectedDiagonal DEF MulInv, DiagonalInv, Mul, CollectDiagonal
<1>5. product' = LaneProducts(diag.index) /\ product' \in [LimbIndex -> Nat]
  BY <1>1, LaneProductsBound DEF Mul
<1>6. \A d \in Diagonal : d < diag.index => coeff'[d] = DiagonalSum(d)
  BY <1>1, <1>2, <1>3, <1>4 DEF MulInv, DiagonalInv
<1>7. TypeInv'
  BY <1>1, <1>3, <1>4, <1>5 DEF MulInv, TypeInv, Mul, MulStates
<1>8. DiagonalInv'
  BY <1>1, <1>2, <1>3, <1>5, <1>6 DEF DiagonalInv, Mul
<1> QED
  BY <1>2, <1>7, <1>8 DEF Mul, MulInv, CarryInv, PackInv, CandidateInv, ResultInv

(* The edge that sums the last diagonal. *)
LEMMA MulFlushInv ==
  ASSUME MulWidths, MulInv, MulFlush
  PROVE  MulInv'
<1> USE DEF Diagonal, LIMBS
<1>1. a_limb \in Element /\ b_limb \in Element /\ coeff \in [Diagonal -> Nat]
      /\ diag.registered = 8 /\ diag.valid /\ product = LaneProducts(diag.registered)
  BY DEF MulInv, TypeInv, DiagonalInv, MulFlush
<1>2. UNCHANGED <<a_limb, b_limb>> /\ done' = done /\ state = "MUL_FLUSH"
  BY Zenon DEF MulFlush
<1>3. \A d \in Diagonal : DiagonalSum(d)' = DiagonalSum(d) /\ DiagonalSum(d) \in Nat
  BY <1>1, <1>2, DiagonalBound, Zenon DEF DiagonalSum, LaneProducts, Sum
<1>4. coeff' = [coeff EXCEPT ![8] = DiagonalSum(8)]
  BY <1>1, CollectedDiagonal DEF MulInv, MulFlush
<1>5. TypeInv'
  BY <1>1, <1>3, <1>4 DEF MulInv, TypeInv, MulFlush, MulStates
<1>6. DiagonalInv'
  BY <1>1, <1>2, <1>3, <1>4 DEF MulInv, DiagonalInv, MulFlush
<1> QED
  BY <1>2, <1>5, <1>6 DEF MulFlush, MulInv, CarryInv, PackInv, CandidateInv, ResultInv

(* What the constant of the prime can do to a number. *)
LEMMA TimesConstant ==
  ASSUME MulWidths, NEW n \in Nat
  PROVE  FieldC * n \in Nat /\ FieldC * n <= 64 * n /\ FieldC * n <= Radix * n
BY Sizes

(* The diagonals, written out. *)
LEMMA DiagonalValues ==
  ASSUME MulWidths, a_limb \in Element, b_limb \in Element
  PROVE  LET a == a_limb
             b == b_limb
         IN  /\ DiagonalSum(0) = a[0] * b[0]
             /\ DiagonalSum(1) = a[0] * b[1] + a[1] * b[0]
             /\ DiagonalSum(2) = a[0] * b[2] + a[1] * b[1] + a[2] * b[0]
             /\ DiagonalSum(3) = a[0] * b[3] + a[1] * b[2] + a[2] * b[1] + a[3] * b[0]
             /\ DiagonalSum(4) = a[0] * b[4] + a[1] * b[3] + a[2] * b[2] + a[3] * b[1]
                                   + a[4] * b[0]
             /\ DiagonalSum(5) = a[1] * b[4] + a[2] * b[3] + a[3] * b[2] + a[4] * b[1]
             /\ DiagonalSum(6) = a[2] * b[4] + a[3] * b[3] + a[4] * b[2]
             /\ DiagonalSum(7) = a[3] * b[4] + a[4] * b[3]
             /\ DiagonalSum(8) = a[4] * b[4]
<1> DEFINE Q(i, j) == a_limb[i] * b_limb[j]
           L(d, i) == IF d - i \in 0 .. 4 THEN Q(i, d - i) ELSE 0
<1>1. \A i \in LimbIndex : a_limb[i] \in 0 .. Radix - 1 /\ b_limb[i] \in 0 .. Radix - 1
  BY DEF Element
<1>2. \A i, j \in 0 .. 4 : Q(i, j) \in Nat
  BY <1>1, ProductBound, Sizes DEF LimbIndex, LIMBS
<1>3. \A d \in 0 .. 8, i \in 0 .. 4 : LaneProducts(d)[i] = L(d, i)
  BY DEF LaneProducts, LimbIndex, LIMBS
<1> HIDE DEF Q
<1>4. \A d \in 0 .. 8 : DiagonalSum(d) = L(d, 0) + L(d, 1) + L(d, 2) + L(d, 3) + L(d, 4)
  <2> SUFFICES ASSUME NEW d \in 0 .. 8
               PROVE  DiagonalSum(d) = L(d, 0) + L(d, 1) + L(d, 2) + L(d, 3) + L(d, 4)
    OBVIOUS
  <2> HIDE DEF L
  <2>1. /\ LaneProducts(d)[0] = L(d, 0) /\ LaneProducts(d)[1] = L(d, 1)
        /\ LaneProducts(d)[2] = L(d, 2) /\ LaneProducts(d)[3] = L(d, 3)
        /\ LaneProducts(d)[4] = L(d, 4)
    BY <1>3
  <2> QED BY <2>1 DEF DiagonalSum, Sum
<1>5. DiagonalSum(0) = Q(0, 0)
  BY <1>2, <1>4
<1>6. DiagonalSum(1) = Q(0, 1) + Q(1, 0)
  BY <1>2, <1>4
<1>7. DiagonalSum(2) = Q(0, 2) + Q(1, 1) + Q(2, 0)
  BY <1>2, <1>4
<1>8. DiagonalSum(3) = Q(0, 3) + Q(1, 2) + Q(2, 1) + Q(3, 0)
  BY <1>2, <1>4
<1>9. DiagonalSum(4) = Q(0, 4) + Q(1, 3) + Q(2, 2) + Q(3, 1) + Q(4, 0)
  BY <1>2, <1>4
<1>10. DiagonalSum(5) = Q(1, 4) + Q(2, 3) + Q(3, 2) + Q(4, 1)
  BY <1>2, <1>4
<1>11. DiagonalSum(6) = Q(2, 4) + Q(3, 3) + Q(4, 2)
  BY <1>2, <1>4
<1>12. DiagonalSum(7) = Q(3, 4) + Q(4, 3)
  BY <1>2, <1>4
<1>13. DiagonalSum(8) = Q(4, 4)
  BY <1>2, <1>4
<1> QED BY <1>5, <1>6, <1>7, <1>8, <1>9, <1>10, <1>11, <1>12, <1>13 DEF Q

(* Folding loses nothing, and leaves the limbs congruent to the product.    *)
LEMMA FoldStepInv ==
  ASSUME MulWidths, MulInv, Fold
  PROVE  MulInv'
<1>1. /\ a_limb \in Element /\ b_limb \in Element /\ state = "FOLD"
      /\ \A d \in Diagonal : coeff[d] = DiagonalSum(d)
      /\ UNCHANGED <<a_limb, b_limb, done, coeff, product, diag, candidate>>
  BY DEF MulInv, TypeInv, DiagonalInv, Fold
<1>2. Square \in Nat /\ Square > 0 /\ 262144 * Square = 262144 * (Radix * Radix)
  BY Sizes DEF Square
<1>3. \A d \in Diagonal : coeff[d] \in Nat /\ coeff[d] <= 5 * Square
  BY <1>1, DiagonalBound
<1>4. \A i \in 0 .. 3 :
        /\ coeff[i] + FieldC * coeff[i + 5] \in Nat
        /\ coeff[i] + FieldC * coeff[i + 5] <= 325 * Square
        /\ Wide(coeff[i] + FieldC * coeff[i + 5]) = coeff[i] + FieldC * coeff[i + 5]
  <2> SUFFICES ASSUME NEW i \in 0 .. 3
               PROVE  /\ coeff[i] + FieldC * coeff[i + 5] \in Nat
                      /\ coeff[i] + FieldC * coeff[i + 5] <= 325 * Square
                      /\ Wide(coeff[i] + FieldC * coeff[i + 5]) = coeff[i] + FieldC * coeff[i + 5]
    OBVIOUS
  <2>1. coeff[i] \in Nat /\ coeff[i + 5] \in Nat /\ coeff[i] <= 5 * Square
        /\ coeff[i + 5] <= 5 * Square
    BY <1>3 DEF Diagonal, LIMBS
  <2>2. FieldC * coeff[i + 5] \in Nat /\ FieldC * coeff[i + 5] <= 64 * coeff[i + 5]
    BY <2>1, TimesConstant
  <2> DEFINE n == coeff[i] + FieldC * coeff[i + 5]
  <2>3. n \in Nat /\ n <= 325 * Square
    BY <1>2, <2>1, <2>2
  <2>4. 262144 * (Radix * Radix) \in Nat /\ n < 262144 * (Radix * Radix)
    BY <1>2, <2>3
  <2> HIDE DEF n
  <2>5. Wide(n) = n
    BY <2>3, <2>4, SmallMod DEF Wide
  <2> QED BY <2>3, <2>5 DEF n
<1>5. /\ red' \in [LimbIndex -> Nat]
      /\ red'[0] = coeff[0] + FieldC * coeff[5] /\ red'[1] = coeff[1] + FieldC * coeff[6]
      /\ red'[2] = coeff[2] + FieldC * coeff[7] /\ red'[3] = coeff[3] + FieldC * coeff[8]
      /\ red'[4] = coeff[4]
      /\ \A i \in LimbIndex : red'[i] <= 400 * Square
  BY <1>2, <1>3, <1>4 DEF Fold, LimbIndex, LIMBS, Diagonal
<1>6. \E k \in Int : Number(a_limb) * Number(b_limb) = Number(red') + k * FieldP
  <2>1. \A i \in LimbIndex : a_limb[i] \in Nat /\ b_limb[i] \in Nat
    BY <1>1, Sizes DEF Element
  <2>2. Radix \in Nat /\ FieldC \in Nat
    BY Sizes
  <2> DEFINE k == coeff[5] + Radix * (coeff[6] + Radix * (coeff[7] + Radix * coeff[8]))
  <2>3. k \in Int
    BY <1>3, <2>2 DEF Diagonal, LIMBS
  <2>4. /\ \A d \in 0 .. 8 : coeff[d] = DiagonalSum(d)
        /\ Number(red') = (coeff[0] + FieldC * coeff[5]) + Radix * ((coeff[1] + FieldC * coeff[6])
                            + Radix * ((coeff[2] + FieldC * coeff[7])
                              + Radix * ((coeff[3] + FieldC * coeff[8]) + Radix * coeff[4])))
        /\ FieldP = Radix * Radix * Radix * Radix * Radix - FieldC
    BY <1>1, <1>5 DEF Number, FieldP, Radix5, Diagonal, LIMBS
  <2>5. Number(a_limb) * Number(b_limb) = Number(red') + k * FieldP
    <3> DEFINE a0 == a_limb[0]  a1 == a_limb[1]  a2 == a_limb[2]  a3 == a_limb[3]
               a4 == a_limb[4]
               b0 == b_limb[0]  b1 == b_limb[1]  b2 == b_limb[2]  b3 == b_limb[3]
               b4 == b_limb[4]
               d0 == coeff[0]  d1 == coeff[1]  d2 == coeff[2]  d3 == coeff[3]  d4 == coeff[4]
               d5 == coeff[5]  d6 == coeff[6]  d7 == coeff[7]  d8 == coeff[8]
               low == (d0 + FieldC * d5) + Radix * ((d1 + FieldC * d6)
                        + Radix * ((d2 + FieldC * d7) + Radix * ((d3 + FieldC * d8) + Radix * d4)))
    <3>1. /\ a0 \in Nat /\ a1 \in Nat /\ a2 \in Nat /\ a3 \in Nat /\ a4 \in Nat
          /\ b0 \in Nat /\ b1 \in Nat /\ b2 \in Nat /\ b3 \in Nat /\ b4 \in Nat
      BY <2>1 DEF LimbIndex, LIMBS
    <3>2. /\ d0 = a0 * b0
          /\ d1 = a0 * b1 + a1 * b0
          /\ d2 = a0 * b2 + a1 * b1 + a2 * b0
          /\ d3 = a0 * b3 + a1 * b2 + a2 * b1 + a3 * b0
          /\ d4 = a0 * b4 + a1 * b3 + a2 * b2 + a3 * b1 + a4 * b0
          /\ d5 = a1 * b4 + a2 * b3 + a3 * b2 + a4 * b1
          /\ d6 = a2 * b4 + a3 * b3 + a4 * b2
          /\ d7 = a3 * b4 + a4 * b3
          /\ d8 = a4 * b4
      BY <1>1, <2>4, DiagonalValues
    <3>3. Number(a_limb) = a0 + Radix * (a1 + Radix * (a2 + Radix * (a3 + Radix * a4)))
      BY DEF Number
    <3>4. Number(b_limb) = b0 + Radix * (b1 + Radix * (b2 + Radix * (b3 + Radix * b4)))
      BY DEF Number
    <3>5. Number(red') = low /\ k = d5 + Radix * (d6 + Radix * (d7 + Radix * d8))
      BY <2>4
    <3> HIDE DEF a0, a1, a2, a3, a4, b0, b1, b2, b3, b4, d0, d1, d2, d3, d4, d5, d6, d7, d8, k
    <3>6. (a0 + Radix * (a1 + Radix * (a2 + Radix * (a3 + Radix * a4))))
            * (b0 + Radix * (b1 + Radix * (b2 + Radix * (b3 + Radix * b4))))
          = low + (d5 + Radix * (d6 + Radix * (d7 + Radix * d8)))
                    * (Radix * Radix * Radix * Radix * Radix - FieldC)
      BY <2>2, <3>1, <3>2
    <3> QED BY <2>4, <3>3, <3>4, <3>5, <3>6
  <2> QED BY <2>3, <2>5
<1>7. TypeInv'
  BY <1>1, <1>5, ClearedTypes DEF MulInv, TypeInv, Fold, MulStates
<1>8. CarryInv'
  BY <1>1, <1>2, <1>5, <1>6
     DEF CarryInv, Congruent, CarryBound, Fold, NoCarry, LimbIndex, LIMBS, Square
<1> QED
  BY <1>1, <1>7, <1>8 DEF Fold, MulInv, DiagonalInv, PackInv, CandidateInv, ResultInv

(* The limb that is carried next stays small. *)
LEMMA CarryBoundSize ==
  ASSUME MulWidths, TypeInv
  PROVE  /\ CarryBound \in Nat /\ CarryBound <= 4400 * Square
         /\ carry.pass = 0 /\ carry.index = 4 => CarryBound = 2000 * Square
<1> DEFINE n == 400 * (carry.index + 1) + 2400 * carry.pass
<1>1. n \in 0 .. 4400 /\ (carry.pass = 0 /\ carry.index = 4 => n = 2000)
  BY DEF TypeInv, LimbIndex, LIMBS
<1>2. CarryBound = n * Square
  BY DEF CarryBound
<1> HIDE DEF n
<1>3. Square \in Nat
  BY Sizes
<1>4. n * Square \in Nat /\ n * Square <= 4400 * Square
  <2>1. (4400 - n) * Square \in Nat /\ n * Square \in Nat
    BY <1>1, <1>3
  <2>2. 4400 * Square = n * Square + (4400 - n) * Square
    BY <1>1, <1>3
  <2> QED BY <2>1, <2>2
<1> QED BY <1>1, <1>2, <1>4

(* No limb that is still being carried leaves its register. *)
LEMMA WideHolds ==
  ASSUME MulWidths, NEW n \in Nat, n <= 5000 * Square
  PROVE  Wide(n) = n
<1>1. Square \in Nat /\ Square > 0
  BY Sizes
<1>2. 262144 * (Radix * Radix) \in Nat /\ n < 262144 * (Radix * Radix)
  BY <1>1 DEF Square
<1> QED BY <1>2, SmallMod DEF Wide

(* A carry to the next limb keeps the number and the bounds.                *)
LEMMA CarryUpInv ==
  ASSUME MulWidths, MulInv, CarryStep, carry.index # 4
  PROVE  TypeInv' /\ CarryInv' /\ state' = "CARRY"
<1> USE DEF LimbIndex, LIMBS
<1> DEFINE i == carry.index
           q == red[i] \div Radix
           m == red[i] % Radix
           n == red[i + 1] + q
<1>1. /\ state = "CARRY" /\ red \in [LimbIndex -> Nat] /\ i \in 0 .. 3 /\ carry.pass \in {0, 1}
      /\ carry \in [index : LimbIndex, pass : {0, 1}]
      /\ UNCHANGED <<done, result, a_limb, b_limb, coeff, product, diag, candidate, state>>
      /\ carry' = [carry EXCEPT !.index = i + 1]
      /\ red' = [red EXCEPT ![i] = m, ![i + 1] = Wide(n)]
  BY DEF MulInv, TypeInv, CarryStep
<1>2. /\ CarryInv /\ CarryBound \in Nat /\ CarryBound <= 4400 * Square
      /\ Square \in Nat /\ Square >= Radix /\ Radix \in Nat /\ Radix > 0
  BY CarryBoundSize, Sizes DEF MulInv
<1>3. /\ red[i] \in Nat /\ red[i + 1] \in Nat
      /\ q \in Nat /\ m \in 0 .. Radix - 1 /\ red[i] = Radix * q + m /\ q <= red[i]
  <2>1. red[i] \in Nat /\ red[i + 1] \in Nat
    BY <1>1
  <2> DEFINE x == red[i]
  <2>2. x \in Nat /\ Radix \in Nat /\ Radix > 0
    BY <1>2, <2>1
  <2> HIDE DEF x
  <2>3. /\ x \div Radix \in Nat /\ x % Radix \in 0 .. Radix - 1
        /\ x = Radix * (x \div Radix) + (x % Radix) /\ x \div Radix <= x
    BY <2>2, DivMod
  <2> QED BY <2>1, <2>3 DEF x
<1>4. red[i] <= CarryBound /\ red[i + 1] <= 400 * Square /\ (carry.pass = 1 => red[i + 1] < Radix)
  BY <1>1, <1>2 DEF CarryInv
<1>5. n \in Nat /\ n <= 4800 * Square /\ n <= CarryBound + 400 * Square
  <2> HIDE DEF q, m
  <2> QED BY <1>2, <1>3, <1>4
<1>6. Wide(n) = n
  BY <1>2, <1>5, WideHolds
<1>7. TypeInv'
  BY <1>1, <1>3, <1>5, <1>6 DEF MulInv, TypeInv
<1>8. CarryBound' = CarryBound + 400 * Square
  <2> DEFINE t == 400 * (carry.index + 1) + 2400 * carry.pass
  <2>1. t \in Nat /\ CarryBound = t * Square /\ CarryBound' = (t + 400) * Square
    BY <1>1 DEF CarryBound, Square
  <2> HIDE DEF t
  <2> QED BY <1>2, <2>1
<1>9. Number(red') = Number(red)
  <2> DEFINE x0 == red[0]  x1 == red[1]  x2 == red[2]  x3 == red[3]  x4 == red[4]
  <2>1. x0 \in Nat /\ x1 \in Nat /\ x2 \in Nat /\ x3 \in Nat /\ x4 \in Nat
    BY <1>1
  <2>2. Number(red) = x0 + Radix * (x1 + Radix * (x2 + Radix * (x3 + Radix * x4)))
    BY DEF Number
  <2> DEFINE y0 == red'[0]  y1 == red'[1]  y2 == red'[2]  y3 == red'[3]  y4 == red'[4]
  <2>3. Number(red') = y0 + Radix * (y1 + Radix * (y2 + Radix * (y3 + Radix * y4)))
    BY DEF Number
  <2>4. \/ x0 = Radix * q + m /\ y0 = m /\ y1 = x1 + q /\ y2 = x2 /\ y3 = x3 /\ y4 = x4
        \/ x1 = Radix * q + m /\ y0 = x0 /\ y1 = m /\ y2 = x2 + q /\ y3 = x3 /\ y4 = x4
        \/ x2 = Radix * q + m /\ y0 = x0 /\ y1 = x1 /\ y2 = m /\ y3 = x3 + q /\ y4 = x4
        \/ x3 = Radix * q + m /\ y0 = x0 /\ y1 = x1 /\ y2 = x2 /\ y3 = m /\ y4 = x4 + q
    <3> HIDE DEF q, m
    <3>1. i = 0 \/ i = 1 \/ i = 2 \/ i = 3
      BY <1>1
    <3>2. CASE i = 0
      BY <1>1, <1>3, <1>6, <3>2
    <3>3. CASE i = 1
      BY <1>1, <1>3, <1>6, <3>3
    <3>4. CASE i = 2
      BY <1>1, <1>3, <1>6, <3>4
    <3>5. CASE i = 3
      BY <1>1, <1>3, <1>6, <3>5
    <3> QED BY <3>1, <3>2, <3>3, <3>4, <3>5
  <2> HIDE DEF x0, x1, x2, x3, x4, y0, y1, y2, y3, y4, q, m
  <2>5. m \in Nat
    BY <1>2, <1>3
  <2>6. CASE x0 = Radix * q + m /\ y0 = m /\ y1 = x1 + q /\ y2 = x2 /\ y3 = x3 /\ y4 = x4
    BY <1>2, <1>3, <2>1, <2>2, <2>3, <2>5, <2>6, CarryKeepsNumber
  <2>7. CASE x1 = Radix * q + m /\ y0 = x0 /\ y1 = m /\ y2 = x2 + q /\ y3 = x3 /\ y4 = x4
    BY <1>2, <1>3, <2>1, <2>2, <2>3, <2>5, <2>7, CarryKeepsNumber
  <2>8. CASE x2 = Radix * q + m /\ y0 = x0 /\ y1 = x1 /\ y2 = m /\ y3 = x3 + q /\ y4 = x4
    BY <1>2, <1>3, <2>1, <2>2, <2>3, <2>5, <2>8, CarryKeepsNumber
  <2>9. CASE x3 = Radix * q + m /\ y0 = x0 /\ y1 = x1 /\ y2 = x2 /\ y3 = m /\ y4 = x4 + q
    BY <1>2, <1>3, <2>1, <2>2, <2>3, <2>5, <2>9, CarryKeepsNumber
  <2> QED BY <2>4, <2>6, <2>7, <2>8, <2>9
<1>10. Congruent'
  BY <1>1, <1>2, <1>9 DEF CarryInv, Congruent, FieldP, Radix5, Number
<1>11. \A j \in LimbIndex : red'[j] = IF j = i THEN m ELSE IF j = i + 1 THEN n ELSE red[j]
  BY <1>1, <1>6
<1>12. CarryInv'
  <2> HIDE DEF n, q, m
  <2>1. red'[i + 1] <= CarryBound'
    BY <1>1, <1>5, <1>8, <1>11
  <2>2. ASSUME NEW j \in LimbIndex, j # i + 1
        PROVE  /\ red'[j] <= 400 * Square
               /\ j < i + 1 => red'[j] < Radix
               /\ carry.pass = 1 => red'[j] < Radix
    BY <1>1, <1>2, <1>3, <1>11, <2>2 DEF CarryInv
  <2>3. carry'.index = i + 1 /\ carry'.pass = carry.pass
    BY <1>1
  <2> QED BY <1>1, <1>2, <1>10, <2>1, <2>2, <2>3 DEF CarryInv, Square
<1> QED BY <1>1, <1>7, <1>12

(* The carry of the top limb comes back at the bottom: the class modulo the *)
(* prime stays.                                                             *)
LEMMA CarryRoundInv ==
  ASSUME MulWidths, MulInv, CarryStep, carry.index = 4
  PROVE  TypeInv' /\ CarryInv' /\ PackInv' /\ state' \in {"CARRY", "PACK"}
<1> USE DEF LimbIndex, LIMBS
<1> DEFINE q == red[4] \div Radix
           m == red[4] % Radix
           n == red[0] + FieldC * q
<1>1. /\ state = "CARRY" /\ red \in [LimbIndex -> Nat] /\ carry.pass \in {0, 1}
      /\ carry \in [index : LimbIndex, pass : {0, 1}]
      /\ UNCHANGED <<done, result, a_limb, b_limb, coeff, product, diag, candidate>>
      /\ red' = [red EXCEPT ![4] = m, ![0] = Wide(n)]
      /\ carry' \in [index : {0}, pass : {1}]
      /\ \/ carry.pass = 1 /\ state' = "PACK"
         \/ carry.pass = 0 /\ state' = "CARRY"
  <2>1. /\ state = "CARRY" /\ red \in [LimbIndex -> Nat] /\ carry.pass \in {0, 1}
        /\ carry \in [index : LimbIndex, pass : {0, 1}]
    BY DEF MulInv, TypeInv, CarryStep
  <2> QED BY <2>1 DEF CarryStep
<1>2. /\ CarryInv /\ CarryBound \in Nat /\ CarryBound <= 4400 * Square
      /\ (carry.pass = 0 => CarryBound = 2000 * Square)
      /\ Square \in Nat /\ Square >= Radix /\ Radix \in Nat /\ Radix > 0 /\ FieldC \in Nat
  BY CarryBoundSize, Sizes DEF MulInv
<1>3. q \in Nat /\ m \in 0 .. Radix - 1 /\ red[4] = Radix * q + m
  BY <1>1, <1>2, DivMod
<1>4. /\ red[4] <= CarryBound
      /\ red[0] < Radix /\ red[1] < Radix /\ red[2] < Radix /\ red[3] < Radix
  BY <1>1, <1>2 DEF CarryInv
<1>5. /\ n \in Nat /\ n <= 4401 * Square /\ (carry.pass = 0 => n <= 2800 * Square)
  <2>1. FieldC * q \in Nat /\ FieldC * q <= Radix * q
    BY <1>3, TimesConstant
  <2>2. Radix * q \in Nat
    BY <1>2, <1>3
  <2> DEFINE f == FieldC * q
             w == Radix * q
  <2> HIDE DEF q, m, f, w
  <2>3. f \in Nat /\ w \in Nat /\ f <= w /\ red[4] = w + m /\ n = red[0] + f
    BY <1>3, <2>1, <2>2 DEF f, w
  <2>4. red[0] \in Nat
    BY <1>1
  <2> HIDE DEF n
  <2> QED BY <1>2, <1>3, <1>4, <2>3, <2>4
<1>6. Wide(n) = n
  BY <1>2, <1>5, WideHolds
<1>7. TypeInv'
  BY <1>1, <1>3, <1>5, <1>6 DEF MulInv, TypeInv, MulStates
<1>8. /\ red'[0] = n /\ red'[1] = red[1] /\ red'[2] = red[2] /\ red'[3] = red[3] /\ red'[4] = m
  BY <1>1, <1>6
<1>9. Number(red) = Number(red') + q * FieldP
  <2> DEFINE x0 == red[0]  x1 == red[1]  x2 == red[2]  x3 == red[3]
  <2>1. x0 \in Nat /\ x1 \in Nat /\ x2 \in Nat /\ x3 \in Nat /\ m \in Nat
    BY <1>1, <1>2, <1>3
  <2>2. Number(red) = x0 + Radix * (x1 + Radix * (x2 + Radix * (x3 + Radix * (Radix * q + m))))
    BY <1>3 DEF Number
  <2>3. Number(red')
          = (x0 + FieldC * q) + Radix * (x1 + Radix * (x2 + Radix * (x3 + Radix * m)))
    BY <1>8 DEF Number
  <2>4. FieldP = Radix * Radix * Radix * Radix * Radix - FieldC
    BY DEF FieldP, Radix5
  <2> HIDE DEF x0, x1, x2, x3, q, m
  <2> QED BY <1>2, <1>3, <2>1, <2>2, <2>3, <2>4, FoldKeepsClass
<1>10. Congruent'
  <2>1. PICK k \in Int : Number(a_limb) * Number(b_limb) = Number(red) + k * FieldP
    BY <1>1, <1>2 DEF CarryInv, Congruent
  <2>2. Number(red') \in Int /\ FieldP \in Int
    <3>1. n \in Int /\ m \in Int /\ red[1] \in Int /\ red[2] \in Int /\ red[3] \in Int
      BY <1>1, <1>2, <1>3, <1>5
    <3> HIDE DEF n, m
    <3> QED BY <1>2, <1>8, <3>1, Sizes DEF Number
  <2> HIDE DEF q, m, n
  <2>3. Number(a_limb) * Number(b_limb) = Number(red') + (k + q) * FieldP
    <3> DEFINE A == Number(a_limb) * Number(b_limb)
               B == Number(red)
               C == Number(red')
               P == FieldP
    <3>1. A = B + k * P /\ B = C + q * P /\ C \in Int /\ P \in Int
      BY <1>9, <2>1, <2>2
    <3> HIDE DEF A, B, C, P
    <3>2. A = C + (k + q) * P
      BY <1>3, <3>1
    <3> QED BY <3>2 DEF A, C, P
  <2>4. k + q \in Int
    BY <1>3
  <2>5. Number(a_limb)' = Number(a_limb) /\ Number(b_limb)' = Number(b_limb)
    BY <1>1 DEF Number
  <2> QED BY <2>3, <2>4, <2>5 DEF Congruent, FieldP, Radix5
<1>11. \A j \in 1 .. 4 : red'[j] < Radix
  BY <1>2, <1>3, <1>4, <1>8
<1>12. CarryInv'
  <2>1. CASE state' = "PACK"
    BY <2>1 DEF CarryInv
  <2>2. CASE state' = "CARRY"
    <3>1. carry.pass = 0 /\ carry'.index = 0 /\ carry'.pass = 1
      BY <1>1, <2>2
    <3>2. CarryBound' = 2800 * Square
      BY <1>2, <3>1 DEF CarryBound, Square
    <3> HIDE DEF n, m, q
    <3>3. red'[0] <= CarryBound'
      BY <1>5, <1>8, <3>1, <3>2
    <3>4. \A j \in 1 .. 4 : red'[j] <= 400 * Square
      BY <1>2, <1>7, <1>11 DEF TypeInv
    <3> QED BY <1>10, <1>11, <3>1, <3>3, <3>4 DEF CarryInv, Square
  <2> QED BY <1>1, <2>1, <2>2
<1>13. PackInv'
  BY <1>10, <1>11 DEF PackInv
<1> QED BY <1>1, <1>7, <1>12, <1>13

(* An edge of the carry passes. *)
LEMMA CarryStepInv ==
  ASSUME MulWidths, MulInv, CarryStep
  PROVE  MulInv'
<1>1. /\ state = "CARRY" /\ UNCHANGED <<done, a_limb, b_limb, result>>
      /\ ~done /\ carry.index \in LimbIndex
  BY DEF MulInv, TypeInv, CarryStep, ResultInv
<1>2. CASE carry.index # 4
  <2>1. TypeInv' /\ CarryInv' /\ state' = "CARRY"
    BY <1>2, CarryUpInv
  <2> QED BY <1>1, <2>1 DEF MulInv, DiagonalInv, PackInv, CandidateInv, ResultInv
<1>3. CASE carry.index = 4
  <2>1. TypeInv' /\ CarryInv' /\ PackInv' /\ state' \in {"CARRY", "PACK"}
    BY <1>3, CarryRoundInv
  <2> QED BY <1>1, <2>1 DEF MulInv, DiagonalInv, CandidateInv, ResultInv
<1> QED BY <1>2, <1>3
-----------------------------------------------------------------------------
(* One more limb under a bounded number. *)
LEMMA Horner ==
  ASSUME NEW r \in Nat, NEW x \in 0 .. r - 1, NEW b \in Nat, NEW y \in Nat, y < b
  PROVE  x + r * y \in Nat /\ x + r * y < r * b
<1>1. r * y \in Nat /\ r * b \in Nat /\ r * y <= r * b - r
  <2>1. b = y + 1 + (b - y - 1) /\ b - y - 1 \in Nat
    OBVIOUS
  <2>2. r * b = r * y + r + r * (b - y - 1)
    OBVIOUS
  <2>3. r * (b - y - 1) \in Nat /\ r * y \in Nat /\ r * b \in Nat
    BY <2>1
  <2> QED BY <2>2, <2>3
<1> QED BY <1>1

(* Five limbs of their width stay below the fifth power of the radix. *)
LEMMA NumberBound ==
  ASSUME MulWidths, NEW l \in Element
  PROVE  Number(l) \in Nat /\ Number(l) < Radix5
<1> DEFINE R1 == Radix * 1
           R2 == Radix * R1
           R3 == Radix * R2
           R4 == Radix * R3
           R5 == Radix * R4
           n4 == l[4] + Radix * 0
           n3 == l[3] + Radix * n4
           n2 == l[2] + Radix * n3
           n1 == l[1] + Radix * n2
           n0 == l[0] + Radix * n1
<1>1. /\ Radix \in Nat
      /\ l[0] \in 0 .. Radix - 1 /\ l[1] \in 0 .. Radix - 1 /\ l[2] \in 0 .. Radix - 1
      /\ l[3] \in 0 .. Radix - 1 /\ l[4] \in 0 .. Radix - 1
  BY Sizes DEF Element, LimbIndex, LIMBS
<1>2. Number(l) = n0 /\ Radix5 = R5
  BY <1>1 DEF Number, Radix5
<1>3. R1 \in Nat /\ R2 \in Nat /\ R3 \in Nat /\ R4 \in Nat
  BY <1>1
<1>4. n4 \in Nat /\ n4 < R1
  BY <1>1, Horner
<1> HIDE DEF n4, R1
<1>5. n3 \in Nat /\ n3 < R2
  BY <1>1, <1>3, <1>4, Horner
<1> HIDE DEF n3, R2
<1>6. n2 \in Nat /\ n2 < R3
  BY <1>1, <1>3, <1>5, Horner
<1> HIDE DEF n2, R3
<1>7. n1 \in Nat /\ n1 < R4
  BY <1>1, <1>3, <1>6, Horner
<1> HIDE DEF n1, R4
<1>8. n0 \in Nat /\ n0 < R5
  BY <1>1, <1>3, <1>7, Horner
<1> QED BY <1>2, <1>8

(* Packing keeps the number when no limb is over its width.                 *)
LEMMA PackStepInv ==
  ASSUME MulWidths, MulInv, Pack
  PROVE  MulInv'
<1> DEFINE l == [i \in LimbIndex |-> red[i] % Radix]
<1>1. /\ state = "PACK" /\ ~done /\ red \in [LimbIndex -> Nat] /\ Congruent
      /\ \A i \in 1 .. 4 : red[i] < Radix
      /\ UNCHANGED <<done, a_limb, b_limb, result, red>>
      /\ candidate' = [candidate EXCEPT !.number = Number(l)]
  BY DEF MulInv, TypeInv, PackInv, ResultInv, Pack
<1>2. Radix \in Nat /\ Radix > 0
  BY Sizes
<1>3. \A i \in LimbIndex : red[i] % Radix \in 0 .. Radix - 1
                          /\ (red[i] < Radix => red[i] % Radix = red[i])
  BY <1>1, <1>2, DivMod, SmallMod
<1>4. Number(l) \in Nat /\ Number(l) < Radix5
  BY <1>3, NumberBound DEF Element
<1>5. red[0] < Radix => Number(l) = Number(red)
  BY <1>1, <1>3 DEF Number, LimbIndex, LIMBS
<1> HIDE DEF l
<1>6. TypeInv'
  BY <1>1, <1>4 DEF MulInv, TypeInv, Pack, MulStates
<1>7. Number(red)' = Number(red) /\ Congruent'
  BY <1>1 DEF Congruent, Number, FieldP, Radix5
<1>8. CandidateInv' /\ PackInv'
  <2>1. candidate'.number = Number(l)
    BY <1>1 DEF MulInv, TypeInv
  <2> QED BY <1>1, <1>4, <1>5, <1>7, <2>1 DEF CandidateInv, PackInv, Pack, Radix5
<1> QED
  BY <1>1, <1>6, <1>8 DEF Pack, MulInv, DiagonalInv, CarryInv, ResultInv

(* The edge that subtracts the prime and compares. *)
LEMMA ReduceStepInv ==
  ASSUME MulWidths, MulInv, Reduce
  PROVE  MulInv'
<1>1. /\ state = "REDUCE" /\ ~done /\ Congruent /\ state' = "FINISH"
      /\ \A i \in 1 .. 4 : red[i] < Radix
      /\ UNCHANGED <<done, a_limb, b_limb, result, red>>
      /\ candidate \in [number : Nat, minus_p : Int, ge_p : BOOLEAN]
      /\ candidate.number < Radix5
      /\ red[0] < Radix => candidate.number = Number(red)
      /\ candidate' = [candidate EXCEPT !.minus_p = (candidate.number - FieldP) % Radix5,
                                        !.ge_p = (candidate.number >= FieldP)]
  BY DEF MulInv, TypeInv, PackInv, CandidateInv, ResultInv, Reduce
<1>2. Congruent' /\ Number(red)' = Number(red)
  BY <1>1 DEF Congruent, Number, FieldP, Radix5
<1>3. (candidate.number - FieldP) % Radix5 \in Int
  BY <1>1, Sizes
<1>4. TypeInv'
  <2> DEFINE m == (candidate.number - FieldP) % Radix5
             g == (candidate.number >= FieldP)
  <2>1. m \in Int /\ g \in BOOLEAN
    BY <1>3
  <2>2. candidate' = [candidate EXCEPT !.minus_p = m, !.ge_p = g]
    BY <1>1
  <2> HIDE DEF m, g
  <2>3. candidate' \in [number : Nat, minus_p : Int, ge_p : BOOLEAN]
    BY <1>1, <2>1, <2>2
  <2> QED BY <1>1, <2>3 DEF MulInv, TypeInv, Reduce, MulStates
<1>5. CandidateInv'
  BY <1>1, <1>2 DEF CandidateInv, Radix5, FieldP
<1> QED
  BY <1>1, <1>2, <1>4, <1>5 DEF Reduce, MulInv, DiagonalInv, CarryInv, PackInv, ResultInv

(* The one subtraction of the prime is enough. *)
LEMMA FinishStepInv ==
  ASSUME MulWidths, MulInv, Finish
  PROVE  MulInv'
<1> DEFINE n == candidate.number
           P == FieldP
           AB == Number(a_limb) * Number(b_limb)
<1>1. /\ state = "FINISH" /\ state' = "IDLE" /\ Congruent
      /\ UNCHANGED <<a_limb, b_limb, red>>
      /\ candidate.ge_p = (n >= P) /\ candidate.minus_p = (n - P) % Radix5
      /\ n \in Nat /\ n < Radix5 /\ (red[0] < Radix => n = Number(red))
      /\ result' = IF candidate.ge_p THEN candidate.minus_p ELSE n
  BY DEF MulInv, TypeInv, PackInv, CandidateInv, Finish
<1>2. P \in Nat /\ Radix5 \in Nat /\ FieldC \in Nat /\ P = Radix5 - FieldC /\ FieldC < P
  BY Sizes DEF FieldP
<1>3. ASSUME red[0] < Radix PROVE result' = AB % P
  <2>1. PICK k \in Int : AB = n + k * P
    BY <1>1, <1>3 DEF Congruent
  <2> HIDE DEF n, P, AB
  <2>2. CASE n >= P
    <3>1. n - P \in Nat /\ n - P < Radix5 /\ n - P < P
      BY <1>1, <1>2, <2>2
    <3>2. result' = n - P
      BY <1>1, <1>2, <2>2, <3>1, SmallMod
    <3>3. AB = (n - P) + (k + 1) * P /\ k + 1 \in Int
      BY <1>1, <1>2, <2>1
    <3> QED BY <1>2, <3>1, <3>2, <3>3, ModUnique
  <2>3. CASE ~(n >= P)
    <3>1. n < P
      BY <1>1, <1>2, <2>3
    <3>2. ~candidate.ge_p
      BY <1>1, <2>3
    <3>3. result' = n
      BY <1>1, <3>2
    <3> QED BY <1>1, <1>2, <2>1, <3>1, <3>3, ModUnique
  <2> QED BY <2>2, <2>3
<1>4. AB' = AB /\ P' = P
  BY <1>1 DEF Number, FieldP, Radix5
<1>5. ResultInv'
  BY <1>1, <1>3, <1>4 DEF ResultInv, ProductUnlessCut
<1>6. TypeInv'
  BY DEF MulInv, TypeInv, Finish, MulStates
<1> QED
  BY <1>1, <1>5, <1>6 DEF MulInv, DiagonalInv, CarryInv, PackInv, CandidateInv

(* done falls, or nothing happens. *)
LEMMA RestInv ==
  ASSUME MulWidths, MulInv, Rest \/ UNCHANGED vars
  PROVE  MulInv'
<1>1. CASE Rest
  <2>1. TypeInv'
    BY <1>1 DEF MulInv, TypeInv, Rest
  <2> QED
    BY <1>1, <2>1 DEF Rest, MulInv, DiagonalInv, CarryInv, PackInv, CandidateInv, ResultInv
<1>2. CASE UNCHANGED vars
  BY <1>2 DEF vars, MulInv, TypeInv, DiagonalInv, DiagonalSum, LaneProducts, Sum, CarryInv,
              CarryBound, Square, Congruent, Number, FieldP, Radix5, PackInv, CandidateInv,
              ResultInv, ProductUnlessCut
<1> QED BY <1>1, <1>2
-----------------------------------------------------------------------------
(* In every reachable state of the multiplier: the diagonals are the sums   *)
(* of the limb products, from the fold on the limbs are congruent to the    *)
(* product, and none of them has left its register.                         *)
THEOREM MulInvariant ==
  ASSUME MulWidths
  PROVE  Spec => []MulInv
<1>1. Init => MulInv
  BY InitInv
<1>2. MulInv /\ [Next]_vars => MulInv'
  <2> SUFFICES ASSUME MulInv, [Next]_vars PROVE MulInv'
    OBVIOUS
  <2>1. CASE \E o \in Operands : Start(o[1], o[2])
    BY <2>1, StartInv
  <2>2. CASE Work
    BY <2>2, MulStepInv, MulFlushInv, FoldStepInv, CarryStepInv, PackStepInv, ReduceStepInv,
       FinishStepInv DEF Work
  <2>3. CASE Reset
    BY <2>3, ResetInv
  <2>4. CASE Rest \/ UNCHANGED vars
    BY <2>4, RestInv
  <2> QED BY <2>1, <2>2, <2>3, <2>4 DEF Next
<1> QED BY <1>1, <1>2, PTL DEF Spec

(* The result that comes with done is the product modulo the prime, unless  *)
(* the last fold lifted limb 0 to the radix: that carry is the one the code *)
(* does not pass on.                                                        *)
THEOREM ProductExceptCut ==
  ASSUME MulWidths
  PROVE  Spec => []ProductUnlessCut
<1>1. MulInv => ProductUnlessCut
  BY DEF MulInv, ResultInv, ProductUnlessCut
<1> QED BY <1>1, MulInvariant, PTL
=============================================================================
