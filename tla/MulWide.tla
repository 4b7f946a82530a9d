------------------------------ MODULE MulWide -------------------------------
(***************************************************************************)
(* fe25519_mul_wide_core.v: the multiplier of the point core. Five limbs   *)
(* by five limbs, one diagonal of products per edge through a product      *)
(* register; the upper diagonals folded onto the lower ones; two passes of *)
(* carries; the limbs packed into a candidate and reduced once. One clock  *)
(* edge per step. The widths of coefficients and limbs leave six and       *)
(* eighteen bits above a product, as in the code.                          *)
(***************************************************************************)
EXTENDS Integers

CONSTANTS
  Radix,       (* 2^LIMB_BITS, 2^51                                         *)
  FieldC,      (* 19: the prime is Radix^5 - FieldC                         *)
  Operands     (* bound: the pairs that are offered                         *)

LIMBS     == 5
LimbIndex == 0 .. LIMBS - 1
Diagonal  == 0 .. 2 * LIMBS - 2                     (* PRODUCT_LIMBS of them *)

(* A 255-bit input, as its limbs. *)
Element == [LimbIndex -> 0 .. Radix - 1]

(* What the theorems suppose of the widths. *)
MulWidths ==
  /\ Radix \in Nat /\ FieldC \in 1 .. 64 /\ FieldC < Radix
  /\ Operands \subseteq Element \X Element

Radix5 == Radix * Radix * Radix * Radix * Radix
FieldP == Radix5 - FieldC

Number(limb) ==
  limb[0] + Radix * (limb[1] + Radix * (limb[2] + Radix * (limb[3] + Radix * limb[4])))

VARIABLES
  state, done, result,
  a_limb, b_limb,
  coeff, red,
  product,     (* product0_reg .. product4_reg                              *)
  diag,        (* diag_index, product_diag_index, product_valid             *)
  carry,       (* carry_index, carry_pass                                   *)
  candidate    (* candidate_reg, candidate_minus_p_reg, candidate_ge_p_reg  *)

vars == <<state, done, result, a_limb, b_limb, coeff, red, product, diag, carry, candidate>>

NoLimbs  == [i \in LimbIndex |-> 0]
NoDiag   == [index |-> 0, registered |-> 0, valid |-> FALSE]
NoCarry  == [index |-> 0, pass |-> 0]
NoNumber == [number |-> 0, minus_p |-> 0, ge_p |-> FALSE]

Init ==
  /\ state = "IDLE" /\ done = FALSE /\ result = 0
  /\ a_limb = NoLimbs /\ b_limb = NoLimbs /\ product = NoLimbs
  /\ coeff = [d \in Diagonal |-> 0] /\ red = NoLimbs
  /\ diag = NoDiag /\ carry = NoCarry /\ candidate = NoNumber
-----------------------------------------------------------------------------
(* What registers of 108 and of 120 bits keep of a number.                  *)
Coefficient(n) == n % (64 * (Radix * Radix))
Wide(n)        == n % (262144 * (Radix * Radix))

Start(a, b) ==
  /\ state = "IDLE" /\ state' = "MUL" /\ done' = FALSE /\ result' = 0
  /\ a_limb' = a /\ b_limb' = b
  /\ coeff' = [d \in Diagonal |-> 0] /\ red' = NoLimbs
  /\ diag' = NoDiag /\ carry' = NoCarry /\ candidate' = NoNumber
  /\ UNCHANGED product

(* done is up for one edge. *)
Rest ==
  /\ state = "IDLE" /\ done /\ done' = FALSE
  /\ UNCHANGED <<state, result, a_limb, b_limb, coeff, red, product, diag, carry, candidate>>

(* Lane i multiplies limb i of a with the limb of b on the diagonal.        *)
LaneProducts(d) ==
  [i \in LimbIndex |-> IF d - i \in LimbIndex THEN a_limb[i] * b_limb[d - i] ELSE 0]

(* The diagonal of the edge before, summed from the product registers.      *)
CollectDiagonal ==
  LET sum == product[0] + product[1] + product[2] + product[3] + product[4]
  IN  coeff' = IF diag.valid THEN [coeff EXCEPT ![diag.registered] = Coefficient(sum)]
               ELSE coeff

Mul ==
  /\ state = "MUL"
  /\ product' = LaneProducts(diag.index)
  /\ CollectDiagonal
  /\ diag' = [index      |-> IF diag.index = 2 * LIMBS - 2 THEN diag.index ELSE diag.index + 1,
              registered |-> diag.index,
              valid      |-> TRUE]
  /\ state' = IF diag.index = 2 * LIMBS - 2 THEN "MUL_FLUSH" ELSE "MUL"
  /\ UNCHANGED <<done, result, a_limb, b_limb, red, carry, candidate>>

MulFlush ==
  /\ state = "MUL_FLUSH" /\ state' = "FOLD"
  /\ CollectDiagonal
  /\ diag' = [diag EXCEPT !.valid = FALSE]
  /\ UNCHANGED <<done, result, a_limb, b_limb, red, product, carry, candidate>>

(* Radix^5 is FieldC modulo the prime. *)
Fold ==
  /\ state = "FOLD" /\ state' = "CARRY"
  /\ red' = [i \in LimbIndex |->
               IF i = LIMBS - 1 THEN coeff[i] ELSE Wide(coeff[i] + FieldC * coeff[i + LIMBS])]
  /\ carry' = NoCarry
  /\ UNCHANGED <<done, result, a_limb, b_limb, coeff, product, diag, candidate>>

CarryStep ==
  LET i == carry.index
      c == red[i] \div Radix
  IN  /\ state = "CARRY"
      /\ IF i = LIMBS - 1
         THEN /\ red' = [red EXCEPT ![i] = @ % Radix, ![0] = Wide(@ + FieldC * c)]
              /\ IF carry.pass = 1
                 THEN state' = "PACK" /\ carry' = [carry EXCEPT !.index = 0]
                 ELSE carry' = [index |-> 0, pass |-> 1] /\ UNCHANGED state
         ELSE /\ red' = [red EXCEPT ![i] = @ % Radix, ![i + 1] = Wide(@ + c)]
              /\ carry' = [carry EXCEPT !.index = i + 1]
              /\ UNCHANGED state
      /\ UNCHANGED <<done, result, a_limb, b_limb, coeff, product, diag, candidate>>

(* normalized_candidate takes the low bits of every limb. *)
Pack ==
  /\ state = "PACK" /\ state' = "REDUCE"
  /\ candidate' = [candidate EXCEPT !.number = Number([i \in LimbIndex |-> red[i] % Radix])]
  /\ UNCHANGED <<done, result, a_limb, b_limb, coeff, red, product, diag, carry>>

Reduce ==
  /\ state = "REDUCE" /\ state' = "FINISH"
  /\ candidate' = [candidate EXCEPT !.minus_p = (candidate.number - FieldP) % Radix5,
                                    !.ge_p = (candidate.number >= FieldP)]
  /\ UNCHANGED <<done, result, a_limb, b_limb, coeff, red, product, diag, carry>>

Finish ==
  /\ state = "FINISH" /\ state' = "IDLE" /\ done' = TRUE
  /\ result' = IF candidate.ge_p THEN candidate.minus_p ELSE candidate.number
  /\ UNCHANGED <<a_limb, b_limb, coeff, red, product, diag, carry, candidate>>

(* engine_rst_n; the product registers have no reset. *)
Reset ==
  /\ state' = "IDLE" /\ done' = FALSE /\ result' = 0
  /\ a_limb' = NoLimbs /\ b_limb' = NoLimbs /\ UNCHANGED product
  /\ coeff' = [d \in Diagonal |-> 0] /\ red' = NoLimbs
  /\ diag' = NoDiag /\ carry' = NoCarry /\ candidate' = NoNumber

Work == Mul \/ MulFlush \/ Fold \/ CarryStep \/ Pack \/ Reduce \/ Finish
Next == (\E o \in Operands : Start(o[1], o[2])) \/ Rest \/ Work \/ Reset
Spec == Init /\ [][Next]_vars
-----------------------------------------------------------------------------
(* Whenever done is up, result is the product modulo the prime. The test    *)
(* "wide multiplier matches field reference" says so of every operand.      *)
ProductExact == done => result = (Number(a_limb) * Number(b_limb)) % FieldP

(* What the multiplier does promise: the product, unless the last fold      *)
(* lifted limb 0 above its width, where packing cuts it.                    *)
ProductUnlessCut ==
  done /\ red[0] < Radix => result = (Number(a_limb) * Number(b_limb)) % FieldP
=============================================================================
