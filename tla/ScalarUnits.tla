---------------------------- MODULE ScalarUnits -----------------------------
(***************************************************************************)
(* scalar_reduce_mod_l.v and scalar_wnaf4_recode.v, one operator per clock *)
(* edge of a working unit: the hash digest modulo the group order, bit by  *)
(* bit from the top, and the recoding of a scalar into signed odd digits,  *)
(* bit by bit from the bottom. Widths and the order are constants; the     *)
(* width of a digit, four bits, is the code's.                             *)
(***************************************************************************)
EXTENDS Integers

CONSTANTS
  Order,        (* ED25519_SCALAR_L                                         *)
  ScalarBits,   (* 256; the order needs three bits less, 253                *)
  DigestBytes,  (* 64                                                       *)
  ByteBits      (* 8                                                        *)

Pow2[n \in Nat] == IF n = 0 THEN 1 ELSE 2 * Pow2[n - 1]

ASSUME ScalarAssumption ==
  /\ Order \in Nat \ {0, 1}
  /\ ScalarBits \in Nat /\ 4 * Order <= Pow2[ScalarBits]
  /\ DigestBytes \in Nat \ {0}
  /\ ByteBits \in Nat \ {0}

ByteRadix == Pow2[ByteBits]
WideBits  == DigestBytes * ByteBits
Wide      == Pow2[WideBits]
BitIndex  == 0 .. ScalarBits - 1
Digit     == 0 .. 15
Digests   == [1 .. DigestBytes -> 0 .. ByteRadix - 1]

(* The number the n topmost bytes stand for, the first byte the lowest.     *)
TopBytes(bytes) ==
  LET top[n \in 0 .. DigestBytes] ==
        IF n = 0 THEN 0 ELSE ByteRadix * top[n - 1] + bytes[DigestBytes - n + 1]
  IN  top
LittleEndian(bytes) == TopBytes(bytes)[DigestBytes]
-----------------------------------------------------------------------------
(* Reduction. The digest's first byte is the top byte of wide_in; the shift *)
(* register takes the bytes in the opposite order and leaves at its top.    *)
ShiftRegister(digest) == LittleEndian(digest)

ReduceStart(digest) ==
  [shift |-> ShiftRegister(digest), remainder |-> 0, left |-> WideBits]

(* Mutant: the order itself is not subtracted. *)
ReduceEdgeLoose(unit) ==
  LET candidate == 2 * unit.remainder + (IF 2 * unit.shift >= Wide THEN 1 ELSE 0)
  IN  [shift     |-> (2 * unit.shift) % Wide,
       remainder |-> IF candidate > Order THEN candidate - Order ELSE candidate,
       left      |-> unit.left - 1]

(* left counts the bits still to come: bit_index, and one more while busy.  *)
ReduceEdge(unit) ==
  LET candidate == 2 * unit.remainder + (IF 2 * unit.shift >= Wide THEN 1 ELSE 0)
  IN  [shift     |-> (2 * unit.shift) % Wide,
       remainder |-> IF candidate >= Order THEN candidate - Order ELSE candidate,
       left      |-> unit.left - 1]

IdleReduce == [shift |-> 0, remainder |-> 0, left |-> 0]
-----------------------------------------------------------------------------
(* Recoding. A digit is a four-bit two's complement number. *)

DigitNegative(d) == d >= 8
DigitAbs(d)      == IF DigitNegative(d) THEN 16 - d ELSE d
DigitValue(d)    == IF DigitNegative(d) THEN d - 16 ELSE d

RecodeStart(scalar) == [work |-> scalar, bit |-> 0]
IdleRecode          == [work |-> 0, bit |-> 0]

RecodeDigit(unit) == IF unit.work % 2 = 1 THEN unit.work % 16 ELSE 0

(* Mutant: a negative digit is subtracted by its absolute value too. *)
AdjustedAlwaysDown(unit) == unit.work - DigitAbs(RecodeDigit(unit))
Adjusted(unit) ==
  LET d == RecodeDigit(unit)
  IN  IF DigitNegative(d) THEN unit.work + DigitAbs(d) ELSE unit.work - DigitAbs(d)

(* The work register has one bit more than the scalar. *)
RecodeEdge(unit) ==
  [work |-> (Adjusted(unit) % Pow2[ScalarBits + 1]) \div 2, bit |-> unit.bit + 1]
-----------------------------------------------------------------------------
(* What the units are for: the value of the digits and their sparseness.    *)
TopDigits(digits) ==
  LET top[n \in 0 .. ScalarBits] ==
        IF n = 0 THEN 0 ELSE 2 * top[n - 1] + DigitValue(digits[ScalarBits - n])
  IN  top
WnafValue(digits) == TopDigits(digits)[ScalarBits]

WnafOf(digits, scalar) ==
  /\ WnafValue(digits) = scalar
  /\ \A i \in DOMAIN digits : digits[i] # 0 =>
       /\ digits[i] % 2 = 1
       /\ \A j \in DOMAIN digits : j \in i + 1 .. i + 3 => digits[j] = 0
=============================================================================
