----------------------------- MODULE MCMulWide ------------------------------
(* Values for model checking MulWide: limbs of three bits, the prime's      *)
(* place taken by 2^15 - 3, and operands whose limbs are small or full.     *)
EXTENDS MulWide

Edges == [LimbIndex -> {0, 1, Radix - 1}]
MCOperands == { o \in Edges \X { e \in Edges : \A i \in 1 .. 4 : e[i] = Radix - 1 } :
                  Number(o[1]) < FieldP /\ Number(o[2]) < FieldP }
=============================================================================
