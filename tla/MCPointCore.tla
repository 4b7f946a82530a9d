---------------------------- MODULE MCPointCore -----------------------------
(* Values for model checking PointCore over the field of 13 elements, the   *)
(* largest in which the code's own chain, with all its squarings, takes     *)
(* square roots: (13 - 1) / 4 divides 2^253 - 5. The curve with d = 6 has   *)
(* twenty points.                                                           *)
EXTENDS PointCore

Affine == { c \in Field \X Field : OnCurve(c[1], c[2]) }

(* The point c with third coordinate z. *)
Projective(c, z) == [x |-> (c[1] * z) % FieldP, y |-> (c[2] * z) % FieldP, z |-> z,
                     t |-> (c[1] * c[2] * z) % FieldP]
Neutral == Projective(<<0, 1>>, 1)

Op(op, encoded, a, b) == [op |-> op, encoded |-> encoded, a |-> a, b |-> b]
NoBytes == [sign |-> 0, y |-> 0]

Decompress(sign, y) == Op("DECOMPRESS", [sign |-> sign, y |-> y], Neutral, Neutral)
Sum(a, b)           == Op("ADD", NoBytes, a, b)
Twice(a)            == Op("DOUBLE", NoBytes, a, a)

Some == Projective(CHOOSE c \in Affine : c[1] # 0 /\ c[2] # 0, 7)

(* An addition of either kind, a doubling, a decompression that fails and   *)
(* one that succeeds, in any order.                                         *)
MCLater == { Sum(Some, Neutral), Sum(Some, Some), Twice(Some), Decompress(1, 3),
             Decompress(0, 2), Decompress(1, 4) }

MCRequests == MCLater
  \cup { Decompress(sign, y) : sign \in {0, 1}, y \in Raw }
  \cup { Twice(Projective(c, z)) : c \in Affine, z \in Field \ {0} }
  \cup { Sum(Projective(c, z), Projective(e, w)) :
           c \in Affine, e \in Affine, z \in {1, 5}, w \in {1, 7} }
=============================================================================
