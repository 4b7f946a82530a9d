--------------------------- MODULE MCVerifyEngine ---------------------------
(* Values for model checking VerifyEngine. The public key has large order,  *)
(* small order or both parts; R solves the equation, misses it by a point   *)
(* of small order or by one of large order.                                 *)
EXTENDS VerifyEngine

Keys   == {8, 13, 1}
Misses == {0, 13, 8}

(* The encoding of a point.                                                 *)
Encode(p) == IF p <= 4 * Order THEN [y |-> p, sign |-> 0] ELSE [y |-> Neg(p), sign |-> 1]
NoPoint == [y |-> Invalid, sign |-> 1]

MakeJob(key, miss, s, digest, mode) ==
  LET k == LittleEndian(digest) % Order
  IN  [A |-> key, R |-> Encode((s * BasePoint - k * Decode(key) + miss) % GroupOrder), s |-> s,
       digest |-> digest, hash_error |-> FALSE, mode |-> mode]

Ones == [i \in 1 .. DigestBytes |-> 1]
GoodJob == MakeJob(Encode(8), 0, 11, Ones, "strict")

(* Operands that end a job early, and a good job in each mode. *)
OddJobs == { [GoodJob EXCEPT !.A = NoPoint], [GoodJob EXCEPT !.R = NoPoint],
             [GoodJob EXCEPT !.hash_error = TRUE], [GoodJob EXCEPT !.s = 63],
             [GoodJob EXCEPT !.s = 5, !.R = NoPoint] }
MCLater == {GoodJob, [GoodJob EXCEPT !.R = NoPoint]}

(* Keys and R of every small order, in every encoding.  Each key gets the R *)
(* that solves its equation; 5 is the challenge of the digest, so the R that *)
(* solves the equation of key 8 is the identity.                            *)
SmallEncodings == [y : {n * Order : n \in 0 .. 4}, sign : {0, 1}]
SmallJobs == UNION {
  { MakeJob(e, 0, s, Ones, mode), [MakeJob(Encode(8), 0, 5, Ones, mode) EXCEPT !.R = e] } :
      e \in SmallEncodings, s \in {0, 5}, mode \in {"strict", "agave_zebra"} }

MCJobs == OddJobs \cup MCLater \cup SmallJobs \cup
  { MakeJob(Encode(a), miss, s, digest, mode) :
      a \in Keys, miss \in Misses, s \in 0 .. Order, digest \in Digests,
      mode \in {"strict", "agave_zebra"} }
=============================================================================
