------------------------- MODULE TransactionFormat -------------------------
(***************************************************************************)
(* What a serialized transaction is, as a grammar: which positions can end *)
(* a field that starts at a given one.  It says nothing about the order of *)
(* a scan or about errors, and is what Parser is compared with.            *)
(***************************************************************************)
EXTENDS Parser

Positions == 0 .. Len(data)

(* GroupBase^k *)
Weight(k) ==
  CASE k = 0 -> 1
    [] k = 1 -> GroupBase
    [] k = 2 -> GroupBase * GroupBase
    [] k = 3 -> GroupBase * GroupBase * GroupBase

(* The lengths that start at i, each with the position after it: the last   *)
(* byte alone is below GroupBase, and together they are the digits of the   *)
(* value, the lowest first.                                                 *)
LengthsAt(i) ==
  {l \in (0 .. U16Max) \X (i + 1 .. i + 3) :
    LET v == l[1]  j == l[2]  digits == i .. j - 1 IN
    /\ j \in Positions
    /\ \A k \in digits : Byte(k) >= GroupBase <=> k < j - 1
    /\ \A k \in digits : Byte(k) % GroupBase = (v \div Weight(k - i)) % GroupBase
    /\ v < Weight(j - i)}

VectorEnds(i) == {l[1] + l[2] : l \in LengthsAt(i)} \cap Positions

InstructionEnds[i \in Positions] == UNION {VectorEnds(j) : j \in VectorEnds(i + 1)}

LookupEnds[i \in Positions] == UNION {VectorEnds(j) : j \in VectorEnds(i + KeyBytes)}

(* Where n items in a row end, for each start, when ends[i] are the ends of *)
(* one item at i.                                                           *)
ItemsEnds(ends, n) ==
  LET Rest[m \in Nat] ==
        [i \in Positions |-> IF m = 0 THEN {i} ELSE UNION {Rest[m - 1][j] : j \in ends[i]}]
  IN  Rest[n]

ListEnds(ends, i) == UNION {ItemsEnds(ends, l[1])[l[2]] : l \in LengthsAt(i)}

(* A way to read data as a transaction of n signatures that start at sig,   *)
(* with a message whose header is at head and whose keys start at key.      *)
Reading(n, sig, head, key) ==
  LET message == sig + n * SigBytes IN
  /\ <<n, sig>> \in LengthsAt(0)
  /\ head + 3 <= Len(data)
  /\ \/ head = message /\ Byte(head) < GroupBase
     \/ head = message + 1 /\ Byte(message) = GroupBase
  /\ Byte(head) = n
  /\ \E m \in n .. U16Max :
       /\ <<m, key>> \in LengthsAt(head + 3)
       /\ \E e \in ListEnds(InstructionEnds, key + (m + 1) * KeyBytes) :
            IF head = message THEN e = Len(data) ELSE Len(data) \in ListEnds(LookupEnds, e)

Readings ==
  {r \in UNION {{<<s[1], s[2], s[2] + s[1] * SigBytes + versioned, key>> :
                   versioned \in {0, 1}, key \in Positions} : s \in LengthsAt(0)} :
     Reading(r[1], r[2], r[3], r[4])}

WellFormed == Readings # {}

(* Positions of key and signature of each signer. *)
Signers ==
  UNION {{<<r[4] + i * KeyBytes, r[2] + i * SigBytes>> : i \in 0 .. r[1] - 1} : r \in Readings}

JobPositions == {<<keys[i], sigs[i]>> : i \in DOMAIN sigs}
-----------------------------------------------------------------------------
(* With fewer than 256 signatures the parser returns normally, accepts      *)
(* exactly the well-formed transactions, and pairs the signature of each    *)
(* signer with the key of that signer.                                      *)
AcceptsExactly ==
  pc = "end" /\ count < ByteMod =>
    /\ verdict = IF WellFormed THEN "ok" ELSE "error"
    /\ verdict = "ok" => JobPositions = Signers

(* "signature count does not match message header": a transaction with a    *)
(* signature too many or too few is refused with an error, whatever the     *)
(* counts.                                                                  *)
MalformedRejected == pc = "end" /\ ~WellFormed => verdict = "error"

=============================================================================
