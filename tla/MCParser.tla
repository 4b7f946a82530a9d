------------------------------ MODULE MCParser ------------------------------
(* Byte strings for model checking Parser with bytes 0 .. 3 (one bit of a   *)
(* length each), keys of one byte and signatures of three.                  *)
EXTENDS TransactionFormat, FiniteSets

Flat(ss) == LET To[n \in 0 .. Len(ss)] == IF n = 0 THEN <<>> ELSE To[n - 1] \o ss[n] IN To[Len(ss)]

Repeat(n, x) == [i \in 1 .. n |-> x]

Vector(xs) == EncodeCompact(Len(xs)) \o xs

(* A transaction of n signatures whose header says r, with k keys.          *)
Legacy(n, r, k, instructions) ==
  EncodeCompact(n) \o Flat(Repeat(n, <<1, 2, 3>>)) \o <<r, 0, 0>> \o
  EncodeCompact(k) \o Repeat(k, 1) \o <<2>> \o
  EncodeCompact(Len(instructions)) \o Flat(instructions)

V0(n, r, k, instructions, lookups) ==
  EncodeCompact(n) \o Flat(Repeat(n, <<1, 2, 3>>)) \o <<GroupBase, r, 0, 0>> \o
  EncodeCompact(k) \o Repeat(k, 1) \o <<2>> \o
  EncodeCompact(Len(instructions)) \o Flat(instructions) \o
  EncodeCompact(Len(lookups)) \o Flat(lookups)

Instruction(accounts, payload) == <<1>> \o Vector(accounts) \o Vector(payload)

Lookup(writable, readonly) == <<3>> \o Vector(writable) \o Vector(readonly)

Instructions == {<<>>, <<Instruction(<<>>, <<>>)>>,
                 <<Instruction(<<0, 3>>, <<2>>), Instruction(<<>>, <<0>>)>>}

Lookups == {<<>>, <<Lookup(<<1>>, <<>>)>>, <<Lookup(<<>>, <<2>>), Lookup(<<0>>, <<>>)>>}

(* Counts on both sides of ByteMod = 4, one key too few to one too many,    *)
(* and headers that agree with the count, modulo 4 or not at all.           *)
Regular ==
  {Legacy(n, r, k, i) : n \in 0 .. 5, r \in 0 .. 2, k \in 0 .. 5, i \in Instructions}
  \cup {V0(n, n % ByteMod, k, i, l) : n \in 0 .. 5, k \in 1 .. 5, i \in Instructions, l \in Lookups}

(* One length in three bytes that would do with one, and one too large.     *)
Aliased == {<<3, 2, 0>> \o Tail(Legacy(1, 1, 1, <<>>)), <<3, 3, 1>>, <<3, 3, 2>>}

Small == {Legacy(1, 1, 1, i) : i \in Instructions}
         \cup {V0(1, 1, 1, i, l) : i \in Instructions, l \in Lookups}

Truncated == UNION {{SubSeq(x, 1, n) : n \in 0 .. Len(x)} : x \in Small}

Corrupted ==
  UNION {{[x EXCEPT ![i] = b] : i \in DOMAIN x, b \in Bytes} : x \in Small}

Extended == {Append(x, b) : x \in Small, b \in Bytes}

ParserInputs == Regular \cup Aliased \cup Truncated
            \cup Corrupted \cup Extended

=============================================================================
