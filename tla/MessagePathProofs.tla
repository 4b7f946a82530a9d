------------------------- MODULE MessagePathProofs -------------------------
(***************************************************************************)
(* What the message path promises for any number of engines and any widths *)
(* and lengths: a hash unit takes the bytes of R, A, the message and the   *)
(* padding in their order and no others, as long as nobody takes a word    *)
(* from it, and nobody ever takes one from engine 0.                       *)
(***************************************************************************)
EXTENDS MessagePath, SequenceTheorems, WellFoundedInduction, TLAPS

(* The byte that belongs at position i of the padded message. *)
Ideal(i) ==
  IF i <= PrefixBytes THEN <<"R", 0, i - 1>>
  ELSE IF i <= 2 * PrefixBytes THEN <<"A", 0, i - PrefixBytes - 1>>
  ELSE IF i <= RawTotal THEN <<"message", 0, i - 2 * PrefixBytes - 1>>
  ELSE IF i = RawTotal + 1 THEN <<"80", 0, 0>>
  ELSE IF i <= PaddedTotal - LengthBytes THEN <<"00", 0, 0>>
  ELSE <<"length", RawTotal, i - 1 - (PaddedTotal - LengthBytes)>>

Phases == {"IDLE", "PREFIX0", "PREFIX1", "MSG_REQ", "MSG_READ", "PAD80", "PAD_ZERO", "LENGTH"}

(* Where the unit is in its message, a compression under way or not. *)
At(s) == IF s.st = "COMPRESS" THEN s.resume ELSE s.st

(* The bytes taken so far. *)
Fed(s) == Len(s.absorbed) + Len(s.block)

Zeros == PaddedTotal - RawTotal - (1 + LengthBytes)
InPrefix(s) == At(s) \in {"PREFIX0", "PREFIX1"}
InMessage(s) == At(s) \in {"MSG_REQ", "MSG_WAIT", "MSG_LATCH", "MSG_READ"}

(* In every phase the counters say how many bytes have been taken. *)
Progress(s) ==
  /\ At(s) = "PREFIX0" => s.prefix_left > 0 /\ Fed(s) = PrefixBytes - s.prefix_left
  /\ At(s) = "PREFIX1" => s.prefix_left > 0 /\ Fed(s) = 2 * PrefixBytes - s.prefix_left
  /\ InPrefix(s) => s.message_left = message_length /\ s.addr = 0
  /\ InMessage(s) =>
       /\ s.message_left > 0 /\ Fed(s) = RawTotal - s.message_left
       /\ s.addr = message_length - s.message_left
  /\ At(s) \in {"MSG_REQ", "MSG_WAIT", "MSG_LATCH"} => s.addr % WordBytes = 0
  /\ At(s) = "MSG_READ" => s.sel = s.addr % WordBytes /\ s.sel > 0
  /\ At(s) = "PAD80" => Fed(s) = RawTotal
  /\ InPrefix(s) \/ InMessage(s) \/ At(s) = "PAD80" => s.zero_left = Zeros
  /\ At(s) = "PAD_ZERO" =>
       /\ s.zero_left \in 1 .. Zeros
       /\ Fed(s) = PaddedTotal - LengthBytes - s.zero_left
  /\ At(s) \notin {"LENGTH", "IDLE"} => s.length_left = LengthBytes
  /\ At(s) = "LENGTH" => s.length_left > 0 /\ Fed(s) = PaddedTotal - s.length_left

(* Whole blocks are absorbed, and those left complete the padded message. *)
Blocks(s) ==
  /\ Len(s.block) <= BlockBytes
  /\ s.st = "COMPRESS" => Len(s.block) = BlockBytes
  /\ s.st \notin {"COMPRESS", "IDLE"} => Len(s.block) < BlockBytes
  /\ s.st # "IDLE" =>
       /\ message_length <= MaxMessage
       /\ s.blocks_left > 0 /\ Len(s.absorbed) + s.blocks_left * BlockBytes = PaddedTotal

(* The compression core works for a waiting unit, once per block. *)
Core(s) ==
  /\ s.block_start \/ s.rounds_left > 0 \/ s.block_done => s.st = "COMPRESS"
  /\ s.rounds_left > 0 => ~s.block_start
  /\ s.block_done => ~s.block_start /\ s.rounds_left = 0

Requested(s) == s.st = "MSG_WAIT" => s.rd_en /\ s.rd_addr = s.addr

Finished(s) ==
  s.done =>
    /\ s.st = "IDLE"
    /\ s.error <=> message_length > MaxMessage
    /\ ~s.error => Len(s.absorbed) = PaddedTotal

(* The bytes taken are those of the padded message. *)
Ordered(s) ==
  /\ \A i \in 1 .. Len(s.absorbed) : s.absorbed[i] = Ideal(i)
  /\ \A i \in 1 .. Len(s.block) : s.block[i] = Ideal(Len(s.absorbed) + i)

Hashed(s) ==
  /\ s.st # "IDLE" \/ (s.done /\ ~s.error) => Ordered(s)
  /\ At(s) = "MSG_READ" => s.word = s.addr \div WordBytes

StreamInv(s) == Progress(s) /\ Blocks(s) /\ Core(s) /\ Requested(s) /\ Finished(s)

(* The latched word is the one asked for. *)
Latched(s) == s.st = "MSG_LATCH" => message_bram_dout = s.addr \div WordBytes

WordRange == 0 .. MaxMessage \div WordBytes - 1

MessageInv ==
  /\ stream \in [Engines -> StreamType]
  /\ message_bram_dout \in WordRange
  /\ message_length \in Lengths
  /\ stolen \in [Engines -> BOOLEAN]
  /\ \A e \in Engines :
       /\ StreamInv(stream[e])
       /\ stolen[e] \/ (Hashed(stream[e]) /\ Latched(stream[e]))
  /\ ~stolen[0]
-----------------------------------------------------------------------------
(* Division by the block and by the word. *)
LEMMA DivMod ==
  ASSUME NEW n \in Nat, NEW d \in Nat, d > 0
  PROVE  /\ n \div d \in Nat /\ n % d \in 0 .. d - 1
         /\ n = d * (n \div d) + (n % d)
OBVIOUS

(* Two numbers less than d apart with one remainder are equal. *)
LEMMA SameRemainder ==
  ASSUME NEW m \in Nat, NEW n \in Nat, NEW d \in Nat, d > 0,
         m % d = n % d, n - m < d, m - n < d
  PROVE  m = n
<1> DEFINE p == m \div d
           q == n \div d
<1> p \in Nat /\ q \in Nat /\ m = d * p + (m % d) /\ n = d * q + (n % d) /\ m % d \in 0 .. d - 1
  BY DivMod
<1> HIDE DEF p, q
<1>1. n - m = d * (q - p)
  OBVIOUS
<1>2. CASE q - p >= 1
  <2>1. d * (q - p) >= d
    BY <1>2
  <2> QED BY <2>1, <1>1
<1>3. CASE q - p <= -1
  <2>1. d * (q - p) <= -d
    BY <1>3
  <2> QED BY <2>1, <1>1
<1>4. CASE q = p
  BY <1>1, <1>4
<1> QED BY <1>2, <1>3, <1>4

(* The next address in a word, and the first of the next word. *)
LEMMA NextInWord ==
  ASSUME NEW n \in Nat, NEW d \in Nat, d > 1
  PROVE  /\ n % d = d - 1 => (n + 1) % d = 0
         /\ n % d < d - 1 => (n + 1) % d = (n % d) + 1 /\ (n + 1) \div d = n \div d
<1> DEFINE q == n \div d
           r == n % d
<1>1. q \in Nat /\ r \in 0 .. d - 1 /\ n = d * q + r
  BY DivMod
<1> HIDE DEF q, r
<1>2. ASSUME r = d - 1 PROVE (n + 1) % d = 0
  <2>1. n + 1 = d * (q + 1)
    BY <1>1, <1>2
  <2> QED BY <2>1, <1>1
<1>3. ASSUME r < d - 1 PROVE (n + 1) % d = r + 1 /\ (n + 1) \div d = q
  <2>1. n + 1 = d * q + (r + 1)
    BY <1>1, <1>3
  <2> QED BY <2>1, <1>1, <1>3
<1> QED BY <1>2, <1>3 DEF q, r

(* One block less to go. *)
LEMMA OneBlockLess ==
  ASSUME NEW k \in Nat, NEW n \in Nat
  PROVE  (k - 1) * n = k * n - n
OBVIOUS

(* The padded length is whole blocks, and has room for the padding. *)
LEMMA Padding ==
  ASSUME message_length \in Lengths
  PROVE  /\ RawTotal \in Nat /\ RawTotal = 2 * PrefixBytes + message_length
         /\ PaddedTotal \in Nat /\ PaddedTotal % BlockBytes = 0
         /\ PaddedTotal - RawTotal > 2 * LengthBytes
         /\ PaddedTotal - RawTotal <= BlockBytes + 2 * LengthBytes
         /\ PaddedTotal = (PaddedTotal \div BlockBytes) * BlockBytes
         /\ PaddedTotal \div BlockBytes \in Nat \ {0}
<1> DEFINE r == RawTotal % BlockBytes
           q == RawTotal \div BlockBytes
<1>1. RawTotal \in Nat /\ BlockBytes \in Nat /\ BlockBytes > 2 * LengthBytes /\ LengthBytes \in Nat
  BY MessageAssumption DEF RawTotal
<1>2. q \in Nat /\ r \in 0 .. BlockBytes - 1 /\ RawTotal = BlockBytes * q + r
  BY <1>1, DivMod
<1>3. PaddedTotal = RawTotal - r +
        (IF r <= BlockBytes - 1 - 2 * LengthBytes THEN BlockBytes ELSE 2 * BlockBytes)
  BY DEF PaddedTotal
<1> HIDE DEF r, q
<1>4. PaddedTotal - RawTotal > 2 * LengthBytes /\ PaddedTotal - RawTotal <= BlockBytes + 2 * LengthBytes
  BY <1>1, <1>2, <1>3
<1>5. \E k \in Nat \ {0} : PaddedTotal = BlockBytes * k
  <2>1. CASE r <= BlockBytes - 1 - 2 * LengthBytes
    <3>1. PaddedTotal = BlockBytes * (q + 1)
      BY <2>1, <1>1, <1>2, <1>3
    <3> QED BY <3>1, <1>2
  <2>2. CASE r > BlockBytes - 1 - 2 * LengthBytes
    <3>1. PaddedTotal = BlockBytes * (q + 2)
      BY <2>2, <1>1, <1>2, <1>3
    <3> QED BY <3>1, <1>2
  <2> QED BY <2>1, <2>2, <1>1, <1>2
<1>6. PICK k \in Nat \ {0} : PaddedTotal = BlockBytes * k
  BY <1>5
<1>7. PaddedTotal % BlockBytes = 0 /\ PaddedTotal \div BlockBytes = k
  BY <1>6, <1>1
<1> QED BY <1>1, <1>4, <1>6, <1>7 DEF RawTotal

(* The reference's zeros are those the unit counts down. *)
LEMMA ZerosAreFewest ==
  ASSUME message_length \in Lengths
  PROVE  /\ Zeros \in Nat /\ Zeros <= BlockBytes + LengthBytes
         /\ ReferenceZeros = Zeros - LengthBytes /\ ReferenceZeros \in Nat
<1> DEFINE fits(z) == (RawTotal + 1 + z + 2 * LengthBytes) % BlockBytes = 0
           z0 == PaddedTotal - RawTotal - 1 - 2 * LengthBytes
<1>1. BlockBytes \in Nat /\ BlockBytes > 0 /\ LengthBytes \in Nat \ {0}
  BY MessageAssumption
<1>2. z0 \in 0 .. BlockBytes - 1 /\ z0 = Zeros - LengthBytes
  BY <1>1, Padding DEF Zeros
<1>3. fits(z0)
  <2>1. RawTotal + 1 + z0 + 2 * LengthBytes = PaddedTotal
    BY <1>1, Padding
  <2> QED BY <2>1, Padding
<1>4. \A z \in 0 .. BlockBytes - 1 : fits(z) => z = z0
  <2> SUFFICES ASSUME NEW z \in 0 .. BlockBytes - 1, fits(z) PROVE z = z0
    OBVIOUS
  <2> DEFINE m == RawTotal + 1 + z + 2 * LengthBytes
             n == RawTotal + 1 + z0 + 2 * LengthBytes
  <2>1. m \in Nat /\ n \in Nat /\ m % BlockBytes = n % BlockBytes /\ m - n = z - z0
    BY <1>1, <1>2, <1>3, Padding
  <2> HIDE DEF m, n, z0
  <2>2. m - n < BlockBytes /\ n - m < BlockBytes
    BY <2>1, <1>2, <1>1
  <2>3. m = n
    BY <2>1, <2>2, <1>1, SameRemainder
  <2> QED BY <2>3, <2>1, <1>2
<1>5. ReferenceZeros = CHOOSE z \in 0 .. BlockBytes - 1 : fits(z)
  BY DEF ReferenceZeros
<1> HIDE DEF fits, z0
<1>6. ReferenceZeros = z0
  BY <1>2, <1>3, <1>4, <1>5
<1> QED BY <1>1, <1>2, <1>6, Padding DEF Zeros
-----------------------------------------------------------------------------
(* One edge of a hash unit, first what every state does. *)

(* Nothing is left of a compression. *)
Quiet(s) == ~s.block_start /\ s.rounds_left = 0 /\ ~s.block_done

(* s and t are at the same place of the message with the same bytes. *)
SamePlace(s, t) ==
  /\ t.prefix_left = s.prefix_left /\ t.message_left = s.message_left
  /\ t.zero_left = s.zero_left /\ t.length_left = s.length_left
  /\ t.addr = s.addr /\ t.word = s.word /\ t.sel = s.sel

SameBytes(s, t) ==
  t.block = s.block /\ t.absorbed = s.absorbed /\ t.blocks_left = s.blocks_left

(* The defaults of an edge. *)
Edged(s) ==
  [CompressEdge(s) EXCEPT !.block_start = FALSE, !.done = FALSE, !.rd_en = s.st = "MSG_REQ"]

(* They change the compression core and the strobes, nothing else. *)
LEMMA EdgeFields ==
  ASSUME NEW s \in StreamType
  PROVE  /\ Edged(s) \in StreamType
         /\ SamePlace(s, Edged(s)) /\ SameBytes(s, Edged(s))
         /\ Edged(s).st = s.st /\ Edged(s).resume = s.resume /\ Edged(s).error = s.error
         /\ Edged(s).rd_en = (s.st = "MSG_REQ") /\ Edged(s).rd_addr = s.rd_addr
         /\ ~Edged(s).done /\ ~Edged(s).block_start
         /\ Edged(s).rounds_left = IF s.rounds_left > 0 THEN s.rounds_left - 1
                                   ELSE IF s.block_start THEN Rounds ELSE 0
         /\ Edged(s).block_done = (s.rounds_left = 1)
<1>1. Rounds \in Nat
  BY MessageAssumption
<1> DEFINE rounds == IF s.rounds_left > 0 THEN s.rounds_left - 1
                     ELSE IF s.block_start THEN Rounds ELSE 0
<1>a. rounds \in 0 .. Rounds
  BY <1>1 DEF StreamType
<1>b. CompressEdge(s) = [s EXCEPT !.rounds_left = rounds, !.block_done = s.rounds_left = 1]
  BY DEF CompressEdge
<1> HIDE DEF rounds
<1>2. CompressEdge(s) \in StreamType
  BY <1>a, <1>b, ZenonT(60) DEF StreamType
<1>3. Edged(s) \in StreamType
  BY <1>2, ZenonT(60) DEF Edged, StreamType
<1>4. SamePlace(s, Edged(s)) /\ SameBytes(s, Edged(s))
  BY DEF Edged, CompressEdge, StreamType, SamePlace, SameBytes
<1> QED BY <1>3, <1>4, <1>b DEF Edged, StreamType, rounds

(* The edge's defaults keep the place in the message. *)
LEMMA EdgeKeeps ==
  ASSUME NEW s \in StreamType, StreamInv(s), s.st # "IDLE"
  PROVE  /\ Progress(Edged(s)) /\ Blocks(Edged(s))
         /\ s.st # "COMPRESS" => Quiet(Edged(s))
         /\ Hashed(s) => Hashed(Edged(s))
<1> DEFINE t == Edged(s)
<1>1. SamePlace(s, t) /\ SameBytes(s, t) /\ t.st = s.st /\ t.resume = s.resume /\ ~t.done
      /\ ~t.block_start /\ t.block_done = (s.rounds_left = 1)
      /\ t.rounds_left = IF s.rounds_left > 0 THEN s.rounds_left - 1
                         ELSE IF s.block_start THEN Rounds ELSE 0
  BY EdgeFields
<1> HIDE DEF t
<1>2. At(t) = At(s) /\ Fed(t) = Fed(s) /\ (InPrefix(t) <=> InPrefix(s)) /\ (InMessage(t) <=> InMessage(s))
  BY <1>1 DEF At, Fed, InPrefix, InMessage, SameBytes
<1>3. Progress(t)
  BY <1>1, <1>2 DEF StreamInv, Progress, SamePlace
<1>4. Blocks(t)
  BY <1>1 DEF StreamInv, Blocks, SameBytes
<1>5. s.st # "COMPRESS" => Quiet(t)
  BY <1>1 DEF StreamInv, Core, Quiet, StreamType
<1>6. Hashed(s) => Hashed(t)
  BY <1>1, <1>2 DEF Hashed, Ordered, SameBytes, SamePlace
<1> QED BY <1>3, <1>4, <1>5, <1>6 DEF t

(* A unit between compressions, with room in its block. *)
Ready(s) == s \in StreamType /\ Quiet(s) /\ ~s.done /\ s.st \notin {"IDLE", "COMPRESS"} /\ Blocks(s)

(* Feed puts a byte behind those taken, and compresses a full block. *)
LEMMA FeedKeeps ==
  ASSUME NEW s, Ready(s), NEW byte \in Byte, NEW next \in Phases
  PROVE  LET t == Feed(s, byte, next) IN
         /\ t \in StreamType
         /\ At(t) = next /\ Fed(t) = Fed(s) + 1 /\ SamePlace(s, t)
         /\ Blocks(t) /\ Core(t) /\ Requested(t) /\ ~t.done /\ t.st # "MSG_LATCH"
         /\ Ordered(s) /\ byte = Ideal(Fed(s) + 1) => Ordered(t)
<1> DEFINE t == Feed(s, byte, next)
           full == Len(s.block) = BlockBytes - 1
<1>a. BlockBytes \in Nat /\ BlockBytes > 0
  BY MessageAssumption
<1>b. s \in StreamType /\ Len(s.block) < BlockBytes
  BY DEF Ready, Blocks
<1>c. s.block \in Seq(Byte) /\ s.absorbed \in Seq(Byte)
  BY <1>b DEF StreamType
<1>d. Len(s.block) \in Nat /\ Len(s.absorbed) \in Nat
  BY <1>c, LenProperties
<1>0. Fed(s) = Len(s.absorbed) + Len(s.block)
  BY DEF Fed
<1>1. Append(s.block, byte) \in Seq(Byte) /\ Len(Append(s.block, byte)) = Len(s.block) + 1
      /\ \A i \in 1 .. Len(s.block) : Append(s.block, byte)[i] = s.block[i]
      /\ Append(s.block, byte)[Len(s.block) + 1] = byte
  BY <1>c, AppendProperties
<1>2. /\ t \in StreamType /\ SamePlace(s, t)
      /\ t.block = Append(s.block, byte) /\ t.absorbed = s.absorbed
      /\ t.blocks_left = s.blocks_left /\ t.done = s.done
      /\ t.rounds_left = s.rounds_left /\ t.block_done = s.block_done
      /\ t.st = IF full THEN "COMPRESS" ELSE next
      /\ t.resume = IF full THEN next ELSE s.resume
      /\ t.block_start = IF full THEN TRUE ELSE s.block_start
  <2>1. CASE full
    BY <1>b, <1>1, <2>1, ZenonT(60) DEF Feed, Phases, StreamType, SamePlace
  <2>2. CASE ~full
    BY <1>b, <1>1, <2>2, ZenonT(60) DEF Feed, Phases, StreamType, SamePlace
  <2> QED BY <2>1, <2>2
<1> HIDE DEF t
<1>3. At(t) = next /\ Fed(t) = Fed(s) + 1
  <2>1. At(t) = next
    BY <1>2 DEF At, Phases
  <2>2. Fed(t) = Len(s.absorbed) + (Len(s.block) + 1)
    BY <1>1, <1>2 DEF Fed
  <2> QED BY <2>1, <2>2, <1>0, <1>b, <1>d DEF StreamType
<1>4. Blocks(t)
  BY <1>a, <1>b, <1>d, <1>1, <1>2 DEF Blocks, Phases, Ready
<1>5. Core(t) /\ Requested(t) /\ ~t.done /\ t.st # "MSG_LATCH"
  BY <1>2 DEF Core, Requested, Phases, Ready, Quiet
<1>6. ASSUME Ordered(s), byte = Ideal(Fed(s) + 1) PROVE Ordered(t)
  <2>1. \A i \in 1 .. Len(s.block) + 1 : t.block[i] = Ideal(Len(s.absorbed) + i)
    <3> SUFFICES ASSUME NEW i \in 1 .. Len(s.block) + 1
                 PROVE  t.block[i] = Ideal(Len(s.absorbed) + i)
      OBVIOUS
    <3>1. CASE i = Len(s.block) + 1
      <4>1. Len(s.absorbed) + i = Fed(s) + 1
        BY <3>1, <1>0, <1>b, <1>d DEF StreamType
      <4>2. Ideal(Len(s.absorbed) + i) = byte
        BY <4>1, <1>6
      <4>3. t.block[i] = byte
        BY <3>1, <1>1, <1>2
      <4> QED BY <4>2, <4>3
    <3>2. CASE i \in 1 .. Len(s.block)
      BY <3>2, <1>1, <1>2, <1>6 DEF Ordered
    <3> QED BY <3>1, <3>2, <1>d
  <2> QED BY <2>1, <1>1, <1>2, <1>6 DEF Ordered
<1> QED BY <1>2, <1>3, <1>4, <1>5, <1>6 DEF t

(* What an edge that takes a byte must leave. *)
Resumes(t) == t \in StreamType /\ StreamInv(t) /\ ~t.done /\ t.st # "MSG_LATCH"

(* A unit in state st that is about to take a byte. *)
Taking(s, st) == Ready(s) /\ Progress(s) /\ s.st = st

(* Numbers the states count with. *)
LEMMA Counters ==
  ASSUME message_length \in Lengths, NEW s \in StreamType
  PROVE  /\ PrefixBytes \in Nat \ {0} /\ LengthBytes \in Nat \ {0} /\ message_length \in Nat
         /\ MaxMessage \in Nat \ {0} /\ WordBytes \in Nat /\ WordBytes > 1
         /\ s.prefix_left \in 0 .. PrefixBytes /\ s.message_left \in 0 .. MaxMessage
         /\ s.length_left \in 0 .. LengthBytes /\ s.zero_left \in Nat
         /\ s.addr \in 0 .. MaxMessage - 1 /\ s.sel \in 0 .. WordBytes - 1
         /\ s.word \in WordRange /\ Fed(s) \in Nat
<1>1. /\ PrefixBytes \in Nat \ {0} /\ LengthBytes \in Nat \ {0} /\ message_length \in Nat
      /\ MaxMessage \in Nat \ {0} /\ WordBytes \in Nat /\ WordBytes > 1
  BY MessageAssumption
<1>2. s.absorbed \in Seq(Byte) /\ s.block \in Seq(Byte)
  BY DEF StreamType
<1>3. Len(s.absorbed) \in Nat /\ Len(s.block) \in Nat
  BY <1>2, LenProperties
<1>4. Fed(s) \in Nat
  BY <1>3 DEF Fed, StreamType
<1> QED BY <1>1, <1>4 DEF StreamType, WordRange

(* The padded message, part by part. *)
LEMMA IdealBytes ==
  ASSUME message_length \in Lengths
  PROVE  /\ \A n \in 0 .. PrefixBytes - 1 : Ideal(n + 1) = <<"R", 0, n>>
         /\ \A n \in 0 .. PrefixBytes - 1 : Ideal(PrefixBytes + n + 1) = <<"A", 0, n>>
         /\ \A n \in 0 .. message_length - 1 :
              Ideal(2 * PrefixBytes + n + 1) = <<"message", 0, n>>
         /\ Ideal(RawTotal + 1) = <<"80", 0, 0>>
         /\ \A n \in RawTotal + 1 .. PaddedTotal - LengthBytes - 1 : Ideal(n + 1) = <<"00", 0, 0>>
         /\ \A n \in 0 .. LengthBytes - 1 :
              Ideal(PaddedTotal - LengthBytes + n + 1) = <<"length", RawTotal, n>>
<1>1. PrefixBytes \in Nat \ {0} /\ LengthBytes \in Nat \ {0} /\ message_length \in Nat
  BY MessageAssumption
<1>2. RawTotal = 2 * PrefixBytes + message_length /\ PaddedTotal \in Nat
      /\ PaddedTotal - RawTotal > 2 * LengthBytes
  BY Padding
<1> QED BY <1>1, <1>2 DEF Ideal

(* Taking the byte that comes next, with counters that fit it, resumes. *)
LEMMA TakeResumes ==
  ASSUME NEW s, Ready(s), NEW u, Ready(u), SameBytes(s, u),
         NEW byte \in Byte, NEW next \in Phases,
         \A t : At(t) = next /\ Fed(t) = Fed(s) + 1 /\ SamePlace(u, t) => Progress(t)
  PROVE  /\ Resumes(Feed(u, byte, next))
         /\ Ordered(s) /\ byte = Ideal(Fed(s) + 1)
              /\ (next = "MSG_READ" => u.word = u.addr \div WordBytes)
              => Hashed(Feed(u, byte, next))
<1> DEFINE t == Feed(u, byte, next)
<1>1. Fed(u) = Fed(s)
  BY DEF Fed, SameBytes
<1>2. /\ t \in StreamType /\ At(t) = next /\ Fed(t) = Fed(s) + 1 /\ SamePlace(u, t)
      /\ Blocks(t) /\ Core(t) /\ Requested(t) /\ ~t.done /\ t.st # "MSG_LATCH"
      /\ Ordered(u) /\ byte = Ideal(Fed(s) + 1) => Ordered(t)
  BY <1>1, FeedKeeps
<1> HIDE DEF t
<1>3. Progress(t)
  BY <1>2
<1>4. Ordered(s) => Ordered(u)
  BY DEF Ordered, SameBytes
<1>5. ASSUME Ordered(s), byte = Ideal(Fed(s) + 1),
             next = "MSG_READ" => u.word = u.addr \div WordBytes
      PROVE  Hashed(t)
  BY <1>2, <1>4, <1>5 DEF Hashed, SamePlace
<1> QED BY <1>2, <1>3, <1>5 DEF Resumes, StreamInv, Finished, t

(* What was hashed so far is in order while the unit is at work. *)
LEMMA OrderedSoFar ==
  ASSUME NEW s, Ready(s), Hashed(s)
  PROVE  Ordered(s)
BY DEF Ready, Hashed

(* Writing a counter in its range keeps the type: prefix_left, ...          *)
LEMMA SetPrefixLeft ==
  ASSUME NEW s \in StreamType, NEW n \in 0 .. PrefixBytes
  PROVE  [s EXCEPT !.prefix_left = n] \in StreamType
BY DEF StreamType

(* The same for zero_left, ... *)
LEMMA SetZeroLeft ==
  ASSUME NEW s \in StreamType, NEW n \in 0 .. BlockBytes + LengthBytes
  PROVE  [s EXCEPT !.zero_left = n] \in StreamType
BY DEF StreamType

(* ... for length_left, ... *)
LEMMA SetLengthLeft ==
  ASSUME NEW s \in StreamType, NEW n \in 0 .. LengthBytes
  PROVE  [s EXCEPT !.length_left = n] \in StreamType
BY DEF StreamType

(* ... for the address and message_left, ... *)
LEMMA SetMessageLeft ==
  ASSUME NEW s \in StreamType, NEW a \in 0 .. MaxMessage - 1, NEW n \in 0 .. MaxMessage
  PROVE  [s EXCEPT !.addr = a, !.message_left = n] \in StreamType
BY DEF StreamType

(* ... and for the latched word and the byte in it. *)
LEMMA SetWord ==
  ASSUME NEW s \in StreamType, NEW w \in WordRange, NEW k \in 0 .. WordBytes - 1
  PROVE  /\ [s EXCEPT !.sel = k] \in StreamType
         /\ [s EXCEPT !.word = w, !.sel = k] \in StreamType
<1>1. [s EXCEPT !.sel = k] \in StreamType
  BY DEF StreamType
<1>2. [s EXCEPT !.word = w, !.sel = k] \in StreamType
  BY DEF StreamType, WordRange
<1> QED BY <1>1, <1>2

(* s and t differ in the counters of the message only. *)
SameCore(s, t) ==
  /\ SameBytes(s, t) /\ t.st = s.st /\ t.done = s.done /\ t.block_start = s.block_start
  /\ t.rounds_left = s.rounds_left /\ t.block_done = s.block_done

(* The counters of a unit that is ready may change. *)
LEMMA Recounted ==
  ASSUME NEW s, Ready(s), NEW t \in StreamType, SameCore(s, t)
  PROVE  Ready(t) /\ SameBytes(s, t)
BY DEF Ready, SameCore, SameBytes, Quiet, Blocks

(* R goes first ... *)
LEMMA FeedPrefix0Inv ==
  ASSUME message_length \in Lengths, NEW s, Taking(s, "PREFIX0")
  PROVE  Resumes(FeedPrefix0(s)) /\ (Hashed(s) => Hashed(FeedPrefix0(s)))
<1> DEFINE byte == <<"R", 0, PrefixBytes - s.prefix_left>>
           last == s.prefix_left = 1
           n == IF last THEN PrefixBytes ELSE s.prefix_left - 1
           u == [s EXCEPT !.prefix_left = n]
           next == IF last THEN "PREFIX1" ELSE "PREFIX0"
<1>1. FeedPrefix0(s) = Feed(u, byte, next)
  BY DEF FeedPrefix0
<1>2. s \in StreamType /\ At(s) = "PREFIX0" /\ s.st = "PREFIX0" /\ s.prefix_left > 0
      /\ Fed(s) = PrefixBytes - s.prefix_left
  BY DEF Taking, Ready, Progress, At
<1>3. n \in 0 .. PrefixBytes /\ byte \in Byte
  BY <1>2, Counters DEF Byte, ByteKinds
<1>4. byte = Ideal(Fed(s) + 1)
  <2>1. PrefixBytes - s.prefix_left \in 0 .. PrefixBytes - 1
    BY <1>2, Counters
  <2> QED BY <2>1, <1>2, IdealBytes
<1>5. ASSUME NEW t, At(t) = next, Fed(t) = Fed(s) + 1, SamePlace(u, t) PROVE Progress(t)
  <2>1. t.prefix_left = n /\ t.message_left = s.message_left /\ t.addr = s.addr
        /\ t.zero_left = s.zero_left /\ t.length_left = s.length_left
    BY <1>2, <1>5 DEF SamePlace, StreamType
  <2> QED BY <1>2, <1>5, <2>1, Counters DEF Progress, Taking, InPrefix, InMessage
<1>6. u \in StreamType
  BY <1>2, <1>3, SetPrefixLeft
<1>7. SameCore(s, u)
  BY <1>2 DEF SameCore, SameBytes, StreamType
<1> HIDE DEF u, byte
<1> QED BY <1>1, <1>2, <1>3, <1>4, <1>5, <1>6, <1>7, Recounted, TakeResumes, OrderedSoFar DEF Phases, Taking

(* ... then A ... *)
LEMMA FeedPrefix1Inv ==
  ASSUME message_length \in Lengths, NEW s, Taking(s, "PREFIX1")
  PROVE  Resumes(FeedPrefix1(s)) /\ (Hashed(s) => Hashed(FeedPrefix1(s)))
<1> DEFINE byte == <<"A", 0, PrefixBytes - s.prefix_left>>
<1>1. s \in StreamType /\ At(s) = "PREFIX1" /\ s.st = "PREFIX1" /\ s.prefix_left > 0
      /\ Fed(s) = 2 * PrefixBytes - s.prefix_left
      /\ s.message_left = message_length /\ s.addr = 0 /\ s.zero_left = Zeros
      /\ s.length_left = LengthBytes
  BY DEF Taking, Ready, Progress, At, InPrefix
<1>2. byte \in Byte
  BY <1>1, Counters DEF Byte, ByteKinds
<1>3. byte = Ideal(Fed(s) + 1)
  <2>1. PrefixBytes - s.prefix_left \in 0 .. PrefixBytes - 1
    BY <1>1, Counters
  <2>2. Fed(s) + 1 = PrefixBytes + (PrefixBytes - s.prefix_left) + 1
    BY <1>1, Counters
  <2> QED BY <2>1, <2>2, IdealBytes
<1>4. CASE s.prefix_left = 1
  <2> DEFINE next == AfterPrefix(s)
  <2>1. FeedPrefix1(s) = Feed(s, byte, next) /\ next \in {"MSG_REQ", "PAD80"}
    BY <1>4 DEF FeedPrefix1, AfterPrefix
  <2>2. ASSUME NEW t, At(t) = next, Fed(t) = Fed(s) + 1, SamePlace(s, t) PROVE Progress(t)
    <3>1. t.message_left = message_length /\ t.addr = 0 /\ t.zero_left = Zeros
          /\ t.length_left = LengthBytes /\ Fed(t) = 2 * PrefixBytes
      BY <1>1, <1>4, <2>2, Counters DEF SamePlace
    <3>2. RawTotal = 2 * PrefixBytes + message_length
      BY Padding
    <3>3. t.message_left # 0 <=> At(t) = "MSG_REQ"
      BY <1>1, <2>2, <3>1 DEF AfterPrefix
    <3>4. 0 % WordBytes = 0
      BY Counters, <1>1
    <3>5. message_length \in Nat /\ Fed(t) = Fed(s) + 1
      BY <1>1, <2>2, Counters
    <3>6. CASE At(t) = "MSG_REQ"
      <4>1. message_length > 0 /\ Fed(t) = RawTotal - message_length
        BY <3>1, <3>2, <3>3, <3>5, <3>6, <1>1, Counters
      <4> QED BY <4>1, <3>1, <3>4, <3>5, <3>6 DEF Progress, InPrefix, InMessage
    <3>7. CASE At(t) = "PAD80"
      <4>1. message_length = 0
        BY <3>1, <3>3, <3>7
      <4>2. Fed(t) = RawTotal
        BY <4>1, <3>1, <3>2, <1>1, Counters
      <4> QED BY <4>2, <3>1, <3>7 DEF Progress, InPrefix, InMessage
    <3> QED BY <2>1, <2>2, <3>6, <3>7
  <2>3. Ready(s) /\ SameBytes(s, s)
    BY DEF Taking, SameBytes
  <2> HIDE DEF byte, next
  <2> QED BY <1>2, <1>3, <2>1, <2>2, <2>3, TakeResumes, OrderedSoFar DEF Phases
<1>5. CASE s.prefix_left # 1
  <2> DEFINE n == s.prefix_left - 1
             u == [s EXCEPT !.prefix_left = n]
  <2>1. FeedPrefix1(s) = Feed(u, byte, "PREFIX1")
    BY <1>5 DEF FeedPrefix1
  <2>2. n \in 0 .. PrefixBytes /\ n > 0
    BY <1>1, <1>5, Counters
  <2>3. ASSUME NEW t, At(t) = "PREFIX1", Fed(t) = Fed(s) + 1, SamePlace(u, t) PROVE Progress(t)
    <3>1. t.prefix_left = n /\ t.message_left = message_length /\ t.addr = 0
          /\ t.zero_left = Zeros /\ t.length_left = LengthBytes
      BY <1>1, <2>3 DEF SamePlace, StreamType
    <3> QED BY <1>1, <2>2, <2>3, <3>1, Counters DEF Progress, InPrefix, InMessage
  <2>4. u \in StreamType
    BY <1>1, <2>2, SetPrefixLeft
  <2>5. SameCore(s, u)
    BY <1>1 DEF SameCore, SameBytes, StreamType
  <2> HIDE DEF u, byte
  <2> QED BY <1>2, <1>3, <2>1, <2>3, <2>4, <2>5, Recounted, TakeResumes, OrderedSoFar DEF Phases, Taking
<1> QED BY <1>4, <1>5

(* ... then the message: the address counts up inside the RAM. *)
LEMMA TakeByteFields ==
  ASSUME message_length \in Lengths, NEW s, Ready(s), Progress(s), InMessage(s)
  PROVE  LET u == TakeByte(s) IN
         /\ u \in StreamType /\ SameCore(s, u) /\ u.word = s.word /\ u.sel = s.sel
         /\ u.zero_left = Zeros /\ u.length_left = LengthBytes
         /\ u.message_left = s.message_left - 1
         /\ u.message_left > 0 => u.addr = s.addr + 1
         /\ s.addr \in 0 .. message_length - 1 /\ Fed(s) = 2 * PrefixBytes + s.addr
         /\ s.addr = message_length - s.message_left /\ s.message_left > 0
<1> DEFINE a == (s.addr + 1) % MaxMessage
           n == s.message_left - 1
           u == [s EXCEPT !.addr = a, !.message_left = n]
<1>1. TakeByte(s) = u
  BY DEF TakeByte
<1>2. s \in StreamType /\ s.message_left > 0 /\ Fed(s) = RawTotal - s.message_left
      /\ s.addr = message_length - s.message_left /\ s.zero_left = Zeros
      /\ s.length_left = LengthBytes /\ message_length <= MaxMessage
  BY DEF Ready, Progress, Blocks, InMessage
<1>3. s.addr \in 0 .. message_length - 1 /\ Fed(s) = 2 * PrefixBytes + s.addr
  <2>1. RawTotal = 2 * PrefixBytes + message_length
    BY Padding
  <2> QED BY <1>2, <2>1, Counters
<1>4. a \in 0 .. MaxMessage - 1 /\ n \in 0 .. MaxMessage
  BY <1>2, Counters
<1>5. n > 0 => a = s.addr + 1
  BY <1>2, Counters
<1> HIDE DEF a, n
<1>6. u \in StreamType
  BY <1>2, <1>4, SetMessageLeft
<1>7. SameCore(s, u) /\ u.word = s.word /\ u.sel = s.sel /\ u.zero_left = s.zero_left
      /\ u.length_left = s.length_left /\ u.message_left = n /\ u.addr = a
  BY <1>2 DEF SameCore, SameBytes, StreamType
<1> HIDE DEF u
<1> QED BY <1>1, <1>2, <1>3, <1>5, <1>6, <1>7 DEF n

(* The place after a byte of the message. *)
LEMMA AfterByte ==
  ASSUME message_length \in Lengths, NEW s, Ready(s), Progress(s), InMessage(s),
         NEW refill \in BOOLEAN, NEW t, At(t) = AfterMessageByte(s, refill),
         Fed(t) = Fed(s) + 1,
         t.zero_left = Zeros, t.length_left = LengthBytes, t.message_left = s.message_left - 1,
         t.message_left > 0 => t.addr = s.addr + 1,
         t.message_left > 0 /\ refill => (s.addr + 1) % WordBytes = 0,
         t.message_left > 0 /\ ~refill => t.sel = (s.addr + 1) % WordBytes /\ t.sel > 0
  PROVE  Progress(t)
<1>1. s \in StreamType /\ s.addr = message_length - s.message_left /\ s.message_left > 0
      /\ Fed(s) = 2 * PrefixBytes + s.addr
  BY TakeByteFields DEF Ready
<1>2. RawTotal = 2 * PrefixBytes + message_length
  BY Padding
<1>3. t.message_left \in Nat /\ Fed(t) = RawTotal - t.message_left
      /\ (t.message_left > 0 => t.addr = message_length - t.message_left)
      /\ (t.message_left = 0 <=> s.message_left = 1)
  BY <1>1, <1>2, Counters
<1>4. CASE t.message_left = 0
  <2>1. At(t) = "PAD80" /\ Fed(t) = RawTotal
    BY <1>2, <1>3, <1>4, <1>1, Counters DEF AfterMessageByte
  <2> QED BY <2>1 DEF Progress, InPrefix, InMessage
<1>5. CASE t.message_left > 0 /\ refill
  <2>1. At(t) = "MSG_REQ"
    BY <1>3, <1>5 DEF AfterMessageByte
  <2> QED BY <2>1, <1>3, <1>5 DEF Progress, InPrefix, InMessage
<1>6. CASE t.message_left > 0 /\ ~refill
  <2>1. At(t) = "MSG_READ"
    BY <1>3, <1>6 DEF AfterMessageByte
  <2> QED BY <2>1, <1>3, <1>6 DEF Progress, InPrefix, InMessage
<1>7. t.message_left \in Nat
  BY <1>1, Counters
<1>8. t.message_left = 0 \/ t.message_left > 0
  BY ONLY <1>7
<1> QED BY ONLY <1>4, <1>5, <1>6, <1>8
-----------------------------------------------------------------------------
(* A new word's first byte is its byte 0, its others follow.                *)
LEMMA LatchWordInv ==
  ASSUME message_length \in Lengths, NEW s, Taking(s, "MSG_LATCH"), message_bram_dout \in WordRange
  PROVE  /\ Resumes(LatchWord(s))
         /\ Hashed(s) /\ Latched(s) => Hashed(LatchWord(s))
<1> DEFINE pos == s.addr % WordBytes
           k == (pos + 1) % WordBytes
           m == TakeByte(s)
           u == [m EXCEPT !.word = message_bram_dout, !.sel = k]
           byte == MessageByte(message_bram_dout, pos)
           next == AfterMessageByte(s, FALSE)
<1>1. LatchWord(s) = Feed(u, byte, next)
  BY DEF LatchWord
<1>2. s \in StreamType /\ Ready(s) /\ Progress(s) /\ InMessage(s) /\ s.st = "MSG_LATCH"
      /\ At(s) = "MSG_LATCH" /\ pos = 0
  BY DEF Taking, Ready, Progress, At, InMessage
<1>3. WordBytes \in Nat /\ WordBytes > 1 /\ message_length \in Nat /\ PrefixBytes \in Nat \ {0}
      /\ MaxMessage \in Nat
  BY <1>2, Counters
<1>4. k = 1 /\ k \in 0 .. WordBytes - 1
  BY <1>2, <1>3
<1>5. /\ m \in StreamType /\ SameCore(s, m)
      /\ m.zero_left = Zeros /\ m.length_left = LengthBytes
      /\ m.message_left = s.message_left - 1
      /\ m.message_left > 0 => m.addr = s.addr + 1
      /\ s.addr \in 0 .. message_length - 1 /\ Fed(s) = 2 * PrefixBytes + s.addr
      /\ s.addr = message_length - s.message_left /\ s.message_left > 0
  BY <1>2, TakeByteFields
<1>6. s.addr = WordBytes * (s.addr \div WordBytes) /\ s.addr \div WordBytes \in Nat
  BY <1>2, <1>3, <1>5, DivMod
<1>7. (s.addr + 1) % WordBytes = 1 /\ (s.addr + 1) \div WordBytes = s.addr \div WordBytes
  <2>1. s.addr \in Nat /\ s.addr % WordBytes < WordBytes - 1
    BY <1>2, <1>3, <1>5
  <2> QED BY <2>1, <1>2, <1>3, NextInWord
<1>8. byte \in Byte /\ next \in Phases
  <2>1. message_bram_dout * WordBytes + pos \in Nat
    BY <1>2, <1>3 DEF WordRange
  <2> QED BY <2>1 DEF Byte, ByteKinds, MessageByte, AfterMessageByte, Phases
<1>9. Latched(s) => byte = Ideal(Fed(s) + 1)
  <2> SUFFICES ASSUME Latched(s) PROVE byte = Ideal(Fed(s) + 1)
    OBVIOUS
  <2>1. byte = <<"message", 0, s.addr>>
    BY <1>2, <1>3, <1>6 DEF Latched, MessageByte
  <2>2. Ideal(Fed(s) + 1) = <<"message", 0, s.addr>>
    BY <1>5, IdealBytes
  <2> QED BY <2>1, <2>2
<1> HIDE DEF pos, k, m, byte
<1>10. u \in StreamType
  BY <1>4, <1>5, SetWord
<1>11. SameCore(s, u) /\ u.word = message_bram_dout /\ u.sel = k /\ u.addr = m.addr
       /\ u.message_left = m.message_left /\ u.zero_left = m.zero_left
       /\ u.length_left = m.length_left
  BY <1>5 DEF SameCore, SameBytes, StreamType
<1>12. ASSUME NEW t, At(t) = next, Fed(t) = Fed(s) + 1, SamePlace(u, t) PROVE Progress(t)
  <2>1. t.zero_left = Zeros /\ t.length_left = LengthBytes /\ t.message_left = s.message_left - 1
        /\ (t.message_left > 0 => t.addr = s.addr + 1) /\ t.sel = 1
    BY <1>4, <1>5, <1>11, <1>12 DEF SamePlace
  <2>2. t.message_left > 0 => t.sel = (s.addr + 1) % WordBytes /\ t.sel > 0
    BY <2>1, <1>7
  <2>3. At(t) = AfterMessageByte(s, FALSE) /\ Fed(t) = Fed(s) + 1
    BY <1>12
  <2> HIDE DEF u
  <2> QED BY <2>1, <2>2, <2>3, <1>2, AfterByte
<1>13. next = "MSG_READ" /\ Latched(s) => u.word = u.addr \div WordBytes
  <2>1. next = "MSG_READ" => s.message_left # 1
    BY DEF AfterMessageByte
  <2>2. next = "MSG_READ" => m.message_left > 0
    BY <2>1, <1>2, <1>5, Counters
  <2> QED BY <2>2, <1>2, <1>5, <1>7, <1>11 DEF Latched
<1> HIDE DEF u, next
<1> QED BY <1>1, <1>2, <1>8, <1>9, <1>10, <1>11, <1>12, <1>13, Recounted, TakeResumes, OrderedSoFar
-----------------------------------------------------------------------------
(* The further bytes come from the latched word, a new one is asked for     *)
(* behind its last.                                                         *)
LEMMA ReadByteInv ==
  ASSUME message_length \in Lengths, NEW s, Taking(s, "MSG_READ")
  PROVE  /\ Resumes(ReadByte(s))
         /\ Hashed(s) => Hashed(ReadByte(s))
<1> DEFINE k == (s.sel + 1) % WordBytes
           m == TakeByte(s)
           u == [m EXCEPT !.sel = k]
           byte == MessageByte(s.word, s.sel)
           refill == s.sel = WordBytes - 1
           next == AfterMessageByte(s, refill)
<1>1. s \in StreamType /\ Ready(s) /\ Progress(s) /\ InMessage(s) /\ s.st = "MSG_READ"
      /\ At(s) = "MSG_READ" /\ s.sel = s.addr % WordBytes /\ s.sel > 0
  BY DEF Taking, Ready, Progress, At, InMessage
<1>2. WordBytes \in Nat /\ WordBytes > 1 /\ message_length \in Nat /\ PrefixBytes \in Nat \ {0}
      /\ MaxMessage \in Nat /\ s.word \in WordRange /\ s.sel \in 0 .. WordBytes - 1
  BY <1>1, Counters
<1>3. /\ m \in StreamType /\ SameCore(s, m) /\ m.sel = s.sel /\ m.word = s.word
      /\ m.zero_left = Zeros /\ m.length_left = LengthBytes
      /\ m.message_left = s.message_left - 1
      /\ m.message_left > 0 => m.addr = s.addr + 1
      /\ s.addr \in 0 .. message_length - 1 /\ Fed(s) = 2 * PrefixBytes + s.addr
      /\ s.addr = message_length - s.message_left /\ s.message_left > 0
  BY <1>1, TakeByteFields
<1>4. ReadByte(s) = Feed(u, byte, next)
  BY <1>3 DEF ReadByte
<1>5. s.addr = WordBytes * (s.addr \div WordBytes) + s.sel /\ s.addr \div WordBytes \in Nat
  <2>1. s.addr \in Nat /\ WordBytes > 0
    BY <1>2, <1>3
  <2>2. s.addr = WordBytes * (s.addr \div WordBytes) + (s.addr % WordBytes)
        /\ s.addr \div WordBytes \in Nat
    BY <2>1, <1>2, DivMod
  <2> QED BY <2>2, <1>1
<1>6. /\ k \in 0 .. WordBytes - 1
      /\ ~refill => k = s.sel + 1
  BY <1>2
<1>7. /\ refill => (s.addr + 1) % WordBytes = 0
      /\ ~refill => (s.addr + 1) % WordBytes = s.sel + 1
                    /\ (s.addr + 1) \div WordBytes = s.addr \div WordBytes
  <2>1. s.addr \in Nat
    BY <1>2, <1>3
  <2>2. ~refill => s.sel < WordBytes - 1
    BY <1>2
  <2> QED BY <2>1, <2>2, <1>1, <1>2, NextInWord
<1>8. byte \in Byte /\ next \in Phases
  <2>1. s.word * WordBytes + s.sel \in Nat
    BY <1>2 DEF WordRange
  <2> QED BY <2>1 DEF Byte, ByteKinds, MessageByte, AfterMessageByte, Phases
<1>9. Hashed(s) => byte = Ideal(Fed(s) + 1)
  <2> SUFFICES ASSUME Hashed(s) PROVE byte = Ideal(Fed(s) + 1)
    OBVIOUS
  <2>1. s.word = s.addr \div WordBytes
    BY <1>1 DEF Hashed
  <2>2. s.word * WordBytes + s.sel = s.addr
    BY <2>1, <1>2, <1>5
  <2>3. byte = <<"message", 0, s.addr>>
    BY <2>2 DEF MessageByte
  <2>4. Ideal(Fed(s) + 1) = <<"message", 0, s.addr>>
    BY <1>3, IdealBytes
  <2> QED BY <2>3, <2>4
<1> HIDE DEF k, m, byte
<1>10. u \in StreamType
  BY <1>2, <1>3, <1>6, SetWord
<1>11. SameCore(s, u) /\ u.word = s.word /\ u.sel = k /\ u.addr = m.addr
       /\ u.message_left = m.message_left /\ u.zero_left = m.zero_left
       /\ u.length_left = m.length_left
  BY <1>3 DEF SameCore, SameBytes, StreamType
<1>12. ASSUME NEW t, At(t) = next, Fed(t) = Fed(s) + 1, SamePlace(u, t) PROVE Progress(t)
  <2>1. t.zero_left = Zeros /\ t.length_left = LengthBytes /\ t.message_left = s.message_left - 1
        /\ (t.message_left > 0 => t.addr = s.addr + 1) /\ t.sel = k
    BY <1>3, <1>11, <1>12 DEF SamePlace
  <2>2. refill \in BOOLEAN
    OBVIOUS
  <2>3. ~refill => t.sel = (s.addr + 1) % WordBytes /\ t.sel > 0
    BY <2>1, <1>1, <1>2, <1>6, <1>7
  <2> HIDE DEF u, refill
  <2> QED BY <2>1, <2>2, <2>3, <1>1, <1>7, <1>12, AfterByte
<1>13. next = "MSG_READ" /\ Hashed(s) => u.word = u.addr \div WordBytes
  <2>1. next = "MSG_READ" => s.message_left # 1 /\ ~refill
    BY DEF AfterMessageByte
  <2>2. next = "MSG_READ" => m.message_left > 0
    BY <2>1, <1>1, <1>3, Counters
  <2> QED BY <2>1, <2>2, <1>1, <1>3, <1>7, <1>11 DEF Hashed
<1> HIDE DEF u, next, refill
<1> QED BY <1>1, <1>4, <1>8, <1>9, <1>10, <1>11, <1>12, <1>13, Recounted, TakeResumes, OrderedSoFar
-----------------------------------------------------------------------------
(* The padding: the byte 80 ... *)
LEMMA FeedPad80Inv ==
  ASSUME message_length \in Lengths, NEW s, Taking(s, "PAD80")
  PROVE  /\ Resumes(FeedPadding(s))
         /\ Hashed(s) => Hashed(FeedPadding(s))
<1> DEFINE byte == <<"80", 0, 0>>
           next == IF s.zero_left # 0 THEN "PAD_ZERO" ELSE "LENGTH"
<1>1. s \in StreamType /\ Ready(s) /\ s.st = "PAD80" /\ At(s) = "PAD80" /\ Fed(s) = RawTotal
      /\ s.zero_left = Zeros /\ s.length_left = LengthBytes
  BY DEF Taking, Ready, Progress, At
<1>2. FeedPadding(s) = Feed(s, byte, next)
  BY <1>1 DEF FeedPadding
<1>3. byte \in Byte /\ next \in Phases
  BY DEF Byte, ByteKinds, Phases
<1>4. byte = Ideal(Fed(s) + 1)
  BY <1>1, IdealBytes
<1>5. ASSUME NEW t, At(t) = next, Fed(t) = Fed(s) + 1, SamePlace(s, t) PROVE Progress(t)
  <2>1. t.zero_left = Zeros /\ t.length_left = LengthBytes /\ Fed(t) = RawTotal + 1
    BY <1>1, <1>5 DEF SamePlace
  <2>2. RawTotal \in Nat /\ PaddedTotal \in Nat /\ Zeros = PaddedTotal - RawTotal - (1 + LengthBytes)
        /\ Zeros \in Nat /\ LengthBytes \in Nat \ {0}
    BY <1>1, Padding, ZerosAreFewest, Counters DEF Zeros
  <2>3. CASE Zeros # 0
    <3>1. At(t) = "PAD_ZERO"
      BY <2>3, <1>1, <1>5
    <3>2. Zeros \in 1 .. Zeros /\ Fed(t) = PaddedTotal - LengthBytes - Zeros
      BY <2>1, <2>2, <2>3
    <3> QED BY <3>1, <3>2, <2>1 DEF Progress, InPrefix, InMessage
  <2>4. CASE Zeros = 0
    <3>1. At(t) = "LENGTH"
      BY <2>4, <1>1, <1>5
    <3>2. LengthBytes > 0 /\ Fed(t) = PaddedTotal - LengthBytes
      BY <2>1, <2>2, <2>4
    <3> QED BY <3>1, <3>2, <2>1 DEF Progress, InPrefix, InMessage
  <2> QED BY <2>3, <2>4
<1>6. SameBytes(s, s) /\ next # "MSG_READ"
  BY DEF SameBytes
<1> HIDE DEF byte, next
<1> QED BY <1>1, <1>2, <1>3, <1>4, <1>5, <1>6, TakeResumes, OrderedSoFar

(* ... the zeros ... *)
LEMMA FeedZeroInv ==
  ASSUME message_length \in Lengths, NEW s, Taking(s, "PAD_ZERO")
  PROVE  /\ Resumes(FeedPadding(s))
         /\ Hashed(s) => Hashed(FeedPadding(s))
<1> DEFINE byte == <<"00", 0, 0>>
           next == IF s.zero_left = 1 THEN "LENGTH" ELSE "PAD_ZERO"
           n == s.zero_left - 1
           u == [s EXCEPT !.zero_left = n]
<1>1. s \in StreamType /\ Ready(s) /\ s.st = "PAD_ZERO" /\ At(s) = "PAD_ZERO"
      /\ s.zero_left \in 1 .. Zeros /\ Fed(s) = PaddedTotal - LengthBytes - s.zero_left
      /\ s.length_left = LengthBytes
  BY DEF Taking, Ready, Progress, At
<1>2. FeedPadding(s) = Feed(u, byte, next)
  BY <1>1 DEF FeedPadding
<1>3. byte \in Byte /\ next \in Phases
  BY DEF Byte, ByteKinds, Phases
<1>4. RawTotal \in Nat /\ PaddedTotal \in Nat /\ Zeros = PaddedTotal - RawTotal - (1 + LengthBytes)
      /\ Zeros \in Nat /\ Zeros <= BlockBytes + LengthBytes /\ LengthBytes \in Nat \ {0}
      /\ BlockBytes \in Nat
  BY <1>1, Padding, ZerosAreFewest, Counters, MessageAssumption DEF Zeros
<1>5. byte = Ideal(Fed(s) + 1)
  <2>1. Fed(s) \in RawTotal + 1 .. PaddedTotal - LengthBytes - 1
    BY <1>1, <1>4
  <2> QED BY <2>1, IdealBytes
<1>6. n \in 0 .. BlockBytes + LengthBytes
  BY <1>1, <1>4
<1>7. u \in StreamType
  BY <1>1, <1>6, SetZeroLeft
<1>8. SameCore(s, u) /\ u.zero_left = n /\ u.length_left = s.length_left
  BY <1>1 DEF SameCore, SameBytes, StreamType
<1>9. ASSUME NEW t, At(t) = next, Fed(t) = Fed(s) + 1, SamePlace(u, t) PROVE Progress(t)
  <2>1. t.zero_left = n /\ t.length_left = LengthBytes /\ Fed(t) = PaddedTotal - LengthBytes - n
    BY <1>1, <1>4, <1>8, <1>9 DEF SamePlace
  <2>2. CASE s.zero_left = 1
    <3>1. At(t) = "LENGTH"
      BY <2>2, <1>9
    <3>2. LengthBytes > 0 /\ Fed(t) = PaddedTotal - LengthBytes
      BY <2>1, <2>2, <1>4
    <3> QED BY <3>1, <3>2, <2>1 DEF Progress, InPrefix, InMessage
  <2>3. CASE s.zero_left # 1
    <3>1. At(t) = "PAD_ZERO"
      BY <2>3, <1>9
    <3>2. n \in 1 .. Zeros
      BY <2>3, <1>1, <1>4
    <3> HIDE DEF n
    <3> QED BY <3>1, <3>2, <2>1 DEF Progress, InPrefix, InMessage
  <2> QED BY <2>2, <2>3
<1>10. next # "MSG_READ"
  OBVIOUS
<1> HIDE DEF byte, next, u
<1> QED BY <1>1, <1>2, <1>3, <1>5, <1>7, <1>8, <1>9, <1>10, Recounted, TakeResumes, OrderedSoFar

(* ... and the length. *)
LEMMA FeedLengthInv ==
  ASSUME message_length \in Lengths, NEW s, Taking(s, "LENGTH")
  PROVE  /\ Resumes(FeedPadding(s))
         /\ Hashed(s) => Hashed(FeedPadding(s))
<1> DEFINE byte == <<"length", RawTotal, LengthBytes - s.length_left>>
           next == IF s.length_left = 1 THEN "IDLE" ELSE "LENGTH"
           n == s.length_left - 1
           u == [s EXCEPT !.length_left = n]
<1>1. s \in StreamType /\ Ready(s) /\ s.st = "LENGTH" /\ At(s) = "LENGTH"
      /\ s.length_left > 0 /\ Fed(s) = PaddedTotal - s.length_left
  BY DEF Taking, Ready, Progress, At
<1>2. FeedPadding(s) = Feed(u, byte, next)
  BY <1>1 DEF FeedPadding
<1>3. RawTotal \in Nat /\ PaddedTotal \in Nat /\ LengthBytes \in Nat \ {0}
      /\ s.length_left \in 1 .. LengthBytes
  BY <1>1, Padding, Counters
<1>4. byte \in Byte /\ next \in Phases
  BY <1>3 DEF Byte, ByteKinds, Phases
<1>5. byte = Ideal(Fed(s) + 1)
  <2>1. LengthBytes - s.length_left \in 0 .. LengthBytes - 1
        /\ Fed(s) + 1 = PaddedTotal - LengthBytes + (LengthBytes - s.length_left) + 1
    BY <1>1, <1>3
  <2> QED BY <2>1, IdealBytes
<1>6. n \in 0 .. LengthBytes
  BY <1>3
<1>7. u \in StreamType
  BY <1>1, <1>6, SetLengthLeft
<1>8. SameCore(s, u) /\ u.length_left = n
  BY <1>1 DEF SameCore, SameBytes, StreamType
<1>9. ASSUME NEW t, At(t) = next, Fed(t) = Fed(s) + 1, SamePlace(u, t) PROVE Progress(t)
  <2>1. t.length_left = n /\ Fed(t) = PaddedTotal - n
    BY <1>1, <1>3, <1>8, <1>9 DEF SamePlace
  <2>2. CASE s.length_left = 1
    <3>1. At(t) = "IDLE"
      BY <2>2, <1>9
    <3> QED BY <3>1 DEF Progress, InPrefix, InMessage
  <2>3. CASE s.length_left # 1
    <3>1. At(t) = "LENGTH" /\ n > 0
      BY <2>3, <1>3, <1>9
    <3> HIDE DEF n
    <3> QED BY <3>1, <2>1 DEF Progress, InPrefix, InMessage
  <2> QED BY <2>2, <2>3
<1>10. next # "MSG_READ"
  OBVIOUS
<1> HIDE DEF byte, next, u
<1> QED BY <1>1, <1>2, <1>4, <1>5, <1>7, <1>8, <1>9, <1>10, Recounted, TakeResumes, OrderedSoFar
-----------------------------------------------------------------------------
(* A compressed block joins the absorbed bytes, in order. *)
LEMMA AbsorbBytes ==
  ASSUME NEW s \in StreamType, NEW t, t.absorbed = s.absorbed \o s.block, t.block = <<>>
  PROVE  /\ t.absorbed \in Seq(Byte) /\ t.block \in Seq(Byte)
         /\ Len(t.absorbed) = Len(s.absorbed) + Len(s.block) /\ Len(t.block) = 0
         /\ Fed(t) = Fed(s)
         /\ Ordered(s) => Ordered(t)
<1> DEFINE a == s.absorbed
           b == s.block
<1>1. a \in Seq(Byte) /\ b \in Seq(Byte)
  BY DEF StreamType
<1> HIDE DEF a, b
<1>2. Len(a) \in Nat /\ Len(b) \in Nat
  BY <1>1, LenProperties
<1>3. /\ a \o b \in Seq(Byte) /\ Len(a \o b) = Len(a) + Len(b)
      /\ \A i \in 1 .. Len(a) + Len(b) : (a \o b)[i] = IF i <= Len(a) THEN a[i] ELSE b[i - Len(a)]
  BY <1>1, ConcatProperties
<1>4. t.absorbed = a \o b
  BY DEF a, b
<1>5. Len(t.block) = 0 /\ t.block \in Seq(Byte)
  BY EmptySeq
<1>6. Fed(t) = Len(a) + Len(b) /\ Fed(s) = Len(a) + Len(b)
  BY <1>2, <1>3, <1>4, <1>5 DEF Fed, a, b
<1>7. ASSUME Ordered(s) PROVE Ordered(t)
  <2>1. /\ \A i \in 1 .. Len(a) : a[i] = Ideal(i)
        /\ \A i \in 1 .. Len(b) : b[i] = Ideal(Len(a) + i)
    BY <1>7 DEF Ordered, a, b
  <2>2. ASSUME NEW i \in 1 .. Len(a) + Len(b) PROVE (a \o b)[i] = Ideal(i)
    <3>1. CASE i <= Len(a)
      BY <3>1, <2>1, <1>2, <1>3
    <3>2. CASE i > Len(a)
      <4> DEFINE j == i - Len(a)
      <4>1. j \in 1 .. Len(b) /\ Len(a) + j = i
        BY <3>2, <1>2
      <4>2. (a \o b)[i] = b[j]
        BY <3>2, <1>2, <1>3
      <4> HIDE DEF j
      <4>3. b[j] = Ideal(Len(a) + j)
        BY <4>1, <2>1
      <4> QED BY <4>1, <4>2, <4>3
    <3> QED BY <3>1, <3>2, <1>2
  <2> QED BY <2>2, <1>3, <1>4, <1>5 DEF Ordered
<1> QED BY <1>3, <1>4, <1>5, <1>6, <1>7 DEF a, b

(* After a compression the unit goes on, or has finished its hash. *)
LEMMA AbsorbInv ==
  ASSUME message_length \in Lengths, NEW s \in StreamType, s.st = "COMPRESS",
         Progress(s), Blocks(s), Quiet(s), ~s.done
  PROVE  LET t == Absorb(s) IN
         /\ t \in StreamType /\ StreamInv(t) /\ t.st # "MSG_LATCH"
         /\ Hashed(s) => Hashed(t)
<1> DEFINE t == Absorb(s)
           m == [s EXCEPT !.absorbed = @ \o s.block, !.block = <<>>]
<1>1. s.resume \in Phases /\ At(s) = s.resume /\ s.blocks_left \in Nat
  BY DEF Phases, At, StreamType
<1>2. Len(s.block) = BlockBytes /\ s.blocks_left > 0 /\ message_length <= MaxMessage
      /\ Len(s.absorbed) + s.blocks_left * BlockBytes = PaddedTotal
  BY DEF Blocks
<1>3. BlockBytes \in Nat /\ BlockBytes > 0 /\ Len(s.absorbed) \in Nat
  <2>1. s.absorbed \in Seq(Byte)
    BY DEF StreamType
  <2> QED BY <2>1, LenProperties, MessageAssumption
<1>4. m.absorbed = s.absorbed \o s.block /\ m.block = <<>>
  BY DEF StreamType
<1>5. m.absorbed \in Seq(Byte) /\ m.block \in Seq(Byte)
  BY <1>4, AbsorbBytes
<1>6. m \in StreamType
  BY <1>4, <1>5 DEF StreamType
<1>7. CASE s.blocks_left = 1
  <2>1. t = [m EXCEPT !.busy = FALSE, !.done = TRUE, !.error = FALSE, !.st = "IDLE"]
    BY <1>7 DEF Absorb
  <2> HIDE DEF m
  <2>2. t \in StreamType
    BY <1>6, <2>1 DEF StreamType
  <2>3. t.st = "IDLE" /\ t.done /\ ~t.error /\ t.absorbed = s.absorbed \o s.block /\ t.block = <<>>
    BY <1>4, <1>6, <2>1 DEF StreamType
  <2>4. ~t.block_start /\ t.rounds_left = 0 /\ ~t.block_done
    BY <1>6, <2>1 DEF StreamType, Quiet, m
  <2> HIDE DEF t
  <2>5. Len(t.absorbed) = PaddedTotal /\ (Ordered(s) => Ordered(t))
    <3>1. Len(t.absorbed) = Len(s.absorbed) + Len(s.block) /\ (Ordered(s) => Ordered(t))
      BY <2>3, AbsorbBytes
    <3>2. s.blocks_left * BlockBytes = BlockBytes
      BY <1>3, <1>7
    <3> QED BY <3>1, <3>2, <1>2
  <2>6. At(t) = "IDLE"
    BY <2>3 DEF At
  <2>7. ~(message_length > MaxMessage)
    BY <1>2, Counters
  <2>8. StreamInv(t)
    BY <2>3, <2>4, <2>5, <2>6, <2>7
    DEF StreamInv, Progress, InPrefix, InMessage, Blocks, Core, Requested, Finished
  <2>9. Hashed(s) => Hashed(t)
    BY <2>3, <2>5, <2>6 DEF Hashed
  <2> QED BY <2>2, <2>3, <2>8, <2>9 DEF t
<1>8. CASE s.blocks_left # 1
  <2> DEFINE blocks == s.blocks_left - 1
  <2>1. t = [m EXCEPT !.blocks_left = blocks, !.st = s.resume]
    BY <1>8 DEF Absorb, StreamType
  <2>2. blocks \in Nat
    BY <1>1, <1>2
  <2>3. SamePlace(s, m) /\ Quiet(m) /\ ~m.done
    BY DEF StreamType, SamePlace, Quiet
  <2> HIDE DEF m, blocks
  <2>4. t \in StreamType
    <3>1. s.resume \in {"IDLE", "PREFIX0", "PREFIX1", "MSG_REQ", "MSG_WAIT", "MSG_LATCH",
                        "MSG_READ", "PAD80", "PAD_ZERO", "LENGTH", "COMPRESS"}
      BY <1>1 DEF Phases
    <3> DEFINE next == s.resume
    <3> HIDE DEF next
    <3>2. [m EXCEPT !.blocks_left = blocks, !.st = next] \in StreamType
      BY <1>6, <2>2, <3>1 DEF StreamType, next
    <3> QED BY <2>1, <3>2 DEF next
  <2>5. t.st = s.resume /\ t.absorbed = s.absorbed \o s.block /\ t.block = <<>>
        /\ t.blocks_left = blocks
    BY <1>4, <1>6, <2>1 DEF StreamType
  <2>6. SamePlace(s, t) /\ Quiet(t) /\ ~t.done
    BY <1>6, <2>1, <2>3 DEF StreamType, SamePlace, Quiet
  <2> HIDE DEF t
  <2>7. At(t) = At(s) /\ t.st # "MSG_LATCH" /\ t.st # "MSG_WAIT" /\ t.st # "COMPRESS"
    BY <1>1, <2>5 DEF At, Phases
  <2>8. Len(t.absorbed) = Len(s.absorbed) + BlockBytes /\ Len(t.block) = 0 /\ Fed(t) = Fed(s)
        /\ (Ordered(s) => Ordered(t))
    BY <1>2, <2>5, AbsorbBytes
  <2>9. Progress(t)
    BY <2>6, <2>7, <2>8 DEF Progress, SamePlace, InPrefix, InMessage
  <2>10. Blocks(t)
    <3>1. blocks * BlockBytes = s.blocks_left * BlockBytes - BlockBytes
      BY <1>1, <1>3, OneBlockLess DEF blocks
    <3>2. blocks * BlockBytes \in Int /\ s.blocks_left * BlockBytes \in Int
      BY <1>1, <1>3, <2>2
    <3>3. blocks > 0
      BY <1>1, <1>2, <1>8 DEF blocks
    <3>4. Len(t.absorbed) + blocks * BlockBytes = PaddedTotal
      BY <3>1, <3>2, <1>2, <1>3, <2>8
    <3>5. t.blocks_left > 0 /\ Len(t.absorbed) + t.blocks_left * BlockBytes = PaddedTotal
      BY <3>3, <3>4, <2>5
    <3> QED BY <3>5, <1>2, <1>3, <2>7, <2>8 DEF Blocks
  <2>11. StreamInv(t)
    BY <2>6, <2>7, <2>9, <2>10 DEF StreamInv, Core, Quiet, Requested, Finished
  <2>12. Hashed(s) => Hashed(t)
    BY <2>6, <2>7, <2>8 DEF Hashed, SamePlace
  <2> QED BY <2>4, <2>7, <2>11, <2>12 DEF t
<1> QED BY <1>7, <1>8

(* A hash starts before its first byte, or fails for a message beyond the   *)
(* RAM.                                                                     *)
LEMMA StartHashInv ==
  ASSUME message_length \in Lengths, NEW s \in StreamType, s.st = "IDLE", Quiet(s), ~s.done,
         Len(s.block) <= BlockBytes
  PROVE  LET t == StartHash(s) IN
         t \in StreamType /\ StreamInv(t) /\ t.st # "MSG_LATCH" /\ Hashed(t)
<1> DEFINE t == StartHash(s)
<1>1. message_length \in Nat /\ MaxMessage \in Nat \ {0} /\ WordBytes \in Nat \ {0, 1}
      /\ PrefixBytes \in Nat \ {0} /\ LengthBytes \in Nat \ {0} /\ BlockBytes \in Nat
      /\ BlockBytes > 0 /\ MaxMessage % WordBytes = 0
  BY MessageAssumption
<1>2. <<>> \in Seq(Byte) /\ Len(<<>>) = 0
  BY EmptySeq
<1>3. CASE message_length > MaxMessage
  <2>1. t = [s EXCEPT !.busy = FALSE, !.done = TRUE, !.error = TRUE, !.absorbed = <<>>]
    BY <1>3 DEF StartHash
  <2>2. t \in StreamType
    BY <1>2, <2>1, ZenonT(60) DEF StreamType
  <2>3. t.st = "IDLE" /\ t.done /\ t.error /\ Quiet(t) /\ t.block = s.block
    BY <2>1 DEF StreamType, Quiet
  <2> HIDE DEF t
  <2>4. At(t) = "IDLE"
    BY <2>3 DEF At
  <2>5. StreamInv(t) /\ Hashed(t)
    BY <2>3, <2>4, <1>3 DEF StreamInv, Progress, InPrefix, InMessage, Blocks, Core, Requested,
                      Finished, Quiet, Hashed
  <2> QED BY <2>2, <2>3, <2>5 DEF t
<1>4. CASE ~(message_length > MaxMessage)
  <2> DEFINE blocks == PaddedTotal \div BlockBytes
  <2>1. t = [s EXCEPT !.st = "PREFIX0", !.block = <<>>, !.absorbed = <<>>,
                 !.prefix_left = PrefixBytes, !.message_left = message_length,
                 !.zero_left = Zeros,
                 !.length_left = LengthBytes, !.blocks_left = blocks,
                 !.addr = 0, !.word = 0, !.sel = 0, !.busy = TRUE, !.error = FALSE]
    BY <1>4 DEF StartHash, Zeros
  <2>2. blocks \in Nat \ {0} /\ PaddedTotal = blocks * BlockBytes /\ PaddedTotal \in Nat
    BY Padding
  <2>3. Zeros \in 0 .. BlockBytes + LengthBytes
    BY ZerosAreFewest, <1>1
  <2>4. 0 \in 0 .. MaxMessage \div WordBytes - 1 /\ 0 \in 0 .. MaxMessage - 1
        /\ 0 \in 0 .. WordBytes - 1 /\ message_length \in 0 .. MaxMessage
    <3>1. MaxMessage = WordBytes * (MaxMessage \div WordBytes) /\ MaxMessage \div WordBytes \in Nat
      BY <1>1, DivMod
    <3>2. MaxMessage \div WordBytes # 0
      BY <3>1, <1>1
    <3> QED BY <3>1, <3>2, <1>1, <1>4
  <2> HIDE DEF blocks
  <2>5. t \in StreamType
    <3> DEFINE u == [s EXCEPT !.st = "PREFIX0", !.block = <<>>, !.absorbed = <<>>]
               v == [u EXCEPT !.prefix_left = PrefixBytes, !.message_left = message_length]
               w == [v EXCEPT !.zero_left = Zeros, !.length_left = LengthBytes,
                              !.blocks_left = blocks]
    <3>1. u \in StreamType
      BY <1>2 DEF StreamType
    <3>2. t = [w EXCEPT !.addr = 0, !.word = 0, !.sel = 0, !.busy = TRUE, !.error = FALSE]
      BY <2>1 DEF StreamType
    <3> HIDE DEF u
    <3>3. PrefixBytes \in 0 .. PrefixBytes /\ LengthBytes \in 0 .. LengthBytes
      BY <1>1
    <3>4. v \in StreamType
      BY <2>4, <3>1, <3>3 DEF StreamType
    <3> HIDE DEF v
    <3>5. w \in StreamType
      BY <2>2, <2>3, <3>3, <3>4 DEF StreamType
    <3> HIDE DEF w, t
    <3> QED BY <2>4, <3>2, <3>5 DEF StreamType
  <2>6. /\ t.st = "PREFIX0" /\ t.block = <<>> /\ t.absorbed = <<>>
        /\ t.prefix_left = PrefixBytes /\ t.message_left = message_length
        /\ t.zero_left = Zeros /\ t.length_left = LengthBytes /\ t.blocks_left = blocks
        /\ t.addr = 0 /\ ~t.done /\ Quiet(t)
    BY <2>1 DEF StreamType, Quiet
  <2> HIDE DEF t
  <2>7. At(t) = "PREFIX0" /\ Fed(t) = 0
    BY <2>6, <1>2 DEF At, Fed
  <2>8. Progress(t)
    BY <2>6, <2>7, <1>1 DEF Progress, InPrefix, InMessage
  <2>9. Blocks(t)
    BY <2>2, <2>6, <1>1, <1>2, <1>4 DEF Blocks
  <2>10. StreamInv(t)
    BY <2>6, <2>8, <2>9 DEF StreamInv, Core, Requested, Finished, Quiet
  <2>11. Ordered(t)
    BY <2>6, <1>2 DEF Ordered
  <2>12. Hashed(t)
    BY <2>7, <2>11 DEF Hashed
  <2> QED BY <2>5, <2>6, <2>10, <2>12 DEF t
<1> QED BY <1>3, <1>4
-----------------------------------------------------------------------------
(* Asking for a word, and waiting for it. *)
LEMMA RequestInv ==
  ASSUME message_length \in Lengths, NEW s, Taking(s, "MSG_REQ"), s.rd_en,
         NEW granted \in BOOLEAN
  PROVE  LET t == [s EXCEPT !.rd_addr = s.addr,
                            !.st = IF granted THEN "MSG_WAIT" ELSE "MSG_REQ"] IN
         /\ t \in StreamType /\ StreamInv(t) /\ t.st # "MSG_LATCH"
         /\ Hashed(s) => Hashed(t)
<1> DEFINE st == IF granted THEN "MSG_WAIT" ELSE "MSG_REQ"
           t == [s EXCEPT !.rd_addr = s.addr, !.st = st]
<1>1. s \in StreamType /\ Progress(s) /\ Blocks(s) /\ Quiet(s) /\ ~s.done /\ s.st = "MSG_REQ"
      /\ At(s) = "MSG_REQ"
  BY DEF Taking, Ready, At
<1>2. st \in {"MSG_WAIT", "MSG_REQ"}
  OBVIOUS
<1> HIDE DEF st
<1>3. t \in StreamType
  BY <1>1, <1>2 DEF StreamType
<1>4. t.st = st /\ t.rd_addr = s.addr /\ t.rd_en
  BY <1>1 DEF StreamType
<1>5. SamePlace(s, t) /\ SameBytes(s, t)
  BY <1>1 DEF StreamType, SamePlace, SameBytes
<1>6. Quiet(t) /\ ~t.done
  BY <1>1 DEF StreamType, Quiet
<1> HIDE DEF t
<1>7. At(t) \in {"MSG_WAIT", "MSG_REQ"} /\ Fed(t) = Fed(s)
  BY <1>2, <1>4, <1>5 DEF At, Fed, SameBytes
<1>8. Progress(t)
  BY <1>1, <1>5, <1>7 DEF Progress, SamePlace, InPrefix, InMessage
<1>9. StreamInv(t)
  BY <1>1, <1>2, <1>4, <1>5, <1>6, <1>8
  DEF StreamInv, Blocks, SameBytes, SamePlace, Core, Quiet, Requested, Finished
<1>10. Hashed(s) => Hashed(t)
  BY <1>1, <1>5, <1>7 DEF Hashed, Ordered, SameBytes
<1> QED BY <1>2, <1>3, <1>4, <1>9, <1>10 DEF t, st

(* The word arrives one edge after it was granted. *)
LEMMA WaitInv ==
  ASSUME message_length \in Lengths, NEW s, Taking(s, "MSG_WAIT")
  PROVE  LET t == [s EXCEPT !.st = "MSG_LATCH"] IN
         /\ t \in StreamType /\ StreamInv(t) /\ t.addr = s.addr
         /\ Hashed(s) => Hashed(t)
<1> DEFINE t == [s EXCEPT !.st = "MSG_LATCH"]
<1>1. s \in StreamType /\ Progress(s) /\ Blocks(s) /\ Quiet(s) /\ ~s.done /\ s.st = "MSG_WAIT"
      /\ At(s) = "MSG_WAIT"
  BY DEF Taking, Ready, At
<1>2. t \in StreamType /\ t.st = "MSG_LATCH"
  BY <1>1 DEF StreamType
<1>3. SamePlace(s, t) /\ SameBytes(s, t)
  BY <1>1 DEF StreamType, SamePlace, SameBytes
<1>4. Quiet(t) /\ ~t.done
  BY <1>1 DEF StreamType, Quiet
<1> HIDE DEF t
<1>5. At(t) = "MSG_LATCH" /\ Fed(t) = Fed(s)
  BY <1>2, <1>3 DEF At, Fed, SameBytes
<1>6. Progress(t)
  BY <1>1, <1>3, <1>5 DEF Progress, SamePlace, InPrefix, InMessage
<1>7. StreamInv(t)
  BY <1>1, <1>2, <1>3, <1>4, <1>6 DEF StreamInv, Blocks, SameBytes, Core, Quiet, Requested, Finished
<1>8. Hashed(s) => Hashed(t)
  BY <1>1, <1>3, <1>5 DEF Hashed, Ordered, SameBytes
<1> QED BY <1>2, <1>3, <1>7, <1>8 DEF t, SamePlace

(* What an edge of a hash unit keeps; it hashes what it latched.            *)
StreamStep(e, start) ==
  LET s == stream[e]  n == StreamNext(e, start) IN
  /\ n \in StreamType /\ StreamInv(n)
  /\ start \/ (Hashed(s) /\ Latched(s)) => Hashed(n)
  /\ n.st = "MSG_LATCH" => s.st = "MSG_WAIT" /\ n.addr = s.addr

(* Every edge of a hash unit, in any state, keeps it. *)
LEMMA StreamKeeps ==
  ASSUME message_length \in Lengths, message_bram_dout \in WordRange,
         NEW e \in Engines, stream[e] \in StreamType, StreamInv(stream[e]),
         NEW start \in BOOLEAN, start => stream[e].st = "IDLE" /\ ~stream[e].done
  PROVE  StreamStep(e, start)
<1> DEFINE s == stream[e]
           t == Edged(s)
           n == StreamNext(e, start)
<1>1. s \in StreamType /\ StreamInv(s)
  OBVIOUS
<1>2. s.st \in {"IDLE", "PREFIX0", "PREFIX1", "MSG_REQ", "MSG_WAIT", "MSG_LATCH", "MSG_READ",
                "PAD80", "PAD_ZERO", "LENGTH", "COMPRESS"}
  BY <1>1 DEF StreamType
<1>3. t \in StreamType /\ t.st = s.st /\ ~t.done /\ ~t.block_start
      /\ t.rd_en = (s.st = "MSG_REQ") /\ t.addr = s.addr
      /\ t.rounds_left = (IF s.rounds_left > 0 THEN s.rounds_left - 1
                          ELSE IF s.block_start THEN Rounds ELSE 0)
      /\ t.block_done = (s.rounds_left = 1)
  BY <1>1, EdgeFields DEF SamePlace
<1>4. /\ s.st = "IDLE" => n = IF start THEN StartHash(t) ELSE t
      /\ s.st = "PREFIX0" => n = FeedPrefix0(t)
      /\ s.st = "PREFIX1" => n = FeedPrefix1(t)
      /\ s.st = "MSG_REQ" =>
           n = [t EXCEPT !.rd_addr = s.addr, !.st = IF Granted(e) THEN "MSG_WAIT" ELSE "MSG_REQ"]
      /\ s.st = "MSG_WAIT" => n = [t EXCEPT !.st = "MSG_LATCH"]
      /\ s.st = "MSG_LATCH" => n = LatchWord(t)
      /\ s.st = "MSG_READ" => n = ReadByte(t)
      /\ s.st = "COMPRESS" => n = IF s.block_done THEN Absorb(t) ELSE t
      /\ s.st \in {"PAD80", "PAD_ZERO", "LENGTH"} => n = FeedPadding(t)
  BY DEF StreamNext, Edged
<1>5. ASSUME s.st # "IDLE"
      PROVE  Progress(t) /\ Blocks(t) /\ (s.st # "COMPRESS" => Quiet(t)) /\ (Hashed(s) => Hashed(t))
  BY <1>1, <1>5, EdgeKeeps
<1>6. Latched(s) => Latched(t)
  BY <1>3 DEF Latched
<1> HIDE DEF s, t, n
<1> SUFFICES /\ n \in StreamType /\ StreamInv(n)
             /\ start \/ (Hashed(s) /\ Latched(s)) => Hashed(n)
             /\ n.st = "MSG_LATCH" => s.st = "MSG_WAIT" /\ n.addr = s.addr
  BY DEF StreamStep, s, n
<1>7. CASE s.st = "IDLE"
  <2>1. Quiet(s)
    BY <1>1, <1>7 DEF StreamInv, Core, Quiet, StreamType
  <2>2. Quiet(t)
    BY <1>1, <1>3, <2>1 DEF Quiet, StreamType
  <2>a. Len(t.block) <= BlockBytes
    BY <1>1, EdgeFields DEF StreamInv, Blocks, SameBytes, t
  <2>3. CASE start
    BY <1>3, <1>4, <1>7, <2>a, <2>2, <2>3, StartHashInv
  <2>4. CASE ~start
    <3>1. At(t) = "IDLE" /\ t.st = "IDLE"
      BY <1>3, <1>7 DEF At
    <3>2. StreamInv(t) /\ Hashed(t)
      BY <1>3, <2>a, <2>2, <3>1 DEF StreamInv, Progress, InPrefix, InMessage, Blocks, Core, Requested,
                            Finished, Quiet, Hashed
    <3> QED BY <1>3, <1>4, <1>7, <2>4, <3>1, <3>2
  <2> QED BY <2>3, <2>4
<1>8. ~start \/ s.st = "IDLE"
  BY DEF s
<1>9. CASE s.st = "COMPRESS"
  <2>1. CASE s.block_done
    <3>1. Quiet(t)
      <4>1. s.rounds_left = 0 /\ ~s.block_start
        BY <1>1, <2>1 DEF StreamInv, Core, StreamType
      <4>2. t.rounds_left = 0 /\ ~t.block_done
        BY <1>3, <4>1 DEF StreamType
      <4> QED BY <1>3, <4>2 DEF Quiet
    <3> QED BY <1>3, <1>4, <1>5, <1>8, <1>9, <2>1, <3>1, AbsorbInv
  <2>2. CASE ~s.block_done
    <3>1. Core(t)
      <4>1. s.rounds_left = 1 => t.rounds_left = 0
        BY <1>3
      <4> QED BY <1>3, <1>9, <4>1 DEF Core
    <3>2. StreamInv(t)
      BY <1>3, <1>5, <1>9, <3>1 DEF StreamInv, Requested, Finished
    <3> QED BY <1>3, <1>4, <1>5, <1>8, <1>9, <2>2, <3>2
  <2> QED BY <2>1, <2>2
<1>10. ASSUME s.st \notin {"IDLE", "COMPRESS"} PROVE Taking(t, s.st)
  BY <1>3, <1>5, <1>10 DEF Taking, Ready
<1>11. CASE s.st \in {"PREFIX0", "PREFIX1", "MSG_READ", "PAD80", "PAD_ZERO", "LENGTH"}
  <2>1. Resumes(n) /\ (Hashed(t) => Hashed(n))
    BY <1>4, <1>10, <1>11, FeedPrefix0Inv, FeedPrefix1Inv, ReadByteInv, FeedPad80Inv,
       FeedZeroInv, FeedLengthInv
  <2> QED BY <1>5, <1>8, <1>11, <2>1 DEF Resumes
<1>12. CASE s.st = "MSG_REQ"
  <2> DEFINE g == Granted(e)
  <2>1. g \in BOOLEAN /\ t.rd_en
    BY <1>3, <1>12 DEF Granted, StreamType
  <2>2. n = [t EXCEPT !.rd_addr = t.addr, !.st = IF g THEN "MSG_WAIT" ELSE "MSG_REQ"]
    BY <1>3, <1>4, <1>12
  <2> HIDE DEF g
  <2> QED BY <1>5, <1>8, <1>10, <1>12, <2>1, <2>2, RequestInv
<1>13. CASE s.st = "MSG_WAIT"
  <2>1. n = [t EXCEPT !.st = "MSG_LATCH"] /\ Taking(t, "MSG_WAIT")
    BY <1>4, <1>10, <1>13
  <2>2. n \in StreamType /\ StreamInv(n) /\ n.addr = t.addr /\ (Hashed(t) => Hashed(n))
    BY <2>1, WaitInv
  <2> QED BY <1>3, <1>5, <1>8, <1>13, <2>2
<1>14. CASE s.st = "MSG_LATCH"
  <2>1. Resumes(n) /\ (Hashed(t) /\ Latched(t) => Hashed(n))
    BY <1>4, <1>10, <1>14, LatchWordInv
  <2> QED BY <1>5, <1>6, <1>8, <1>14, <2>1 DEF Resumes
<1> QED BY <1>2, <1>7, <1>9, <1>11, <1>12, <1>13, <1>14
-----------------------------------------------------------------------------
(* The whole path. *)

(* A unit out of reset. *)
LEMMA IdleInv ==
  ASSUME message_length \in Lengths
  PROVE  IdleStream \in StreamType /\ StreamInv(IdleStream) /\ Hashed(IdleStream)
<1>1. message_length \in Nat /\ MaxMessage \in Nat \ {0} /\ WordBytes \in Nat \ {0, 1}
      /\ PrefixBytes \in Nat \ {0} /\ LengthBytes \in Nat \ {0} /\ BlockBytes \in Nat
      /\ Rounds \in Nat /\ 0 \in WordRange
  <2>1. MaxMessage \in Nat \ {0} /\ WordBytes \in Nat \ {0, 1} /\ MaxMessage % WordBytes = 0
    BY MessageAssumption
  <2>2. MaxMessage = WordBytes * (MaxMessage \div WordBytes) /\ MaxMessage \div WordBytes \in Nat
    BY <2>1, DivMod
  <2>3. MaxMessage \div WordBytes # 0
    BY <2>1, <2>2
  <2>4. 0 \in WordRange
    BY <2>2, <2>3 DEF WordRange
  <2> QED BY <2>4, MessageAssumption
<1>2. <<>> \in Seq(Byte)
  BY EmptySeq
<1>3. IdleStream \in StreamType
  BY <1>1, <1>2 DEF IdleStream, StreamType, WordRange
<1>4. IdleStream.st = "IDLE" /\ ~IdleStream.done /\ ~IdleStream.block_start
      /\ IdleStream.rounds_left = 0 /\ ~IdleStream.block_done /\ Len(IdleStream.block) = 0
  BY EmptySeq DEF IdleStream
<1>5. At(IdleStream) = "IDLE"
  BY <1>4 DEF At
<1> HIDE DEF IdleStream
<1>6. StreamInv(IdleStream) /\ Hashed(IdleStream)
  BY <1>1, <1>4, <1>5 DEF StreamInv, Progress, InPrefix, InMessage, Blocks, Core, Requested, Finished,
                   Hashed
<1> QED BY <1>3, <1>6

(* What the RAM puts out: the word the granted engine asks for, or the last *)
(* one.                                                                     *)
LEMMA RamReads ==
  ASSUME MessageInv, RamEdge
  PROVE  /\ message_bram_dout' \in WordRange
         /\ \A e \in Engines : Granted(e) => message_bram_dout' = stream[e].rd_addr \div WordBytes
<1>1. \A e \in Engines : stream[e] \in StreamType
  BY DEF MessageInv
<1>2. \A e, f \in Engines : Granted(e) /\ Granted(f) => e = f
  BY MessageAssumption DEF Granted, Engines
<1>3. \A e \in Engines : stream[e].rd_addr \div WordBytes \in WordRange
  <2> SUFFICES ASSUME NEW a \in 0 .. MaxMessage - 1 PROVE a \div WordBytes \in WordRange
    BY <1>1 DEF StreamType
  <2> DEFINE q == a \div WordBytes
             m == MaxMessage \div WordBytes
  <2>1. MaxMessage \in Nat \ {0} /\ WordBytes \in Nat /\ WordBytes > 0 /\ MaxMessage % WordBytes = 0
    BY MessageAssumption
  <2>2. q \in Nat /\ a % WordBytes \in 0 .. WordBytes - 1 /\ a = WordBytes * q + (a % WordBytes)
    BY <2>1, DivMod
  <2>3. m \in Nat /\ MaxMessage = WordBytes * m
    BY <2>1, DivMod
  <2> HIDE DEF q, m
  <2>4. WordBytes * q < WordBytes * m
    BY <2>1, <2>2, <2>3
  <2>5. q < m
    <3> SUFFICES ASSUME q >= m PROVE FALSE
      BY <2>2, <2>3
    <3>1. WordBytes * q >= WordBytes * m
      BY <2>1, <2>2, <2>3
    <3> QED BY <3>1, <2>1, <2>2, <2>3, <2>4
  <2> QED BY <2>2, <2>3, <2>5 DEF WordRange, q, m
<1>4. CASE \E e \in Engines : Granted(e)
  <2> DEFINE f == CHOOSE e \in Engines : Granted(e)
  <2>1. f \in Engines /\ Granted(f)
    BY <1>4
  <2>2. message_bram_dout' = stream[f].rd_addr \div WordBytes
    BY <1>4 DEF RamEdge
  <2> HIDE DEF f
  <2> QED BY <1>2, <1>3, <2>1, <2>2
<1>5. CASE ~ \E e \in Engines : Granted(e)
  BY <1>5 DEF RamEdge, MessageInv
<1> QED BY <1>4, <1>5

(* The invariant holds at first ... *)
LEMMA PathStarts == Init => MessageInv
<1> SUFFICES ASSUME Init PROVE MessageInv
  OBVIOUS
<1>1. message_length \in Lengths
  BY DEF Init
<1>2. IdleStream \in StreamType /\ StreamInv(IdleStream) /\ Hashed(IdleStream)
  BY <1>1, IdleInv
<1>3. 0 \in WordRange /\ IdleStream.st = "IDLE"
  BY <1>2 DEF StreamType, WordRange, IdleStream
<1>4. 0 \in Engines
  BY MessageAssumption DEF Engines
<1> HIDE DEF IdleStream
<1> QED BY <1>1, <1>2, <1>3, <1>4 DEF Init, MessageInv, Latched

(* What holds of the registers a unit gets holds of the unit after the edge.*)
LEMMA AfterEdge ==
  ASSUME NEW e \in Engines, NEW n, message_length' = message_length, (stream[e])' = n
  PROVE  /\ StreamInv(n) => StreamInv(stream[e])'
         /\ Hashed(n) => Hashed(stream[e])'
<1>1. RawTotal' = RawTotal /\ PaddedTotal' = PaddedTotal
  BY DEF RawTotal, PaddedTotal
<1>2. Zeros' = Zeros
  BY <1>1 DEF Zeros
<1>3. Progress(n) => Progress(stream[e])'
  BY <1>1, <1>2, ZenonT(40) DEF Progress, InPrefix, InMessage, At, Fed
<1>4. Blocks(n) => Blocks(stream[e])'
  BY <1>1 DEF Blocks
<1>5. Core(n) /\ Requested(n) => Core(stream[e])' /\ Requested(stream[e])'
  BY DEF Core, Requested
<1>6. Finished(n) => Finished(stream[e])'
  BY <1>1 DEF Finished
<1>7. Ordered(n) => Ordered(stream[e])'
  BY <1>1 DEF Ordered, Ideal
<1>8. Hashed(n) => Hashed(stream[e])'
  BY <1>7 DEF Hashed, At
<1> QED BY <1>3, <1>4, <1>5, <1>6, <1>8 DEF StreamInv

(* ... and every edge keeps it ... *)
LEMMA EdgeInv ==
  ASSUME MessageInv, NEW starts \in SUBSET MayStart, Edge(starts)
  PROVE  MessageInv'
<1>1. message_length \in Lengths /\ message_bram_dout \in WordRange /\ stolen \in [Engines -> BOOLEAN]
      /\ ~stolen[0]
  BY DEF MessageInv
<1>2. \A e \in Engines :
        /\ stream[e] \in StreamType /\ StreamInv(stream[e])
        /\ stolen[e] \/ (Hashed(stream[e]) /\ Latched(stream[e]))
  BY DEF MessageInv
<1>3. message_length' = message_length /\ stream' = [e \in Engines |-> StreamNext(e, e \in starts)]
      /\ stolen' = [e \in Engines |->
               IF e \in starts THEN FALSE
               ELSE stolen[e] \/ (stream[e].st = "MSG_WAIT" /\ ~Granted(e))]
  BY DEF Edge, NoteTheft
<1>4. message_bram_dout' \in WordRange
      /\ \A e \in Engines : Granted(e) => message_bram_dout' = stream[e].rd_addr \div WordBytes
  BY RamReads DEF Edge
<1>5. \A e \in Engines : StreamStep(e, e \in starts)
  <2> TAKE e \in Engines
  <2> DEFINE start == e \in starts
  <2>1. start \in BOOLEAN /\ (start => stream[e].st = "IDLE" /\ ~stream[e].done)
    BY DEF MayStart
  <2> HIDE DEF start
  <2>2. StreamStep(e, start)
    BY <1>1, <1>2, <2>1, StreamKeeps
  <2> QED BY <2>2 DEF start
<1>6. ASSUME NEW e \in Engines
      PROVE  /\ StreamInv(stream[e])'
             /\ Hashed(StreamNext(e, e \in starts)) => Hashed(stream[e])'
  <2> DEFINE n == StreamNext(e, e \in starts)
  <2>a. message_length' = message_length
    BY <1>3
  <2>1. StreamInv(n) /\ (stream[e])' = n
    BY <1>3, <1>5 DEF StreamStep
  <2> HIDE DEF n
  <2>2. StreamInv(stream[e])' /\ (Hashed(n) => Hashed(stream[e])')
    BY <2>a, <2>1, AfterEdge
  <2> QED BY <2>2 DEF n
<1>7. ASSUME NEW e \in Engines PROVE stolen'[e] \/ (Hashed(stream[e])' /\ Latched(stream[e])')
  <2> DEFINE s == stream[e]
             n == StreamNext(e, e \in starts)
  <2> SUFFICES ASSUME ~stolen'[e] PROVE Hashed(stream[e])' /\ Latched(stream[e])'
    OBVIOUS
  <2>1. /\ e \in starts \/ (Hashed(s) /\ Latched(s)) => Hashed(n)
        /\ n.st = "MSG_LATCH" => s.st = "MSG_WAIT" /\ n.addr = s.addr
    BY <1>5 DEF StreamStep
  <2>2. (stream[e])' = n
    BY <1>3
  <2>3. e \in starts \/ (~stolen[e] /\ ~(s.st = "MSG_WAIT" /\ ~Granted(e)))
    BY <1>1, <1>3
  <2>4. Hashed(n)
    BY <1>2, <2>1, <2>3
  <2>5. ASSUME n.st = "MSG_LATCH" PROVE message_bram_dout' = n.addr \div WordBytes
    <3>1. s.st = "MSG_WAIT" /\ n.addr = s.addr
      BY <2>1, <2>5
    <3>2. e \notin starts
      BY <3>1 DEF MayStart
    <3>3. Granted(e)
      BY <2>3, <3>1, <3>2
    <3>4. s.rd_addr = s.addr
      BY <1>2, <3>1 DEF StreamInv, Requested
    <3> QED BY <1>4, <3>1, <3>3, <3>4
  <2> HIDE DEF n, s
  <2>6. Latched(stream[e])'
    BY <2>2, <2>5 DEF Latched
  <2> QED BY <1>6, <2>4, <2>6 DEF n
<1>8. ~stolen'[0]
  <2>1. 0 \in Engines /\ \A f \in Engines : 0 <= f
    BY MessageAssumption DEF Engines
  <2>2. stream[0].st = "MSG_WAIT" => Granted(0)
    BY <1>2, <2>1 DEF StreamInv, Requested, Granted
  <2> QED BY <1>1, <1>3, <2>1, <2>2
<1>9. stream' \in [Engines -> StreamType] /\ stolen' \in [Engines -> BOOLEAN]
  <2>1. \A e \in Engines : StreamNext(e, e \in starts) \in StreamType
    BY <1>5 DEF StreamStep
  <2>2. stream' \in [Engines -> StreamType]
    BY <1>3, <2>1
  <2>3. stolen' \in [Engines -> BOOLEAN]
    BY <1>1, <1>3
  <2> QED BY <2>2, <2>3
<1> QED BY <1>1, <1>3, <1>4, <1>6, <1>7, <1>8, <1>9 DEF MessageInv

(* ... and so does an abort. *)
LEMMA AbortInv ==
  ASSUME MessageInv, Abort
  PROVE  MessageInv'
<1>1. message_length \in Lengths /\ message_length' = message_length
      /\ stream' = [e \in Engines |-> IdleStream] /\ stolen' = [e \in Engines |-> FALSE]
  BY DEF MessageInv, Abort
<1>2. message_bram_dout' \in WordRange
  BY RamReads DEF Abort
<1>3. IdleStream \in StreamType /\ StreamInv(IdleStream) /\ Hashed(IdleStream)
  BY <1>1, IdleInv
<1>4. IdleStream.st = "IDLE"
  BY DEF IdleStream
<1> HIDE DEF IdleStream
<1>5. ASSUME NEW e \in Engines
      PROVE  StreamInv(stream[e])' /\ Hashed(stream[e])' /\ Latched(stream[e])'
  <2>1. (stream[e])' = IdleStream
    BY <1>1
  <2>2. StreamInv(stream[e])' /\ Hashed(stream[e])'
    BY <1>1, <1>3, <2>1, AfterEdge
  <2>3. Latched(stream[e])'
    BY <1>4, <2>1 DEF Latched
  <2> QED BY <2>2, <2>3
<1>6. 0 \in Engines
  BY MessageAssumption DEF Engines
<1> QED BY <1>1, <1>2, <1>3, <1>5, <1>6 DEF MessageInv

(* The invariant, for any number of engines, any widths and any length.     *)
THEOREM MessageInvariant == Spec => []MessageInv
<1>1. ASSUME MessageInv, [Next]_vars PROVE MessageInv'
  <2>1. CASE Tick
    BY <1>1, <2>1, EdgeInv DEF Tick
  <2>2. CASE Abort
    BY <1>1, <2>2, AbortInv
  <2>3. CASE UNCHANGED vars
    <3>1. UNCHANGED <<stream, message_bram_dout, message_length, stolen>>
      BY <2>3 DEF vars
    <3>2. ASSUME NEW e \in Engines
          PROVE  /\ StreamInv(stream[e])'
                 /\ stolen'[e] \/ (Hashed(stream[e])' /\ Latched(stream[e])')
      <4>1. (stream[e])' = stream[e]
        BY <3>1
      <4>2. Latched(stream[e]) => Latched(stream[e])'
        BY <3>1 DEF Latched
      <4> QED BY <1>1, <3>1, <4>1, <4>2, AfterEdge DEF MessageInv
    <3> QED BY <1>1, <3>1, <3>2 DEF MessageInv
  <2> QED BY <1>1, <2>1, <2>2, <2>3 DEF Next
<1> QED BY <1>1, PathStarts, PTL DEF Spec
-----------------------------------------------------------------------------
(* MessageTypeOK for any number of engines and any widths: counters and     *)
(* addresses stay in their ranges, the block in its buffer, and the         *)
(* compression core works only for a unit in ST_COMPRESS_WAIT.              *)
THEOREM MessageTypes == Spec => []MessageTypeOK
<1>1. MessageInv => MessageTypeOK
  BY DEF MessageInv, MessageTypeOK, StreamInv, Blocks, Core, WordRange
<1> QED BY <1>1, MessageInvariant, PTL

(* Nobody ever takes a word from engine 0, however many engines there are.  *)
THEOREM FirstEngineNeverDisturbed == Spec => []FirstEngineUndisturbed
<1>1. MessageInv => FirstEngineUndisturbed
  BY DEF MessageInv, FirstEngineUndisturbed
<1> QED BY <1>1, MessageInvariant, PTL

(* The padded message, as a sequence, has the padded length and the ideal   *)
(* bytes.                                                                   *)
LEMMA PaddedBytes ==
  ASSUME message_length \in Lengths
  PROVE  /\ PaddedMessage \in Seq(Byte) /\ Len(PaddedMessage) = PaddedTotal
         /\ \A i \in 1 .. PaddedTotal : PaddedMessage[i] = Ideal(i)
<1> DEFINE r == Bytes("R", 0, PrefixBytes)
           a == Bytes("A", 0, PrefixBytes)
           m == Bytes("message", 0, message_length)
           o == <<(<<"80", 0, 0>>)>>
           z == [i \in 1 .. ReferenceZeros + LengthBytes |-> <<"00", 0, 0>>]
           l == Bytes("length", RawTotal, LengthBytes)
           k == ReferenceZeros + LengthBytes
<1>1. PrefixBytes \in Nat \ {0} /\ LengthBytes \in Nat \ {0} /\ message_length \in Nat
  BY MessageAssumption
<1>2. RawTotal \in Nat /\ RawTotal = 2 * PrefixBytes + message_length /\ PaddedTotal \in Nat
      /\ k \in Nat /\ PaddedTotal = RawTotal + 1 + k + LengthBytes
  BY <1>1, Padding, ZerosAreFewest DEF Zeros
<1>3. ASSUME NEW kind \in ByteKinds, NEW of \in Nat, NEW n \in Nat
      PROVE  /\ Bytes(kind, of, n) \in Seq(Byte) /\ Len(Bytes(kind, of, n)) = n
             /\ \A i \in 1 .. n : Bytes(kind, of, n)[i] = <<kind, of, i - 1>>
  <2>1. \A i \in 1 .. n : <<kind, of, i - 1>> \in Byte
    BY DEF Byte
  <2>2. Bytes(kind, of, n) \in [1 .. n -> Byte]
    BY <2>1 DEF Bytes
  <2>3. Bytes(kind, of, n) \in Seq(Byte) /\ Len(Bytes(kind, of, n)) = n
    BY <2>2, SeqDef, LenProperties
  <2> QED BY <2>3 DEF Bytes
<1>4. r \in Seq(Byte) /\ Len(r) = PrefixBytes /\ \A i \in 1 .. PrefixBytes : r[i] = <<"R", 0, i - 1>>
  BY <1>1, <1>3 DEF ByteKinds
<1>5. a \in Seq(Byte) /\ Len(a) = PrefixBytes /\ \A i \in 1 .. PrefixBytes : a[i] = <<"A", 0, i - 1>>
  BY <1>1, <1>3 DEF ByteKinds
<1>6. m \in Seq(Byte) /\ Len(m) = message_length
      /\ \A i \in 1 .. message_length : m[i] = <<"message", 0, i - 1>>
  BY <1>1, <1>3 DEF ByteKinds
<1>7. l \in Seq(Byte) /\ Len(l) = LengthBytes
      /\ \A i \in 1 .. LengthBytes : l[i] = <<"length", RawTotal, i - 1>>
  BY <1>1, <1>2, <1>3 DEF ByteKinds
<1>8. o \in Seq(Byte) /\ Len(o) = 1 /\ o[1] = <<"80", 0, 0>>
  <2>1. <<"80", 0, 0>> \in Byte
    BY DEF Byte, ByteKinds
  <2> QED BY <2>1
<1>9. z \in Seq(Byte) /\ Len(z) = k /\ \A i \in 1 .. k : z[i] = <<"00", 0, 0>>
  <2>1. z \in [1 .. k -> Byte]
    BY DEF Byte, ByteKinds
  <2> HIDE DEF k, z
  <2>2. z \in Seq(Byte) /\ Len(z) = k
    BY <1>2, <2>1, SeqDef, LenProperties
  <2> QED BY <2>2 DEF k, z
<1>10. PaddedMessage = r \o a \o m \o o \o z \o l
  BY DEF PaddedMessage
<1> HIDE DEF r, a, m, o, z, l, k
<1> DEFINE s2 == r \o a
           s3 == s2 \o m
           s4 == s3 \o o
           s5 == s4 \o z
           s6 == s5 \o l
<1>11. s2 \in Seq(Byte) /\ Len(s2) = 2 * PrefixBytes
       /\ \A i \in 1 .. 2 * PrefixBytes : s2[i] = IF i <= PrefixBytes THEN r[i] ELSE a[i - PrefixBytes]
  <2>1. r \in Seq(Byte) /\ a \in Seq(Byte) /\ Len(r) = PrefixBytes /\ Len(a) = PrefixBytes
    BY <1>4, <1>5
  <2>2. s2 \in Seq(Byte) /\ Len(s2) = Len(r) + Len(a)
        /\ \A i \in 1 .. Len(r) + Len(a) : s2[i] = IF i <= Len(r) THEN r[i] ELSE a[i - Len(r)]
    BY ONLY <2>1, ConcatProperties
  <2>3. Len(r) + Len(a) = 2 * PrefixBytes
    BY <2>1, <1>1
  <2> HIDE DEF s2
  <2> QED BY <2>1, <2>2, <2>3
<1> HIDE DEF s2
<1>12. s3 \in Seq(Byte) /\ Len(s3) = RawTotal
       /\ \A i \in 1 .. RawTotal : s3[i] = IF i <= 2 * PrefixBytes THEN s2[i] ELSE m[i - 2 * PrefixBytes]
  <2>1. s2 \in Seq(Byte) /\ m \in Seq(Byte) /\ Len(s2) = 2 * PrefixBytes /\ Len(m) = message_length
    BY <1>11, <1>6
  <2>2. s3 \in Seq(Byte) /\ Len(s3) = Len(s2) + Len(m)
        /\ \A i \in 1 .. Len(s2) + Len(m) : s3[i] = IF i <= Len(s2) THEN s2[i] ELSE m[i - Len(s2)]
    BY ONLY <2>1, ConcatProperties
  <2> HIDE DEF s3
  <2> QED BY <2>1, <2>2, <1>1, <1>2
<1> HIDE DEF s3
<1>13. s4 \in Seq(Byte) /\ Len(s4) = RawTotal + 1
       /\ \A i \in 1 .. RawTotal + 1 : s4[i] = IF i <= RawTotal THEN s3[i] ELSE o[i - RawTotal]
  <2>1. s3 \in Seq(Byte) /\ o \in Seq(Byte) /\ Len(s3) = RawTotal /\ Len(o) = 1
    BY <1>12, <1>8
  <2>2. s4 \in Seq(Byte) /\ Len(s4) = Len(s3) + Len(o)
        /\ \A i \in 1 .. Len(s3) + Len(o) : s4[i] = IF i <= Len(s3) THEN s3[i] ELSE o[i - Len(s3)]
    BY ONLY <2>1, ConcatProperties
  <2> HIDE DEF s4
  <2> QED BY <2>1, <2>2, <1>1, <1>2
<1> HIDE DEF s4
<1>14. s5 \in Seq(Byte) /\ Len(s5) = RawTotal + 1 + k
       /\ \A i \in 1 .. RawTotal + 1 + k : s5[i] = IF i <= RawTotal + 1 THEN s4[i] ELSE z[i - (RawTotal + 1)]
  <2>1. s4 \in Seq(Byte) /\ z \in Seq(Byte) /\ Len(s4) = RawTotal + 1 /\ Len(z) = k
    BY <1>13, <1>9
  <2>2. s5 \in Seq(Byte) /\ Len(s5) = Len(s4) + Len(z)
        /\ \A i \in 1 .. Len(s4) + Len(z) : s5[i] = IF i <= Len(s4) THEN s4[i] ELSE z[i - Len(s4)]
    BY ONLY <2>1, ConcatProperties
  <2> HIDE DEF s5
  <2> QED BY <2>1, <2>2, <1>1, <1>2
<1> HIDE DEF s5
<1>15. s6 \in Seq(Byte) /\ Len(s6) = PaddedTotal
       /\ \A i \in 1 .. PaddedTotal : s6[i] = IF i <= RawTotal + 1 + k THEN s5[i]
                                              ELSE l[i - (RawTotal + 1 + k)]
  <2>1. s5 \in Seq(Byte) /\ l \in Seq(Byte) /\ Len(s5) = RawTotal + 1 + k /\ Len(l) = LengthBytes
    BY <1>14, <1>7
  <2>2. s6 \in Seq(Byte) /\ Len(s6) = Len(s5) + Len(l)
        /\ \A i \in 1 .. Len(s5) + Len(l) : s6[i] = IF i <= Len(s5) THEN s5[i] ELSE l[i - Len(s5)]
    BY ONLY <2>1, ConcatProperties
  <2> HIDE DEF s6
  <2> QED BY <2>1, <2>2, <1>1, <1>2
<1>16. PaddedMessage = s6
  BY <1>10 DEF s2, s3, s4, s5
<1> HIDE DEF s6
<1>17. ASSUME NEW i \in 1 .. PaddedTotal PROVE s6[i] = Ideal(i)
  <2>0. i \in Nat /\ i > 0
    BY <1>2
  <2>a. i <= RawTotal + 1 => s6[i] = s4[i]
    <3> SUFFICES ASSUME i <= RawTotal + 1 PROVE s6[i] = s4[i]
      OBVIOUS
    <3>1. i <= RawTotal + 1 + k /\ i \in 1 .. RawTotal + 1 + k
      BY <2>0, <1>2
    <3>2. s6[i] = s5[i]
      BY <3>1, <1>15
    <3> QED BY <3>1, <3>2, <1>14
  <2>b. i <= RawTotal => s6[i] = s3[i]
    <3> SUFFICES ASSUME i <= RawTotal PROVE s6[i] = s3[i]
      OBVIOUS
    <3>1. i <= RawTotal + 1 /\ i \in 1 .. RawTotal + 1
      BY <2>0, <1>2
    <3> QED BY <3>1, <2>a, <1>13
  <2>c. i <= 2 * PrefixBytes => s6[i] = s2[i]
    <3> SUFFICES ASSUME i <= 2 * PrefixBytes PROVE s6[i] = s2[i]
      OBVIOUS
    <3>1. i <= RawTotal /\ i \in 1 .. RawTotal
      BY <2>0, <1>1, <1>2
    <3> QED BY <3>1, <2>b, <1>12
  <2>1. CASE i <= PrefixBytes
    <3>0. i \in 1 .. 2 * PrefixBytes
      BY <2>0, <2>1, <1>1
    <3>1. s6[i] = r[i]
      BY <2>1, <2>c, <3>0, <1>11
    <3> QED BY <3>1, <2>1, <1>1, <1>4 DEF Ideal
  <2>2. CASE i > PrefixBytes /\ i <= 2 * PrefixBytes
    <3>0. i \in 1 .. 2 * PrefixBytes /\ ~(i <= PrefixBytes)
      BY <2>0, <2>2, <1>1
    <3>1. s6[i] = a[i - PrefixBytes]
      BY <2>2, <2>c, <3>0, <1>11
    <3>2. i - PrefixBytes \in 1 .. PrefixBytes
      BY <2>0, <2>2, <1>1
    <3>3. a[i - PrefixBytes] = <<"A", 0, i - PrefixBytes - 1>>
      BY <3>2, <1>5
    <3>4. Ideal(i) = <<"A", 0, i - PrefixBytes - 1>>
      BY <2>0, <2>2, <1>1, <1>2 DEF Ideal
    <3> QED BY <3>1, <3>3, <3>4
  <2>3. CASE i > 2 * PrefixBytes /\ i <= RawTotal
    <3>0. i \in 1 .. RawTotal /\ ~(i <= 2 * PrefixBytes)
      BY <2>0, <2>3, <1>1, <1>2
    <3>1. s6[i] = m[i - 2 * PrefixBytes]
      BY <2>3, <2>b, <3>0, <1>12
    <3>2. i - 2 * PrefixBytes \in 1 .. message_length
      BY <2>0, <2>3, <1>1, <1>2
    <3>3. m[i - 2 * PrefixBytes] = <<"message", 0, i - 2 * PrefixBytes - 1>>
      BY <3>2, <1>6
    <3>4. Ideal(i) = <<"message", 0, i - 2 * PrefixBytes - 1>>
      BY <2>0, <2>3, <1>1, <1>2 DEF Ideal
    <3> QED BY <3>1, <3>3, <3>4
  <2>4. CASE i = RawTotal + 1
    <3>0. i \in 1 .. RawTotal + 1 /\ ~(i <= RawTotal) /\ i - RawTotal = 1
      BY <2>0, <2>4, <1>2
    <3>1. s6[i] = o[1]
      BY <2>4, <2>a, <3>0, <1>13
    <3> QED BY <3>1, <2>4, <1>1, <1>2, <1>8 DEF Ideal
  <2>5. CASE i > RawTotal + 1 /\ i <= RawTotal + 1 + k
    <3>1. i - (RawTotal + 1) \in 1 .. k /\ i \in 1 .. RawTotal + 1 + k
      BY <2>0, <2>5, <1>2
    <3>2. s6[i] = s5[i]
      BY <2>5, <1>15
    <3>3. s5[i] = z[i - (RawTotal + 1)]
      BY <3>1, <2>0, <2>5, <1>2, <1>14
    <3>4. Ideal(i) = <<"00", 0, 0>>
      BY <2>0, <2>5, <1>1, <1>2 DEF Ideal
    <3> QED BY <3>1, <3>2, <3>3, <3>4, <1>9
  <2>6. CASE i > RawTotal + 1 + k
    <3>1. s6[i] = l[i - (RawTotal + 1 + k)]
      BY <2>6, <1>1, <1>2, <1>15
    <3>2. i - (RawTotal + 1 + k) \in 1 .. LengthBytes
      BY <2>0, <2>6, <1>1, <1>2
    <3>3. l[i - (RawTotal + 1 + k)] = <<"length", RawTotal, i - (RawTotal + 1 + k) - 1>>
      BY <3>2, <1>7
    <3>4. Ideal(i) = <<"length", RawTotal, i - 1 - (PaddedTotal - LengthBytes)>>
      BY <2>0, <2>6, <1>1, <1>2 DEF Ideal
    <3>5. i - (RawTotal + 1 + k) - 1 = i - 1 - (PaddedTotal - LengthBytes)
      BY <2>0, <1>1, <1>2
    <3> QED BY <3>1, <3>3, <3>4, <3>5
  <2> QED BY <2>1, <2>2, <2>3, <2>4, <2>5, <2>6, <2>0, <1>1, <1>2
<1> QED BY <1>15, <1>16, <1>17

(* DigestUnlessStolen for every length, every place of its end in words and *)
(* blocks, any number of engines and any interleaving with them.            *)
THEOREM DigestsUnlessStolen == Spec => []DigestUnlessStolen
<1>1. MessageInv => DigestUnlessStolen
  <2> SUFFICES ASSUME MessageInv, NEW e \in Engines, stream[e].done, ~stolen[e]
               PROVE  HashOk(e)
    BY DEF DigestUnlessStolen
  <2> DEFINE s == stream[e]
  <2>1. s \in StreamType /\ Finished(s) /\ Hashed(s) /\ message_length \in Lengths
    BY DEF MessageInv, StreamInv
  <2>2. message_length > MaxMessage <=> s.error
    BY <2>1 DEF Finished
  <2>3. CASE s.error
    BY <2>2, <2>3 DEF HashOk
  <2>4. CASE ~s.error
    <3>1. Len(s.absorbed) = PaddedTotal /\ s.absorbed \in Seq(Byte)
          /\ \A i \in 1 .. Len(s.absorbed) : s.absorbed[i] = Ideal(i)
      BY <2>1, <2>4 DEF Finished, Hashed, Ordered, StreamType
    <3>2. s.absorbed = PaddedMessage
      <4> DEFINE b == s.absorbed
      <4> HIDE DEF b
      <4>1. b \in Seq(Byte) /\ Len(b) = PaddedTotal /\ \A i \in 1 .. Len(b) : b[i] = Ideal(i)
        BY <3>1 DEF b
      <4>2. b = PaddedMessage
        BY <4>1, <2>1, PaddedBytes, SeqEqual
      <4> QED BY <4>2 DEF b
    <3> QED BY <2>2, <2>4, <3>2 DEF HashOk
  <2> QED BY <2>3, <2>4
<1> QED BY <1>1, MessageInvariant, PTL
-----------------------------------------------------------------------------
(* Engine 0's digest is always the right one, whatever the other engines    *)
(* do: it alone needs no luck.                                              *)
THEOREM FirstEngineDigests == Spec => [](stream[0].done => HashOk(0))
<1>1. DigestUnlessStolen /\ FirstEngineUndisturbed => (stream[0].done => HashOk(0))
  BY MessageAssumption DEF DigestUnlessStolen, FirstEngineUndisturbed, Engines
<1> QED BY <1>1, DigestsUnlessStolen, FirstEngineNeverDisturbed, PTL
-----------------------------------------------------------------------------
(***************************************************************************)
(* How long a hash lasts: every edge leaves a unit fewer to come, unless a *)
(* unit before it has the read port; then it leaves that one fewer.        *)
(***************************************************************************)

(* A block takes an edge per byte, and its compression its rounds, the edge *)
(* that starts them and the one that sees them done.                        *)
BlockEdges == BlockBytes + Rounds + 2

(* The edges of the blocks to come and of the one under way. *)
BytesLeft(s) ==
  IF s.st = "COMPRESS"
  THEN (s.blocks_left - 1) * BlockEdges
         + (IF s.block_start THEN Rounds + 2
            ELSE IF s.rounds_left > 0 THEN s.rounds_left + 1 ELSE 1)
  ELSE s.blocks_left * BlockEdges - Len(s.block)

(* At most three edges per byte of the message go to asking for its word.   *)
Asked(s) ==
  CASE s.st = "MSG_REQ"   -> IF s.rd_en THEN 1 ELSE 0
    [] s.st = "MSG_WAIT"  -> 2
    [] s.st = "MSG_LATCH" -> 3
    [] OTHER              -> 0

WordsLeft(s) == IF InPrefix(s) \/ InMessage(s) THEN 3 * s.message_left - Asked(s) ELSE 0

(* An upper bound of the edges a unit can still take, waiting aside.        *)
EdgesLeft(s) == IF s.st = "IDLE" THEN 0 ELSE BytesLeft(s) + WordsLeft(s)
HashEdges == (PaddedTotal \div BlockBytes) * BlockEdges + 3 * message_length
Fewer(e) == EdgesLeft(stream[e])' < EdgesLeft(stream[e])

(* A unit at work is not idle; a compression it waits for has been started, *)
(* and that of the last block is the one nothing follows.                   *)
Goes(s) ==
  /\ s.busy <=> s.st # "IDLE"
  /\ s.st = "COMPRESS" => s.block_start \/ s.rounds_left > 0 \/ s.block_done
  /\ s.st = "COMPRESS" /\ s.resume = "IDLE" => s.blocks_left = 1
  /\ s.rd_en => s.st \in {"MSG_REQ", "MSG_WAIT"}

(* One byte more, of whatever kind.                                         *)
LEMMA OneByteMore ==
  ASSUME NEW S, NEW q \in Seq(S), NEW b
  PROVE  Len(Append(q, b)) = Len(q) + 1
<1>1. q \in Seq(S \cup {b})
  <2>1. PICK n \in Nat : q \in [1 .. n -> S]
    BY SeqDef
  <2>2. q \in [1 .. n -> S \cup {b}]
    BY <2>1
  <2> QED BY <2>2, SeqDef
<1> QED BY <1>1, AppendProperties

(* The numbers these bounds are made of.                                    *)
LEMMA EdgeNumbers ==
  ASSUME NEW s \in StreamType
  PROVE  /\ BlockBytes \in Nat \ {0} /\ Rounds \in Nat \ {0} /\ BlockEdges \in Nat
         /\ BlockEdges = BlockBytes + Rounds + 2
         /\ s.blocks_left \in Nat /\ s.blocks_left * BlockEdges \in Nat
         /\ (s.blocks_left - 1) * BlockEdges = s.blocks_left * BlockEdges - BlockEdges
         /\ s.rounds_left \in 0 .. Rounds /\ Len(s.block) \in Nat
         /\ s.message_left \in Nat /\ Asked(s) \in 0 .. 3
<1>1. BlockBytes \in Nat \ {0} /\ Rounds \in Nat \ {0} /\ BlockEdges \in Nat
  BY MessageAssumption DEF BlockEdges
<1>2. s.blocks_left \in Nat /\ s.rounds_left \in 0 .. Rounds /\ s.message_left \in Nat
      /\ s.block \in Seq(Byte)
  BY DEF StreamType
<1>3. Len(s.block) \in Nat
  BY <1>2, LenProperties
<1>4. s.blocks_left * BlockEdges \in Nat
      /\ (s.blocks_left - 1) * BlockEdges = s.blocks_left * BlockEdges - BlockEdges
  <2> DEFINE k == s.blocks_left
             c == BlockEdges
  <2>1. k \in Nat /\ c \in Nat
    BY <1>1, <1>2
  <2> HIDE DEF k, c
  <2>2. k * c \in Nat /\ (k - 1) * c = k * c - c
    BY <2>1, OneBlockLess
  <2> QED BY <2>2 DEF k, c
<1>5. Asked(s) \in 0 .. 3
  BY DEF Asked
<1> QED BY <1>1, <1>2, <1>3, <1>4, <1>5 DEF BlockEdges

(* The states that still ask for words, when a byte has been taken.         *)
MessageAhead == {"PREFIX0", "PREFIX1", "MSG_REQ", "MSG_READ"}
WordsAfter(u, next) == IF next \in MessageAhead THEN 3 * u.message_left ELSE 0

(* What taking a byte comes to. *)
Takes(s, n) == Goes(n) /\ EdgesLeft(n) < EdgesLeft(s)

(* A byte taken is an edge less, a full block starts its compression, and   *)
(* only the last byte of the last block is followed by none.                *)
LEMMA FeedTakes ==
  ASSUME NEW s, Ready(s), NEW u, Ready(u), SameBytes(s, u), u.busy, ~u.rd_en,
         NEW byte, NEW next \in Phases,
         next = "IDLE" => s.blocks_left = 1 /\ Len(s.block) = BlockBytes - 1,
         WordsLeft(s) \in Int, WordsAfter(u, next) <= WordsLeft(s)
  PROVE  Takes(s, Feed(u, byte, next))
<1> DEFINE n == Feed(u, byte, next)
           full == Len(u.block) = BlockBytes - 1
<1>1. s \in StreamType /\ u \in StreamType /\ s.st \notin {"IDLE", "COMPRESS"}
      /\ u.st \notin {"IDLE", "COMPRESS"} /\ Quiet(u)
      /\ u.block = s.block /\ u.blocks_left = s.blocks_left
  BY DEF Ready, SameBytes
<1>2. /\ n.block = Append(u.block, byte) /\ n.blocks_left = u.blocks_left
      /\ n.busy = u.busy /\ n.rd_en = u.rd_en /\ n.message_left = u.message_left
      /\ n.rounds_left = u.rounds_left /\ n.block_done = u.block_done
      /\ n.st = IF full THEN "COMPRESS" ELSE next
      /\ n.resume = IF full THEN next ELSE u.resume
      /\ n.block_start = IF full THEN TRUE ELSE u.block_start
  <2>1. CASE full
    BY <1>1, <2>1 DEF Feed, StreamType
  <2>2. CASE ~full
    BY <1>1, <2>2 DEF Feed, StreamType
  <2> QED BY <2>1, <2>2
<1> HIDE DEF n
<1>3. Len(n.block) = Len(u.block) + 1
  BY <1>1, <1>2, OneByteMore DEF StreamType
<1>4. At(n) = next
  BY <1>2 DEF At, Phases
<1>5. n.st # "IDLE"
  BY <1>1, <1>2
<1> DEFINE most == s.blocks_left * BlockEdges
           less == (s.blocks_left - 1) * BlockEdges
<1>a. /\ most \in Nat /\ less = most - BlockEdges /\ Len(s.block) \in Nat
      /\ BlockBytes \in Nat /\ Rounds \in Nat /\ BlockEdges = BlockBytes + Rounds + 2
  BY <1>1, EdgeNumbers
<1>b. BytesLeft(s) = most - Len(s.block)
  BY <1>1 DEF BytesLeft
<1>c. full => BytesLeft(n) = less + (Rounds + 2)
  BY <1>1, <1>2 DEF BytesLeft
<1>d. ~full => BytesLeft(n) = most - Len(n.block)
  BY <1>1, <1>2 DEF BytesLeft, Phases
<1> HIDE DEF most, less
<1>6. BytesLeft(s) \in Int
  BY <1>a, <1>b
<1>7. BytesLeft(n) = BytesLeft(s) - 1
  BY <1>1, <1>3, <1>a, <1>b, <1>c, <1>d
<1>8. WordsLeft(n) = WordsAfter(u, next)
  <2>1. Asked(n) = 0
    BY <1>2 DEF Asked, Phases
  <2>2. u.message_left \in Nat
    BY <1>1, EdgeNumbers
  <2>3. (InPrefix(n) \/ InMessage(n)) <=> next \in MessageAhead
    BY <1>4 DEF InPrefix, InMessage, MessageAhead, Phases
  <2> QED BY <1>2, <2>1, <2>2, <2>3 DEF WordsLeft, WordsAfter
<1>9. Goes(n)
  BY <1>1, <1>2, <1>5 DEF Goes, Phases
<1>10. EdgesLeft(n) = BytesLeft(n) + WordsLeft(n) /\ EdgesLeft(s) = BytesLeft(s) + WordsLeft(s)
  BY <1>1, <1>5 DEF EdgesLeft
<1>11. WordsAfter(u, next) \in Int
  <2>1. u.message_left \in Nat
    BY <1>1 DEF StreamType
  <2> QED BY <2>1 DEF WordsAfter
<1> QED BY <1>6, <1>7, <1>8, <1>9, <1>10, <1>11 DEF Takes, n

(* Taking a byte of R, ... *)
LEMMA Prefix0Takes ==
  ASSUME message_length \in Lengths, NEW s, Taking(s, "PREFIX0"), s.busy, ~s.rd_en
  PROVE  Takes(s, FeedPrefix0(s))
<1> DEFINE last == s.prefix_left = 1
           byte == <<"R", 0, PrefixBytes - s.prefix_left>>
           n == IF last THEN PrefixBytes ELSE s.prefix_left - 1
           u == [s EXCEPT !.prefix_left = n]
           next == IF last THEN "PREFIX1" ELSE "PREFIX0"
<1>1. FeedPrefix0(s) = Feed(u, byte, next)
  BY DEF FeedPrefix0
<1>2. s \in StreamType /\ Ready(s) /\ s.st = "PREFIX0" /\ s.prefix_left > 0
      /\ WordsLeft(s) = 3 * s.message_left - Asked(s) /\ Asked(s) = 0
  BY DEF Taking, Ready, Progress, At, InPrefix, WordsLeft, Asked
<1>3. n \in 0 .. PrefixBytes /\ s.message_left \in Nat
  BY <1>2, Counters
<1> HIDE DEF n, byte
<1>4. u \in StreamType
  BY <1>2, <1>3, SetPrefixLeft
<1>5. SameCore(s, u) /\ u.busy /\ ~u.rd_en /\ u.message_left = s.message_left
  BY <1>2 DEF SameCore, SameBytes, StreamType
<1> HIDE DEF u
<1>6. Ready(u) /\ SameBytes(s, u)
  BY <1>2, <1>4, <1>5, Recounted
<1>7. next \in Phases \ {"IDLE"} /\ WordsAfter(u, next) = 3 * s.message_left
  BY <1>5 DEF Phases, WordsAfter, MessageAhead
<1> HIDE DEF next
<1> QED BY <1>1, <1>2, <1>3, <1>5, <1>6, <1>7, FeedTakes

(* ... of A, ... *)
LEMMA Prefix1Takes ==
  ASSUME message_length \in Lengths, NEW s, Taking(s, "PREFIX1"), s.busy, ~s.rd_en
  PROVE  Takes(s, FeedPrefix1(s))
<1> DEFINE last == s.prefix_left = 1
           byte == <<"A", 0, PrefixBytes - s.prefix_left>>
           n == IF last THEN s.prefix_left ELSE s.prefix_left - 1
           u == IF last THEN s ELSE [s EXCEPT !.prefix_left = n]
           next == IF last THEN AfterPrefix(s) ELSE "PREFIX1"
<1>1. FeedPrefix1(s) = Feed(u, byte, next)
  BY DEF FeedPrefix1
<1>2. s \in StreamType /\ Ready(s) /\ s.st = "PREFIX1" /\ s.prefix_left > 0
      /\ WordsLeft(s) = 3 * s.message_left - Asked(s) /\ Asked(s) = 0
  BY DEF Taking, Ready, Progress, At, InPrefix, WordsLeft, Asked
<1>3. n \in 0 .. PrefixBytes /\ s.message_left \in Nat
  BY <1>2, Counters
<1> HIDE DEF n, byte
<1>4. u \in StreamType
  BY <1>2, <1>3, SetPrefixLeft
<1>5. SameCore(s, u) /\ u.busy /\ ~u.rd_en /\ u.message_left = s.message_left
  BY <1>2 DEF SameCore, SameBytes, StreamType
<1> HIDE DEF u
<1>6. Ready(u) /\ SameBytes(s, u)
  BY <1>2, <1>4, <1>5, Recounted
<1>7. next \in Phases \ {"IDLE"} /\ WordsAfter(u, next) <= 3 * s.message_left
  BY <1>3, <1>5 DEF Phases, WordsAfter, MessageAhead, AfterPrefix
<1> HIDE DEF next
<1> QED BY <1>1, <1>2, <1>3, <1>5, <1>6, <1>7, FeedTakes

(* ... the first byte of a word of the message, ... *)
LEMMA LatchTakes ==
  ASSUME message_length \in Lengths, NEW s, Taking(s, "MSG_LATCH"), s.busy, ~s.rd_en,
         message_bram_dout \in WordRange
  PROVE  Takes(s, LatchWord(s))
<1> DEFINE pos == s.addr % WordBytes
           k == (pos + 1) % WordBytes
           m == TakeByte(s)
           u == [m EXCEPT !.word = message_bram_dout, !.sel = k]
           byte == MessageByte(message_bram_dout, pos)
           next == AfterMessageByte(s, FALSE)
<1>1. LatchWord(s) = Feed(u, byte, next)
  BY DEF LatchWord
<1>2. s \in StreamType /\ Ready(s) /\ Progress(s) /\ InMessage(s) /\ s.st = "MSG_LATCH"
      /\ WordsLeft(s) = 3 * s.message_left - Asked(s) /\ Asked(s) = 3
  BY DEF Taking, Ready, At, InMessage, WordsLeft, Asked
<1>3. k \in 0 .. WordBytes - 1 /\ s.message_left \in Nat
  BY <1>2, Counters
<1>4. m \in StreamType /\ SameCore(s, m) /\ m.message_left = s.message_left - 1
      /\ s.message_left > 0
  BY <1>2, TakeByteFields
<1>5. m.busy /\ ~m.rd_en
  BY <1>2 DEF TakeByte, StreamType
<1> HIDE DEF k, m, byte
<1>6. u \in StreamType
  BY <1>3, <1>4, SetWord
<1>7. SameCore(s, u) /\ u.busy /\ ~u.rd_en /\ u.message_left = s.message_left - 1
  BY <1>4, <1>5 DEF SameCore, SameBytes, StreamType
<1> HIDE DEF u
<1>8. Ready(u) /\ SameBytes(s, u)
  BY <1>2, <1>6, <1>7, Recounted
<1>9. next \in Phases \ {"IDLE"} /\ WordsAfter(u, next) <= 3 * s.message_left - 3
  BY <1>3, <1>4, <1>7 DEF Phases, WordsAfter, MessageAhead, AfterMessageByte
<1> HIDE DEF next
<1> QED BY <1>1, <1>2, <1>3, <1>7, <1>8, <1>9, FeedTakes

(* ... its further bytes, ... *)
LEMMA ReadTakes ==
  ASSUME message_length \in Lengths, NEW s, Taking(s, "MSG_READ"), s.busy, ~s.rd_en
  PROVE  Takes(s, ReadByte(s))
<1> DEFINE k == (s.sel + 1) % WordBytes
           m == TakeByte(s)
           u == [m EXCEPT !.sel = k]
           byte == MessageByte(s.word, s.sel)
           next == AfterMessageByte(s, s.sel = WordBytes - 1)
<1>1. /\ s \in StreamType /\ Ready(s) /\ Progress(s) /\ InMessage(s) /\ s.st = "MSG_READ"
      /\ WordsLeft(s) = 3 * s.message_left - Asked(s) /\ Asked(s) = 0
  BY DEF Taking, Ready, At, InMessage, WordsLeft, Asked
<1>2. k \in 0 .. WordBytes - 1 /\ s.message_left \in Nat
  BY <1>1, Counters
<1>3. m \in StreamType /\ SameCore(s, m) /\ m.message_left = s.message_left - 1
      /\ s.message_left > 0 /\ m.sel = s.sel
  BY <1>1, TakeByteFields
<1>4. m.busy /\ ~m.rd_en
  BY <1>1 DEF TakeByte, StreamType
<1>5. ReadByte(s) = Feed(u, byte, next)
  <2>1. u = [TakeByte(s) EXCEPT !.sel = (@ + 1) % WordBytes]
    BY <1>3
  <2> QED BY <2>1 DEF ReadByte
<1> HIDE DEF k, m, byte
<1>w. m.word \in WordRange
  BY <1>3 DEF StreamType, WordRange
<1>6. u \in StreamType
  BY <1>2, <1>3, <1>w, SetWord
<1>7. SameCore(s, u) /\ u.busy /\ ~u.rd_en /\ u.message_left = s.message_left - 1
  BY <1>3, <1>4 DEF SameCore, SameBytes, StreamType
<1> HIDE DEF u
<1>8. Ready(u) /\ SameBytes(s, u)
  BY <1>1, <1>6, <1>7, Recounted
<1>9. next \in Phases \ {"IDLE"} /\ WordsAfter(u, next) <= 3 * s.message_left
  BY <1>2, <1>3, <1>7 DEF Phases, WordsAfter, MessageAhead, AfterMessageByte
<1> HIDE DEF next
<1> QED BY <1>1, <1>2, <1>5, <1>7, <1>8, <1>9, FeedTakes

(* ... of the padding, ... *)
LEMMA PaddingTakes ==
  ASSUME message_length \in Lengths, NEW s, s.busy, ~s.rd_en,
         Taking(s, "PAD80") \/ Taking(s, "PAD_ZERO")
  PROVE  Takes(s, FeedPadding(s))
<1>1. s \in StreamType /\ Ready(s) /\ WordsLeft(s) = 0
  BY DEF Taking, Ready, At, InPrefix, InMessage, WordsLeft
<1>2. CASE s.st = "PAD80"
  <2> DEFINE byte == <<"80", 0, 0>>
             next == IF s.zero_left # 0 THEN "PAD_ZERO" ELSE "LENGTH"
  <2>1. FeedPadding(s) = Feed(s, byte, next)
    BY <1>2 DEF FeedPadding
  <2>2. next \in Phases \ {"IDLE"} /\ WordsAfter(s, next) = 0
    BY DEF Phases, WordsAfter, MessageAhead
  <2> HIDE DEF next, byte
  <2> QED BY <1>1, <2>1, <2>2, FeedTakes DEF SameBytes
<1>3. CASE s.st = "PAD_ZERO"
  <2> DEFINE byte == <<"00", 0, 0>>
             n == s.zero_left - 1
             u == [s EXCEPT !.zero_left = n]
             next == IF s.zero_left = 1 THEN "LENGTH" ELSE "PAD_ZERO"
  <2>1. FeedPadding(s) = Feed(u, byte, next)
    BY <1>3 DEF FeedPadding
  <2>2. s.zero_left \in 1 .. Zeros
    BY <1>3 DEF Taking, Progress, At
  <2>3. n \in 0 .. BlockBytes + LengthBytes
    <3>1. s.zero_left \in 0 .. BlockBytes + LengthBytes
      BY <1>1 DEF StreamType
    <3>2. Zeros \in Nat /\ BlockBytes + LengthBytes \in Nat
      BY ZerosAreFewest, MessageAssumption
    <3> QED BY <2>2, <3>1, <3>2
  <2> HIDE DEF n, byte
  <2>4. u \in StreamType
    BY <1>1, <2>3, SetZeroLeft
  <2>5. SameCore(s, u) /\ u.busy /\ ~u.rd_en
    BY <1>1 DEF SameCore, SameBytes, StreamType
  <2> HIDE DEF u
  <2>6. Ready(u) /\ SameBytes(s, u)
    BY <1>1, <2>4, <2>5, Recounted
  <2>7. next \in Phases \ {"IDLE"} /\ WordsAfter(u, next) = 0
    BY DEF Phases, WordsAfter, MessageAhead
  <2> HIDE DEF next
  <2> QED BY <1>1, <2>1, <2>5, <2>6, <2>7, FeedTakes
<1> QED BY <1>2, <1>3 DEF Taking

(* ... and of the length, whose last byte fills the last block. *)
LEMMA LengthTakes ==
  ASSUME message_length \in Lengths, NEW s, Taking(s, "LENGTH"), s.busy, ~s.rd_en
  PROVE  Takes(s, FeedPadding(s))
<1> DEFINE byte == <<"length", RawTotal, LengthBytes - s.length_left>>
           next == IF s.length_left = 1 THEN "IDLE" ELSE "LENGTH"
           n == s.length_left - 1
           u == [s EXCEPT !.length_left = n]
<1>1. /\ s \in StreamType /\ Ready(s) /\ s.st = "LENGTH" /\ WordsLeft(s) = 0
      /\ s.length_left > 0 /\ Fed(s) = PaddedTotal - s.length_left
  BY DEF Taking, Ready, Progress, At, InPrefix, InMessage, WordsLeft
<1>2. FeedPadding(s) = Feed(u, byte, next)
  BY <1>1 DEF FeedPadding
<1>3. n \in 0 .. LengthBytes
  BY <1>1, Counters
<1> HIDE DEF n, byte
<1>4. u \in StreamType
  BY <1>1, <1>3, SetLengthLeft
<1>5. SameCore(s, u) /\ u.busy /\ ~u.rd_en
  BY <1>1 DEF SameCore, SameBytes, StreamType
<1> HIDE DEF u
<1>6. Ready(u) /\ SameBytes(s, u)
  BY <1>1, <1>4, <1>5, Recounted
<1>7. next \in Phases /\ WordsAfter(u, next) = 0
  BY DEF Phases, WordsAfter, MessageAhead
<1>8. ASSUME s.length_left = 1
      PROVE  s.blocks_left = 1 /\ Len(s.block) = BlockBytes - 1
  <2> DEFINE a == Len(s.absorbed)
             b == Len(s.block)
             k == s.blocks_left
             all == k * BlockBytes
  <2>1. /\ k \in Nat \ {0} /\ a + all = PaddedTotal /\ b < BlockBytes
        /\ BlockBytes \in Nat \ {0}
    BY <1>1, EdgeNumbers DEF Ready, Blocks
  <2>2. a \in Nat /\ b \in Nat /\ PaddedTotal \in Nat
    BY <1>1, Padding, LenProperties DEF StreamType
  <2>3. a + b = PaddedTotal - 1
    BY <1>1, <1>8 DEF Fed
  <2>4. all \in Nat
    BY <2>1
  <2>5. ASSUME k >= 2 PROVE all >= 2 * BlockBytes
    <3> HIDE DEF k
    <3> QED BY <2>1, <2>5
  <2>6. k = 1 => all = BlockBytes
    BY <2>1
  <2> HIDE DEF a, b, k, all
  <2>7. all = b + 1
    BY <2>1, <2>2, <2>3, <2>4
  <2>8. k = 1
    BY <2>1, <2>2, <2>5, <2>7
  <2> QED BY <2>2, <2>6, <2>7, <2>8 DEF b, k
<1>9. next = "IDLE" => s.length_left = 1
  OBVIOUS
<1> HIDE DEF next
<1> QED BY <1>1, <1>2, <1>5, <1>6, <1>7, <1>8, <1>9, FeedTakes

(* The defaults of an edge leave what is to come alone, but for a           *)
(* compression and a request.                                               *)
LEMMA EdgeLeaves ==
  ASSUME NEW s \in StreamType, Goes(s)
  PROVE  /\ Edged(s).busy = s.busy /\ Edged(s).message_left = s.message_left
         /\ s.st \notin {"IDLE", "COMPRESS", "MSG_REQ"} => EdgesLeft(Edged(s)) = EdgesLeft(s)
<1> DEFINE t == Edged(s)
<1>1. t.busy = s.busy
  BY DEF Edged, CompressEdge, StreamType
<1>2. t.message_left = s.message_left /\ t.st = s.st /\ t.resume = s.resume
      /\ t.block = s.block /\ t.blocks_left = s.blocks_left
  BY EdgeFields DEF SamePlace, SameBytes
<1> HIDE DEF t
<1>3. At(t) = At(s)
  BY <1>2 DEF At
<1>4. s.st \notin {"IDLE", "COMPRESS", "MSG_REQ"} =>
        BytesLeft(t) = BytesLeft(s) /\ Asked(t) = Asked(s)
  BY <1>2 DEF BytesLeft, Asked
<1> QED BY <1>1, <1>2, <1>3, <1>4 DEF EdgesLeft, WordsLeft, InPrefix, InMessage, t

(* A round of a compression is an edge less, ...                            *)
LEMMA RoundGoes ==
  ASSUME NEW s \in StreamType, StreamInv(s), Goes(s), s.st = "COMPRESS", ~s.block_done
  PROVE  Takes(s, Edged(s))
<1> DEFINE t == Edged(s)
           b == (s.blocks_left - 1) * BlockEdges
<1>1. /\ t.busy = s.busy /\ t.message_left = s.message_left /\ t.st = "COMPRESS" /\ ~t.rd_en
      /\ t.resume = s.resume /\ t.blocks_left = s.blocks_left /\ ~t.block_start
      /\ t.rounds_left = IF s.rounds_left > 0 THEN s.rounds_left - 1
                         ELSE IF s.block_start THEN Rounds ELSE 0
      /\ t.block_done = (s.rounds_left = 1)
  BY EdgeLeaves, EdgeFields DEF SameBytes
<1>2. Rounds \in Nat \ {0} /\ b \in Int /\ s.rounds_left \in 0 .. Rounds /\ s.message_left \in Nat
  BY EdgeNumbers
<1>3. s.block_start \/ s.rounds_left > 0
  BY DEF Goes
<1>4. s.rounds_left > 0 => ~s.block_start
  BY DEF StreamInv, Core
<1>5. BytesLeft(s) = b + (IF s.block_start THEN Rounds + 2
                          ELSE IF s.rounds_left > 0 THEN s.rounds_left + 1 ELSE 1)
  BY DEF BytesLeft
<1>6. BytesLeft(t) = b + (IF t.rounds_left > 0 THEN t.rounds_left + 1 ELSE 1)
  BY <1>1 DEF BytesLeft
<1> HIDE DEF b, t
<1>7. BytesLeft(s) \in Int /\ BytesLeft(t) < BytesLeft(s)
  BY <1>1, <1>2, <1>3, <1>4, <1>5, <1>6
<1>8. WordsLeft(t) = WordsLeft(s) /\ WordsLeft(s) \in Int
  BY <1>1, <1>2 DEF WordsLeft, InPrefix, InMessage, At, Asked
<1>9. Goes(t)
  <2>1. CASE s.rounds_left = 1
    BY <1>1, <2>1 DEF Goes
  <2>2. CASE s.rounds_left # 1
    <3>1. t.rounds_left > 0
      BY <1>1, <1>2, <1>3, <2>2
    <3> QED BY <1>1, <3>1 DEF Goes
  <2> QED BY <2>1, <2>2
<1>10. BytesLeft(t) \in Int
  BY <1>1, <1>2, <1>6
<1> QED BY <1>1, <1>7, <1>8, <1>9, <1>10 DEF Takes, EdgesLeft, t

(* ... and so is the edge that sees it done.                                *)
LEMMA AbsorbGoes ==
  ASSUME NEW s \in StreamType, StreamInv(s), Goes(s), s.st = "COMPRESS", s.block_done
  PROVE  Takes(s, Absorb(Edged(s)))
<1> DEFINE t == Edged(s)
           n == Absorb(t)
           b == (s.blocks_left - 1) * BlockEdges
<1>1. /\ t \in StreamType /\ t.busy = s.busy /\ t.message_left = s.message_left
      /\ t.st = "COMPRESS" /\ ~t.rd_en /\ t.resume = s.resume /\ t.blocks_left = s.blocks_left
  BY EdgeLeaves, EdgeFields DEF SameBytes
<1>2. b \in Int /\ s.blocks_left \in Nat /\ s.message_left \in Nat /\ BlockEdges \in Nat
  BY EdgeNumbers
<1>3. s.rounds_left = 0 /\ ~s.block_start /\ s.blocks_left > 0
  BY DEF StreamInv, Core, Blocks, StreamType
<1>4. BytesLeft(s) = b + 1
  BY <1>3 DEF BytesLeft
<1>5. WordsLeft(s) = (IF s.resume \in MessageAhead THEN 3 * s.message_left ELSE 0)
  <2>1. s.resume \in Phases
    BY DEF StreamType, Phases
  <2>2. (InPrefix(s) \/ InMessage(s)) <=> s.resume \in MessageAhead
    BY <2>1 DEF InPrefix, InMessage, At, MessageAhead, Phases
  <2>3. Asked(s) = 0
    BY DEF Asked
  <2> QED BY <1>2, <2>2, <2>3 DEF WordsLeft
<1>6. EdgesLeft(s) = b + 1 + WordsLeft(s) /\ WordsLeft(s) \in Nat
  BY <1>2, <1>4, <1>5 DEF EdgesLeft
<1>7. CASE s.blocks_left = 1
  <2>1. n.st = "IDLE" /\ ~n.busy /\ n.rd_en = t.rd_en
    BY <1>1, <1>7 DEF Absorb, StreamType
  <2>2. b = 0
    <3>1. s.blocks_left - 1 = 0
      BY <1>7
    <3>2. 0 * BlockEdges = 0
      BY <1>2
    <3> QED BY <3>1, <3>2
  <2> HIDE DEF n, b, t
  <2>3. Goes(n)
    BY <1>1, <2>1 DEF Goes
  <2> QED BY <1>6, <2>1, <2>2, <2>3 DEF Takes, EdgesLeft, n, t
<1>8. CASE s.blocks_left # 1
  <2>1. /\ n.st = t.resume /\ n.busy = t.busy /\ n.rd_en = t.rd_en /\ n.block = <<>>
        /\ n.blocks_left = t.blocks_left - 1 /\ n.message_left = t.message_left
    BY <1>1, <1>8 DEF Absorb, StreamType
  <2>2. s.resume \in Phases \ {"IDLE"}
    BY <1>8 DEF Goes, StreamType, Phases
  <2> HIDE DEF n, t
  <2>3. n.st \in Phases \ {"IDLE"} /\ n.st = s.resume
    BY <1>1, <2>1, <2>2
  <2>4. BytesLeft(n) = b
    <3>1. Len(n.block) = 0
      BY <2>1, EmptySeq
    <3>2. BytesLeft(n) = (s.blocks_left - 1) * BlockEdges - Len(n.block)
      BY <1>1, <2>1, <2>3 DEF BytesLeft, Phases
    <3> QED BY <1>2, <3>1, <3>2
  <2>5. WordsLeft(n) = WordsLeft(s)
    <3>1. (InPrefix(n) \/ InMessage(n)) <=> s.resume \in MessageAhead
      BY <2>3 DEF InPrefix, InMessage, At, MessageAhead, Phases
    <3>2. Asked(n) = 0
      BY <1>1, <2>1, <2>3 DEF Asked, Phases
    <3>3. n.message_left = s.message_left
      BY <1>1, <2>1
    <3> QED BY <1>2, <1>5, <3>1, <3>2, <3>3 DEF WordsLeft
  <2>6. Goes(n)
    BY <1>1, <2>1, <2>3 DEF Goes, Phases
  <2> HIDE DEF b
  <2>7. EdgesLeft(n) = b + WordsLeft(s)
    BY <2>3, <2>4, <2>5 DEF EdgesLeft
  <2> QED BY <1>2, <1>6, <2>6, <2>7 DEF Takes, n, t
<1> QED BY <1>7, <1>8

(* A unit waits whose request is up and not granted.                        *)
Waits(e) == stream[e].st = "MSG_REQ" /\ stream[e].rd_en /\ ~Granted(e)

(* A request is up an edge after it is wanted, and granted at once or       *)
(* waited for, ...                                                          *)
LEMMA RequestGoes ==
  ASSUME NEW s \in StreamType, Goes(s), s.st = "MSG_REQ", NEW granted \in BOOLEAN, NEW addr,
         granted => s.rd_en
  PROVE  LET n == [Edged(s) EXCEPT !.rd_addr = addr,
                                   !.st = IF granted THEN "MSG_WAIT" ELSE "MSG_REQ"]
         IN  IF s.rd_en /\ ~granted THEN Goes(n) /\ EdgesLeft(n) = EdgesLeft(s) ELSE Takes(s, n)
<1> DEFINE t == Edged(s)
           n == [t EXCEPT !.rd_addr = addr, !.st = IF granted THEN "MSG_WAIT" ELSE "MSG_REQ"]
<1>1. /\ t \in StreamType /\ t.busy = s.busy /\ t.message_left = s.message_left /\ t.rd_en
      /\ t.block = s.block /\ t.blocks_left = s.blocks_left
  BY EdgeLeaves, EdgeFields DEF SameBytes
<1>2. /\ n.busy = s.busy /\ n.message_left = s.message_left /\ n.rd_en = t.rd_en
      /\ n.block = s.block /\ n.blocks_left = s.blocks_left
      /\ n.st = IF granted THEN "MSG_WAIT" ELSE "MSG_REQ"
  BY <1>1 DEF StreamType
<1> HIDE DEF n, t
<1>3. BytesLeft(n) = BytesLeft(s) /\ BytesLeft(s) \in Int
  <2>1. s.blocks_left * BlockEdges \in Nat /\ Len(s.block) \in Nat
    BY EdgeNumbers
  <2> QED BY <1>2, <2>1 DEF BytesLeft
<1>4. WordsLeft(s) = 3 * s.message_left - (IF s.rd_en THEN 1 ELSE 0)
  BY DEF WordsLeft, InMessage, At, Asked
<1>5. WordsLeft(n) = 3 * s.message_left - (IF granted THEN 2 ELSE 1)
  BY <1>1, <1>2 DEF WordsLeft, InMessage, At, Asked
<1>6. Goes(n)
  BY <1>2 DEF Goes
<1>7. s.message_left \in Nat
  BY EdgeNumbers
<1>8. EdgesLeft(n) = BytesLeft(n) + WordsLeft(n) /\ EdgesLeft(s) = BytesLeft(s) + WordsLeft(s)
  BY <1>2 DEF EdgesLeft
<1>9. ASSUME s.rd_en, ~granted PROVE EdgesLeft(n) = EdgesLeft(s)
  BY <1>3, <1>4, <1>5, <1>7, <1>8, <1>9
<1>10. ASSUME ~s.rd_en \/ granted PROVE EdgesLeft(n) < EdgesLeft(s)
  BY <1>3, <1>4, <1>5, <1>7, <1>8, <1>10
<1>11. IF s.rd_en /\ ~granted THEN Goes(n) /\ EdgesLeft(n) = EdgesLeft(s) ELSE Takes(s, n)
  BY <1>6, <1>9, <1>10 DEF Takes
<1> QED BY <1>11 DEF n, t

(* ... and the word comes after another.                                    *)
LEMMA WordComes ==
  ASSUME NEW s \in StreamType, Goes(s), s.st = "MSG_WAIT"
  PROVE  Takes(s, [Edged(s) EXCEPT !.st = "MSG_LATCH"])
<1> DEFINE t == Edged(s)
           n == [t EXCEPT !.st = "MSG_LATCH"]
<1>1. /\ t \in StreamType /\ t.busy = s.busy /\ t.message_left = s.message_left /\ ~t.rd_en
      /\ t.block = s.block /\ t.blocks_left = s.blocks_left
  BY EdgeLeaves, EdgeFields DEF SameBytes
<1>2. /\ n.busy = s.busy /\ n.message_left = s.message_left /\ n.rd_en = t.rd_en
      /\ n.block = s.block /\ n.blocks_left = s.blocks_left /\ n.st = "MSG_LATCH"
  BY <1>1 DEF StreamType
<1> HIDE DEF n, t
<1>3. BytesLeft(n) = BytesLeft(s) /\ BytesLeft(s) \in Int
  <2>1. s.blocks_left * BlockEdges \in Nat /\ Len(s.block) \in Nat
    BY EdgeNumbers
  <2> QED BY <1>2, <2>1 DEF BytesLeft
<1>4. WordsLeft(s) = 3 * s.message_left - 2 /\ WordsLeft(n) = 3 * s.message_left - 3
  BY <1>1, <1>2 DEF WordsLeft, InMessage, At, Asked
<1>5. Goes(n)
  BY <1>1, <1>2 DEF Goes
<1>6. s.message_left \in Nat
  BY EdgeNumbers
<1>7. EdgesLeft(n) = BytesLeft(n) + WordsLeft(n) /\ EdgesLeft(s) = BytesLeft(s) + WordsLeft(s)
  BY <1>2 DEF EdgesLeft
<1> QED BY <1>3, <1>4, <1>5, <1>6, <1>7 DEF Takes, n, t

(* Whatever a unit at work does, unless it waits it is an edge further.     *)
LEMMA StreamGoes ==
  ASSUME message_length \in Lengths, message_bram_dout \in WordRange,
         NEW e \in Engines, stream[e] \in StreamType, StreamInv(stream[e]), Goes(stream[e]),
         NEW start \in BOOLEAN
  PROVE  LET s == stream[e]
             n == StreamNext(e, start)
         IN  /\ Goes(n)
             /\ s.st # "IDLE" =>
                  IF Waits(e) THEN EdgesLeft(n) = EdgesLeft(s) ELSE EdgesLeft(n) < EdgesLeft(s)
<1> DEFINE s == stream[e]
           t == Edged(s)
           n == StreamNext(e, start)
<1>1. s \in StreamType /\ StreamInv(s) /\ Goes(s)
  OBVIOUS
<1>2. s.st \in {"IDLE", "PREFIX0", "PREFIX1", "MSG_REQ", "MSG_WAIT", "MSG_LATCH", "MSG_READ",
                "PAD80", "PAD_ZERO", "LENGTH", "COMPRESS"}
  BY <1>1 DEF StreamType
<1>3. t \in StreamType /\ t.st = s.st /\ ~t.done /\ t.rd_en = (s.st = "MSG_REQ") /\ t.busy = s.busy
  BY <1>1, EdgeFields, EdgeLeaves
<1>4. /\ s.st = "IDLE" => n = IF start THEN StartHash(t) ELSE t
      /\ s.st = "PREFIX0" => n = FeedPrefix0(t)
      /\ s.st = "PREFIX1" => n = FeedPrefix1(t)
      /\ s.st = "MSG_REQ" =>
           n = [t EXCEPT !.rd_addr = s.addr, !.st = IF Granted(e) THEN "MSG_WAIT" ELSE "MSG_REQ"]
      /\ s.st = "MSG_WAIT" => n = [t EXCEPT !.st = "MSG_LATCH"]
      /\ s.st = "MSG_LATCH" => n = LatchWord(t)
      /\ s.st = "MSG_READ" => n = ReadByte(t)
      /\ s.st = "COMPRESS" => n = IF s.block_done THEN Absorb(t) ELSE t
      /\ s.st \in {"PAD80", "PAD_ZERO", "LENGTH"} => n = FeedPadding(t)
  BY DEF StreamNext, Edged
<1>5. s.st \notin {"IDLE", "COMPRESS"} => Taking(t, s.st)
  BY <1>1, <1>3, EdgeKeeps DEF Taking, Ready
<1>6. s.st \notin {"IDLE", "COMPRESS", "MSG_REQ"} => EdgesLeft(t) = EdgesLeft(s)
  BY <1>1, EdgeLeaves
<1>7. s.st # "IDLE" => t.busy
  BY <1>1, <1>3 DEF Goes
<1>8. Waits(e) <=> s.st = "MSG_REQ" /\ s.rd_en /\ ~Granted(e)
  BY DEF Waits
<1>g. Granted(e) \in BOOLEAN /\ (Granted(e) => s.rd_en)
  BY <1>1 DEF Granted, StreamType
<1>r. s.st = "COMPRESS" /\ ~s.block_done => Takes(s, t)
  BY <1>1, RoundGoes
<1>b. s.st = "COMPRESS" /\ s.block_done => Takes(s, Absorb(t))
  BY <1>1, AbsorbGoes
<1>w. s.st = "MSG_WAIT" => Takes(s, [t EXCEPT !.st = "MSG_LATCH"])
  BY <1>1, WordComes
<1> DEFINE wanted(granted) ==
      [t EXCEPT !.rd_addr = s.addr, !.st = IF granted THEN "MSG_WAIT" ELSE "MSG_REQ"]
<1>q. s.st = "MSG_REQ" =>
        IF s.rd_en /\ ~Granted(e)
        THEN Goes(wanted(Granted(e))) /\ EdgesLeft(wanted(Granted(e))) = EdgesLeft(s)
        ELSE Takes(s, wanted(Granted(e)))
  <2> DEFINE g == Granted(e)
  <2> HIDE DEF g
  <2>1. g \in BOOLEAN /\ (g => s.rd_en)
    BY <1>g DEF g
  <2>2. s.st = "MSG_REQ" =>
          IF s.rd_en /\ ~g THEN Goes(wanted(g)) /\ EdgesLeft(wanted(g)) = EdgesLeft(s)
          ELSE Takes(s, wanted(g))
    BY <1>1, <2>1, RequestGoes
  <2> QED BY <2>2 DEF g
<1>n. s.st = "MSG_REQ" => n = wanted(Granted(e))
  BY <1>4
<1> HIDE DEF s, t, n, wanted
<1> SUFFICES /\ Goes(n)
             /\ s.st # "IDLE" =>
                  IF Waits(e) THEN EdgesLeft(n) = EdgesLeft(s) ELSE EdgesLeft(n) < EdgesLeft(s)
  BY DEF s, n
<1>9. CASE s.st = "IDLE"
  <2>1. ~t.busy /\ t.st = "IDLE" /\ ~t.rd_en
    BY <1>1, <1>3, <1>9 DEF Goes
  <2>2. Goes(t)
    BY <2>1 DEF Goes
  <2>3. Goes(StartHash(t))
    <3>1. CASE message_length > MaxMessage
      <4>1. /\ ~StartHash(t).busy /\ StartHash(t).st = t.st /\ StartHash(t).rd_en = t.rd_en
        BY <1>3, <3>1 DEF StartHash, StreamType
      <4> QED BY <2>1, <4>1 DEF Goes
    <3>2. CASE ~(message_length > MaxMessage)
      <4>1. /\ StartHash(t).busy /\ StartHash(t).st = "PREFIX0" /\ StartHash(t).rd_en = t.rd_en
        BY <1>3, <3>2 DEF StartHash, StreamType
      <4> QED BY <2>1, <4>1 DEF Goes
    <3> QED BY <3>1, <3>2
  <2> QED BY <1>4, <1>9, <2>2, <2>3
<1>10. CASE s.st = "COMPRESS"
  BY <1>4, <1>8, <1>10, <1>r, <1>b DEF Takes
<1>11. CASE s.st \in {"PREFIX0", "PREFIX1", "MSG_LATCH", "MSG_READ", "PAD80", "PAD_ZERO", "LENGTH"}
  <2>1. Taking(t, s.st) /\ t.busy /\ ~t.rd_en /\ EdgesLeft(t) = EdgesLeft(s) /\ ~Waits(e)
    BY <1>3, <1>5, <1>6, <1>7, <1>8, <1>11
  <2>2. Takes(t, n)
    BY <1>4, <1>11, <2>1, Prefix0Takes, Prefix1Takes, LatchTakes, ReadTakes, PaddingTakes,
       LengthTakes
  <2> QED BY <2>1, <2>2 DEF Takes
<1>12. CASE s.st = "MSG_REQ"
  BY <1>8, <1>12, <1>n, <1>q DEF Takes
<1>13. CASE s.st = "MSG_WAIT"
  BY <1>4, <1>8, <1>13, <1>w DEF Takes
<1> QED BY <1>2, <1>9, <1>10, <1>11, <1>12, <1>13

(* No unit starts with more to come than a whole hash takes.                *)
LEMMA EdgesBound ==
  ASSUME message_length \in Lengths, NEW s \in StreamType, StreamInv(s), Goes(s)
  PROVE  EdgesLeft(s) \in 0 .. HashEdges /\ (EdgesLeft(s) = 0 <=> ~s.busy)
<1> DEFINE k == s.blocks_left
           q == PaddedTotal \div BlockBytes
           left == k * BlockEdges
           all == q * BlockEdges
<1>1. /\ BlockBytes \in Nat \ {0} /\ Rounds \in Nat \ {0} /\ BlockEdges \in Nat
      /\ BlockEdges = BlockBytes + Rounds + 2 /\ k \in Nat /\ left \in Nat
      /\ (s.blocks_left - 1) * BlockEdges = left - BlockEdges
      /\ s.rounds_left \in 0 .. Rounds /\ Len(s.block) \in Nat /\ s.message_left \in Nat
      /\ Asked(s) \in 0 .. 3
  BY EdgeNumbers
<1>2. q \in Nat /\ PaddedTotal = q * BlockBytes /\ message_length \in Nat
  BY Padding, MessageAssumption
<1>3. all \in Nat
  BY <1>1, <1>2
<1>4. HashEdges = all + 3 * message_length
  BY DEF HashEdges
<1>5. CASE s.st = "IDLE"
  <2> HIDE DEF all
  <2> QED BY <1>2, <1>3, <1>4, <1>5 DEF EdgesLeft, Goes
<1>6. CASE s.st # "IDLE"
  <2>1. /\ k > 0 /\ Len(s.absorbed) + k * BlockBytes = q * BlockBytes /\ Len(s.absorbed) \in Nat
        /\ s.st # "COMPRESS" => Len(s.block) < BlockBytes
    BY <1>2, <1>6, LenProperties DEF StreamInv, Blocks, StreamType
  <2>2. k <= q
    <3> SUFFICES ASSUME k >= q + 1 PROVE FALSE
      BY <1>1, <1>2
    <3> HIDE DEF k, q
    <3>1. PICK d \in Nat : k = q + 1 + d
      BY <1>1, <1>2
    <3>2. k * BlockBytes = q * BlockBytes + BlockBytes + d * BlockBytes
      BY <1>1, <1>2, <3>1
    <3>3. d * BlockBytes \in Nat /\ q * BlockBytes \in Nat
      BY <1>1, <1>2
    <3> DEFINE now == k * BlockBytes
               whole == q * BlockBytes
               more == d * BlockBytes
               done == Len(s.absorbed)
    <3>4. /\ now = whole + BlockBytes + more /\ whole \in Nat /\ more \in Nat
          /\ done + now = whole /\ done \in Nat
      BY <2>1, <3>2, <3>3
    <3>5. BlockBytes \in Nat /\ BlockBytes > 0
      BY <1>1
    <3> HIDE DEF now, whole, more, done
    <3> QED BY <3>4, <3>5
  <2>3. left <= all /\ left >= BlockEdges
    <3> HIDE DEF k, q
    <3>1. PICK d \in Nat : q = k + d
      BY <1>1, <1>2, <2>2
    <3>2. q * BlockEdges = k * BlockEdges + d * BlockEdges /\ d * BlockEdges \in Nat
      BY <1>1, <3>1
    <3>3. PICK c \in Nat : k = c + 1
      BY <1>1, <2>1
    <3>4. k * BlockEdges = c * BlockEdges + BlockEdges /\ c * BlockEdges \in Nat
      BY <1>1, <3>3
    <3> QED BY <1>1, <3>2, <3>4
  <2>b. BytesLeft(s) = IF s.st = "COMPRESS"
                       THEN left - BlockEdges
                              + (IF s.block_start THEN Rounds + 2
                                 ELSE IF s.rounds_left > 0 THEN s.rounds_left + 1 ELSE 1)
                       ELSE left - Len(s.block)
    BY <1>1 DEF BytesLeft
  <2>c. left \in Nat
    BY <1>1
  <2> HIDE DEF left, all, k, q
  <2>4. BytesLeft(s) \in 1 .. all
    <3>1. CASE s.st = "COMPRESS"
      BY <1>1, <1>3, <2>3, <2>b, <2>c, <3>1
    <3>2. CASE s.st # "COMPRESS"
      BY <1>1, <1>3, <2>1, <2>3, <2>b, <2>c, <3>2
    <3> QED BY <3>1, <3>2
  <2>5. WordsLeft(s) \in 0 .. 3 * message_length
    <3>1. CASE InPrefix(s)
      <4>1. s.message_left = message_length
        BY <3>1 DEF StreamInv, Progress
      <4>2. Asked(s) = 0
        BY <3>1 DEF InPrefix, At, Asked
      <4> QED BY <1>2, <3>1, <4>1, <4>2 DEF WordsLeft
    <3>2. CASE InMessage(s)
      <4>1. s.message_left > 0 /\ s.addr = message_length - s.message_left /\ s.addr \in Nat
        BY <3>2, Counters DEF StreamInv, Progress
      <4>2. s.message_left <= message_length
        BY <1>1, <1>2, <4>1
      <4>3. WordsLeft(s) = 3 * s.message_left - Asked(s)
        BY <3>2 DEF WordsLeft
      <4> QED BY SMTT(30), <1>1, <1>2, <4>1, <4>2, <4>3
    <3>3. CASE ~InPrefix(s) /\ ~InMessage(s)
      BY <1>2, <3>3 DEF WordsLeft
    <3> QED BY <3>1, <3>2, <3>3
  <2>6. s.busy /\ EdgesLeft(s) = BytesLeft(s) + WordsLeft(s)
    BY <1>6 DEF Goes, EdgesLeft
  <2> QED BY <1>2, <1>3, <1>4, <2>4, <2>5, <2>6
<1> QED BY <1>5, <1>6

(* A unit that asks and is not granted has one before it that is.           *)
LEMMA FirstGranted ==
  ASSUME NEW e \in Engines, stream[e].rd_en, ~Granted(e)
  PROVE  \E f \in Engines : f < e /\ Granted(f)
<1> DEFINE R == {p \in Nat \X Nat : p[1] < p[2]}
           asking == {f \in Engines : stream[f].rd_en}
<1>1. IsWellFoundedOn(R, Nat)
  <2>1. OpToRel(<, Nat) = R
    BY DEF OpToRel
  <2> QED BY <2>1, NatLessThanWellFounded
<1>2. asking \subseteq Nat /\ asking # {}
  BY MessageAssumption DEF Engines
<1> HIDE DEF R, asking
<1>3. PICK f \in asking : \A g \in asking : ~(<<g, f>> \in R)
  BY <1>1, <1>2, WFMin
<1>4. ASSUME NEW g \in asking PROVE f <= g
  <2>1. ~(<<g, f>> \in R) /\ f \in Nat /\ g \in Nat
    BY <1>2, <1>3
  <2> QED BY <2>1 DEF R
<1>5. f \in Engines /\ Granted(f)
  BY <1>3, <1>4 DEF asking, Granted
<1>6. e \in asking
  BY DEF asking
<1>7. f # e /\ f <= e /\ f \in Nat /\ e \in Nat
  BY <1>2, <1>4, <1>5, <1>6
<1> QED BY <1>5, <1>7

(* No unit stands still.                                                    *)
Working == \A e \in Engines : Goes(stream[e])

(* An edge leaves none standing, and is one less for each that does not     *)
(* wait, ...                                                                *)
LEMMA EdgeWorks ==
  ASSUME MessageInv, Working, NEW starts \in SUBSET MayStart, Edge(starts)
  PROVE  /\ Working'
         /\ \A e \in Engines : stream[e].busy =>
              IF Waits(e) THEN EdgesLeft(stream[e])' = EdgesLeft(stream[e]) ELSE Fewer(e)
<1>1. stream' = [e \in Engines |-> StreamNext(e, e \in starts)]
  BY DEF Edge
<1>2. SUFFICES ASSUME NEW e \in Engines
               PROVE  /\ Goes(stream[e])'
                      /\ stream[e].busy =>
                           IF Waits(e) THEN EdgesLeft(stream[e])' = EdgesLeft(stream[e])
                           ELSE Fewer(e)
  BY DEF Working
<1> DEFINE start == e \in starts
           n == StreamNext(e, start)
<1>3. stream'[e] = n
  BY <1>1
<1>4. /\ Goes(n)
      /\ stream[e].st # "IDLE" =>
           IF Waits(e) THEN EdgesLeft(n) = EdgesLeft(stream[e])
           ELSE EdgesLeft(n) < EdgesLeft(stream[e])
  <2>1. start \in BOOLEAN
    OBVIOUS
  <2> HIDE DEF start
  <2>2. /\ message_length \in Lengths /\ message_bram_dout \in WordRange
        /\ stream[e] \in StreamType /\ StreamInv(stream[e]) /\ Goes(stream[e])
    BY DEF MessageInv, Working
  <2> QED BY <2>1, <2>2, StreamGoes
<1> HIDE DEF n
<1>5. Goes(stream[e])'
  BY <1>3, <1>4 DEF Goes
<1>6. EdgesLeft(stream[e])' = EdgesLeft(n)
  BY <1>3 DEF EdgesLeft, BytesLeft, WordsLeft, InPrefix, InMessage, At, Asked
<1>7. stream[e].busy => stream[e].st # "IDLE"
  BY DEF Working, Goes
<1> QED BY <1>4, <1>5, <1>6, <1>7 DEF Fewer

(* ... and no step of the path leaves one standing.                         *)
LEMMA AlwaysWorking == Spec => []Working
<1>1. Init => Working
  BY DEF Init, Working, Goes, IdleStream
<1>2. ASSUME MessageInv, Working, [Next]_vars PROVE Working'
  <2>1. CASE Tick
    BY <1>2, <2>1, EdgeWorks DEF Tick
  <2>2. CASE Abort
    <3>1. \A e \in Engines : stream'[e] = IdleStream
      BY <2>2 DEF Abort
    <3>2. \A e \in Engines : Goes(stream[e])'
      BY <3>1 DEF Goes, IdleStream
    <3> QED BY <3>2 DEF Working
  <2>3. CASE UNCHANGED vars
    BY <1>2, <2>3 DEF vars, Working, Goes
  <2> QED BY <1>2, <2>1, <2>2, <2>3 DEF Next
<1> QED BY <1>1, <1>2, MessageInvariant, PTL DEF Spec

(* The safety half of EveryHashEnds, with its measure: a hash has at most   *)
(* HashEdges edges of its own to come, none once it has ended, and every    *)
(* edge is one less, but for a unit whose request meets that of a unit      *)
(* before it: then the first of those gets its word and has one less. So    *)
(* a hash of engine 0 ends within HashEdges edges, and none waits unless    *)
(* another comes nearer its end.                                            *)
THEOREM HashesAreBounded ==
  Spec =>
    /\ [](\A e \in Engines : /\ EdgesLeft(stream[e]) \in 0 .. HashEdges
                             /\ EdgesLeft(stream[e]) = 0 <=> ~stream[e].busy)
    /\ [][Tick => \A e \in Engines : stream[e].busy =>
            \/ Fewer(e)
            \/ /\ EdgesLeft(stream[e])' = EdgesLeft(stream[e]) /\ stream[e].st = "MSG_REQ"
               /\ \E f \in Engines : f < e /\ Fewer(f)]_vars
<1> DEFINE Bounded == \A e \in Engines : /\ EdgesLeft(stream[e]) \in 0 .. HashEdges
                                         /\ EdgesLeft(stream[e]) = 0 <=> ~stream[e].busy
           Further == Tick => \A e \in Engines : stream[e].busy =>
            \/ Fewer(e)
            \/ /\ EdgesLeft(stream[e])' = EdgesLeft(stream[e]) /\ stream[e].st = "MSG_REQ"
               /\ \E f \in Engines : f < e /\ Fewer(f)
<1>1. MessageInv /\ Working => Bounded
  BY EdgesBound DEF MessageInv, Working
<1>2. ASSUME MessageInv, Working PROVE Further
  <2> SUFFICES ASSUME Tick, NEW e \in Engines, stream[e].busy
               PROVE  \/ Fewer(e)
                      \/ /\ EdgesLeft(stream[e])' = EdgesLeft(stream[e])
                         /\ stream[e].st = "MSG_REQ"
                         /\ \E f \in Engines : f < e /\ Fewer(f)
    OBVIOUS
  <2>1. \A f \in Engines : stream[f].busy =>
          IF Waits(f) THEN EdgesLeft(stream[f])' = EdgesLeft(stream[f]) ELSE Fewer(f)
    BY <1>2, EdgeWorks DEF Tick
  <2>2. CASE ~Waits(e)
    BY <2>1, <2>2
  <2>3. CASE Waits(e)
    <3>1. stream[e].st = "MSG_REQ" /\ stream[e].rd_en /\ ~Granted(e)
      BY <2>3 DEF Waits
    <3>2. PICK f \in Engines : f < e /\ Granted(f)
      BY <3>1, FirstGranted
    <3>3. stream[f].busy /\ ~Waits(f)
      <4>1. stream[f].rd_en /\ Goes(stream[f])
        BY <1>2, <3>2 DEF Granted, Working
      <4> QED BY <3>2, <4>1 DEF Goes, Waits
    <3>4. Fewer(f)
      BY <2>1, <3>3
    <3> QED BY <2>1, <2>3, <3>1, <3>2, <3>4
  <2> QED BY <2>2, <2>3
<1> HIDE DEF Bounded, Further
<1>3. Spec => []Bounded /\ [][Further]_vars
  BY <1>1, <1>2, MessageInvariant, AlwaysWorking, PTL
<1> QED BY <1>3 DEF Bounded, Further

=============================================================================
