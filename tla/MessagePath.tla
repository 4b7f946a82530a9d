---------------------------- MODULE MessagePath -----------------------------
(***************************************************************************)
(* sha512_stream_engine.v, the hash unit inside each verify engine, and    *)
(* the multiplexer of sigv_kv260_core.v through which the hash units of    *)
(* all engines read the one message RAM, one clock edge per step.          *)
(*                                                                         *)
(* A hash unit streams R, A and the message, then the padding, byte by     *)
(* byte into a block and compresses full blocks. Bytes are tags of where   *)
(* they come from, so what was hashed can be compared with what should     *)
(* have been. The verify engines around it only start and abort it.        *)
(***************************************************************************)
EXTENDS Naturals, Sequences

CONSTANTS
  EngineCount,  (* VERIFY_ENGINE_COUNT                                      *)
  BlockBytes,   (* 128                                                      *)
  PrefixBytes,  (* bytes of R and of A, 32                                  *)
  LengthBytes,  (* 8; the length field is twice as wide, its upper half 0   *)
  WordBytes,    (* bytes per RAM word, 4                                    *)
  MaxMessage,   (* 2^MESSAGE_ADDR_WIDTH                                     *)
  Rounds,       (* edges one compression takes, 80                          *)
  Lengths       (* the values of message_length                             *)

ASSUME MessageAssumption ==
  /\ EngineCount \in Nat \ {0}
  /\ PrefixBytes \in Nat \ {0} /\ LengthBytes \in Nat \ {0} /\ Rounds \in Nat \ {0}
  /\ WordBytes \in Nat \ {0, 1} /\ MaxMessage \in Nat \ {0} /\ MaxMessage % WordBytes = 0
  /\ BlockBytes \in Nat /\ BlockBytes > 2 * LengthBytes
  /\ Lengths \subseteq Nat

VARIABLES
  stream,             (* per engine, the registers of its hash unit         *)
  message_bram_dout,  (* the RAM's output register: the word read last      *)
  message_length,     (* the configuration register, locked during a batch  *)
  stolen              (* history: per engine, some word its present hash    *)
                      (* asked for was overwritten by another engine's read *)

vars == <<stream, message_bram_dout, message_length, stolen>>

Engines == 0 .. EngineCount - 1

(* A byte: its kind, what it is a byte of, its position there. *)
Bytes(kind, of, n) == [i \in 1 .. n |-> <<kind, of, i - 1>>]
ByteKinds == {"R", "A", "message", "80", "00", "length"}

IdleStream ==
  [st |-> "IDLE", resume |-> "IDLE", block |-> <<>>, absorbed |-> <<>>,
   prefix_left |-> 0, message_left |-> 0, zero_left |-> 0, length_left |-> 0,
   blocks_left |-> 0, addr |-> 0, rd_en |-> FALSE, rd_addr |-> 0, word |-> 0, sel |-> 0,
   block_start |-> FALSE, rounds_left |-> 0, block_done |-> FALSE,
   busy |-> FALSE, done |-> FALSE, error |-> FALSE]
-----------------------------------------------------------------------------
(* The multiplexer: the lowest requesting engine owns the read port. *)

(* Mutants: the highest wins; a tie grants nobody. *)
GrantedHighest(e) == stream[e].rd_en /\ \A f \in Engines : stream[f].rd_en => f <= e
GrantedAlone(e)   == stream[e].rd_en /\ \A f \in Engines : stream[f].rd_en => f = e

Granted(e) == stream[e].rd_en /\ \A f \in Engines : stream[f].rd_en => e <= f

RamEdge ==
  message_bram_dout' =
    IF \E e \in Engines : Granted(e)
    THEN stream[CHOOSE e \in Engines : Granted(e)].rd_addr \div WordBytes
    ELSE message_bram_dout
-----------------------------------------------------------------------------
(* The hash unit. *)

RawTotal == 2 * PrefixBytes + message_length

(* Mutant: the test for the extra block one byte off. *)
PaddedTotalShort ==
  LET partial == RawTotal % BlockBytes
  IN  RawTotal - partial +
        (IF partial < BlockBytes - 1 - 2 * LengthBytes THEN BlockBytes ELSE 2 * BlockBytes)

PaddedTotal ==
  LET partial == RawTotal % BlockBytes
  IN  RawTotal - partial +
        (IF partial <= BlockBytes - 1 - 2 * LengthBytes THEN BlockBytes ELSE 2 * BlockBytes)

StartHash(s) ==
  IF message_length > MaxMessage
  THEN [s EXCEPT !.busy = FALSE, !.done = TRUE, !.error = TRUE, !.absorbed = <<>>]
  ELSE [s EXCEPT !.st = "PREFIX0", !.block = <<>>, !.absorbed = <<>>,
                 !.prefix_left = PrefixBytes, !.message_left = message_length,
                 !.zero_left = PaddedTotal - RawTotal - (1 + LengthBytes),
                 !.length_left = LengthBytes, !.blocks_left = PaddedTotal \div BlockBytes,
                 !.addr = 0, !.word = 0, !.sel = 0, !.busy = TRUE, !.error = FALSE]

(* Shift one byte into the block; a full block is compressed before the     *)
(* unit goes on to state next.                                              *)
Feed(s, byte, next) ==
  IF Len(s.block) = BlockBytes - 1
  THEN [s EXCEPT !.block = Append(@, byte), !.block_start = TRUE,
                 !.resume = next, !.st = "COMPRESS"]
  ELSE [s EXCEPT !.block = Append(@, byte), !.st = next]

AfterPrefix(s) == IF s.message_left # 0 THEN "MSG_REQ" ELSE "PAD80"

FeedPrefix0(s) ==
  LET byte == <<"R", 0, PrefixBytes - s.prefix_left>>
  IN  IF s.prefix_left = 1
      THEN Feed([s EXCEPT !.prefix_left = PrefixBytes], byte, "PREFIX1")
      ELSE Feed([s EXCEPT !.prefix_left = @ - 1], byte, "PREFIX0")

FeedPrefix1(s) ==
  LET byte == <<"A", 0, PrefixBytes - s.prefix_left>>
  IN  IF s.prefix_left = 1 THEN Feed(s, byte, AfterPrefix(s))
      ELSE Feed([s EXCEPT !.prefix_left = @ - 1], byte, "PREFIX1")

(* Byte sel of RAM word w. *)
MessageByte(w, sel) == <<"message", 0, w * WordBytes + sel>>

AfterMessageByte(s, refill) ==
  IF s.message_left = 1 THEN "PAD80" ELSE IF refill THEN "MSG_REQ" ELSE "MSG_READ"

(* Mutant: an address one bit too wide. *)
TakeByteWide(s) == [s EXCEPT !.addr = @ + 1, !.message_left = @ - 1]

TakeByte(s) == [s EXCEPT !.addr = (@ + 1) % MaxMessage, !.message_left = @ - 1]

(* ST_MSG_LATCH takes the word off the RAM and its byte at addr, and starts *)
(* no refill: the next byte comes from the latched word. ST_MSG_READ takes  *)
(* the further bytes of that word.                                          *)
LatchWord(s) ==
  LET pos == s.addr % WordBytes
  IN  Feed([TakeByte(s) EXCEPT !.word = message_bram_dout, !.sel = (pos + 1) % WordBytes],
           MessageByte(message_bram_dout, pos), AfterMessageByte(s, FALSE))

ReadByte(s) ==
  Feed([TakeByte(s) EXCEPT !.sel = (@ + 1) % WordBytes],
       MessageByte(s.word, s.sel), AfterMessageByte(s, s.sel = WordBytes - 1))

FeedPadding(s) ==
  CASE s.st = "PAD80" ->
         Feed(s, <<"80", 0, 0>>, IF s.zero_left # 0 THEN "PAD_ZERO" ELSE "LENGTH")
    [] s.st = "PAD_ZERO" ->
         Feed([s EXCEPT !.zero_left = @ - 1], <<"00", 0, 0>>,
              IF s.zero_left = 1 THEN "LENGTH" ELSE "PAD_ZERO")
    [] s.st = "LENGTH" ->
         Feed([s EXCEPT !.length_left = @ - 1],
              <<"length", RawTotal, LengthBytes - s.length_left>>,
              IF s.length_left = 1 THEN "IDLE" ELSE "LENGTH")

(* The compressed block joins what the hash state stands for. *)
Absorb(s) ==
  LET t == [s EXCEPT !.absorbed = @ \o s.block, !.block = <<>>]
  IN  IF s.blocks_left = 1
      THEN [t EXCEPT !.busy = FALSE, !.done = TRUE, !.error = FALSE, !.st = "IDLE"]
      ELSE [t EXCEPT !.blocks_left = @ - 1, !.st = s.resume]

(* One edge of the compression core. *)
CompressEdge(s) ==
  [s EXCEPT !.rounds_left = IF @ > 0 THEN @ - 1 ELSE IF s.block_start THEN Rounds ELSE 0,
            !.block_done = s.rounds_left = 1]

StreamNext(e, start) ==
  LET s == stream[e]
      t == [CompressEdge(s) EXCEPT !.block_start = FALSE, !.done = FALSE,
                                   !.rd_en = s.st = "MSG_REQ"]
  IN  CASE s.st = "IDLE"      -> IF start THEN StartHash(t) ELSE t
        [] s.st = "PREFIX0"   -> FeedPrefix0(t)
        [] s.st = "PREFIX1"   -> FeedPrefix1(t)
        [] s.st = "MSG_REQ"   ->
             [t EXCEPT !.rd_addr = s.addr, !.st = IF Granted(e) THEN "MSG_WAIT" ELSE "MSG_REQ"]
        [] s.st = "MSG_WAIT"  -> [t EXCEPT !.st = "MSG_LATCH"]
        [] s.st = "MSG_LATCH" -> LatchWord(t)
        [] s.st = "MSG_READ"  -> ReadByte(t)
        [] s.st = "COMPRESS"  -> IF s.block_done THEN Absorb(t) ELSE t
        [] OTHER              -> FeedPadding(t)
-----------------------------------------------------------------------------
(* A verify engine starts its hash unit only from ST_HASH_START, when the   *)
(* unit is idle. engine_rst_n, which a batch abort pulls, resets all units  *)
(* at once and leaves the RAM's output register alone; it is down for an    *)
(* edge, so the compression core's synchronous reset takes effect too.      *)

Init ==
  /\ stream = [e \in Engines |-> IdleStream]
  /\ message_bram_dout = 0
  /\ message_length \in Lengths
  /\ stolen = [e \in Engines |-> FALSE]

MayStart == { e \in Engines : stream[e].st = "IDLE" /\ ~stream[e].done }

(* Only the word read during ST_MSG_WAIT is latched. *)
NoteTheft(starts) ==
  stolen' = [e \in Engines |->
               IF e \in starts THEN FALSE
               ELSE stolen[e] \/ (stream[e].st = "MSG_WAIT" /\ ~Granted(e))]

Edge(starts) ==
  /\ stream' = [e \in Engines |-> StreamNext(e, e \in starts)]
  /\ RamEdge
  /\ NoteTheft(starts)
  /\ UNCHANGED message_length

Abort ==
  /\ stream' = [e \in Engines |-> IdleStream]
  /\ RamEdge
  /\ stolen' = [e \in Engines |-> FALSE]
  /\ UNCHANGED message_length

Tick == \E starts \in SUBSET MayStart : Edge(starts)
Next == Tick \/ Abort
Spec == Init /\ [][Next]_vars /\ WF_vars(Tick)
-----------------------------------------------------------------------------
(* Types. *)
Byte == ByteKinds \X Nat \X Nat

StreamType ==
  [st : {"IDLE", "PREFIX0", "PREFIX1", "MSG_REQ", "MSG_WAIT", "MSG_LATCH", "MSG_READ",
         "PAD80", "PAD_ZERO", "LENGTH", "COMPRESS"},
   resume : {"IDLE", "PREFIX0", "PREFIX1", "MSG_REQ", "MSG_READ", "PAD80", "PAD_ZERO", "LENGTH"},
   block : Seq(Byte), absorbed : Seq(Byte),
   prefix_left : 0 .. PrefixBytes, message_left : 0 .. MaxMessage,
   zero_left : 0 .. BlockBytes + LengthBytes, length_left : 0 .. LengthBytes,
   blocks_left : Nat, addr : 0 .. MaxMessage - 1, rd_en : BOOLEAN,
   rd_addr : 0 .. MaxMessage - 1, word : 0 .. MaxMessage \div WordBytes - 1,
   sel : 0 .. WordBytes - 1, block_start : BOOLEAN, rounds_left : 0 .. Rounds,
   block_done : BOOLEAN, busy : BOOLEAN, done : BOOLEAN, error : BOOLEAN]

(* Registers keep their ranges, the block never exceeds its buffer, and the *)
(* compression core works only while its unit waits for it.                 *)
MessageTypeOK ==
  /\ stream \in [Engines -> StreamType]
  /\ message_bram_dout \in 0 .. MaxMessage \div WordBytes - 1
  /\ message_length \in Lengths
  /\ stolen \in [Engines -> BOOLEAN]
  /\ \A e \in Engines :
       LET s == stream[e]
       IN  /\ Len(s.block) <= BlockBytes
           /\ s.block_start \/ s.rounds_left > 0 \/ s.block_done => s.st = "COMPRESS"
-----------------------------------------------------------------------------
(* Safety. The reference is the padding rule of SHA-512: a byte 80, the     *)
(* fewest zeros that align the length field with the end of a block, and    *)
(* the length field of 2 * LengthBytes bytes.                               *)

ReferenceZeros ==
  LET fits(z) == (RawTotal + 1 + z + 2 * LengthBytes) % BlockBytes = 0
  IN  CHOOSE z \in 0 .. BlockBytes - 1 : fits(z)

PaddedMessage ==
  Bytes("R", 0, PrefixBytes) \o Bytes("A", 0, PrefixBytes) \o Bytes("message", 0, message_length)
    \o <<(<<"80", 0, 0>>)>> \o [i \in 1 .. ReferenceZeros + LengthBytes |-> <<"00", 0, 0>>]
    \o Bytes("length", RawTotal, LengthBytes)

HashOk(e) ==
  IF message_length > MaxMessage THEN stream[e].error
  ELSE ~stream[e].error /\ stream[e].absorbed = PaddedMessage

(* A finished hash is that of R, A and the whole message, correctly padded, *)
(* or an error for a message beyond the RAM, for all placements of the      *)
(* message's end in words and blocks, and for any interleaving with the     *)
(* other engines, unless another engine took the port at the one edge whose *)
(* read is latched.                                                         *)
DigestUnlessStolen == \A e \in Engines : stream[e].done => HashOk(e) \/ stolen[e]

(* Engine 0 wins every tie, so nobody ever takes a read from it: the        *)
(* one-engine build hashes what it should.                                  *)
FirstEngineUndisturbed == ~stolen[0]

(* A hash unit latches the word it asked for: "Engine 0 wins arbitration on *)
(* tie; engine 1 stalls in ST_MSG_REQ until granted."                       *)
RequestedWordLatched ==
  \A e \in Engines :
    stream[e].st = "MSG_LATCH" => message_bram_dout = stream[e].rd_addr \div WordBytes

(* Liveness: arbitration starves no engine; every started hash ends.        *)
EveryHashEnds == \A e \in Engines : stream[e].busy ~> ~stream[e].busy
=============================================================================
