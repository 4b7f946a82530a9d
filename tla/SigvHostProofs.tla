--------------------------- MODULE SigvHostProofs ---------------------------
(***************************************************************************)
(* The parser and the request that it serves, for every byte string, body, *)
(* environment, window size and old contents of the windows.               *)
(*                                                                         *)
(* parse_transaction never reads past the end of the bytes, the slices it  *)
(* returns lie inside them and do not overlap; with a count that fits a    *)
(* byte it does not panic, and it accepts exactly what the grammar of      *)
(* TransactionFormat calls a transaction.                                  *)
(*                                                                         *)
(* The accesses of a request stay inside the windows, a refused request    *)
(* has not touched the device, and an answer that says "verified" means    *)
(* that the engines found every signature of the batch genuine over its    *)
(* message, byte for byte as it was decoded.                               *)
(***************************************************************************)
EXTENDS SigvHost, SequenceTheorems, WellFoundedInduction, TLAPS

Fields ==
  {"count", "signatures", "version", "header", "key_count", "keys", "blockhash",
   "instruction_count", "instructions", "lookup_count", "lookups", "check", "end"}

(* The types, with the scan inside the bytes.                               *)
ParserTypeOK ==
  /\ data \in Seq(Bytes)
  /\ pc \in Fields
  /\ offset \in 0 .. Len(data)
  /\ left \in Nat /\ count \in Nat
  /\ sigs \in Seq(0 .. Len(data)) /\ keys \in Seq(0 .. Len(data))
  /\ body \in 0 .. Len(data)
  /\ required \in Bytes
  /\ version \in {"legacy", "v0"}
  /\ verdict \in {"none", "ok", "error", "panic"}
  /\ verdict = "none" <=> pc # "end"

(* The message has begun, and was not given up.                             *)
InMessage == pc \notin {"count", "signatures", "end"} \/ verdict \in {"ok", "panic"}

(* Slices of one size, one after the other, between two positions.          *)
Slices(starts, size, from, to) ==
  /\ \A i \in DOMAIN starts : from <= starts[i] /\ starts[i] + size <= to
  /\ \A i \in DOMAIN starts : i + 1 \in DOMAIN starts => starts[i] + size = starts[i + 1]

SignaturesInv ==
  /\ pc = "count" => sigs = <<>>
  /\ pc = "signatures" =>
       /\ Slices(sigs, SigBytes, 0, offset) /\ Len(sigs) + left = count
       /\ sigs # <<>> => sigs[Len(sigs)] + SigBytes = offset
  /\ InMessage => Slices(sigs, SigBytes, 0, body) /\ Len(sigs) = count /\ body <= offset

KeysInv ==
  /\ pc \in {"count", "signatures", "version", "header", "key_count"} => keys = <<>>
  /\ InMessage => Slices(keys, KeyBytes, body, offset)
  /\ pc = "keys" /\ keys # <<>> => keys[Len(keys)] + KeyBytes = offset

VerdictInv ==
  /\ verdict \in {"ok", "panic"} => Consistent
  /\ verdict = "ok" <=> InMessage /\ pc = "end" /\ Len(sigs) <= Len(keys)

ParserInv == ParserTypeOK /\ SignaturesInv /\ KeysInv /\ VerdictInv

(* A length, when there is one, ends inside the bytes, after where it began.*)
LEMMA CompactAdvances ==
  ASSUME data \in Seq(Bytes), NEW at \in Nat, Compact(at).next # Bad
  PROVE  Compact(at).next \in at + 1 .. Len(data) /\ Compact(at).value \in Nat
<1> DEFINE n == CHOOSE n \in Groups(at) : TRUE
<1>1. GroupBase \in Nat \ {0, 1}
  BY ParserAssumption
<1>2. \E k \in Groups(at) : Value(at, k) <= U16Max
  BY DEF Compact, Bad
<1>3. n \in Groups(at) /\ Compact(at) = [value |-> Value(at, n), next |-> at + n]
  BY <1>2 DEF Compact
<1> HIDE DEF n
<1>4. n \in 1 .. 3 /\ at + n <= Len(data)
  BY <1>3 DEF Groups
<1>5. \A i \in 0 .. n - 1 : Group(at, i) \in Nat
  <2> TAKE i \in 0 .. n - 1
  <2>1. data[at + i + 1] \in Nat
    <3>1. at + i + 1 \in 1 .. Len(data)
      BY <1>4
    <3>2. Bytes \subseteq Nat
      BY <1>1 DEF Bytes, ByteMod
    <3>3. data[at + i + 1] \in Bytes
      BY <3>1, ElementOfSeq
    <3> QED BY <3>2, <3>3
  <2> QED BY <1>1, <2>1 DEF Group, Byte
<1>6. Value(at, n) \in Nat
  <2>1. CASE n = 1
    BY <1>5, <2>1 DEF Value
  <2>2. CASE n = 2
    BY <1>1, <1>5, <2>2 DEF Value
  <2>3. CASE n = 3
    BY <1>1, <1>5, <2>3, SMTT(30) DEF Value
  <2> QED BY <1>4, <2>1, <2>2, <2>3
<1> QED BY <1>3, <1>4, <1>6

(* So does a field of a fixed size, and a vector.                           *)
LEMMA TakeAdvances ==
  ASSUME data \in Seq(Bytes), NEW at \in Nat \cup {Bad}, NEW size \in Nat, Take(at, size) # Bad
  PROVE  at \in Nat /\ Take(at, size) = at + size /\ at + size <= Len(data)
BY DEF Take, Bad

(* Skipping a length-prefixed vector moves the cursor, inside the bytes.    *)
LEMMA SkipVectorAdvances ==
  ASSUME data \in Seq(Bytes), NEW at \in Nat \cup {Bad}
  PROVE  /\ SkipVector(at) \in Nat \cup {Bad}
         /\ SkipVector(at) # Bad => at \in Nat /\ SkipVector(at) \in at + 1 .. Len(data)
<1>1. CASE at = Bad \/ Compact(at).next = Bad
  BY <1>1 DEF SkipVector, Bad
<1>2. CASE at \in Nat /\ Compact(at).next # Bad
  <2>1. Compact(at).next \in at + 1 .. Len(data) /\ Compact(at).value \in Nat
    BY <1>2, CompactAdvances
  <2>2. SkipVector(at) = Take(Compact(at).next, Compact(at).value)
    BY <1>2 DEF SkipVector, Bad
  <2> HIDE DEF Compact
  <2> QED BY <1>2, <2>1, <2>2 DEF Take, Bad
<1> QED BY <1>1, <1>2

(* An item of a list is consumed inside the bytes.                          *)
LEMMA ItemsAdvance ==
  ASSUME data \in Seq(Bytes), offset \in 0 .. Len(data)
  PROVE  /\ Take(offset, SigBytes) # Bad => Take(offset, SigBytes) \in offset .. Len(data)
         /\ Take(offset, KeyBytes) # Bad => Take(offset, KeyBytes) \in offset .. Len(data)
         /\ Take(offset, 3) # Bad => Take(offset, 3) = offset + 3 /\ offset + 3 <= Len(data)
         /\ SkipInstruction(offset) # Bad => SkipInstruction(offset) \in offset .. Len(data)
         /\ SkipLookup(offset) # Bad => SkipLookup(offset) \in offset .. Len(data)
<1>1. KeyBytes \in Nat /\ SigBytes \in Nat
  BY ParserAssumption
<1>2. ASSUME NEW size \in Nat
      PROVE  Take(offset, size) # Bad => Take(offset, size) = offset + size /\ offset + size <= Len(data)
  BY <1>2 DEF Take, Bad
<1>3. ASSUME NEW size \in Nat
      PROVE  LET end == SkipVector(SkipVector(Take(offset, size)))
             IN  end # Bad => end \in offset .. Len(data)
  <2> DEFINE first == Take(offset, size)
             second == SkipVector(first)
             third == SkipVector(second)
  <2>1. first \in Nat \cup {Bad}
    BY <1>2
  <2>2. first # Bad => first >= offset
    BY <1>2
  <2> HIDE DEF first
  <2>3. second \in Nat \cup {Bad} /\ (second # Bad => first \in Nat /\ second \in first + 1 .. Len(data))
    BY <2>1, SkipVectorAdvances
  <2> HIDE DEF second
  <2>4. third # Bad => second \in Nat /\ third \in second + 1 .. Len(data)
    BY <2>3, SkipVectorAdvances
  <2> HIDE DEF third
  <2>5. third # Bad => third \in offset .. Len(data)
    BY <2>1, <2>2, <2>3, <2>4 DEF Bad
  <2> QED BY <2>5 DEF first, second, third
<1>4. /\ SkipInstruction(offset) # Bad => SkipInstruction(offset) \in offset .. Len(data)
      /\ SkipLookup(offset) # Bad => SkipLookup(offset) \in offset .. Len(data)
  BY <1>1, <1>3 DEF SkipInstruction, SkipLookup
<1> QED BY <1>1, <1>2, <1>4

(* Appending the slice at the end keeps the slices in order.                *)
LEMMA SlicesAppend ==
  ASSUME NEW starts \in Seq(Nat), NEW size \in Nat, NEW from \in Nat, NEW to \in Nat,
         Slices(starts, size, from, to), from <= to,
         starts # <<>> => starts[Len(starts)] + size = to
  PROVE  /\ Slices(Append(starts, to), size, from, to + size)
         /\ Append(starts, to)[Len(Append(starts, to))] = to
<1> DEFINE more == Append(starts, to)
<1>1. /\ more \in Seq(Nat) /\ Len(more) = Len(starts) + 1
      /\ \A i \in 1 .. Len(starts) : more[i] = starts[i]
      /\ more[Len(starts) + 1] = to
  OBVIOUS
<1> HIDE DEF more
<1>2. DOMAIN more = 1 .. Len(starts) + 1 /\ DOMAIN starts = 1 .. Len(starts) /\ Len(starts) \in Nat
  BY <1>1
<1>3. ASSUME NEW i \in DOMAIN more
      PROVE  from <= more[i] /\ more[i] + size <= to + size
  <2>1. CASE i = Len(starts) + 1
    BY <1>1, <2>1
  <2>2. CASE i # Len(starts) + 1
    <3>1. i \in DOMAIN starts /\ more[i] = starts[i] /\ starts[i] \in Nat
      BY <1>1, <1>2, <2>2
    <3>2. from <= starts[i] /\ starts[i] + size <= to
      BY <3>1 DEF Slices
    <3> QED BY <3>1, <3>2
  <2> QED BY <2>1, <2>2
<1>4. ASSUME NEW i \in DOMAIN more, i + 1 \in DOMAIN more
      PROVE  more[i] + size = more[i + 1]
  <2>1. i \in DOMAIN starts /\ more[i] = starts[i]
    BY <1>1, <1>2, <1>4, SMTT(30)
  <2>2. CASE i = Len(starts)
    BY <1>1, <1>2, <2>1, <2>2
  <2>3. CASE i # Len(starts)
    <3>1. i + 1 \in DOMAIN starts
      BY <1>2, <1>4, <2>1, <2>3
    <3>2. more[i + 1] = starts[i + 1]
      BY <1>1, <1>2, <3>1
    <3> QED BY <2>1, <3>1, <3>2 DEF Slices
  <2> QED BY <2>2, <2>3
<1> QED BY <1>1, <1>3, <1>4 DEF Slices, more

(* Slices stay inside a longer stretch.                                     *)
LEMMA SlicesWiden ==
  ASSUME NEW starts \in Seq(Nat), NEW size \in Nat, NEW from \in Nat, NEW to \in Nat,
         NEW further \in Nat, to <= further, Slices(starts, size, from, to)
  PROVE  Slices(starts, size, from, further)
<1> QED BY DEF Slices
-----------------------------------------------------------------------------
(* One step keeps the types.                                                *)
LEMMA ParserTypeStep ==
  ASSUME ParserTypeOK, ParserNext
  PROVE  ParserTypeOK'
<1> USE DEF ParserTypeOK, Fields, At
<1>1. GroupBase \in Nat \ {0, 1} /\ KeyBytes \in Nat \ {0} /\ SigBytes \in Nat \ {0}
  BY ParserAssumption
<1>2. /\ Compact(offset).next # Bad => Compact(offset).next \in 0 .. Len(data)
      /\ Compact(offset).next # Bad => Compact(offset).value \in Nat
  BY CompactAdvances
<1>3. ASSUME NEW field \in Fields, NEW items \in Fields, ListLength(field, items)
      PROVE  pc' = items /\ left' \in Nat /\ offset' \in 0 .. Len(data)
  BY <1>2, <1>3 DEF ListLength
<1>4. ASSUME NEW items \in Fields, NEW next, next # Bad => next \in offset .. Len(data), Item(items, next)
      PROVE  pc' = pc /\ left' \in Nat /\ offset' \in 0 .. Len(data)
  BY <1>4 DEF Item
<1>5. CASE CountSignatures \/ CountKeys \/ CountInstructions \/ CountLookups
  BY <1>3, <1>5 DEF CountSignatures, CountKeys, CountInstructions, CountLookups, ListLength
<1>6. CASE TakeSignature
  <2>1. pc' = pc /\ left' \in Nat /\ offset' \in 0 .. Len(data)
    BY <1>4, <1>6, ItemsAdvance DEF TakeSignature
  <2>2. sigs' \in Seq(0 .. Len(data))
    BY <1>6 DEF TakeSignature
  <2> QED BY <1>6, <2>1, <2>2 DEF TakeSignature
<1>7. CASE TakeKey
  <2>1. pc' = pc /\ left' \in Nat /\ offset' \in 0 .. Len(data)
    BY <1>4, <1>7, ItemsAdvance DEF TakeKey
  <2>2. keys' \in Seq(0 .. Len(data))
    BY <1>7 DEF TakeKey
  <2> QED BY <1>7, <2>1, <2>2 DEF TakeKey
<1>8. CASE TakeInstruction \/ TakeLookup
  <2>1. pc' = pc /\ left' \in Nat /\ offset' \in 0 .. Len(data)
    BY <1>4, <1>8, ItemsAdvance DEF TakeInstruction, TakeLookup
  <2> QED BY <1>8, <2>1 DEF TakeInstruction, TakeLookup
<1>9. CASE BeginMessage \/ EndKeys \/ EndInstructions \/ EndLookups
  BY <1>9 DEF BeginMessage, EndKeys, EndInstructions, EndLookups, ListEnd
<1>10. CASE ReadVersion
  BY <1>10 DEF ReadVersion, KnownVersion
<1>11. CASE ReadHeader
  <2>1. offset' \in 0 .. Len(data) /\ offset + 1 \in 1 .. Len(data)
    BY <1>11, ItemsAdvance DEF ReadHeader
  <2>2. required' \in Bytes
    BY <1>11, <2>1, ElementOfSeq DEF ReadHeader, Byte
  <2> QED BY <1>11, <2>1, <2>2 DEF ReadHeader
<1>12. CASE TakeBlockhash
  <2>1. offset' \in 0 .. Len(data)
    BY <1>12, ItemsAdvance DEF TakeBlockhash
  <2> QED BY <1>12, <2>1 DEF TakeBlockhash
<1>13. CASE BuildJobs \/ Reject
  BY <1>13 DEF BuildJobs, Reject, Fault, End
<1> QED BY <1>5, <1>6, <1>7, <1>8, <1>9, <1>10, <1>11, <1>12, <1>13 DEF ParserNext

(* One step keeps the signatures in order.                                  *)
LEMMA SignaturesStep ==
  ASSUME ParserTypeOK, SignaturesInv, ParserNext
  PROVE  SignaturesInv'
<1>1. /\ SigBytes \in Nat /\ offset \in Nat /\ body \in Nat /\ sigs \in Seq(Nat)
      /\ Len(sigs) \in Nat /\ left \in Nat
  BY ParserAssumption DEF ParserTypeOK
<1>2. CASE CountSignatures
  <2>1. /\ sigs' = <<>> /\ pc' = "signatures" /\ verdict' = "none"
        /\ count' = left'
    BY <1>2 DEF CountSignatures, ListLength, At, SignaturesInv, ParserTypeOK
  <2>2. DOMAIN sigs' = {} /\ left' \in Nat
    BY <2>1, ParserTypeStep DEF ParserTypeOK
  <2>3. Slices(sigs, SigBytes, 0, offset)'
    BY <2>2 DEF Slices
  <2>4. \A n \in Nat : Len(<<>>) + n = n
    OBVIOUS
  <2>5. Len(sigs') + left' = count'
    BY <2>1, <2>2, <2>4
  <2> QED BY <2>1, <2>3, <2>5 DEF SignaturesInv, InMessage
<1>3. CASE TakeSignature
  <2>1. /\ pc = "signatures" /\ pc' = pc /\ offset' = offset + SigBytes
        /\ left > 0 /\ left' = left - 1 /\ sigs' = Append(sigs, offset)
        /\ UNCHANGED <<count, verdict>>
    BY <1>1, <1>3, TakeAdvances DEF TakeSignature, Item, At, ParserTypeOK
  <2>2. Slices(sigs', SigBytes, 0, offset') /\ sigs'[Len(sigs')] = offset
    BY <1>1, <2>1, SlicesAppend DEF SignaturesInv
  <2>3. Len(sigs') + left' = count'
    BY <1>1, <2>1 DEF SignaturesInv
  <2> QED BY <2>1, <2>2, <2>3 DEF SignaturesInv, InMessage, ParserTypeOK
<1>4. CASE BeginMessage
  BY <1>1, <1>4 DEF BeginMessage, ListEnd, At, SignaturesInv, InMessage, ParserTypeOK
<1>5. CASE ReadVersion \/ ReadHeader \/ CountKeys \/ TakeKey \/ EndKeys \/ TakeBlockhash
           \/ CountInstructions \/ TakeInstruction \/ EndInstructions
           \/ CountLookups \/ TakeLookup \/ EndLookups
  <2>1. /\ pc \notin {"count", "signatures", "end"} /\ pc' \notin {"count", "signatures", "end"}
        /\ UNCHANGED <<sigs, count, body>>
    BY <1>5
       DEF ReadVersion, ReadHeader, CountKeys, TakeKey, EndKeys, TakeBlockhash, CountInstructions,
           TakeInstruction, EndInstructions, CountLookups, TakeLookup, EndLookups, ListLength, Item,
           ListEnd, At
  <2>2. offset <= offset'
    <3>1. Compact(offset).next # Bad => offset <= Compact(offset).next
      BY CompactAdvances DEF ParserTypeOK
    <3> HIDE DEF Compact
    <3> QED
      BY <1>1, <1>5, <3>1, ItemsAdvance
         DEF ReadVersion, ReadHeader, CountKeys, TakeKey, EndKeys, TakeBlockhash, CountInstructions,
             TakeInstruction, EndInstructions, CountLookups, TakeLookup, EndLookups, ListLength, Item,
             ListEnd, ParserTypeOK
  <2>3. offset' \in Nat
    BY ParserTypeStep DEF ParserTypeOK
  <2> QED BY <1>1, <2>1, <2>2, <2>3 DEF SignaturesInv, InMessage
<1>6. CASE BuildJobs \/ Reject
  BY <1>6 DEF BuildJobs, Reject, Fault, End, At, SignaturesInv, InMessage
<1> QED BY <1>2, <1>3, <1>4, <1>5, <1>6 DEF ParserNext

(* One step keeps the keys in order.                                        *)
LEMMA KeysStep ==
  ASSUME ParserTypeOK, SignaturesInv, KeysInv, ParserNext
  PROVE  KeysInv'
<1>1. /\ KeyBytes \in Nat /\ offset \in Nat /\ body \in Nat /\ keys \in Seq(Nat)
      /\ Len(keys) \in Nat /\ left \in Nat /\ offset' \in Nat /\ body' \in Nat
  BY ParserAssumption, ParserTypeStep DEF ParserTypeOK
<1>2. CASE CountSignatures \/ TakeSignature \/ BeginMessage
  BY <1>1, <1>2
     DEF CountSignatures, TakeSignature, BeginMessage, ListLength, Item, ListEnd, At, KeysInv,
         Slices, InMessage, ParserTypeOK
<1>3. CASE TakeKey
  <2>1. /\ pc = "keys" /\ pc' = pc /\ offset' = offset + KeyBytes /\ keys' = Append(keys, offset)
        /\ UNCHANGED <<body, verdict>>
    BY <1>1, <1>3, TakeAdvances DEF TakeKey, Item, At, ParserTypeOK
  <2>2. Slices(keys, KeyBytes, body, offset) /\ body <= offset
    BY <2>1 DEF KeysInv, SignaturesInv, InMessage
  <2>3. Slices(keys', KeyBytes, body, offset') /\ keys'[Len(keys')] = offset
    BY <1>1, <2>1, <2>2, SlicesAppend DEF KeysInv
  <2> QED BY <2>1, <2>3 DEF KeysInv
<1>4. CASE ReadVersion \/ ReadHeader \/ CountKeys \/ EndKeys \/ TakeBlockhash
           \/ CountInstructions \/ TakeInstruction \/ EndInstructions
           \/ CountLookups \/ TakeLookup \/ EndLookups
  <2>1. /\ pc \notin {"count", "signatures", "end"} /\ pc' \notin {"count", "signatures", "end"}
        /\ UNCHANGED <<keys, body>>
        /\ pc' = "keys" => pc = "key_count"
        /\ pc' \in {"version", "header", "key_count"} => pc \in {"version", "header", "key_count"}
    BY <1>4
       DEF ReadVersion, ReadHeader, CountKeys, EndKeys, TakeBlockhash, CountInstructions,
           TakeInstruction, EndInstructions, CountLookups, TakeLookup, EndLookups, ListLength, Item,
           ListEnd, At
  <2>2. offset <= offset'
    <3>1. Compact(offset).next # Bad => offset <= Compact(offset).next
      BY CompactAdvances DEF ParserTypeOK
    <3> HIDE DEF Compact
    <3> QED
      BY <1>1, <1>4, <3>1, ItemsAdvance
         DEF ReadVersion, ReadHeader, CountKeys, EndKeys, TakeBlockhash, CountInstructions,
             TakeInstruction, EndInstructions, CountLookups, TakeLookup, EndLookups, ListLength, Item,
             ListEnd, ParserTypeOK
  <2>3. Slices(keys, KeyBytes, body, offset')
    BY <1>1, <2>1, <2>2, SlicesWiden DEF KeysInv, InMessage
  <2> QED BY <2>1, <2>3 DEF KeysInv, InMessage
<1>5. CASE BuildJobs \/ Reject
  BY <1>5 DEF BuildJobs, Reject, Fault, End, At, KeysInv, InMessage
<1> QED BY <1>2, <1>3, <1>4, <1>5 DEF ParserNext

(* A verdict of "ok" or a panic comes after the last three checks only.     *)
LEMMA VerdictStep ==
  ASSUME ParserTypeOK, VerdictInv, ParserNext
  PROVE  VerdictInv'
<1>1. CASE BuildJobs
  BY <1>1 DEF BuildJobs, End, At, VerdictInv, InMessage, Consistent, ParserTypeOK, Fields
<1>2. CASE Reject
  BY <1>2 DEF Reject, End, VerdictInv, InMessage
<1>3. CASE ~(BuildJobs \/ Reject)
  <2>1. pc # "end" /\ pc' # "end" /\ verdict' = verdict
    BY <1>3
       DEF ParserNext, CountSignatures, TakeSignature, BeginMessage, ReadVersion, ReadHeader,
           CountKeys, TakeKey, EndKeys, TakeBlockhash, CountInstructions, TakeInstruction,
           EndInstructions, CountLookups, TakeLookup, EndLookups, ListLength, Item, ListEnd, At
  <2> QED BY <2>1 DEF VerdictInv, ParserTypeOK
<1> QED BY <1>1, <1>2, <1>3

(* The invariant of the scan.                                               *)
LEMMA ParserStarts ==
  ASSUME ParserInit
  PROVE  ParserInv
<1>1. data \in Seq(Bytes) /\ Len(data) \in Nat /\ 0 \in Bytes
  BY ParserAssumption DEF ParserInit, Bytes, ByteMod
<1> QED
  BY <1>1
     DEF ParserInit, ParserInv, ParserTypeOK, Fields, SignaturesInv, KeysInv, VerdictInv, InMessage, Slices

(* Each step of the parser keeps its invariant.                             *)
LEMMA ParserAdvances ==
  ASSUME ParserInv, [ParserNext]_parser
  PROVE  ParserInv'
<1>1. CASE ParserNext
  BY <1>1, ParserTypeStep, SignaturesStep, KeysStep, VerdictStep DEF ParserInv
<1>2. CASE UNCHANGED parser
  BY <1>2
     DEF parser, ParserInv, ParserTypeOK, SignaturesInv, KeysInv, VerdictInv, InMessage, Slices, Consistent
<1> QED BY <1>1, <1>2

(* The cursor, the slices and the verdict of every parse.                   *)
THEOREM ParserInvariant == ParserSpec => []ParserInv
BY ParserStarts, ParserAdvances, PTL DEF ParserSpec
-----------------------------------------------------------------------------
(* What parse_transaction returns: as many signatures as the transaction    *)
(* says, one after the other before the message, each with a key inside the *)
(* message.                                                                 *)
JobsInside ==
  verdict = "ok" =>
    /\ Len(sigs) = count /\ count <= Len(keys)
    /\ Slices(sigs, SigBytes, 0, body)
    /\ Slices(keys, KeyBytes, body, Len(data))

(* The slices that build_transaction_batch_request copies are those of the  *)
(* transaction: none is out of bounds, none overlaps another.               *)
THEOREM ReturnedJobsInside == ParserSpec => []JobsInside
<1>1. ParserInv => JobsInside
  BY DEF ParserInv, SignaturesInv, KeysInv, VerdictInv, InMessage, Consistent, JobsInside
<1> QED BY <1>1, ParserInvariant, PTL

(* The indexing of the account keys in parse_transaction panics only when   *)
(* the signature count was cut by its conversion to a byte.                 *)
NoPanic == count < ByteMod => verdict # "panic"

(* A transaction of fewer than 256 signatures never costs its connection.   *)
THEOREM NoPanicBelowByte == ParserSpec => []NoPanic
<1>1. ParserInv => NoPanic
  <2> SUFFICES ASSUME ParserInv, count < ByteMod, verdict = "panic" PROVE FALSE
    BY DEF NoPanic
  <2>1. GroupBase \in Nat \ {0, 1} /\ count \in Nat
    BY ParserAssumption DEF ParserInv, ParserTypeOK
  <2>2. count % ByteMod = count
    BY <2>1 DEF ByteMod
  <2>3. Consistent /\ Len(sigs) = count /\ pc = "end"
    BY DEF ParserInv, ParserTypeOK, VerdictInv, SignaturesInv, InMessage
  <2>4. Len(sigs) <= Len(keys)
    BY <2>1, <2>2, <2>3 DEF Consistent
  <2> QED BY <2>3, <2>4 DEF ParserInv, VerdictInv, InMessage
<1> QED BY <1>1, ParserInvariant, PTL
-----------------------------------------------------------------------------
(* The lowest digit of a number, and the others. *)
LEMMA LowDigit ==
  ASSUME NEW g \in Nat \ {0}, NEW a \in 0 .. g - 1, NEW b \in Nat
  PROVE  (a + g * b) % g = a /\ (a + g * b) \div g = b
OBVIOUS

(* A number is its lowest digit and the others. *)
LEMMA Divided ==
  ASSUME NEW g \in Nat \ {0}, NEW v \in Nat
  PROVE  /\ v \div g \in Nat /\ v % g \in 0 .. g - 1
         /\ v = (v % g) + g * (v \div g)
OBVIOUS

(* Dropping two digits is dropping one twice. *)
LEMMA DividedTwice ==
  ASSUME NEW g \in Nat \ {0}, NEW a \in 0 .. g - 1, NEW b \in 0 .. g - 1, NEW c \in Nat
  PROVE  (a + g * b + g * g * c) \div (g * g) = c /\ (a + g * b + g * g * c) \div g = b + g * c
<1>1. g * g \in Nat \ {0} /\ a + g * b \in 0 .. g * g - 1
  <2>1. g * b <= g * (g - 1)
    OBVIOUS
  <2> QED BY <2>1
<1>2. (a + g * b + (g * g) * c) \div (g * g) = c
  <2> DEFINE s == g * g  r == a + g * b
  <2>1. s \in Nat \ {0} /\ r \in 0 .. s - 1
    BY <1>1
  <2> HIDE DEF s, r
  <2>2. (r + s * c) \div s = c
    BY <2>1, LowDigit
  <2> QED BY <2>2 DEF s, r
<1>3. a + g * b + g * g * c = a + g * (b + g * c)
  OBVIOUS
<1>4. b + g * c \in Nat
  OBVIOUS
<1>5. (a + g * (b + g * c)) \div g = b + g * c
  BY <1>4, LowDigit
<1> QED BY <1>2, <1>3, <1>5

(* The digits a, b and c, lowest first, spell the number v.                 *)
Spell2(g, v, a, b) == v < g * g /\ a = (v \div 1) % g /\ b = (v \div g) % g

Spell3(g, v, a, b, c) ==
  v < g * g * g /\ a = (v \div 1) % g /\ b = (v \div g) % g /\ c = (v \div (g * g)) % g

(* A digit names the number it is the digit of.                             *)
LEMMA OneDigit ==
  ASSUME NEW g \in Nat \ {0, 1}, NEW v \in Nat, NEW a \in 0 .. g - 1
  PROVE  v < g /\ a = (v \div 1) % g <=> v = a
<1>1. v \div 1 = v
  OBVIOUS
<1>2. v < g => v % g = v
  OBVIOUS
<1> QED BY <1>1, <1>2

(* Two of them,                                                             *)
LEMMA TwoDigits ==
  ASSUME NEW g \in Nat \ {0, 1}, NEW v \in Nat, NEW a \in 0 .. g - 1, NEW b \in 0 .. g - 1
  PROVE  Spell2(g, v, a, b) <=> v = a + g * b
<1> USE DEF Spell2
<1>0. v \div 1 = v
  OBVIOUS
<1>1. ASSUME v < g * g, a = v % g, b = (v \div g) % g PROVE v = a + g * b
  <2>1. v = a + g * (v \div g) /\ v \div g \in Nat
    BY <1>1, Divided
  <2>2. v \div g < g
    <3>1. v \div g >= g => g * (v \div g) >= g * g
      BY <2>1
    <3>2. g * (v \div g) \in Nat /\ g * g \in Nat
      BY <2>1
    <3> QED BY <1>1, <2>1, <3>1, <3>2
  <2>3. (v \div g) % g = v \div g
    BY <2>1, <2>2
  <2> QED BY <1>1, <2>1, <2>3
<1>2. ASSUME v = a + g * b PROVE v < g * g /\ a = v % g /\ b = (v \div g) % g
  <2>1. v % g = a /\ v \div g = b
    BY <1>2, LowDigit
  <2>2. b % g = b
    OBVIOUS
  <2>3. g * b <= g * (g - 1) /\ g * (g - 1) = g * g - g
    OBVIOUS
  <2>4. g * b \in Nat /\ g * g \in Nat
    OBVIOUS
  <2> QED BY <1>2, <2>1, <2>2, <2>3, <2>4
<1> QED BY <1>0, <1>1, <1>2

(* and three.                                                               *)
LEMMA ThreeDigits ==
  ASSUME NEW g \in Nat \ {0, 1}, NEW v \in Nat, NEW a \in 0 .. g - 1, NEW b \in 0 .. g - 1,
         NEW c \in 0 .. g - 1
  PROVE  Spell3(g, v, a, b, c) <=> v = a + g * b + g * g * c
<1> USE DEF Spell3
<1>0. v \div 1 = v
  OBVIOUS
<1>1. ASSUME v < g * g * g, a = v % g, b = (v \div g) % g, c = (v \div (g * g)) % g
      PROVE  v = a + g * b + g * g * c
  <2> DEFINE q == v \div g
             p == q \div g
  <2>1. q \in Nat /\ v = a + g * q
    BY <1>1, Divided
  <2>2. p \in Nat /\ q = b + g * p
    BY <1>1, <2>1, Divided
  <2> HIDE DEF q, p
  <2>3. v = a + g * b + g * g * p
    <3>1. g * (b + g * p) = g * b + g * g * p
      BY <2>2
    <3> QED BY <2>1, <2>2, <3>1
  <2>4. v \div (g * g) = p
    BY <2>2, <2>3, DividedTwice
  <2>5. p < g
    <3>1. p >= g => (g * g) * p >= (g * g) * g
      BY <2>2
    <3>2. g * b \in Nat /\ g * g * p \in Nat /\ g * g * g \in Nat
      BY <2>2
    <3> QED BY <1>1, <2>2, <2>3, <3>1, <3>2
  <2>6. p % g = p
    BY <2>2, <2>5
  <2> QED BY <1>1, <2>3, <2>4, <2>6
<1>2. ASSUME v = a + g * b + g * g * c
      PROVE  v < g * g * g /\ a = v % g /\ b = (v \div g) % g /\ c = (v \div (g * g)) % g
  <2>1. v \div (g * g) = c /\ v \div g = b + g * c
    BY <1>2, DividedTwice
  <2>2. (b + g * c) % g = b /\ c % g = c
    BY LowDigit
  <2>3. v % g = a
    <3>1. v = a + g * (b + g * c) /\ b + g * c \in Nat
      BY <1>2
    <3> QED BY <3>1, LowDigit
  <2>4. v < g * g * g
    <3>1. g * b <= g * (g - 1) /\ g * (g - 1) = g * g - g
      OBVIOUS
    <3>2. (g * g) * c <= (g * g) * (g - 1) /\ (g * g) * (g - 1) = g * g * g - g * g
      OBVIOUS
    <3>3. g * b \in Nat /\ g * g \in Nat /\ g * g * g \in Nat /\ g * g * c \in Nat
      OBVIOUS
    <3> QED BY <1>2, <3>1, <3>2, <3>3
  <2> QED BY <2>1, <2>2, <2>3, <2>4
<1> QED BY <1>0, <1>1, <1>2

(* A byte of the transaction, and the seven bits of it that count. *)
LEMMA ByteTypes ==
  ASSUME data \in Seq(Bytes), NEW at \in Nat, at < Len(data)
  PROVE  Byte(at) \in Bytes /\ Byte(at) \in Nat /\ Byte(at) % GroupBase \in 0 .. GroupBase - 1
<1>1. GroupBase \in Nat \ {0, 1} /\ at + 1 \in 1 .. Len(data)
  BY ParserAssumption
<1>2. data[at + 1] \in Bytes
  BY <1>1, ElementOfSeq
<1>3. ASSUME NEW b \in Nat PROVE b % GroupBase \in 0 .. GroupBase - 1
  BY <1>1, Divided
<1>4. data[at + 1] \in Nat
  BY <1>1, <1>2 DEF Bytes, ByteMod
<1> QED BY <1>2, <1>3, <1>4 DEF Byte

(* The grammar's lengths are the groups of the scan with their value. *)
LEMMA LengthIsGroup ==
  ASSUME data \in Seq(Bytes), NEW at \in Nat, NEW v \in 0 .. U16Max, NEW n \in 1 .. 3
  PROVE  <<v, at + n>> \in LengthsAt(at) <=> n \in Groups(at) /\ v = Value(at, n)
<1> DEFINE digit(k) == Byte(at + k) % GroupBase
           Continues == \A k \in at .. at + n - 1 : Byte(k) >= GroupBase <=> k < at + n - 1
           Digits == \A k \in at .. at + n - 1 :
                       Byte(k) % GroupBase = (v \div Weight(k - at)) % GroupBase
<1>1. GroupBase \in Nat \ {0, 1} /\ v \in Nat /\ Len(data) \in Nat
  BY ParserAssumption
<1>2. <<v, at + n>> \in LengthsAt(at)
        <=> at + n \in Positions /\ Continues /\ Digits /\ v < Weight(n)
  <2>1. <<v, at + n>> \in (0 .. U16Max) \X (at + 1 .. at + 3)
    OBVIOUS
  <2>2. (at + n) - at = n
    OBVIOUS
  <2>3. \A l \in (0 .. U16Max) \X (at + 1 .. at + 3) : l \in LengthsAt(at)
          <=> /\ l[2] \in Positions
              /\ \A k \in at .. l[2] - 1 : Byte(k) >= GroupBase <=> k < l[2] - 1
              /\ \A k \in at .. l[2] - 1 : Byte(k) % GroupBase = (l[1] \div Weight(k - at)) % GroupBase
              /\ l[1] < Weight(l[2] - at)
    BY DEF LengthsAt
  <2>4. <<v, at + n>>[1] = v /\ <<v, at + n>>[2] = at + n
    OBVIOUS
  <2> DEFINE l == <<v, at + n>>
  <2>5. l \in (0 .. U16Max) \X (at + 1 .. at + 3) /\ l[1] = v /\ l[2] = at + n
    BY <2>1, <2>4
  <2> HIDE DEF l
  <2>6. l \in LengthsAt(at) <=> at + n \in Positions /\ Continues /\ Digits /\ v < Weight(n)
    BY ONLY <2>2, <2>3, <2>5 DEF Continues, Digits
  <2> QED BY <2>6 DEF l
<1>3. SUFFICES ASSUME at + n <= Len(data)
      PROVE  Continues /\ Digits /\ v < Weight(n) <=> n \in Groups(at) /\ v = Value(at, n)
  <2>1. at + n \in Positions <=> at + n <= Len(data)
    BY <1>1 DEF Positions
  <2>2. n \in Groups(at) => at + n <= Len(data)
    BY DEF Groups
  <2> HIDE DEF Continues, Digits
  <2> QED BY <1>2, <2>1, <2>2
<1>4. \A k \in at .. at + n - 1 : Byte(k) \in Nat
  BY <1>3, ByteTypes
<1>5. Continues <=> n \in Groups(at)
  <2>1. n \in Groups(at) <=> /\ Byte(at + n - 1) < GroupBase
                             /\ \A i \in 1 .. n - 1 : Byte(at + i - 1) >= GroupBase
    BY <1>3 DEF Groups
  <2>2. ASSUME Continues PROVE n \in Groups(at)
    <3>1. Byte(at + n - 1) < GroupBase
      BY <1>1, <1>4, <2>2
    <3>2. \A i \in 1 .. n - 1 : at + i - 1 \in at .. at + n - 1 /\ at + i - 1 < at + n - 1
      OBVIOUS
    <3> QED BY <2>1, <2>2, <3>1, <3>2
  <2>3. ASSUME n \in Groups(at) PROVE Continues
    <3> SUFFICES ASSUME NEW k \in at .. at + n - 1 PROVE Byte(k) >= GroupBase <=> k < at + n - 1
      OBVIOUS
    <3>1. CASE k = at + n - 1
      BY <1>1, <1>4, <2>1, <2>3, <3>1
    <3>2. CASE k < at + n - 1
      <4>1. (k - at) + 1 \in 1 .. n - 1 /\ at + ((k - at) + 1) - 1 = k
        BY <3>2
      <4> QED BY <2>1, <2>3, <3>2, <4>1
    <3> QED BY <3>1, <3>2
  <2> QED BY <2>2, <2>3
<1>6. \A k \in 0 .. n - 1 : digit(k) \in 0 .. GroupBase - 1
  BY <1>3, ByteTypes
<1>7. Digits /\ v < Weight(n) <=> v = Value(at, n)
  <2>1. CASE n = 1
    <3>1. Digits /\ v < Weight(n) <=> v < GroupBase /\ digit(0) = (v \div 1) % GroupBase
      <4>1. at .. at + n - 1 = {at} /\ at - at = 0 /\ at + 0 = at
        BY <2>1
      <4>2. Weight(0) = 1 /\ Weight(1) = GroupBase
        BY DEF Weight
      <4>3. Digits <=> Byte(at) % GroupBase = (v \div Weight(0)) % GroupBase
        BY <2>1, <4>1
      <4> QED BY <2>1, <4>2, <4>3
    <3>2. Value(at, n) = digit(0)
      BY <2>1 DEF Value, Group
    <3>3. digit(0) \in 0 .. GroupBase - 1
      BY <1>6, <2>1
    <3> HIDE DEF digit, Digits
    <3>4. v < GroupBase /\ digit(0) = (v \div 1) % GroupBase <=> v = digit(0)
      BY ONLY <1>1, <3>3, OneDigit
    <3> QED BY ONLY <3>1, <3>2, <3>4
  <2>2. CASE n = 2
    <3>1. Digits /\ v < Weight(n)
            <=> /\ v < GroupBase * GroupBase
                /\ digit(0) = (v \div 1) % GroupBase /\ digit(1) = (v \div GroupBase) % GroupBase
      <4>1. at .. at + n - 1 = {at, at + 1} /\ at - at = 0 /\ (at + 1) - at = 1 /\ at + 0 = at
        BY <2>2
      <4>2. Weight(0) = 1 /\ Weight(1) = GroupBase /\ Weight(2) = GroupBase * GroupBase
        BY DEF Weight
      <4>3. Digits <=> /\ Byte(at) % GroupBase = (v \div Weight(0)) % GroupBase
                       /\ Byte(at + 1) % GroupBase = (v \div Weight(1)) % GroupBase
        BY <2>2, <4>1
      <4> QED BY <2>2, <4>2, <4>3
    <3>2. Value(at, n) = digit(0) + GroupBase * digit(1)
      BY <2>2 DEF Value, Group
    <3>3. digit(0) \in 0 .. GroupBase - 1 /\ digit(1) \in 0 .. GroupBase - 1
      BY <1>6, <2>2
    <3> HIDE DEF digit, Digits
    <3>4. Spell2(GroupBase, v, digit(0), digit(1)) <=> v = digit(0) + GroupBase * digit(1)
      BY ONLY <1>1, <3>3, TwoDigits
    <3> QED BY ONLY <3>1, <3>2, <3>4 DEF Spell2
  <2>3. CASE n = 3
    <3>1. Digits /\ v < Weight(n)
            <=> /\ v < GroupBase * GroupBase * GroupBase
                /\ digit(0) = (v \div 1) % GroupBase /\ digit(1) = (v \div GroupBase) % GroupBase
                /\ digit(2) = (v \div (GroupBase * GroupBase)) % GroupBase
      <4>1. /\ at .. at + n - 1 = {at, at + 1, at + 2}
            /\ at - at = 0 /\ (at + 1) - at = 1 /\ (at + 2) - at = 2 /\ at + 0 = at
        BY <2>3
      <4>2. /\ Weight(0) = 1 /\ Weight(1) = GroupBase /\ Weight(2) = GroupBase * GroupBase
            /\ Weight(3) = GroupBase * GroupBase * GroupBase
        BY DEF Weight
      <4>3. Digits <=> /\ Byte(at) % GroupBase = (v \div Weight(0)) % GroupBase
                       /\ Byte(at + 1) % GroupBase = (v \div Weight(1)) % GroupBase
                       /\ Byte(at + 2) % GroupBase = (v \div Weight(2)) % GroupBase
        BY <4>1
      <4> QED BY <2>3, <4>2, <4>3
    <3>2. Value(at, n) = digit(0) + GroupBase * digit(1) + GroupBase * GroupBase * digit(2)
      BY <2>3 DEF Value, Group
    <3>3. /\ digit(0) \in 0 .. GroupBase - 1 /\ digit(1) \in 0 .. GroupBase - 1
          /\ digit(2) \in 0 .. GroupBase - 1
      BY <1>6, <2>3
    <3> HIDE DEF digit, Digits
    <3>4. Spell3(GroupBase, v, digit(0), digit(1), digit(2))
            <=> v = digit(0) + GroupBase * digit(1) + GroupBase * GroupBase * digit(2)
      <4> DEFINE a == digit(0)  b == digit(1)  c == digit(2)
      <4>1. /\ GroupBase \in Nat \ {0, 1} /\ v \in Nat /\ a \in 0 .. GroupBase - 1
            /\ b \in 0 .. GroupBase - 1 /\ c \in 0 .. GroupBase - 1
        BY <1>1, <3>3
      <4> HIDE DEF a, b, c
      <4>2. Spell3(GroupBase, v, a, b, c) <=> v = a + GroupBase * b + GroupBase * GroupBase * c
        BY ONLY <4>1, ThreeDigits
      <4> QED BY ONLY <4>2 DEF a, b, c
    <3> QED BY ONLY <3>1, <3>2, <3>4 DEF Spell3
  <2> QED BY <2>1, <2>2, <2>3
<1> HIDE DEF Continues, Digits
<1> QED BY <1>5, <1>7

(* At most one length starts at a position: the one the scan decodes. *)
LEMMA CompactIsLength ==
  ASSUME data \in Seq(Bytes), NEW at \in Nat
  PROVE  LengthsAt(at) = IF Compact(at).next = Bad THEN {} ELSE {<<Compact(at).value, Compact(at).next>>}
<1>1. GroupBase \in Nat \ {0, 1} /\ U16Max \in Nat
  BY ParserAssumption
<1>2. ASSUME NEW m \in Groups(at), NEW n \in Groups(at)
      PROVE  m = n
  <2>1. ASSUME NEW p \in Groups(at), NEW q \in Groups(at), p < q PROVE FALSE
    <3>1. p \in 1 .. q - 1 /\ at + p <= Len(data) /\ p \in Nat
      BY <2>1 DEF Groups
    <3>2. Byte(at + p - 1) < GroupBase /\ Byte(at + p - 1) >= GroupBase
      BY <3>1 DEF Groups
    <3>3. Byte(at + p - 1) \in Nat
      BY <3>1, ByteTypes
    <3> QED BY <1>1, <3>2, <3>3
  <2>2. m \in Int /\ n \in Int
    BY DEF Groups
  <2> QED BY <2>1, <2>2
<1>3. \A l \in LengthsAt(at) : \E n \in Groups(at) :
        Value(at, n) <= U16Max /\ l = <<Value(at, n), at + n>>
  <2> TAKE l \in LengthsAt(at)
  <2> DEFINE v == l[1]  n == l[2] - at
  <2>1. v \in 0 .. U16Max /\ l[2] \in at + 1 .. at + 3 /\ l = <<l[1], l[2]>>
    BY DEF LengthsAt
  <2>2. n \in 1 .. 3 /\ l = <<v, at + n>>
    BY <2>1
  <2> HIDE DEF v, n
  <2>3. n \in Groups(at) /\ v = Value(at, n)
    BY <2>1, <2>2, LengthIsGroup
  <2>4. v <= U16Max
    BY <2>1
  <2> QED BY <2>2, <2>3, <2>4
<1>4. CASE \E n \in Groups(at) : Value(at, n) <= U16Max
  <2> DEFINE n == CHOOSE n \in Groups(at) : TRUE
  <2>1. PICK k \in Groups(at) : Value(at, k) <= U16Max
    BY <1>4
  <2>2. n \in Groups(at)
    BY <2>1
  <2> HIDE DEF n
  <2>3. n = k /\ n \in 1 .. 3
    BY <1>2, <2>1, <2>2 DEF Groups
  <2>4. Compact(at) = [value |-> Value(at, n), next |-> at + n]
    BY <1>4 DEF Compact, n
  <2>5. Compact(at).next # Bad
    BY <2>3, <2>4 DEF Bad
  <2>6. Value(at, n) \in 0 .. U16Max
    BY <1>1, <2>1, <2>3, <2>4, <2>5, CompactAdvances
  <2>7. <<Value(at, n), at + n>> \in LengthsAt(at)
    BY <2>2, <2>3, <2>6, LengthIsGroup
  <2>8. LengthsAt(at) = {<<Value(at, n), at + n>>}
    BY <1>2, <1>3, <2>2, <2>7
  <2> QED BY <2>4, <2>5, <2>8
<1>5. CASE ~\E n \in Groups(at) : Value(at, n) <= U16Max
  BY <1>3, <1>5 DEF Compact
<1> QED BY <1>4, <1>5

(* Induction over a set of numbers: a set with zero and with the successor  *)
(* of each of its members has every number.                                 *)
LEMMA SetInduction ==
  ASSUME NEW S, 0 \in S, \A n \in Nat : n \in S => n + 1 \in S
  PROVE  \A n \in Nat : n \in S
<1> DEFINE R == {p \in Nat \X Nat : p[1] < p[2]}
<1>1. IsWellFoundedOn(R, Nat)
  <2>1. OpToRel(<, Nat) = R
    BY DEF OpToRel
  <2> QED BY <2>1, NatLessThanWellFounded
<1>2. SUFFICES ASSUME Nat \ S # {} PROVE FALSE
  OBVIOUS
<1> HIDE DEF R
<1>3. PICK m \in Nat \ S : \A k \in Nat \ S : ~(<<k, m>> \in R)
  BY <1>1, <1>2, WFMin
<1>4. m \in Nat /\ m # 0 /\ m \notin S
  OBVIOUS
<1>5. m - 1 \in Nat /\ <<m - 1, m>> \in R
  BY <1>4 DEF R
<1>6. m - 1 \in S
  BY <1>3, <1>5
<1>7. (m - 1) + 1 \in S
  BY <1>5, <1>6
<1> QED BY <1>4, <1>7

(* The ends of one more item, when h has those of some items.               *)
OneMore(ends, h) == [i \in Positions |-> UNION {h[j] : j \in ends[i]}]

NoItem == [i \in Positions |-> {i}]

(* The ends of zero to n items: the first n + 1 values of Rest in ItemsEnds.*)
Iterations(ends, n) ==
  {f \in [0 .. n -> [Positions -> SUBSET Positions]] :
     /\ f[0] = NoItem
     /\ \A m \in 1 .. n : f[m] = OneMore(ends, f[m - 1])}

(* One more item ends at a position again.                                  *)
LEMMA OneMoreType ==
  ASSUME NEW ends \in [Positions -> SUBSET Positions], NEW h \in [Positions -> SUBSET Positions]
  PROVE  OneMore(ends, h) \in [Positions -> SUBSET Positions]
BY DEF OneMore

(* They exist for every n, *)
LEMMA IterationsExist ==
  ASSUME NEW ends \in [Positions -> SUBSET Positions]
  PROVE  \A n \in Nat : Iterations(ends, n) # {}
<1> DEFINE S == {n \in Nat : Iterations(ends, n) # {}}
           F == [Positions -> SUBSET Positions]
<1>1. 0 \in S
  <2> DEFINE f == [m \in 0 .. 0 |-> NoItem]
  <2>1. NoItem \in F
    BY DEF NoItem
  <2> HIDE DEF F
  <2>2. f \in [0 .. 0 -> F] /\ f[0] = NoItem /\ \A m \in 1 .. 0 : FALSE
    BY <2>1
  <2> HIDE DEF f
  <2>3. f \in Iterations(ends, 0)
    BY <2>2 DEF Iterations, F
  <2> QED BY <2>3
<1>2. ASSUME NEW n \in Nat, n \in S PROVE n + 1 \in S
  <2>1. PICK f \in Iterations(ends, n) : TRUE
    BY <1>2
  <2>2. /\ f \in [0 .. n -> F] /\ f[0] = NoItem
        /\ \A m \in 1 .. n : f[m] = OneMore(ends, f[m - 1])
    BY <2>1 DEF Iterations
  <2> DEFINE g == [m \in 0 .. n + 1 |-> IF m = n + 1 THEN OneMore(ends, f[n]) ELSE f[m]]
  <2>3. f[n] \in F /\ OneMore(ends, f[n]) \in F
    BY <2>2, OneMoreType
  <2> HIDE DEF F
  <2>4. g \in [0 .. n + 1 -> F]
    BY <2>2, <2>3
  <2>5. g[0] = NoItem /\ g[n + 1] = OneMore(ends, f[n]) /\ \A m \in 0 .. n : g[m] = f[m]
    BY <2>2
  <2> HIDE DEF g
  <2>6. ASSUME NEW m \in 1 .. n + 1 PROVE g[m] = OneMore(ends, g[m - 1])
    <3>1. m - 1 \in 0 .. n /\ g[m - 1] = f[m - 1]
      BY <2>5
    <3>2. CASE m = n + 1
      BY <2>5, <3>1, <3>2
    <3>3. CASE m # n + 1
      BY <2>2, <2>5, <3>1, <3>3
    <3> QED BY <3>2, <3>3
  <2>7. g \in Iterations(ends, n + 1)
    BY <2>4, <2>5, <2>6 DEF Iterations, F
  <2> QED BY <2>7
<1> HIDE DEF S
<1>3. \A n \in Nat : n \in S
  BY <1>1, <1>2, SetInduction
<1> QED BY <1>3 DEF S

(* and agree where they overlap.                                            *)
LEMMA IterationsAgree ==
  ASSUME NEW ends, NEW p \in Nat, NEW q \in Nat, NEW f \in Iterations(ends, p),
         NEW h \in Iterations(ends, q)
  PROVE  \A m \in Nat : m <= p /\ m <= q => f[m] = h[m]
<1> DEFINE S == {m \in Nat : m <= p /\ m <= q => f[m] = h[m]}
<1>1. /\ f[0] = NoItem /\ \A m \in 1 .. p : f[m] = OneMore(ends, f[m - 1])
      /\ h[0] = NoItem /\ \A m \in 1 .. q : h[m] = OneMore(ends, h[m - 1])
  BY DEF Iterations
<1>2. 0 \in S
  BY <1>1
<1>3. ASSUME NEW n \in Nat, n \in S PROVE n + 1 \in S
  <2> SUFFICES ASSUME n + 1 <= p, n + 1 <= q PROVE f[n + 1] = h[n + 1]
    OBVIOUS
  <2>1. f[n] = h[n]
    BY <1>3
  <2>2. n + 1 \in 1 .. p /\ n + 1 \in 1 .. q /\ (n + 1) - 1 = n
    OBVIOUS
  <2> QED BY <1>1, <2>1, <2>2
<1> HIDE DEF S
<1>4. \A n \in Nat : n \in S
  BY <1>2, <1>3, SetInduction
<1> QED BY <1>4 DEF S

(* Items are read from the front: the ends of n items at i are those of     *)
(* n - 1 items at each end of the first.                                    *)
LEMMA ItemsFromFront ==
  ASSUME NEW ends \in [Positions -> SUBSET Positions], NEW i \in Positions
  PROVE  /\ ItemsEnds(ends, 0)[i] = {i}
         /\ \A n \in Nat : ItemsEnds(ends, n + 1)[i] = UNION {ItemsEnds(ends, n)[j] : j \in ends[i]}
<1> DEFINE G(f) == [m \in Nat |-> [k \in Positions |->
                     IF m = 0 THEN {k} ELSE UNION {f[m - 1][j] : j \in ends[k]}]]
           Any(n) == CHOOSE f \in Iterations(ends, n) : TRUE
           g == [m \in Nat |-> Any(m)[m]]
<1>1. \A n \in Nat : Any(n) \in Iterations(ends, n)
  BY IterationsExist
<1> HIDE DEF Any
<1>2. \A m \in Nat : g[m] = Any(m)[m]
  OBVIOUS
<1>3. g[0] = NoItem
  BY <1>1, <1>2 DEF Iterations
<1>4. ASSUME NEW m \in Nat PROVE g[m + 1] = OneMore(ends, g[m])
  <2>1. Any(m) \in Iterations(ends, m) /\ Any(m + 1) \in Iterations(ends, m + 1)
    BY <1>1
  <2>2. Any(m)[m] = Any(m + 1)[m]
    BY <2>1, IterationsAgree
  <2>3. m + 1 \in 1 .. m + 1 /\ (m + 1) - 1 = m
    OBVIOUS
  <2>4. Any(m + 1)[m + 1] = OneMore(ends, Any(m + 1)[m])
    BY <2>1, <2>3 DEF Iterations
  <2> QED BY <1>2, <2>2, <2>4
<1>5. g = G(g)
  <2> SUFFICES ASSUME NEW m \in Nat
               PROVE  g[m] = [k \in Positions |->
                                IF m = 0 THEN {k} ELSE UNION {g[m - 1][j] : j \in ends[k]}]
    OBVIOUS
  <2> HIDE DEF g
  <2>1. CASE m = 0
    BY <1>3, <2>1 DEF NoItem
  <2>2. CASE m # 0
    <3>1. m - 1 \in Nat /\ (m - 1) + 1 = m
      BY <2>2
    <3>2. g[m] = OneMore(ends, g[m - 1])
      BY <1>4, <3>1
    <3> QED BY <2>2, <3>2 DEF OneMore
  <2> QED BY <2>1, <2>2
<1> DEFINE r == CHOOSE f : f = G(f)
<1>6. r = G(r)
  BY <1>5
<1>7. \A n \in Nat : ItemsEnds(ends, n) = r[n]
  BY DEF ItemsEnds
<1> HIDE DEF r
<1>8. \A n \in Nat : r[n] = [k \in Positions |->
                               IF n = 0 THEN {k} ELSE UNION {r[n - 1][j] : j \in ends[k]}]
  BY <1>6
<1>9. r[0][i] = {i}
  BY <1>8
<1>10. ASSUME NEW n \in Nat PROVE r[n + 1][i] = UNION {r[n][j] : j \in ends[i]}
  <2>1. n + 1 \in Nat /\ n + 1 # 0 /\ (n + 1) - 1 = n
    OBVIOUS
  <2>2. r[n + 1] = [k \in Positions |->
                      IF n + 1 = 0 THEN {k} ELSE UNION {r[(n + 1) - 1][j] : j \in ends[k]}]
    BY <1>8, <2>1
  <2> QED BY <2>1, <2>2
<1> QED BY <1>7, <1>9, <1>10

(* The ends of what the scan takes: one, or none.                           *)
EndOf(at) == IF at = Bad THEN {} ELSE {at}

(* A vector ends where the scan says.                                       *)
LEMMA VectorEndIsSkip ==
  ASSUME data \in Seq(Bytes), NEW at \in Nat
  PROVE  VectorEnds(at) = EndOf(SkipVector(at)) /\ VectorEnds(at) \subseteq Positions
<1> DEFINE c == Compact(at)
<1>1. LengthsAt(at) = IF c.next = Bad THEN {} ELSE {<<c.value, c.next>>}
  BY CompactIsLength
<1>2. c.next # Bad => c.next \in Nat /\ c.value \in Nat
  BY CompactAdvances
<1>3. SkipVector(at) = IF c.next = Bad THEN Bad ELSE Take(c.next, c.value)
  BY DEF SkipVector, Bad
<1>4. VectorEnds(at) = {l[1] + l[2] : l \in LengthsAt(at)} \cap Positions
  BY DEF VectorEnds
<1>5. Len(data) \in Nat
  OBVIOUS
<1> HIDE DEF c
<1>6. CASE c.next = Bad
  BY <1>1, <1>3, <1>4, <1>6 DEF EndOf
<1>7. CASE c.next # Bad
  <2>1. VectorEnds(at) = {c.value + c.next} \cap Positions
    BY <1>1, <1>4, <1>7
  <2>2. Take(c.next, c.value) = IF c.next + c.value > Len(data) THEN Bad ELSE c.next + c.value
    BY <1>7 DEF Take
  <2>3. c.value + c.next \in Positions <=> c.next + c.value <= Len(data)
    BY <1>2, <1>5, <1>7 DEF Positions
  <2>4. c.value + c.next # Bad /\ c.value + c.next = c.next + c.value
    BY <1>2, <1>7 DEF Bad
  <2> QED BY <1>2, <1>3, <1>5, <1>7, <2>1, <2>2, <2>3, <2>4 DEF EndOf
<1> QED BY <1>6, <1>7

(* So do two vectors after a few bytes.                                     *)
LEMMA VectorsEnd ==
  ASSUME data \in Seq(Bytes), NEW at \in Positions, NEW size \in Nat
  PROVE  LET ends == UNION {VectorEnds(j) : j \in VectorEnds(at + size)}
         IN  /\ ends = EndOf(SkipVector(SkipVector(Take(at, size))))
             /\ ends \subseteq Positions
<1> DEFINE first == Take(at, size)
           second == SkipVector(first)
           ends == UNION {VectorEnds(j) : j \in VectorEnds(at + size)}
<1>1. at \in Nat /\ at + size \in Nat /\ Len(data) \in Nat /\ at # Bad
  BY DEF Positions, Bad
<1>2. SkipVector(Bad) = Bad
  BY DEF SkipVector
<1>3. VectorEnds(at + size) = EndOf(second)
  <2>1. CASE at + size <= Len(data)
    <3>1. first = at + size
      BY <1>1, <2>1 DEF Take
    <3> QED BY <1>1, <3>1, VectorEndIsSkip
  <2>2. CASE at + size > Len(data)
    <3>1. first = Bad
      BY <1>1, <2>2 DEF Take
    <3>2. LengthsAt(at + size) = {}
      <4>1. Compact(at + size).next # Bad => Compact(at + size).next \in at + size + 1 .. Len(data)
        BY <1>1, CompactAdvances
      <4>2. Compact(at + size).next = Bad
        BY <1>1, <2>2, <4>1
      <4> QED BY <1>1, <4>2, CompactIsLength
    <3> QED BY <1>2, <3>1, <3>2 DEF VectorEnds, EndOf
  <2> QED BY <1>1, <2>1, <2>2
<1>4. second \in Nat \cup {Bad}
  <2>1. first \in Nat \cup {Bad}
    BY <1>1 DEF Take
  <2> QED BY <2>1, SkipVectorAdvances
<1> HIDE DEF second
<1>5. ends = EndOf(SkipVector(second)) /\ ends \subseteq Positions
  <2>1. CASE second = Bad
    BY <1>2, <1>3, <2>1 DEF EndOf
  <2>2. CASE second # Bad
    <3>1. ends = VectorEnds(second)
      BY <1>3, <2>2 DEF EndOf
    <3> QED BY <1>4, <2>2, <3>1, VectorEndIsSkip
  <2> QED BY <2>1, <2>2
<1> QED BY <1>5 DEF second

(* An instruction and a lookup end where the scan says.                     *)
LEMMA ItemEnds ==
  ASSUME data \in Seq(Bytes)
  PROVE  /\ \A at \in Positions : /\ InstructionEnds[at] = EndOf(SkipInstruction(at))
                                  /\ LookupEnds[at] = EndOf(SkipLookup(at))
         /\ InstructionEnds \in [Positions -> SUBSET Positions]
         /\ LookupEnds \in [Positions -> SUBSET Positions]
<1>1. KeyBytes \in Nat /\ 1 \in Nat
  BY ParserAssumption
<1>2. ASSUME NEW at \in Positions
      PROVE  /\ InstructionEnds[at] = EndOf(SkipInstruction(at)) /\ InstructionEnds[at] \subseteq Positions
             /\ LookupEnds[at] = EndOf(SkipLookup(at)) /\ LookupEnds[at] \subseteq Positions
  <2>1. InstructionEnds[at] = UNION {VectorEnds(j) : j \in VectorEnds(at + 1)}
    BY DEF InstructionEnds
  <2>2. LookupEnds[at] = UNION {VectorEnds(j) : j \in VectorEnds(at + KeyBytes)}
    BY DEF LookupEnds
  <2>3. /\ InstructionEnds[at] = EndOf(SkipVector(SkipVector(Take(at, 1))))
        /\ InstructionEnds[at] \subseteq Positions
    BY <2>1, VectorsEnd
  <2>4. /\ LookupEnds[at] = EndOf(SkipVector(SkipVector(Take(at, KeyBytes))))
        /\ LookupEnds[at] \subseteq Positions
    BY <1>1, <2>2, VectorsEnd
  <2> QED BY <2>3, <2>4 DEF SkipInstruction, SkipLookup
<1>3. /\ InstructionEnds = [at \in Positions |-> InstructionEnds[at]]
      /\ LookupEnds = [at \in Positions |-> LookupEnds[at]]
  BY DEF InstructionEnds, LookupEnds
<1>4. /\ InstructionEnds \in [Positions -> SUBSET Positions]
      /\ LookupEnds \in [Positions -> SUBSET Positions]
  <2> HIDE DEF InstructionEnds, LookupEnds
  <2> QED BY <1>2, <1>3
<1> QED BY <1>2, <1>4

(* Where left items from at end, when the scan takes one of them.           *)
LEMMA ItemsTaken ==
  ASSUME data \in Seq(Bytes), NEW ends \in [Positions -> SUBSET Positions],
         NEW at \in Positions, NEW next, ends[at] = EndOf(next)
  PROVE  /\ ItemsEnds(ends, 0)[at] = {at}
         /\ \A n \in Nat \ {0} :
              ItemsEnds(ends, n)[at] = IF next = Bad THEN {} ELSE ItemsEnds(ends, n - 1)[next]
<1>1. ItemsEnds(ends, 0)[at] = {at}
  BY ItemsFromFront
<1>2. ASSUME NEW n \in Nat \ {0}
      PROVE  ItemsEnds(ends, n)[at] = IF next = Bad THEN {} ELSE ItemsEnds(ends, n - 1)[next]
  <2> DEFINE m == n - 1
  <2>1. m \in Nat /\ n = m + 1
    OBVIOUS
  <2> HIDE DEF m
  <2>2. ItemsEnds(ends, m + 1)[at] = UNION {ItemsEnds(ends, m)[j] : j \in ends[at]}
    BY <2>1, ItemsFromFront
  <2>3. ItemsEnds(ends, m + 1)[at] = IF next = Bad THEN {} ELSE ItemsEnds(ends, m)[next]
    <3>1. CASE next = Bad
      BY <2>2, <3>1 DEF EndOf
    <3>2. CASE next # Bad
      <4>1. ends[at] = {next}
        BY <3>2 DEF EndOf
      <4>2. UNION {ItemsEnds(ends, m)[j] : j \in {next}} = ItemsEnds(ends, m)[next]
        OBVIOUS
      <4> QED BY <2>2, <3>2, <4>1, <4>2
    <3> QED BY <3>1, <3>2
  <2> QED BY <2>1, <2>3 DEF m
<1> QED BY <1>1, <1>2
-----------------------------------------------------------------------------
(* The one way to read the bytes, if there is any: where each field starts. *)
SigCount == Compact(0).value
SigStart == Compact(0).next
MessageStart == SigStart + SigCount * SigBytes
HeaderStart == IF Byte(MessageStart) = GroupBase THEN MessageStart + 1 ELSE MessageStart
KeyCount == Compact(HeaderStart + 3).value
KeyStart == Compact(HeaderStart + 3).next
ListsStart == KeyStart + (KeyCount + 1) * KeyBytes
InstructionsEnd == ListEnds(InstructionEnds, ListsStart)
ListsEnd ==
  IF HeaderStart = MessageStart THEN InstructionsEnd
  ELSE UNION {ListEnds(LookupEnds, e) : e \in InstructionsEnd}

Readable ==
  /\ SigStart # Bad /\ MessageStart < Len(data)
  /\ HeaderStart + 3 <= Len(data) /\ Byte(MessageStart) <= GroupBase
  /\ Byte(HeaderStart) = SigCount
  /\ KeyStart # Bad /\ SigCount <= KeyCount
  /\ Len(data) \in ListsEnd

(* A list has at most one length.                                           *)
LEMMA OneLength ==
  ASSUME data \in Seq(Bytes), NEW at \in Nat
  PROVE  /\ \A v, j : <<v, j>> \in LengthsAt(at)
                        <=> Compact(at).next # Bad /\ v = Compact(at).value /\ j = Compact(at).next
         /\ Compact(at).next # Bad =>
              Compact(at).value \in 0 .. U16Max /\ Compact(at).next \in at + 1 .. Len(data)
         /\ \A ends : ListEnds(ends, at) =
              IF Compact(at).next = Bad THEN {} ELSE ItemsEnds(ends, Compact(at).value)[Compact(at).next]
<1> DEFINE c == Compact(at)
<1>1. LengthsAt(at) = IF c.next = Bad THEN {} ELSE {<<c.value, c.next>>}
  BY CompactIsLength
<1>2. c.next # Bad => c.next \in at + 1 .. Len(data)
  BY CompactAdvances
<1> HIDE DEF c
<1>3. \A v, j : <<v, j>> \in LengthsAt(at) <=> c.next # Bad /\ v = c.value /\ j = c.next
  BY <1>1
<1>4. c.next # Bad => c.value \in 0 .. U16Max
  <2>1. \A l \in LengthsAt(at) : l[1] \in 0 .. U16Max
    BY DEF LengthsAt
  <2>2. c.next # Bad => <<c.value, c.next>> \in LengthsAt(at)
    BY <1>3
  <2>3. <<c.value, c.next>>[1] = c.value
    OBVIOUS
  <2> QED BY ONLY <2>1, <2>2, <2>3
<1>5. ASSUME NEW ends
      PROVE  ListEnds(ends, at) = IF c.next = Bad THEN {} ELSE ItemsEnds(ends, c.value)[c.next]
  <2>1. ListEnds(ends, at) = UNION {ItemsEnds(ends, l[1])[l[2]] : l \in LengthsAt(at)}
    BY DEF ListEnds
  <2>2. CASE c.next = Bad
    BY <1>1, <2>1, <2>2
  <2>3. CASE c.next # Bad
    <3>1. LengthsAt(at) = {<<c.value, c.next>>}
      BY <1>1, <2>3
    <3>2. UNION {ItemsEnds(ends, l[1])[l[2]] : l \in {<<c.value, c.next>>}}
            = ItemsEnds(ends, c.value)[c.next]
      OBVIOUS
    <3> QED BY <2>1, <2>3, <3>1, <3>2
  <2> QED BY <2>2, <2>3
<1> QED BY <1>2, <1>3, <1>4, <1>5 DEF c

(* The fields of a readable transaction are where they should be.           *)
LEMMA FieldTypes ==
  ASSUME data \in Seq(Bytes), SigStart # Bad
  PROVE  /\ SigCount \in 0 .. U16Max /\ SigStart \in 1 .. Len(data)
         /\ MessageStart \in Nat /\ HeaderStart \in Nat /\ MessageStart >= SigStart
         /\ HeaderStart \in {MessageStart, MessageStart + 1}
         /\ KeyStart # Bad => /\ KeyCount \in 0 .. U16Max /\ KeyStart \in HeaderStart + 4 .. Len(data)
                              /\ ListsStart \in Nat /\ KeyStart <= ListsStart
<1>1. KeyBytes \in Nat /\ SigBytes \in Nat /\ 0 \in Nat /\ Len(data) \in Nat
  BY ParserAssumption
<1>2. SigCount \in 0 .. U16Max /\ SigStart \in 1 .. Len(data)
  BY <1>1, OneLength DEF SigStart, SigCount
<1>3. SigCount * SigBytes \in Nat
  <2>1. \A x, y \in Nat : x * y \in Nat
    OBVIOUS
  <2> QED BY <1>1, <1>2, <2>1
<1>4. MessageStart \in Nat /\ MessageStart >= SigStart
  BY <1>2, <1>3 DEF MessageStart
<1>5. HeaderStart \in Nat /\ HeaderStart \in {MessageStart, MessageStart + 1}
  BY <1>4 DEF HeaderStart
<1>6. ASSUME KeyStart # Bad
      PROVE  /\ KeyCount \in 0 .. U16Max /\ KeyStart \in HeaderStart + 4 .. Len(data)
             /\ ListsStart \in Nat /\ KeyStart <= ListsStart
  <2>1. HeaderStart + 3 \in Nat
    BY <1>5
  <2>2. KeyCount \in 0 .. U16Max /\ KeyStart \in (HeaderStart + 3) + 1 .. Len(data)
    BY <1>6, <2>1, OneLength DEF KeyStart, KeyCount
  <2>3. (KeyCount + 1) * KeyBytes \in Nat
    <3>1. \A x, y \in Nat : (x + 1) * y \in Nat
      OBVIOUS
    <3> QED BY <1>1, <2>2, <3>1
  <2> QED BY <1>5, <2>2, <2>3 DEF ListsStart
<1> QED BY <1>2, <1>4, <1>5, <1>6

(* The grammar reads the bytes in one way or in none.                       *)
LEMMA OneReading ==
  ASSUME data \in Seq(Bytes)
  PROVE  Readings = IF Readable THEN {<<SigCount, SigStart, HeaderStart, KeyStart>>} ELSE {}
<1>0. 0 \in Nat /\ Len(data) \in Nat /\ GroupBase \in Nat
  BY ParserAssumption
<1>1. \A v, j : <<v, j>> \in LengthsAt(0) <=> SigStart # Bad /\ v = SigCount /\ j = SigStart
  BY <1>0, OneLength DEF SigStart, SigCount
<1>2. ASSUME NEW r \in Readings
      PROVE  Readable /\ r = <<SigCount, SigStart, HeaderStart, KeyStart>>
  <2>1. PICK s \in LengthsAt(0), versioned \in {0, 1}, key \in Positions :
          /\ r = <<s[1], s[2], s[2] + s[1] * SigBytes + versioned, key>>
          /\ Reading(s[1], s[2], s[2] + s[1] * SigBytes + versioned, key)
    BY DEF Readings
  <2>2. s = <<s[1], s[2]>>
    BY DEF LengthsAt
  <2>3. s[1] = SigCount /\ s[2] = SigStart /\ SigStart # Bad
    BY <1>1, <2>2
  <2> DEFINE head == MessageStart + versioned
  <2>4. r = <<SigCount, SigStart, head, key>> /\ Reading(SigCount, SigStart, head, key)
    BY <2>1, <2>3 DEF MessageStart
  <2>5. MessageStart \in Nat
    BY <2>3, FieldTypes
  <2>6. /\ head + 3 <= Len(data)
        /\ \/ head = MessageStart /\ Byte(head) < GroupBase
           \/ head = MessageStart + 1 /\ Byte(MessageStart) = GroupBase
        /\ Byte(head) = SigCount
        /\ \E m \in SigCount .. U16Max :
             /\ <<m, key>> \in LengthsAt(head + 3)
             /\ \E e \in ListEnds(InstructionEnds, key + (m + 1) * KeyBytes) :
                  IF head = MessageStart THEN e = Len(data) ELSE Len(data) \in ListEnds(LookupEnds, e)
    BY <2>4 DEF Reading, MessageStart
  <2>7. head = HeaderStart
    BY <1>0, <2>5, <2>6 DEF HeaderStart
  <2>8. Byte(MessageStart) <= GroupBase
    <3>1. Byte(MessageStart) \in Nat
      BY <2>5, <2>6, ByteTypes
    <3> QED BY <1>0, <2>6, <3>1
  <2> HIDE DEF head
  <2>9. PICK m \in SigCount .. U16Max :
             /\ <<m, key>> \in LengthsAt(HeaderStart + 3)
             /\ \E e \in ListEnds(InstructionEnds, key + (m + 1) * KeyBytes) :
                  IF HeaderStart = MessageStart THEN e = Len(data) ELSE Len(data) \in ListEnds(LookupEnds, e)
    BY <2>6, <2>7
  <2>10. KeyStart # Bad /\ m = KeyCount /\ key = KeyStart
    <3>1. HeaderStart + 3 \in Nat
      BY <2>3, FieldTypes
    <3> QED BY <2>9, <3>1, OneLength DEF KeyStart, KeyCount
  <2>11. PICK e \in InstructionsEnd :
           IF HeaderStart = MessageStart THEN e = Len(data) ELSE Len(data) \in ListEnds(LookupEnds, e)
    BY <2>9, <2>10 DEF InstructionsEnd, ListsStart
  <2>12. Len(data) \in ListsEnd
    BY <2>11 DEF ListsEnd
  <2>13. SigCount <= KeyCount
    <3>1. SigCount \in Int /\ U16Max \in Int
      BY <2>3, FieldTypes, ParserAssumption
    <3> QED BY <2>9, <2>10, <3>1
  <2>14. MessageStart < Len(data)
    BY <1>0, <2>3, <2>6, <2>7, FieldTypes
  <2> QED BY <2>3, <2>4, <2>6, <2>7, <2>8, <2>10, <2>12, <2>13, <2>14 DEF Readable
<1>3. ASSUME Readable
      PROVE  <<SigCount, SigStart, HeaderStart, KeyStart>> \in Readings
  <2>1. SigStart # Bad /\ KeyStart # Bad /\ HeaderStart + 3 <= Len(data) /\ SigCount <= KeyCount
    BY <1>3 DEF Readable
  <2> DEFINE s == <<SigCount, SigStart>>
             versioned == IF HeaderStart = MessageStart THEN 0 ELSE 1
  <2>2. s \in LengthsAt(0) /\ s[1] = SigCount /\ s[2] = SigStart
    BY <1>1, <2>1
  <2>3. /\ HeaderStart \in Nat /\ MessageStart \in Nat /\ KeyStart \in Positions
        /\ HeaderStart \in {MessageStart, MessageStart + 1} /\ KeyCount \in SigCount .. U16Max
    <3>1. U16Max \in Nat
      BY ParserAssumption
    <3> QED BY <1>0, <2>1, <3>1, FieldTypes DEF Positions
  <2>4. HeaderStart = s[2] + s[1] * SigBytes + versioned
    BY <2>2, <2>3 DEF MessageStart
  <2>5. PICK e \in InstructionsEnd :
          IF HeaderStart = MessageStart THEN e = Len(data) ELSE Len(data) \in ListEnds(LookupEnds, e)
    BY <1>3 DEF Readable, ListsEnd
  <2>6. <<KeyCount, KeyStart>> \in LengthsAt(HeaderStart + 3)
    BY <2>1, <2>3, OneLength DEF KeyStart, KeyCount
  <2>7. \/ HeaderStart = MessageStart /\ Byte(HeaderStart) < GroupBase
        \/ HeaderStart = MessageStart + 1 /\ Byte(MessageStart) = GroupBase
    <3>1. Byte(MessageStart) \in Nat /\ Byte(MessageStart) <= GroupBase
      BY <1>0, <1>3, <2>1, <2>3, ByteTypes DEF Readable
    <3> QED BY <1>0, <2>3, <3>1 DEF HeaderStart
  <2>8. Reading(SigCount, SigStart, HeaderStart, KeyStart)
    <3>1. Byte(HeaderStart) = SigCount
      BY <1>3 DEF Readable
    <3> QED BY <2>1, <2>2, <2>3, <2>5, <2>6, <2>7, <3>1
            DEF Reading, MessageStart, InstructionsEnd, ListsStart
  <2> HIDE DEF s
  <2>9. <<s[1], s[2], s[2] + s[1] * SigBytes + versioned, KeyStart>> = <<SigCount, SigStart, HeaderStart, KeyStart>>
    BY <2>2, <2>4
  <2>10. versioned \in {0, 1}
    OBVIOUS
  <2> HIDE DEF versioned
  <2> DEFINE r == <<SigCount, SigStart, HeaderStart, KeyStart>>
  <2>11. r[1] = SigCount /\ r[2] = SigStart /\ r[3] = HeaderStart /\ r[4] = KeyStart
    OBVIOUS
  <2>12. r = <<s[1], s[2], s[2] + s[1] * SigBytes + versioned, KeyStart>>
    BY <2>9
  <2> HIDE DEF r
  <2>13. r \in Readings
    BY <2>2, <2>3, <2>8, <2>10, <2>11, <2>12 DEF Readings
  <2> QED BY <2>13 DEF r
<1> QED BY <1>2, <1>3
-----------------------------------------------------------------------------
(* The scan follows the one reading: at each field it has found so far what *)
(* the grammar says of the fields behind it, and the items still to come    *)
(* end where the grammar says the list ends.                                *)
Concluded == verdict \in {"ok", "panic"}

AfterVersion ==
  \/ Concluded
  \/ pc \in {"header", "key_count", "keys", "blockhash", "instruction_count", "instructions",
             "lookup_count", "lookups", "check"}
AfterHeader == AfterVersion /\ pc # "header"
AfterKeyCount == AfterHeader /\ pc # "key_count"

(* Where slices of one size start that follow one another from a position.  *)
StartsFrom(starts, size, from) == \A i \in DOMAIN starts : starts[i] = from + (i - 1) * size

SignaturesAt ==
  /\ pc = "count" => offset = 0
  /\ InMessage \/ pc = "signatures" =>
       /\ SigStart # Bad /\ count = SigCount
       /\ StartsFrom(sigs, SigBytes, SigStart)
  /\ pc = "signatures" => offset = SigStart + Len(sigs) * SigBytes
  /\ InMessage => body = MessageStart
  /\ pc = "version" => offset = MessageStart

HeaderAt ==
  /\ AfterVersion =>
       /\ Byte(MessageStart) <= GroupBase
       /\ version = IF Byte(MessageStart) = GroupBase THEN "v0" ELSE "legacy"
  /\ pc = "header" => offset = HeaderStart
  /\ AfterHeader => HeaderStart + 3 <= Len(data) /\ required = Byte(HeaderStart)
  /\ pc = "key_count" => offset = HeaderStart + 3

KeysAt ==
  /\ AfterKeyCount =>
       /\ KeyStart # Bad
       /\ StartsFrom(keys, KeyBytes, KeyStart)
       /\ Len(keys) + (IF pc = "keys" THEN left ELSE 0) = KeyCount
  /\ pc \in {"keys", "blockhash"} => offset = KeyStart + Len(keys) * KeyBytes

ListsAt ==
  /\ pc = "instruction_count" => offset = ListsStart
  /\ pc = "instructions" => InstructionsEnd = ItemsEnds(InstructionEnds, left)[offset]
  /\ pc = "lookup_count" => version = "v0" /\ InstructionsEnd = {offset}
  /\ pc = "lookups" => version = "v0" /\ ListsEnd = ItemsEnds(LookupEnds, left)[offset]
  /\ pc = "check" \/ Concluded => ListsEnd = {offset}

RefusedAt == verdict = "error" => ~Readable

FormatInv == SignaturesAt /\ HeaderAt /\ KeysAt /\ ListsAt /\ RefusedAt

(* The reading is of the bytes, which no step changes.                      *)
LEMMA BytesStay ==
  ASSUME data' = data
  PROVE  /\ UNCHANGED <<SigCount, SigStart, MessageStart, HeaderStart, KeyCount, KeyStart, ListsStart,
                        InstructionsEnd, ListsEnd, Readable>>
         /\ Byte(MessageStart)' = Byte(MessageStart) /\ Byte(HeaderStart)' = Byte(HeaderStart)
         /\ (ItemsEnds(InstructionEnds, left)[offset])' = ItemsEnds(InstructionEnds, left')[offset']
         /\ (ItemsEnds(LookupEnds, left)[offset])' = ItemsEnds(LookupEnds, left')[offset']
<1>1. \A at : Byte(at)' = Byte(at)
  BY DEF Byte
<1>2. \A at, i : Group(at, i)' = Group(at, i)
  BY <1>1 DEF Group
<1>3. \A at, n : Value(at, n)' = Value(at, n)
  BY <1>2 DEF Value
<1>4. \A at : Groups(at)' = Groups(at)
  BY <1>1 DEF Groups
<1>5. \A at : Compact(at)' = Compact(at)
  BY <1>3, <1>4 DEF Compact
<1>6. Positions' = Positions
  BY DEF Positions
<1>7. \A at : LengthsAt(at)' = LengthsAt(at)
  BY <1>1, <1>6 DEF LengthsAt
<1>8. \A at : VectorEnds(at)' = VectorEnds(at)
  BY <1>6, <1>7 DEF VectorEnds
<1>9. InstructionEnds' = InstructionEnds /\ LookupEnds' = LookupEnds
  BY <1>6, <1>8 DEF InstructionEnds, LookupEnds
<1>10. \A ends, n : ItemsEnds(ends, n)' = ItemsEnds(ends, n)
  BY <1>6 DEF ItemsEnds
<1>11. \A ends, at : ListEnds(ends, at)' = ListEnds(ends, at)
  BY <1>7, <1>10 DEF ListEnds
<1>12. UNCHANGED <<SigCount, SigStart, MessageStart>>
  BY <1>5 DEF SigCount, SigStart, MessageStart
<1>13. UNCHANGED HeaderStart
  BY <1>1, <1>12 DEF HeaderStart
<1>14. UNCHANGED <<KeyCount, KeyStart>>
  BY <1>5, <1>13 DEF KeyCount, KeyStart
<1>15. UNCHANGED ListsStart
  BY <1>14 DEF ListsStart
<1>16. UNCHANGED InstructionsEnd
  BY <1>9, <1>11, <1>15 DEF InstructionsEnd
<1>17. UNCHANGED ListsEnd
  BY <1>9, <1>11, <1>12, <1>13, <1>16 DEF ListsEnd
<1>18. Byte(MessageStart)' = Byte(MessageStart) /\ Byte(HeaderStart)' = Byte(HeaderStart)
  BY <1>1, <1>12, <1>13
<1>19. UNCHANGED Readable
  BY <1>12, <1>13, <1>14, <1>17, <1>18 DEF Readable
<1>20. (ItemsEnds(InstructionEnds, left)[offset])' = ItemsEnds(InstructionEnds, left')[offset']
  BY <1>9, <1>10
<1>21. (ItemsEnds(LookupEnds, left)[offset])' = ItemsEnds(LookupEnds, left')[offset']
  BY <1>9, <1>10
<1> QED BY <1>12, <1>13, <1>14, <1>15, <1>16, <1>17, <1>18, <1>19, <1>20, <1>21

(* No step writes the bytes, and each goes from one field to a later one.   *)
LEMMA StepOrder ==
  ASSUME ParserNext
  PROVE  data' = data /\ pc # "end"
BY DEF ParserNext, CountSignatures, TakeSignature, BeginMessage, ReadVersion, ReadHeader, CountKeys,
       TakeKey, EndKeys, TakeBlockhash, CountInstructions, TakeInstruction, EndInstructions, CountLookups,
       TakeLookup, EndLookups, BuildJobs, Reject, Fault, End, ListLength, Item, ListEnd, At

(* A slice more at the end of some.                                         *)
LEMMA StartsAppend ==
  ASSUME NEW starts \in Seq(Nat), NEW size \in Nat, NEW from \in Nat, NEW to \in Nat,
         StartsFrom(starts, size, from), to = from + Len(starts) * size
  PROVE  /\ StartsFrom(Append(starts, to), size, from)
         /\ Len(Append(starts, to)) = Len(starts) + 1
         /\ to + size = from + (Len(starts) + 1) * size
<1> DEFINE more == Append(starts, to)
<1>1. /\ DOMAIN more = 1 .. Len(starts) + 1 /\ Len(more) = Len(starts) + 1
      /\ \A i \in 1 .. Len(starts) : more[i] = starts[i]
      /\ more[Len(starts) + 1] = to
      /\ DOMAIN starts = 1 .. Len(starts) /\ Len(starts) \in Nat
  OBVIOUS
<1>2. \A n \in Nat : (n + 1) * size = n * size + size /\ (n + 1) - 1 = n /\ n * size \in Nat
  OBVIOUS
<1> HIDE DEF more
<1>3. ASSUME NEW i \in DOMAIN more PROVE more[i] = from + (i - 1) * size
  <2>1. CASE i = Len(starts) + 1
    BY <1>1, <1>2, <2>1
  <2>2. CASE i # Len(starts) + 1
    <3>1. i \in DOMAIN starts /\ more[i] = starts[i]
      BY <1>1, <2>2
    <3> QED BY <3>1 DEF StartsFrom
  <2> QED BY <2>1, <2>2
<1>4. to + size = from + (Len(starts) + 1) * size
  BY <1>1, <1>2
<1> QED BY <1>1, <1>3, <1>4 DEF StartsFrom, more

(* One step keeps the signatures where the grammar has them.                *)
LEMMA SignaturesAtStep ==
  ASSUME ParserInv, SignaturesAt, ParserNext
  PROVE  SignaturesAt'
<1>1. /\ SigBytes \in Nat /\ offset \in Nat /\ sigs \in Seq(Nat) /\ Len(sigs) \in Nat /\ left \in Nat
      /\ pc # "end" /\ verdict = "none"
  BY ParserAssumption, StepOrder DEF ParserInv, ParserTypeOK
<1>2. UNCHANGED <<SigCount, SigStart, MessageStart>>
  BY StepOrder, BytesStay
<1>3. CASE CountSignatures
  <2>1. /\ pc = "count" /\ pc' = "signatures" /\ verdict' = "none" /\ Compact(offset).next # Bad
        /\ count' = Compact(offset).value /\ offset' = Compact(offset).next /\ sigs' = sigs
    BY <1>1, <1>3 DEF CountSignatures, ListLength, At
  <2>2. offset = 0 /\ sigs = <<>>
    BY <2>1 DEF SignaturesAt, ParserInv, SignaturesInv
  <2>3. SigStart # Bad /\ count' = SigCount /\ offset' = SigStart
    BY <2>1, <2>2 DEF SigStart, SigCount
  <2>4. SigStart \in Nat
    BY <2>3, FieldTypes DEF ParserInv, ParserTypeOK
  <2>5. DOMAIN sigs' = {} /\ Len(sigs') = 0
    BY <2>1, <2>2
  <2>6. offset' = SigStart + Len(sigs') * SigBytes
    BY <1>1, <2>3, <2>4, <2>5
  <2> QED BY <1>2, <2>1, <2>3, <2>5, <2>6 DEF SignaturesAt, StartsFrom, InMessage
<1>4. CASE TakeSignature
  <2>1. /\ pc = "signatures" /\ pc' = pc /\ offset' = offset + SigBytes /\ sigs' = Append(sigs, offset)
        /\ UNCHANGED <<count, verdict>>
    BY <1>1, <1>4, TakeAdvances DEF TakeSignature, Item, At, ParserInv, ParserTypeOK
  <2>2. /\ SigStart # Bad /\ count = SigCount /\ StartsFrom(sigs, SigBytes, SigStart)
        /\ offset = SigStart + Len(sigs) * SigBytes
    BY <2>1 DEF SignaturesAt
  <2>3. SigStart \in Nat
    BY <2>2, FieldTypes DEF ParserInv, ParserTypeOK
  <2>4. /\ StartsFrom(sigs', SigBytes, SigStart) /\ Len(sigs') = Len(sigs) + 1
        /\ offset' = SigStart + (Len(sigs) + 1) * SigBytes
    BY <1>1, <2>1, <2>2, <2>3, StartsAppend
  <2>5. ~InMessage'
    BY <1>1, <2>1 DEF InMessage
  <2>6. StartsFrom(sigs, SigBytes, SigStart)'
    BY <1>2, <2>4 DEF StartsFrom
  <2> QED BY <1>2, <2>1, <2>2, <2>4, <2>5, <2>6 DEF SignaturesAt
<1>5. CASE BeginMessage
  <2>1. /\ pc = "signatures" /\ pc' = "version" /\ left = 0 /\ body' = offset
        /\ UNCHANGED <<count, sigs, offset, verdict>>
    BY <1>5 DEF BeginMessage, ListEnd, At
  <2>2. /\ SigStart # Bad /\ count = SigCount /\ StartsFrom(sigs, SigBytes, SigStart)
        /\ offset = SigStart + Len(sigs) * SigBytes
    BY <2>1 DEF SignaturesAt
  <2>3. Len(sigs) = count
    BY <1>1, <2>1 DEF ParserInv, SignaturesInv
  <2>4. offset = MessageStart
    BY <2>2, <2>3 DEF MessageStart
  <2>5. StartsFrom(sigs, SigBytes, SigStart)'
    BY <1>2, <2>1, <2>2 DEF StartsFrom
  <2> QED BY <1>2, <2>1, <2>2, <2>4, <2>5 DEF SignaturesAt
<1>6. CASE ReadVersion \/ ReadHeader \/ CountKeys \/ TakeKey \/ EndKeys \/ TakeBlockhash
           \/ CountInstructions \/ TakeInstruction \/ EndInstructions
           \/ CountLookups \/ TakeLookup \/ EndLookups \/ BuildJobs
  <2>1. /\ pc \notin {"count", "signatures", "end"} /\ pc' \notin {"count", "signatures", "version"}
        /\ UNCHANGED <<sigs, count, body>>
    BY <1>6
       DEF ReadVersion, ReadHeader, CountKeys, TakeKey, EndKeys, TakeBlockhash, CountInstructions,
           TakeInstruction, EndInstructions, CountLookups, TakeLookup, EndLookups, BuildJobs, End,
           ListLength, Item, ListEnd, At
  <2>2. /\ SigStart # Bad /\ count = SigCount /\ StartsFrom(sigs, SigBytes, SigStart)
        /\ body = MessageStart
    BY <2>1 DEF SignaturesAt, InMessage
  <2>3. StartsFrom(sigs, SigBytes, SigStart)'
    BY <1>2, <2>1, <2>2 DEF StartsFrom
  <2> QED BY <1>2, <2>1, <2>2, <2>3 DEF SignaturesAt
<1>7. CASE Reject
  BY <1>7 DEF Reject, End, SignaturesAt, InMessage
<1> QED BY <1>3, <1>4, <1>5, <1>6, <1>7 DEF ParserNext

(* One step keeps the header where the grammar has it.                      *)
LEMMA HeaderAtStep ==
  ASSUME ParserInv, SignaturesAt, HeaderAt, ParserNext
  PROVE  HeaderAt'
<1>1. offset \in Nat /\ pc # "end" /\ verdict = "none" /\ Len(data) \in Nat
  BY StepOrder DEF ParserInv, ParserTypeOK
<1>2. /\ UNCHANGED <<data, HeaderStart>> /\ Byte(MessageStart)' = Byte(MessageStart)
      /\ Byte(HeaderStart)' = Byte(HeaderStart)
  BY StepOrder, BytesStay
<1>3. CASE CountSignatures \/ TakeSignature \/ BeginMessage
  <2>1. pc' \in {"signatures", "version"} /\ verdict' = "none"
    BY <1>1, <1>3
       DEF CountSignatures, TakeSignature, BeginMessage, ListLength, Item, ListEnd, At
  <2> QED BY <2>1 DEF HeaderAt, AfterHeader, AfterVersion, Concluded
<1>4. CASE ReadVersion
  <2>1. /\ pc = "version" /\ pc' = "header" /\ verdict' = "none"
        /\ Byte(offset) <= GroupBase
        /\ version' = IF Byte(offset) = GroupBase THEN "v0" ELSE "legacy"
        /\ offset' = IF Byte(offset) = GroupBase THEN offset + 1 ELSE offset
    BY <1>1, <1>4 DEF ReadVersion, KnownVersion, At
  <2>2. offset = MessageStart
    BY <2>1 DEF SignaturesAt
  <2>3. offset' = HeaderStart
    BY <2>1, <2>2 DEF HeaderStart
  <2> QED BY <1>2, <2>1, <2>2, <2>3 DEF HeaderAt, AfterHeader, Concluded
<1>5. CASE ReadHeader
  <2>1. /\ pc = "header" /\ pc' = "key_count" /\ verdict' = "none" /\ version' = version
        /\ required' = Byte(offset) /\ offset' = offset + 3 /\ offset + 3 <= Len(data)
    BY <1>1, <1>5, TakeAdvances DEF ReadHeader, At, ParserInv, ParserTypeOK
  <2>2. offset = HeaderStart /\ AfterVersion
    BY <2>1 DEF HeaderAt, AfterVersion
  <2> QED BY <1>2, <2>1, <2>2 DEF HeaderAt
<1>6. CASE CountKeys \/ TakeKey \/ EndKeys \/ TakeBlockhash
           \/ CountInstructions \/ TakeInstruction \/ EndInstructions
           \/ CountLookups \/ TakeLookup \/ EndLookups \/ BuildJobs
  <2>1. /\ pc \in {"key_count", "keys", "blockhash", "instruction_count", "instructions",
                   "lookup_count", "lookups", "check"}
        /\ pc' \notin {"header", "key_count"}
        /\ UNCHANGED <<version, required>>
    BY <1>6
       DEF CountKeys, TakeKey, EndKeys, TakeBlockhash, CountInstructions,
           TakeInstruction, EndInstructions, CountLookups, TakeLookup, EndLookups, BuildJobs, End,
           ListLength, Item, ListEnd, At
  <2>2. AfterVersion /\ AfterHeader
    BY <2>1 DEF AfterVersion, AfterHeader
  <2> QED BY <1>2, <2>1, <2>2 DEF HeaderAt
<1>7. CASE Reject
  BY <1>7 DEF Reject, End, HeaderAt, AfterHeader, AfterVersion, Concluded
<1> QED BY <1>3, <1>4, <1>5, <1>6, <1>7 DEF ParserNext

(* One step keeps the keys where the grammar has them.                      *)
LEMMA KeysAtStep ==
  ASSUME ParserInv, SignaturesAt, HeaderAt, KeysAt, ParserNext
  PROVE  KeysAt'
<1>1. /\ KeyBytes \in Nat /\ offset \in Nat /\ keys \in Seq(Nat) /\ Len(keys) \in Nat /\ left \in Nat
      /\ pc # "end" /\ verdict = "none" /\ data \in Seq(Bytes) /\ Len(data) \in Nat
  BY ParserAssumption, StepOrder DEF ParserInv, ParserTypeOK
<1>2. UNCHANGED <<KeyCount, KeyStart>>
  BY StepOrder, BytesStay
<1>3. CASE CountSignatures \/ TakeSignature \/ BeginMessage \/ ReadVersion \/ ReadHeader
  <2>1. pc' \in {"signatures", "version", "header", "key_count"} /\ verdict' = "none"
    BY <1>1, <1>3
       DEF CountSignatures, TakeSignature, BeginMessage, ReadVersion, ReadHeader, ListLength, Item,
           ListEnd, At
  <2> QED BY <2>1 DEF KeysAt, AfterKeyCount, AfterHeader, AfterVersion, Concluded
<1>4. CASE CountKeys
  <2>1. /\ pc = "key_count" /\ pc' = "keys" /\ verdict' = "none" /\ keys' = keys
        /\ Compact(offset).next # Bad
        /\ left' = Compact(offset).value /\ offset' = Compact(offset).next
    BY <1>1, <1>4 DEF CountKeys, ListLength, At
  <2>2. offset = HeaderStart + 3 /\ keys = <<>>
    BY <2>1 DEF HeaderAt, ParserInv, KeysInv
  <2>3. KeyStart # Bad /\ left' = KeyCount /\ offset' = KeyStart
    BY <2>1, <2>2 DEF KeyStart, KeyCount
  <2>4. SigStart # Bad
    BY <2>1 DEF SignaturesAt, InMessage
  <2>5. KeyStart \in Nat /\ KeyCount \in Nat
    BY <1>1, <2>3, <2>4, FieldTypes, ParserAssumption
  <2>6. DOMAIN keys' = {} /\ Len(keys') = 0
    BY <2>1, <2>2
  <2>7. offset' = KeyStart + Len(keys') * KeyBytes /\ Len(keys') + left' = KeyCount
    BY <1>1, <2>3, <2>5, <2>6
  <2> QED BY <1>2, <2>1, <2>3, <2>6, <2>7 DEF KeysAt, StartsFrom
<1>5. CASE TakeKey
  <2>1. /\ pc = "keys" /\ pc' = pc /\ offset' = offset + KeyBytes /\ keys' = Append(keys, offset)
        /\ left > 0 /\ left' = left - 1 /\ UNCHANGED verdict
    BY <1>1, <1>5, TakeAdvances DEF TakeKey, Item, At
  <2>2. AfterKeyCount
    BY <2>1 DEF AfterKeyCount, AfterHeader, AfterVersion
  <2>3. /\ KeyStart # Bad /\ StartsFrom(keys, KeyBytes, KeyStart) /\ Len(keys) + left = KeyCount
        /\ offset = KeyStart + Len(keys) * KeyBytes
    BY <2>1, <2>2 DEF KeysAt
  <2>4. SigStart # Bad
    BY <2>1 DEF SignaturesAt, InMessage
  <2>5. KeyStart \in Nat
    BY <1>1, <2>3, <2>4, FieldTypes, SMTT(30)
  <2>6. /\ StartsFrom(keys', KeyBytes, KeyStart) /\ Len(keys') = Len(keys) + 1
        /\ offset' = KeyStart + (Len(keys) + 1) * KeyBytes
    BY <1>1, <2>1, <2>3, <2>5, StartsAppend
  <2>7. StartsFrom(keys, KeyBytes, KeyStart)'
    BY <1>2, <2>6 DEF StartsFrom
  <2>8. Len(keys') + left' = KeyCount
    BY <1>1, <2>1, <2>3, <2>6
  <2> QED BY <1>2, <2>1, <2>3, <2>6, <2>7, <2>8 DEF KeysAt
<1>6. CASE EndKeys
  <2>1. /\ pc = "keys" /\ pc' = "blockhash" /\ left = 0 /\ UNCHANGED <<keys, offset, verdict>>
    BY <1>6 DEF EndKeys, ListEnd, At
  <2>2. AfterKeyCount
    BY <2>1 DEF AfterKeyCount, AfterHeader, AfterVersion
  <2>3. /\ KeyStart # Bad /\ StartsFrom(keys, KeyBytes, KeyStart) /\ Len(keys) + left = KeyCount
        /\ offset = KeyStart + Len(keys) * KeyBytes
    BY <2>1, <2>2 DEF KeysAt
  <2>4. StartsFrom(keys, KeyBytes, KeyStart)'
    BY <1>2, <2>1, <2>3 DEF StartsFrom
  <2> QED BY <1>2, <2>1, <2>3, <2>4 DEF KeysAt
<1>7. CASE TakeBlockhash \/ CountInstructions \/ TakeInstruction \/ EndInstructions
           \/ CountLookups \/ TakeLookup \/ EndLookups \/ BuildJobs
  <2>1. /\ pc \in {"blockhash", "instruction_count", "instructions", "lookup_count", "lookups", "check"}
        /\ pc' \notin {"keys", "blockhash"} /\ UNCHANGED keys
    BY <1>7
       DEF TakeBlockhash, CountInstructions, TakeInstruction, EndInstructions, CountLookups, TakeLookup,
           EndLookups, BuildJobs, End, ListLength, Item, ListEnd, At
  <2>2. AfterKeyCount
    BY <2>1 DEF AfterKeyCount, AfterHeader, AfterVersion
  <2>3. KeyStart # Bad /\ StartsFrom(keys, KeyBytes, KeyStart) /\ Len(keys) + 0 = KeyCount
    BY <2>1, <2>2 DEF KeysAt
  <2>4. StartsFrom(keys, KeyBytes, KeyStart)'
    BY <1>2, <2>1, <2>3 DEF StartsFrom
  <2> QED BY <1>2, <2>1, <2>3, <2>4 DEF KeysAt
<1>8. CASE Reject
  BY <1>8 DEF Reject, End, KeysAt, AfterKeyCount, AfterHeader, AfterVersion, Concluded
<1> QED BY <1>3, <1>4, <1>5, <1>6, <1>7, <1>8 DEF ParserNext

(* What is known once the account keys are read.                            *)
LEMMA PastKeys ==
  ASSUME ParserInv, SignaturesAt, HeaderAt, KeysAt,
         pc \in {"blockhash", "instruction_count", "instructions", "lookup_count", "lookups", "check"}
  PROVE  /\ SigStart # Bad /\ KeyStart # Bad /\ Len(keys) = KeyCount
         /\ ListsStart \in Nat /\ KeyStart \in Nat
         /\ HeaderStart = MessageStart <=> version # "v0"
         /\ offset \in Positions /\ data \in Seq(Bytes)
<1>1. InMessage /\ AfterVersion /\ AfterHeader /\ AfterKeyCount
  BY DEF InMessage, AfterVersion, AfterHeader, AfterKeyCount
<1>2. /\ data \in Seq(Bytes) /\ offset \in Positions /\ Len(keys) \in Nat
  BY DEF ParserInv, ParserTypeOK, Positions
<1>3. SigStart # Bad
  BY <1>1 DEF SignaturesAt
<1>4. KeyStart # Bad /\ Len(keys) = KeyCount
  BY <1>1, <1>2 DEF KeysAt
<1>5. ListsStart \in Nat /\ KeyStart \in Nat /\ MessageStart \in Nat
  BY <1>2, <1>3, <1>4, FieldTypes
<1>6. version = IF Byte(MessageStart) = GroupBase THEN "v0" ELSE "legacy"
  BY <1>1 DEF HeaderAt
<1>7. HeaderStart = MessageStart <=> version # "v0"
  BY <1>5, <1>6 DEF HeaderStart
<1> QED BY <1>2, <1>3, <1>4, <1>5, <1>7

(* One step keeps the ends of the lists those of the grammar.               *)
LEMMA ListsAtStep ==
  ASSUME ParserInv, SignaturesAt, HeaderAt, KeysAt, ListsAt, ParserNext
  PROVE  ListsAt'
<1>1. pc # "end" /\ verdict = "none" /\ left \in Nat /\ data \in Seq(Bytes)
  BY StepOrder DEF ParserInv, ParserTypeOK
<1>2. /\ UNCHANGED <<ListsStart, InstructionsEnd, ListsEnd>>
      /\ (ItemsEnds(InstructionEnds, left)[offset])' = ItemsEnds(InstructionEnds, left')[offset']
      /\ (ItemsEnds(LookupEnds, left)[offset])' = ItemsEnds(LookupEnds, left')[offset']
  BY StepOrder, BytesStay
<1>3. CASE CountSignatures \/ TakeSignature \/ BeginMessage \/ ReadVersion \/ ReadHeader
           \/ CountKeys \/ TakeKey \/ EndKeys
  <2>1. /\ pc' \in {"signatures", "version", "header", "key_count", "keys", "blockhash"}
        /\ verdict' = "none"
    BY <1>1, <1>3
       DEF CountSignatures, TakeSignature, BeginMessage, ReadVersion, ReadHeader, CountKeys, TakeKey,
           EndKeys, ListLength, Item, ListEnd, At
  <2> QED BY <2>1 DEF ListsAt, Concluded
<1>4. CASE TakeBlockhash
  <2>1. /\ pc = "blockhash" /\ pc' = "instruction_count" /\ verdict' = "none"
        /\ Take(offset, KeyBytes) # Bad /\ offset' = Take(offset, KeyBytes)
    BY <1>1, <1>4 DEF TakeBlockhash, At
  <2>2. /\ KeyBytes \in Nat /\ Len(keys) \in Nat /\ offset \in Nat
    BY ParserAssumption DEF ParserInv, ParserTypeOK
  <2>3. offset' = offset + KeyBytes
    BY <2>1, <2>2 DEF Take
  <2>4. KeyStart \in Nat /\ offset = KeyStart + KeyCount * KeyBytes /\ Len(keys) = KeyCount
    BY <2>1, PastKeys DEF KeysAt
  <2>5. (KeyCount + 1) * KeyBytes = KeyCount * KeyBytes + KeyBytes /\ KeyCount * KeyBytes \in Nat
    BY <2>2, <2>4
  <2>6. offset' = ListsStart
    BY <2>2, <2>3, <2>4, <2>5 DEF ListsStart
  <2> QED BY <1>2, <2>1, <2>6 DEF ListsAt, Concluded
<1>5. CASE CountInstructions
  <2>1. /\ pc = "instruction_count" /\ pc' = "instructions" /\ verdict' = "none"
        /\ Compact(offset).next # Bad
        /\ left' = Compact(offset).value /\ offset' = Compact(offset).next
    BY <1>1, <1>5 DEF CountInstructions, ListLength, At
  <2>2. offset = ListsStart /\ ListsStart \in Nat
    BY <2>1, PastKeys DEF ListsAt
  <2>3. InstructionsEnd = ItemsEnds(InstructionEnds, left')[offset']
    BY <1>1, <2>1, <2>2, OneLength DEF InstructionsEnd
  <2> QED BY <1>2, <2>1, <2>3 DEF ListsAt, Concluded
<1>6. CASE TakeInstruction
  <2>1. /\ pc = "instructions" /\ pc' = pc /\ verdict' = "none" /\ left > 0 /\ left' = left - 1
        /\ SkipInstruction(offset) # Bad /\ offset' = SkipInstruction(offset)
    BY <1>1, <1>6 DEF TakeInstruction, Item, At
  <2>2. InstructionsEnd = ItemsEnds(InstructionEnds, left)[offset] /\ offset \in Positions
    BY <2>1, PastKeys DEF ListsAt
  <2>3. left \in Nat \ {0}
    BY <1>1, <2>1
  <2>4. ItemsEnds(InstructionEnds, left)[offset] = ItemsEnds(InstructionEnds, left')[offset']
    BY <1>1, <2>1, <2>2, <2>3, ItemEnds, ItemsTaken
  <2> QED BY <1>2, <2>1, <2>2, <2>4 DEF ListsAt, Concluded
<1>7. CASE EndInstructions
  <2>1. /\ pc = "instructions" /\ left = 0 /\ verdict' = "none" /\ UNCHANGED <<offset, version>>
        /\ pc' = IF version = "v0" THEN "lookup_count" ELSE "check"
    BY <1>1, <1>7 DEF EndInstructions, ListEnd, At
  <2>2. InstructionsEnd = ItemsEnds(InstructionEnds, 0)[offset] /\ offset \in Positions
    BY <2>1, PastKeys DEF ListsAt
  <2>3. InstructionsEnd = {offset}
    BY <1>1, <2>2, ItemEnds, ItemsTaken
  <2>4. version # "v0" => ListsEnd = {offset}
    BY <2>1, <2>3, PastKeys DEF ListsEnd
  <2> QED BY <1>2, <2>1, <2>3, <2>4 DEF ListsAt, Concluded
<1>8. CASE CountLookups
  <2>1. /\ pc = "lookup_count" /\ pc' = "lookups" /\ verdict' = "none" /\ version' = version
        /\ Compact(offset).next # Bad
        /\ left' = Compact(offset).value /\ offset' = Compact(offset).next
    BY <1>1, <1>8 DEF CountLookups, ListLength, At
  <2>2. /\ version = "v0" /\ InstructionsEnd = {offset} /\ offset \in Nat
        /\ HeaderStart # MessageStart
    BY <2>1, PastKeys DEF ListsAt, Positions
  <2>3. ListsEnd = UNION {ListEnds(LookupEnds, e) : e \in {offset}}
    BY <2>2 DEF ListsEnd
  <2>4. ListsEnd = ListEnds(LookupEnds, offset)
    BY <2>3
  <2>5. ListsEnd = ItemsEnds(LookupEnds, left')[offset']
    BY <1>1, <2>1, <2>2, <2>4, OneLength
  <2> QED BY <1>2, <2>1, <2>2, <2>5 DEF ListsAt, Concluded
<1>9. CASE TakeLookup
  <2>1. /\ pc = "lookups" /\ pc' = pc /\ verdict' = "none" /\ left > 0 /\ left' = left - 1
        /\ SkipLookup(offset) # Bad /\ offset' = SkipLookup(offset) /\ version' = version
    BY <1>1, <1>9 DEF TakeLookup, Item, At
  <2>2. /\ ListsEnd = ItemsEnds(LookupEnds, left)[offset] /\ offset \in Positions
        /\ version = "v0"
    BY <2>1, PastKeys DEF ListsAt
  <2>3. left \in Nat \ {0}
    BY <1>1, <2>1
  <2>4. ItemsEnds(LookupEnds, left)[offset] = ItemsEnds(LookupEnds, left')[offset']
    BY <1>1, <2>1, <2>2, <2>3, ItemEnds, ItemsTaken
  <2> QED BY <1>2, <2>1, <2>2, <2>4 DEF ListsAt, Concluded
<1>10. CASE EndLookups
  <2>1. pc = "lookups" /\ left = 0 /\ verdict' = "none" /\ UNCHANGED offset /\ pc' = "check"
    BY <1>1, <1>10 DEF EndLookups, ListEnd, At
  <2>2. ListsEnd = ItemsEnds(LookupEnds, 0)[offset] /\ offset \in Positions
    BY <2>1, PastKeys DEF ListsAt
  <2>3. ListsEnd = {offset}
    BY <1>1, <2>2, ItemEnds, ItemsTaken
  <2> QED BY <1>2, <2>1, <2>3 DEF ListsAt
<1>11. CASE BuildJobs \/ Reject
  BY <1>2, <1>11 DEF BuildJobs, Reject, End, At, ListsAt, Concluded
<1> QED BY <1>3, <1>4, <1>5, <1>6, <1>7, <1>8, <1>9, <1>10, <1>11 DEF ParserNext

(* Nothing starts at or after the end of the bytes.                         *)
LEMMA NoListPastEnd ==
  ASSUME data \in Seq(Bytes), NEW at \in Nat, at > Len(data)
  PROVE  \A ends : ListEnds(ends, at) = {}
<1>1. Compact(at).next # Bad => Compact(at).next \in at + 1 .. Len(data)
  BY CompactAdvances
<1>2. Compact(at).next = Bad
  BY <1>1
<1> QED BY <1>2, OneLength

(* If no instruction list ends anywhere, nor does the transaction.          *)
LEMMA NoInstructionsEnd == InstructionsEnd = {} => ~Readable
BY DEF ListsEnd, Readable

(* One step to a refusal: the bytes are no transaction.                     *)
LEMMA RefusedStep ==
  ASSUME ParserInv, SignaturesAt, HeaderAt, KeysAt, ListsAt, Reject
  PROVE  ~Readable
<1>1. /\ KeyBytes \in Nat \ {0} /\ SigBytes \in Nat \ {0} /\ GroupBase \in Nat \ {0, 1}
      /\ offset \in Nat /\ offset \in Positions /\ left \in Nat /\ count \in Nat
      /\ Len(keys) \in Nat /\ Len(sigs) \in Nat
      /\ data \in Seq(Bytes) /\ Len(data) \in Nat /\ pc # "end" /\ verdict = "none"
  BY ParserAssumption DEF ParserInv, ParserTypeOK, Reject, Fault, At, Positions
<1>2. \A size \in Nat : Take(offset, size) = Bad => offset + size > Len(data)
  BY <1>1 DEF Take, Bad
<1>3. \A x, y \in Nat : y > 0 => y * x \in Nat /\ y * x >= x
  OBVIOUS
<1>4. CASE pc = "count" /\ Compact(offset).next = Bad
  BY <1>4 DEF SignaturesAt, SigStart, Readable
<1>5. CASE pc = "key_count" /\ Compact(offset).next = Bad
  BY <1>5 DEF HeaderAt, KeyStart, Readable
<1>6. CASE pc = "instruction_count" /\ Compact(offset).next = Bad
  <2>1. offset = ListsStart
    BY <1>6 DEF ListsAt
  <2> QED BY <1>1, <1>6, <2>1, OneLength, NoInstructionsEnd DEF InstructionsEnd
<1>7. CASE pc = "lookup_count" /\ Compact(offset).next = Bad
  <2>1. /\ version = "v0" /\ InstructionsEnd = {offset} /\ HeaderStart # MessageStart
    BY <1>7, PastKeys DEF ListsAt
  <2>2. ListsEnd = UNION {ListEnds(LookupEnds, e) : e \in {offset}}
    BY <2>1 DEF ListsEnd
  <2>3. ListEnds(LookupEnds, offset) = {}
    BY <1>1, <1>7, OneLength
  <2> QED BY <2>2, <2>3 DEF Readable
<1>8. CASE pc = "signatures" /\ left > 0 /\ Take(offset, SigBytes) = Bad
  <2>1. /\ SigStart # Bad /\ count = SigCount /\ offset = SigStart + Len(sigs) * SigBytes
        /\ Len(sigs) + left = count
    BY <1>8 DEF SignaturesAt, ParserInv, SignaturesInv
  <2>2. SigStart \in Nat
    BY <1>1, <2>1, FieldTypes
  <2>3. (Len(sigs) + left) * SigBytes = Len(sigs) * SigBytes + left * SigBytes
        /\ Len(sigs) * SigBytes \in Nat
    BY <1>1
  <2>4. MessageStart = offset + left * SigBytes
    <3>1. MessageStart = SigStart + (Len(sigs) + left) * SigBytes
      BY <2>1 DEF MessageStart
    <3>2. left * SigBytes \in Nat
      BY <1>1, <1>3, <1>8
    <3> QED BY <2>1, <2>2, <2>3, <3>1, <3>2
  <2>5. left * SigBytes \in Nat /\ left * SigBytes >= SigBytes
    BY <1>1, <1>3, <1>8
  <2>6. offset + SigBytes > Len(data)
    BY <1>1, <1>2, <1>8
  <2>7. MessageStart > Len(data)
    BY <1>1, <2>4, <2>5, <2>6
  <2> QED BY <1>1, <2>4, <2>5, <2>7 DEF Readable
<1>9. CASE pc = "version" /\ ~KnownVersion
  BY <1>1, <1>9 DEF SignaturesAt, KnownVersion, Readable
<1>10. CASE pc = "header" /\ Take(offset, 3) = Bad
  BY <1>1, <1>2, <1>10 DEF HeaderAt, Readable
<1>11. ASSUME pc \in {"keys", "blockhash"}, Take(offset, KeyBytes) = Bad,
              pc = "keys" => left > 0
       PROVE  ~Readable
  <2>1. AfterKeyCount /\ InMessage
    BY <1>11 DEF AfterKeyCount, AfterHeader, AfterVersion, InMessage
  <2>2. /\ SigStart # Bad /\ KeyStart # Bad /\ offset = KeyStart + Len(keys) * KeyBytes
        /\ Len(keys) <= KeyCount
    BY <1>1, <1>11, <2>1 DEF SignaturesAt, KeysAt
  <2>3. KeyStart \in Nat /\ ListsStart \in Nat /\ KeyCount \in Nat
    BY <1>1, <2>2, FieldTypes, ParserAssumption, SMTT(30)
  <2> DEFINE more == KeyCount + 1 - Len(keys)
  <2>4. more \in Nat /\ more > 0 /\ KeyCount + 1 = Len(keys) + more
    BY <1>1, <2>2, <2>3
  <2> HIDE DEF more
  <2>5. (Len(keys) + more) * KeyBytes = Len(keys) * KeyBytes + more * KeyBytes
    BY <1>1, <2>4
  <2>6. more * KeyBytes \in Nat /\ more * KeyBytes >= KeyBytes
    BY <1>1, <1>3, <2>4
  <2>7. Len(keys) * KeyBytes \in Nat
    BY <1>1
  <2>8. ListsStart = offset + more * KeyBytes
    BY <2>2, <2>3, <2>4, <2>5, <2>6, <2>7 DEF ListsStart
  <2>9. offset + KeyBytes > Len(data)
    BY <1>1, <1>2, <1>11
  <2>10. ListsStart > Len(data)
    BY <1>1, <2>6, <2>8, <2>9
  <2> QED BY <1>1, <2>3, <2>10, NoListPastEnd, NoInstructionsEnd DEF InstructionsEnd
<1>12. CASE pc = "instructions" /\ left > 0 /\ SkipInstruction(offset) = Bad
  <2>1. InstructionsEnd = ItemsEnds(InstructionEnds, left)[offset] /\ left \in Nat \ {0}
    BY <1>1, <1>12 DEF ListsAt
  <2>2. InstructionsEnd = {}
    BY <1>1, <1>12, <2>1, ItemEnds, ItemsTaken
  <2> QED BY <2>2, NoInstructionsEnd
<1>13. CASE pc = "lookups" /\ left > 0 /\ SkipLookup(offset) = Bad
  <2>1. ListsEnd = ItemsEnds(LookupEnds, left)[offset] /\ left \in Nat \ {0}
    BY <1>1, <1>13 DEF ListsAt
  <2>2. ListsEnd = {}
    BY <1>1, <1>13, <2>1, ItemEnds, ItemsTaken
  <2> QED BY <2>2 DEF Readable
<1>14. CASE pc = "check" /\ ~Consistent
  <2>1. ListsEnd = {offset} /\ count = SigCount /\ required = Byte(HeaderStart)
    BY <1>14 DEF ListsAt, SignaturesAt, HeaderAt, InMessage, AfterHeader, AfterVersion
  <2>2. Len(keys) = KeyCount
    BY <1>14, PastKeys
  <2>3. required \in Bytes
    BY DEF ParserInv, ParserTypeOK
  <2>4. count = required => count % ByteMod = count /\ required \in Nat
    BY <1>1, <2>3 DEF Bytes, ByteMod
  <2> QED BY <1>1, <1>14, <2>1, <2>2, <2>4 DEF Consistent, Readable
<1> QED BY <1>4, <1>5, <1>6, <1>7, <1>8, <1>9, <1>10, <1>11, <1>12, <1>13, <1>14
        DEF Reject, Fault, At

(* The scan starts at the beginning of the reading.                         *)
LEMMA FormatStarts ==
  ASSUME ParserInit
  PROVE  FormatInv
BY DEF ParserInit, FormatInv, SignaturesAt, HeaderAt, KeysAt, ListsAt, RefusedAt, InMessage,
       AfterKeyCount, AfterHeader, AfterVersion, Concluded

(* Each step of the parser keeps it there.                                  *)
LEMMA FormatAdvances ==
  ASSUME ParserInv, FormatInv, [ParserNext]_parser
  PROVE  FormatInv'
<1>1. CASE ParserNext
  <2>1. SignaturesAt' /\ HeaderAt' /\ KeysAt' /\ ListsAt'
    BY <1>1, SignaturesAtStep, HeaderAtStep, KeysAtStep, ListsAtStep DEF FormatInv
  <2>2. Readable' = Readable
    BY <1>1, StepOrder, BytesStay
  <2>3. CASE Reject
    BY <2>1, <2>2, <2>3, RefusedStep DEF FormatInv, RefusedAt
  <2>4. CASE ~Reject
    <3>1. verdict' # "error"
      <4>1. verdict = "none"
        BY <1>1, StepOrder DEF ParserInv, ParserTypeOK
      <4> QED
        BY <1>1, <2>4, <4>1
           DEF ParserNext, CountSignatures, TakeSignature, BeginMessage, ReadVersion, ReadHeader,
               CountKeys, TakeKey, EndKeys, TakeBlockhash, CountInstructions, TakeInstruction,
               EndInstructions, CountLookups, TakeLookup, EndLookups, BuildJobs, End, ListLength, Item,
               ListEnd
    <3> QED BY <2>1, <3>1 DEF FormatInv, RefusedAt
  <2> QED BY <2>3, <2>4
<1>2. CASE UNCHANGED parser
  <2>1. /\ UNCHANGED <<SigCount, SigStart, MessageStart, HeaderStart, KeyCount, KeyStart, ListsStart,
                        InstructionsEnd, ListsEnd, Readable>>
        /\ Byte(MessageStart)' = Byte(MessageStart) /\ Byte(HeaderStart)' = Byte(HeaderStart)
        /\ (ItemsEnds(InstructionEnds, left)[offset])' = ItemsEnds(InstructionEnds, left)[offset]
        /\ (ItemsEnds(LookupEnds, left)[offset])' = ItemsEnds(LookupEnds, left)[offset]
    BY <1>2, BytesStay DEF parser
  <2>2. UNCHANGED <<data, pc, offset, left, count, sigs, keys, body, version, required, verdict>>
    BY <1>2 DEF parser
  <2>3. SignaturesAt'
    BY <2>1, <2>2 DEF FormatInv, SignaturesAt, InMessage, StartsFrom
  <2>4. HeaderAt'
    BY <2>1, <2>2 DEF FormatInv, HeaderAt, AfterHeader, AfterVersion, Concluded
  <2>5. KeysAt'
    BY <2>1, <2>2 DEF FormatInv, KeysAt, AfterKeyCount, AfterHeader, AfterVersion, Concluded, StartsFrom
  <2>6. ListsAt'
    BY <2>1, <2>2 DEF FormatInv, ListsAt, Concluded
  <2>7. RefusedAt'
    BY <2>1, <2>2 DEF FormatInv, RefusedAt
  <2> QED BY <2>3, <2>4, <2>5, <2>6, <2>7 DEF FormatInv
<1> QED BY <1>1, <1>2

(* The scan finds in any byte string what the grammar says is there.        *)
THEOREM FormatInvariant == ParserSpec => []FormatInv
BY ParserInvariant, FormatStarts, FormatAdvances, PTL DEF ParserSpec

(* What the fields are at the end of an accepted transaction.               *)
LEMMA AcceptedReading ==
  ASSUME ParserInv, FormatInv, verdict = "ok", count < ByteMod
  PROVE  /\ Readings = {<<count, SigStart, HeaderStart, KeyStart>>}
         /\ SigStart \in Nat /\ KeyStart \in Nat /\ count <= KeyCount
         /\ Len(sigs) = count /\ Len(keys) = KeyCount /\ body = SigStart + count * SigBytes
         /\ StartsFrom(sigs, SigBytes, SigStart) /\ StartsFrom(keys, KeyBytes, KeyStart)
<1>1. /\ pc = "end" /\ Consistent /\ InMessage /\ Concluded /\ data \in Seq(Bytes)
      /\ count \in Nat /\ GroupBase \in Nat \ {0, 1} /\ Len(keys) \in Nat /\ Len(sigs) = count
  BY ParserAssumption DEF ParserInv, ParserTypeOK, VerdictInv, SignaturesInv, InMessage, Concluded
<1>2. AfterVersion /\ AfterHeader /\ AfterKeyCount
  BY <1>1 DEF AfterVersion, AfterHeader, AfterKeyCount
<1>3. /\ SigStart # Bad /\ count = SigCount /\ StartsFrom(sigs, SigBytes, SigStart)
      /\ body = MessageStart
  BY <1>1 DEF FormatInv, SignaturesAt
<1>4. Byte(MessageStart) <= GroupBase /\ HeaderStart + 3 <= Len(data) /\ required = Byte(HeaderStart)
  BY <1>2 DEF FormatInv, HeaderAt
<1>5. KeyStart # Bad /\ StartsFrom(keys, KeyBytes, KeyStart) /\ Len(keys) = KeyCount
  BY <1>1, <1>2 DEF FormatInv, KeysAt
<1>6. ListsEnd = {offset}
  BY <1>1 DEF FormatInv, ListsAt
<1>7. count % ByteMod = count
  BY <1>1 DEF ByteMod
<1>8. offset = Len(data) /\ count = required /\ Len(keys) >= required
  BY <1>1, <1>7 DEF Consistent
<1>9. SigStart \in Nat /\ MessageStart < Len(data) /\ KeyStart \in Nat
  BY <1>1, <1>3, <1>4, <1>5, FieldTypes
<1>10. Readable
  BY <1>1, <1>3, <1>4, <1>5, <1>6, <1>8, <1>9 DEF Readable
<1> QED BY <1>1, <1>3, <1>5, <1>8, <1>9, <1>10, OneReading DEF MessageStart

(* The jobs of an accepted transaction are its signers, in order.           *)
LEMMA JobsAreSigners ==
  ASSUME ParserInv, FormatInv, verdict = "ok", count < ByteMod
  PROVE  JobPositions = Signers
<1> DEFINE signer(i) == <<KeyStart + i * KeyBytes, SigStart + i * SigBytes>>
<1>1. /\ count \in Nat /\ Len(sigs) = count /\ DOMAIN sigs = 1 .. count
      /\ Len(keys) \in Nat /\ DOMAIN keys = 1 .. Len(keys) /\ count <= Len(keys)
  BY AcceptedReading DEF ParserInv, ParserTypeOK
<1>2. Signers = {signer(i) : i \in 0 .. count - 1}
  <2> DEFINE r == <<count, SigStart, HeaderStart, KeyStart>>
  <2>1. Readings = {r} /\ r[1] = count /\ r[2] = SigStart /\ r[4] = KeyStart
    BY AcceptedReading
  <2> HIDE DEF r
  <2>2. Signers = {<<r[4] + i * KeyBytes, r[2] + i * SigBytes>> : i \in 0 .. r[1] - 1}
    BY <2>1 DEF Signers
  <2> QED BY <2>1, <2>2
<1>3. \A i \in 1 .. count : <<keys[i], sigs[i]>> = signer(i - 1)
  <2> TAKE i \in 1 .. count
  <2>1. i \in DOMAIN sigs /\ i \in DOMAIN keys
    BY <1>1
  <2>2. StartsFrom(sigs, SigBytes, SigStart) /\ StartsFrom(keys, KeyBytes, KeyStart)
    BY AcceptedReading
  <2>3. sigs[i] = SigStart + (i - 1) * SigBytes /\ keys[i] = KeyStart + (i - 1) * KeyBytes
    BY <2>1, <2>2 DEF StartsFrom
  <2> QED BY <2>3
<1>4. JobPositions = {<<keys[i], sigs[i]>> : i \in 1 .. count}
  BY <1>1 DEF JobPositions
<1> HIDE DEF signer
<1>5. JobPositions = {signer(i - 1) : i \in 1 .. count}
  BY <1>3, <1>4
<1>6. \A i \in 0 .. count - 1 : i + 1 \in 1 .. count /\ (i + 1) - 1 = i
  BY <1>1
<1>7. \A i \in 1 .. count : i - 1 \in 0 .. count - 1
  BY <1>1
<1> QED BY <1>2, <1>5, <1>6, <1>7

(* At the end a transaction, which has fewer signatures than a byte has     *)
(* values, is accepted.                                                     *)
LEMMA TransactionAccepted ==
  ASSUME ParserInv, FormatInv, verdict # "none", WellFormed
  PROVE  verdict = "ok" /\ count < ByteMod
<1>1. /\ pc = "end" /\ data \in Seq(Bytes) /\ count \in Nat /\ required \in Bytes
      /\ GroupBase \in Nat \ {0, 1} /\ Len(keys) \in Nat /\ Len(sigs) \in Nat
  BY ParserAssumption DEF ParserInv, ParserTypeOK
<1>2. Readable
  BY <1>1, OneReading DEF WellFormed
<1>3. Concluded /\ verdict \in {"ok", "panic"} /\ InMessage
  BY <1>1, <1>2 DEF FormatInv, RefusedAt, ParserInv, ParserTypeOK, Concluded, InMessage
<1>4. AfterVersion /\ AfterHeader /\ AfterKeyCount
  BY <1>1, <1>3 DEF AfterVersion, AfterHeader, AfterKeyCount
<1>5. count = SigCount /\ required = Byte(HeaderStart) /\ Len(keys) = KeyCount
  BY <1>1, <1>3, <1>4 DEF FormatInv, SignaturesAt, HeaderAt, KeysAt
<1>6. count = required /\ count <= Len(keys)
  BY <1>2, <1>5 DEF Readable
<1>7. count < ByteMod
  BY <1>1, <1>6 DEF Bytes, ByteMod
<1>8. Len(sigs) = count
  BY <1>3 DEF ParserInv, SignaturesInv
<1> QED BY <1>1, <1>3, <1>6, <1>7, <1>8 DEF ParserInv, VerdictInv

(* So the scan accepts what the grammar calls a transaction.                *)
LEMMA AcceptsByFormat ==
  ASSUME ParserInv, FormatInv
  PROVE  AcceptsExactly
<1> SUFFICES ASSUME pc = "end", count < ByteMod
             PROVE  /\ verdict = IF WellFormed THEN "ok" ELSE "error"
                    /\ verdict = "ok" => JobPositions = Signers
  BY DEF AcceptsExactly
<1>1. verdict \in {"ok", "error", "panic"}
  BY DEF ParserInv, ParserTypeOK
<1>2. CASE verdict = "ok"
  <2>1. WellFormed
    BY <1>2, AcceptedReading DEF WellFormed
  <2> QED BY <1>2, <2>1, JobsAreSigners
<1>3. WellFormed => verdict = "ok"
  BY <1>1, TransactionAccepted
<1>4. verdict # "panic"
  <2>1. GroupBase \in Nat \ {0, 1} /\ count \in Nat
    BY ParserAssumption DEF ParserInv, ParserTypeOK
  <2>2. count % ByteMod = count
    BY <2>1 DEF ByteMod
  <2>3. verdict = "panic" => Consistent /\ Len(sigs) = count
    BY DEF ParserInv, VerdictInv, SignaturesInv, InMessage
  <2>4. verdict = "panic" => Len(sigs) <= Len(keys)
    BY <2>2, <2>3 DEF Consistent
  <2> QED BY <2>4 DEF ParserInv, VerdictInv, InMessage
<1> QED BY <1>1, <1>2, <1>3, <1>4

(* parse_transaction accepts exactly the well-formed byte strings, with the *)
(* jobs of their signers, as long as the signature count fits a byte.       *)
THEOREM AcceptsExactlyTheFormat == ParserSpec => []AcceptsExactly
<1>1. ParserInv /\ FormatInv => AcceptsExactly
  BY AcceptsByFormat
<1> QED BY <1>1, ParserInvariant, FormatInvariant, PTL

(* Whatever the counts, a transaction is accepted: no well-formed input is  *)
(* refused or makes the parser panic.                                       *)
THEOREM TransactionsAccepted == ParserSpec => [](pc = "end" /\ WellFormed => verdict = "ok")
<1>1. ParserInv /\ FormatInv => (pc = "end" /\ WellFormed => verdict = "ok")
  BY TransactionAccepted DEF ParserInv, ParserTypeOK
<1> QED BY <1>1, ParserInvariant, FormatInvariant, PTL
-----------------------------------------------------------------------------
(* The request. *)
(* Stages in the order a request passes them.                               *)
Decoding == {"idle", "json", "decode", "parsing", "build"}
Writing == {"message", "jobs", "configure"}
Running == {"launch", "wait"}
Stages == Decoding \cup {"timeout", "sizes", "layout", "probe"} \cup Writing \cup Running
          \cup {"answered"}

RegsType ==
  [message_length : Nat, job_count : Nat, limit : 0 .. MaxJobs, mode : Modes, timeout : Nat]

(* Whole words have been written of the window, and not the last one.       *)
WordIn(size) == \E k \in Nat : word = k * WordBytes /\ word < size

WordInv ==
  CASE stage = "message" -> WordIn(MESSAGE_SIZE)
    [] stage = "jobs" -> WordIn(JobSize)
    [] OTHER -> word = 0

TypeInv ==
  /\ stage \in Stages
  /\ request \in Requests /\ env \in Environments
  /\ built \in Batches /\ result \in BatchResults /\ regs \in RegsType
  /\ mram \in [1 .. MESSAGE_SIZE -> Bytes] /\ jram \in [1 .. JobSize -> Bytes]
  /\ control \in {"none", "uio", "mem"}

(* What has reached the device by each stage.                               *)
TouchedInv ==
  touched =>
    \/ stage \in Writing \cup Running
    \/ stage = "answered" /\ response.http \notin {0, 400, 422}

(* What has been decoded by each stage.                                     *)
DecodedInv ==
  /\ stage \in {"decode", "parsing", "build"} => request.json
  /\ stage \in {"parsing", "build"} => request.decodes
  /\ stage = "build" => ~Transaction

(* The batch is the decoded request, from the moment it is built.           *)
Place == IF stage = "answered" /\ response.kind = "ok" THEN "wait" ELSE stage

BuiltInv ==
  Place \notin Decoding \cup {"answered"} =>
    /\ request.json /\ request.decodes
    /\ built = Built /\ built.jobs # <<>>
    /\ IF Transaction THEN verdict = "ok"
       ELSE request.bytes # <<>> /\ \A i \in DOMAIN request.jobs : RightLengths(request.jobs[i])
    /\ Place # "timeout" => request.timeout_ms > 0
    /\ Place \notin {"timeout", "sizes"} =>
         Len(built.message) <= MESSAGE_SIZE /\ Len(built.jobs) <= MaxJobs

(* A window holds the bytes up to a position, and zeros after their end.    *)
Holds(ram, bytes, to) == \A i \in 1 .. to : ram[i] = WindowByte(bytes, i)

WindowInv ==
  /\ stage = "message" => Holds(mram, built.message, word)
  /\ Place \in {"jobs", "configure"} \cup Running => Holds(mram, built.message, MESSAGE_SIZE)
  /\ stage = "jobs" => Holds(jram, JobImage, word)
  /\ Place \in {"configure"} \cup Running => Holds(jram, JobImage, JobSize)

(* The batch that runs, and its result.                                     *)
LaunchInv ==
  /\ Place \in Writing \cup Running => FullHardware
  /\ Place \in Running =>
       regs = [message_length |-> Len(built.message), job_count |-> Len(built.jobs),
               limit |-> request.dispatch_limit, mode |-> request.verify_mode,
               timeout |-> request.job_timeout_cycles]
  /\ Place = "wait" => result \in Results

(* An answer of the device is computed from that result.                    *)
AnswerInv ==
  /\ stage # "answered" => response = NoResponse
  /\ stage = "answered" /\ response.kind = "ok" => response.verified = AllSignersVerified

HostInv ==
  /\ ParserInv /\ TypeInv /\ WordInv
  /\ TouchedInv /\ DecodedInv /\ BuiltInv /\ WindowInv /\ LaunchInv /\ AnswerInv
-----------------------------------------------------------------------------
(* Division with remainder.                                                 *)
LEMMA DivMod ==
  ASSUME NEW m \in Nat, NEW w \in Nat \ {0}
  PROVE  m % w = m - w * (m \div w) /\ m \div w \in Nat
OBVIOUS

(* A word that starts before the end of a window of words ends inside it.   *)
LEMMA WholeWords ==
  ASSUME NEW w \in Nat \ {0}, NEW m \in Nat, m % w = 0, NEW k \in Nat, k * w < m
  PROVE  (k + 1) * w <= m
<1>1. PICK q \in Nat : m = q * w
  <2> DEFINE q == m \div w
  <2>1. q \in Nat /\ m % w = m - w * q
    BY DivMod
  <2> HIDE DEF q
  <2>2. m = q * w
    BY <2>1
  <2> QED BY <2>1, <2>2
<1>2. k < q
  <2>1. ASSUME q <= k PROVE q * w <= k * w
    BY <2>1
  <2> QED BY <1>1, <2>1
<1>3. (k + 1) * w <= q * w
  BY <1>2
<1> QED BY <1>1, <1>3

(* So the accesses of a window stay inside it.                              *)
LEMMA WordInside ==
  ASSUME NEW size \in Nat, size % WordBytes = 0, WordIn(size)
  PROVE  word \in 0 .. size - WordBytes
<1>1. WordBytes \in Nat \ {0}
  BY HostAssumption
<1>2. PICK k \in Nat : word = k * WordBytes /\ word < size
  BY DEF WordIn
<1>3. (k + 1) * WordBytes <= size
  BY <1>1, <1>2, WholeWords
<1>4. k * WordBytes \in Nat /\ (k + 1) * WordBytes = k * WordBytes + WordBytes
  BY <1>1
<1> QED BY <1>1, <1>2, <1>3, <1>4

(* The sizes are numbers, the windows not empty.                            *)
LEMMA Sizes ==
  /\ MESSAGE_SIZE \in Nat /\ JobSize \in Nat /\ WordBytes \in Nat \ {0} /\ MaxJobs \in Nat \ {0}
  /\ MESSAGE_SIZE > 0 /\ JobSize > 0
  /\ KeyBytes \in Nat \ {0} /\ SigBytes \in Nat \ {0} /\ JobBytes \in Nat \ {0}
  /\ ByteMod \in Nat /\ Bytes \subseteq Nat /\ 0 \in Bytes
<1>1. KeyBytes \in Nat \ {0} /\ SigBytes \in Nat \ {0} /\ GroupBase \in Nat \ {0, 1}
  BY ParserAssumption
<1>2. /\ MESSAGE_SIZE \in Nat /\ MESSAGE_SIZE # 0 /\ JobSize \in Nat /\ WordBytes \in Nat \ {0}
      /\ MaxJobs \in Nat \ {0} /\ MaxJobs * JobBytes <= JobSize
  BY HostAssumption, LaunchAssumption DEF MESSAGE_SIZE
<1>3. JobBytes \in Nat \ {0}
  BY <1>1 DEF JobBytes
<1>4. JobSize > 0
  <2>1. MaxJobs * JobBytes >= 1 * JobBytes
    BY <1>2, <1>3
  <2> QED BY <1>2, <1>3, <2>1
<1> QED BY <1>1, <1>2, <1>3, <1>4 DEF ByteMod, Bytes

(* The arithmetic of a launch stays within the job count.                   *)
LEMMA LaunchRange ==
  ASSUME regs \in RegsType
  PROVE  /\ DispatchCount(regs) \in 0 .. MaxJobs /\ DroppedCount(regs) \in 0 .. MaxJobs
         /\ Accepted \in 0 .. MaxJobs
<1>1. MaxJobs \in Nat \ {0} /\ regs.job_count \in Nat /\ regs.limit \in 0 .. MaxJobs
  BY Sizes DEF RegsType
<1>2. RequestedU8(regs) \in 0 .. MaxJobs
  BY <1>1 DEF RequestedU8
<1>3. LimitEffective(regs) \in 0 .. MaxJobs
  BY <1>1 DEF LimitEffective
<1>4. DispatchCount(regs) \in 0 .. MaxJobs /\ DispatchCount(regs) <= RequestedU8(regs)
  BY <1>1, <1>2, <1>3 DEF DispatchCount
<1>5. DroppedCount(regs) \in 0 .. MaxJobs
  BY <1>1, <1>2, <1>4 DEF DroppedCount
<1> HIDE DEF DispatchCount, DroppedCount
<1> QED BY <1>1, <1>4, <1>5 DEF Accepted

(* What a batch returns.                                                    *)
LEMMA ResultRange ==
  ASSUME regs \in RegsType
  PROVE  Results \subseteq BatchResults /\ BringupResults \subseteq BatchResults
<1>1. /\ DroppedCount(regs) \in 0 .. MaxJobs /\ Accepted \in 0 .. MaxJobs
      /\ 0 \in 0 .. MaxJobs /\ MaxJobs \in Nat
  BY LaunchRange, Sizes
<1>2. 1 .. Accepted \subseteq 1 .. MaxJobs
  BY <1>1
<1>3. ASSUME NEW r \in Results
      PROVE  r \in BatchResults
  <2>1. CASE LaunchError(regs) # ERR_NONE
    <3>1. r = [error |-> TRUE, result_valid |-> FALSE, accepted |-> 0, dropped |-> 0, mask |-> {}]
      BY <1>3, <2>1, Zenon DEF Results
    <3> QED BY <1>1, <3>1 DEF BatchResults
  <2>2. CASE LaunchError(regs) = ERR_NONE
    <3>1. PICK judged \in SUBSET (1 .. Accepted) :
            r = [error |-> judged # 1 .. Accepted, result_valid |-> TRUE, accepted |-> Accepted,
                 dropped |-> DroppedCount(regs), mask |-> {j \in judged : JobVerified(j)}]
      BY <1>3, <2>2, Zenon DEF Results
    <3>2. {j \in judged : JobVerified(j)} \in SUBSET (1 .. MaxJobs)
      BY <1>2
    <3>3. (judged # 1 .. Accepted) \in BOOLEAN
      OBVIOUS
    <3> QED BY <1>1, <3>1, <3>2, <3>3 DEF BatchResults
  <2> QED BY <2>1, <2>2
<1>4. ASSUME NEW r \in BringupResults
      PROVE  r \in BatchResults
  <2>1. {1} \cap 1 .. Accepted \in SUBSET (1 .. MaxJobs)
    BY <1>2
  <2>2. /\ (LaunchError(regs) # ERR_NONE) \in BOOLEAN /\ (LaunchError(regs) = ERR_NONE) \in BOOLEAN
        /\ (IF Accepted = 0 THEN 0 ELSE DroppedCount(regs)) \in 0 .. MaxJobs
    BY <1>1
  <2>3. r = [error |-> LaunchError(regs) # ERR_NONE, result_valid |-> LaunchError(regs) = ERR_NONE,
             accepted |-> Accepted, dropped |-> IF Accepted = 0 THEN 0 ELSE DroppedCount(regs),
             mask |-> {1} \cap 1 .. Accepted]
    BY <1>4 DEF BringupResults
  <2> QED BY <1>1, <2>1, <2>2, <2>3 DEF BatchResults
<1> QED BY <1>3, <1>4

(* A function on 1 .. n is a sequence.                                      *)
LEMMA FunctionIsSeq ==
  ASSUME NEW S, NEW n \in Nat, NEW f \in [1 .. n -> S]
  PROVE  f \in Seq(S) /\ Len(f) = n
OBVIOUS

(* A slice inside a string of bytes has the bytes it should.                *)
LEMMA SliceInside ==
  ASSUME NEW bytes \in Seq(Bytes), NEW from \in Nat, NEW size \in Nat, from + size <= Len(bytes)
  PROVE  /\ SubSeq(bytes, from + 1, from + size) \in Seq(Bytes)
         /\ Len(SubSeq(bytes, from + 1, from + size)) = size
         /\ \A i \in 1 .. size : SubSeq(bytes, from + 1, from + size)[i] = bytes[from + i]
<1>1. \A n \in from + 1 .. from + size : bytes[n] \in Bytes
  <2>1. from + 1 .. from + size \subseteq 1 .. Len(bytes)
    OBVIOUS
  <2> QED BY <2>1, ElementOfSeq
<1>2. from + 1 \in Int /\ from + size \in Int
  OBVIOUS
<1>3. /\ SubSeq(bytes, from + 1, from + size) \in Seq(Bytes)
      /\ Len(SubSeq(bytes, from + 1, from + size)) =
           IF from + 1 <= from + size THEN from + size - (from + 1) + 1 ELSE 0
      /\ \A i \in 1 .. from + size - (from + 1) + 1 :
           SubSeq(bytes, from + 1, from + size)[i] = bytes[from + 1 + i - 1]
  BY <1>1, <1>2, SubSeqProperties
<1>4. /\ (IF from + 1 <= from + size THEN from + size - (from + 1) + 1 ELSE 0) = size
      /\ from + size - (from + 1) + 1 = size
      /\ \A i \in 1 .. size : from + 1 + i - 1 = from + i
  OBVIOUS
<1>5. \A i \in 1 .. size : SubSeq(bytes, from + 1, from + size)[i] = bytes[from + i]
  <2> TAKE i \in 1 .. size
  <2>1. SubSeq(bytes, from + 1, from + size)[i] = bytes[from + 1 + i - 1]
    BY <1>3, <1>4, Zenon
  <2>2. from + 1 + i - 1 = from + i
    OBVIOUS
  <2> QED BY <2>1, <2>2, Zenon
<1> QED BY <1>3, <1>4, <1>5, Zenon

(* A batch built from the parser's slices, or from the JSON body.           *)
LEMMA BuiltRange ==
  ASSUME ParserInv, request \in Requests, Transaction => verdict = "ok"
  PROVE  /\ Built \in Batches
         /\ Transaction => /\ Len(Built.jobs) = count
                           /\ \A i \in DOMAIN Built.jobs : RightLengths(Built.jobs[i])
<1>1. CASE ~Transaction
  BY <1>1 DEF Built, Batches, Requests
<1>2. CASE Transaction
  <2>1. /\ data \in Seq(Bytes) /\ body \in 0 .. Len(data) /\ Len(data) \in Nat
        /\ sigs \in Seq(Nat) /\ keys \in Seq(Nat)
        /\ DOMAIN sigs = 1 .. Len(sigs) /\ DOMAIN keys = 1 .. Len(keys)
        /\ Len(sigs) \in Nat /\ Len(sigs) <= Len(keys) /\ Len(keys) \in Nat
    BY <1>2 DEF ParserInv, ParserTypeOK, VerdictInv
  <2>2. Slices(sigs, SigBytes, 0, body) /\ Slices(keys, KeyBytes, body, Len(data))
    BY <1>2, <2>1 DEF ParserInv, SignaturesInv, KeysInv, VerdictInv, InMessage, Consistent
  <2>3. SubSeq(data, body + 1, Len(data)) \in Seq(Bytes)
    BY <2>1, SubSeqProperties, ElementOfSeq
  <2>4. ASSUME NEW i \in DOMAIN sigs
        PROVE  /\ SubSeq(data, keys[i] + 1, keys[i] + KeyBytes) \in Seq(Bytes)
               /\ SubSeq(data, sigs[i] + 1, sigs[i] + SigBytes) \in Seq(Bytes)
               /\ Len(SubSeq(data, keys[i] + 1, keys[i] + KeyBytes)) = KeyBytes
               /\ Len(SubSeq(data, sigs[i] + 1, sigs[i] + SigBytes)) = SigBytes
    <3>1. i \in DOMAIN keys
      BY <2>1
    <3>2. keys[i] \in Nat /\ sigs[i] \in Nat
      BY <2>1, <3>1
    <3>3. keys[i] + KeyBytes <= Len(data) /\ sigs[i] + SigBytes <= Len(data)
      BY <2>1, <2>2, <3>1, <3>2, Sizes DEF Slices
    <3>4. KeyBytes \in Nat /\ SigBytes \in Nat
      BY Sizes
    <3> QED BY <2>1, <3>2, <3>3, <3>4, SliceInside, ZenonT(40)
  <2> DEFINE jobs == [i \in DOMAIN sigs |->
                        [key |-> SubSeq(data, keys[i] + 1, keys[i] + KeyBytes),
                         sig |-> SubSeq(data, sigs[i] + 1, sigs[i] + SigBytes)]]
  <2>5. jobs \in [1 .. Len(sigs) -> [key : Seq(Bytes), sig : Seq(Bytes)]]
    BY <2>1, <2>4
  <2>6. Built = [message |-> SubSeq(data, body + 1, Len(data)), jobs |-> jobs]
    BY <1>2 DEF Built
  <2>8. \A i \in DOMAIN jobs : RightLengths(jobs[i])
    BY <2>4 DEF RightLengths
  <2> HIDE DEF jobs
  <2>7. jobs \in Seq([key : Seq(Bytes), sig : Seq(Bytes)]) /\ Len(jobs) = Len(sigs)
    BY <2>1, <2>5, FunctionIsSeq
  <2>9. Len(sigs) = count
    BY <1>2, <2>1 DEF ParserInv, SignaturesInv, InMessage
  <2> QED BY <2>3, <2>6, <2>7, <2>8, <2>9 DEF Batches
<1> QED BY <1>1, <1>2

(* What a window gets at each position.                                     *)
LEMMA WindowByteRange ==
  ASSUME NEW bytes \in Seq(Bytes), NEW i \in Nat \ {0}
  PROVE  WindowByte(bytes, i) \in Bytes
BY ElementOfSeq, Sizes DEF WindowByte

(* Division of a * b + c.                                                   *)
LEMMA Quotient ==
  ASSUME NEW a \in Nat, NEW b \in Nat \ {0}, NEW c \in 0 .. b - 1
  PROVE  (a * b + c) \div b = a /\ (a * b + c) % b = c
OBVIOUS

(* A position in the image names a job and a byte of it.                    *)
LEMMA InRange ==
  ASSUME NEW n \in Nat, NEW b \in Nat \ {0}, NEW i \in 1 .. n * b
  PROVE  (i - 1) \div b \in 0 .. n - 1 /\ (i - 1) % b \in 0 .. b - 1
<1> DEFINE q == (i - 1) \div b
<1>1. i - 1 \in Nat
  OBVIOUS
<1>2. q \in Nat /\ (i - 1) % b = (i - 1) - b * q /\ (i - 1) % b \in 0 .. b - 1
  <2>1. \A m \in Nat : m % b \in 0 .. b - 1
    OBVIOUS
  <2> QED BY <1>1, <2>1, DivMod
<1> HIDE DEF q
<1>3. q < n
  <2>1. ASSUME n <= q PROVE n * b <= q * b
    BY <1>2, <2>1
  <2>2. q * b <= i - 1
    BY <1>1, <1>2
  <2> QED BY <1>2, <2>1, <2>2
<1> QED BY <1>2, <1>3 DEF q

(* Keys and signatures lie in turn in the image of the jobs.                *)
LEMMA JobImageBytes ==
  ASSUME built \in Batches, \A i \in DOMAIN built.jobs : RightLengths(built.jobs[i])
  PROVE  /\ JobImage \in Seq(Bytes) /\ Len(JobImage) = Len(built.jobs) * JobBytes
         /\ \A j \in 1 .. Len(built.jobs), k \in 1 .. JobBytes :
              JobImage[(j - 1) * JobBytes + k] =
                IF k <= KeyBytes THEN built.jobs[j].key[k] ELSE built.jobs[j].sig[k - KeyBytes]
<1> DEFINE n == Len(built.jobs)
           ByteAt(i) == LET job == built.jobs[((i - 1) \div JobBytes) + 1]
                        k == ((i - 1) % JobBytes) + 1
                    IN  IF k <= KeyBytes THEN job.key[k] ELSE job.sig[k - KeyBytes]
<1>1. /\ n \in Nat /\ DOMAIN built.jobs = 1 .. n
      /\ JobBytes \in Nat \ {0} /\ KeyBytes \in Nat \ {0} /\ SigBytes \in Nat \ {0}
      /\ JobBytes = KeyBytes + SigBytes
  BY Sizes DEF Batches, JobBytes
<1> HIDE DEF n
<1>2. n * JobBytes \in Nat
  BY <1>1
<1>3. ASSUME NEW j \in 1 .. n
      PROVE  /\ built.jobs[j].key \in Seq(Bytes) /\ Len(built.jobs[j].key) = KeyBytes
             /\ built.jobs[j].sig \in Seq(Bytes) /\ Len(built.jobs[j].sig) = SigBytes
  <2>1. built.jobs \in Seq([key : Seq(Bytes), sig : Seq(Bytes)])
    BY DEF Batches
  <2>2. built.jobs[j] \in [key : Seq(Bytes), sig : Seq(Bytes)]
    BY <2>1, ElementOfSeq DEF n
  <2>3. RightLengths(built.jobs[j])
    BY <1>1
  <2> QED BY <2>2, <2>3 DEF RightLengths
<1>4. ASSUME NEW j \in 1 .. n, NEW k \in 1 .. JobBytes
      PROVE  (IF k <= KeyBytes THEN built.jobs[j].key[k] ELSE built.jobs[j].sig[k - KeyBytes]) \in Bytes
  <2>1. CASE k <= KeyBytes
    BY <1>1, <1>3, <2>1, ElementOfSeq
  <2>2. CASE ~(k <= KeyBytes)
    <3>1. k - KeyBytes \in 1 .. SigBytes
      BY <1>1, <2>2
    <3> QED BY <1>3, <2>2, <3>1, ElementOfSeq
  <2> QED BY <2>1, <2>2
<1>5. ASSUME NEW i \in 1 .. n * JobBytes
      PROVE  ByteAt(i) \in Bytes
  <2>1. ((i - 1) \div JobBytes) + 1 \in 1 .. n /\ ((i - 1) % JobBytes) + 1 \in 1 .. JobBytes
    <3>1. n \in Nat /\ JobBytes \in Nat \ {0}
      BY <1>1
    <3> QED BY <3>1, InRange
  <2> QED BY <1>4, <2>1
<1>6. JobImage = [i \in 1 .. n * JobBytes |-> ByteAt(i)]
  BY DEF JobImage, n
<1> HIDE DEF ByteAt
<1>7. JobImage \in [1 .. n * JobBytes -> Bytes]
  BY <1>5, <1>6
<1>8. JobImage \in Seq(Bytes) /\ Len(JobImage) = n * JobBytes
  BY <1>2, <1>7, FunctionIsSeq
<1>9. ASSUME NEW j \in 1 .. n, NEW k \in 1 .. JobBytes
      PROVE  JobImage[(j - 1) * JobBytes + k] =
               IF k <= KeyBytes THEN built.jobs[j].key[k] ELSE built.jobs[j].sig[k - KeyBytes]
  <2> DEFINE i == (j - 1) * JobBytes + k
  <2>1. (j - 1) * JobBytes \in Nat /\ (j - 1) * JobBytes + JobBytes <= n * JobBytes
    <3>1. (j - 1) * JobBytes + JobBytes = j * JobBytes /\ (j - 1) * JobBytes \in Nat
      BY <1>1
    <3>2. j * JobBytes <= n * JobBytes
      BY <1>1
    <3> QED BY <3>1, <3>2
  <2>2. i \in 1 .. n * JobBytes /\ i - 1 = (j - 1) * JobBytes + (k - 1)
    BY <1>1, <1>2, <2>1
  <2>3. (i - 1) \div JobBytes = j - 1 /\ (i - 1) % JobBytes = k - 1
    <3>1. j - 1 \in Nat /\ k - 1 \in 0 .. JobBytes - 1
      BY <1>1
    <3>2. /\ ((j - 1) * JobBytes + (k - 1)) \div JobBytes = j - 1
          /\ ((j - 1) * JobBytes + (k - 1)) % JobBytes = k - 1
      BY <1>1, <3>1, Quotient
    <3> HIDE DEF i
    <3> QED BY <2>2, <3>2
  <2> HIDE DEF i
  <2>4. JobImage[i] = ByteAt(i)
    BY <1>6, <2>2
  <2>5. (j - 1) + 1 = j /\ (k - 1) + 1 = k
    BY <1>1
  <2>6. ByteAt(i) = IF k <= KeyBytes THEN built.jobs[j].key[k] ELSE built.jobs[j].sig[k - KeyBytes]
    BY <2>3, <2>5 DEF ByteAt
  <2> QED BY <2>4, <2>6 DEF i
<1> QED BY <1>8, <1>9 DEF n
-----------------------------------------------------------------------------
(* An error ends the request where it is; past the sizes it is one of the   *)
(* device, and in the middle of a window there is none.                     *)
Errs ==
  /\ stage \in Stages \ {"idle", "jobs", "configure", "answered"} /\ stage' = "answered"
  /\ response'.kind \notin {"none", "ok"}
  /\ stage \in {"message"} \cup Running => response'.http \in {503, 504}
  /\ stage = "message" => word = 0
  /\ UNCHANGED <<parser, request, env, built, control, word, device, status>>

(* A refusal ends the request.                                              *)
LEMMA FailAnswers ==
  ASSUME NEW kind \in {"parse_error", "invalid_request", "limit_error", "service_unavailable",
                      "service_timeout"}, NEW code, Fail(kind, code)
  PROVE  /\ stage' = "answered" /\ response'.kind = kind
         /\ response'.http = StatusCode(kind)
         /\ UNCHANGED <<parser, request, env, built, control, word, device, status>>
BY DEF Fail, ErrorAnswer

(* That is all that can end a request, but for a success.                   *)
LEMMA ErrorStages ==
  ASSUME TypeInv, Next, stage # "answered", stage' = "answered", response'.kind # "ok"
  PROVE  Errs
<1> USE DEF Pass
<1>1. CASE ParseJson \/ DecodePayload \/ BuildTransaction \/ BuildBatch \/ ValidateTimeout \/ CheckSizes
  <2>1. /\ stage \in {"json", "decode", "parsing", "build", "timeout", "sizes"}
        /\ \/ \E kind \in {"parse_error", "invalid_request", "limit_error"} : \E code \in {"invalid_json", "invalid_base64", "transaction_parse_failed", "empty_signer_set", "empty_message",
             "empty_jobs", "invalid_length", "invalid_timeout", "message_too_large", "too_many_jobs"} : Fail(kind, code)
           \/ LoseConnection
    BY <1>1
       DEF ParseJson, DecodePayload, BuildTransaction, BuildBatch, ValidateTimeout, CheckSizes
  <2> QED BY <2>1, FailAnswers DEF Errs, LoseConnection, Stages, Decoding, Writing, Running
<1>2. CASE ResolveLayout \/ Probe \/ IoFails \/ WaitTimesOut
  <2>1. /\ stage \in {"layout", "probe", "message", "launch", "wait"}
        /\ stage = "message" => word = 0
        /\ \E kind \in {"service_unavailable", "service_timeout"} :
            \E code \in {"io", "irq_requires_uio", "hardware_mismatch", "timeout"} : Fail(kind, code)
    BY <1>2 DEF ResolveLayout, Probe, IoFails, WaitTimesOut
  <2> QED BY <2>1, FailAnswers DEF Errs, Stages, Decoding, Writing, Running, StatusCode
<1>3. CASE GetStatus \/ LoadImage \/ Receive \/ ParserStep \/ WriteMessage \/ WriteJobs \/ Configure
           \/ Launch
  BY <1>3 DEF GetStatus, LoadImage, Receive, ParserStep, WriteMessage, WriteJobs, Configure, Launch
<1>4. CASE SuccessResponse
  BY <1>4 DEF SuccessResponse
<1> QED BY <1>1, <1>2, <1>3, <1>4 DEF Next

(* The other steps: those that only pass a check, ...                       *)
Still == UNCHANGED <<parser, request, env, built, control, word, device>>

Checked ==
  \/ Pass("idle", "json")
  \/ Pass("json", "decode") /\ request.json
  \/ Pass("decode", IF Transaction THEN "parsing" ELSE "build") /\ request.decodes
  \/ Pass("timeout", "sizes") /\ request.timeout_ms > 0
  \/ Pass("sizes", "layout") /\ Len(built.message) <= MESSAGE_SIZE /\ Len(built.jobs) <= MaxJobs

(* ... those that build the batch, ...                                      *)
Builds ==
  /\ stage' = "timeout" /\ built' = Built
  /\ \/ stage = "parsing" /\ Transaction /\ verdict = "ok" /\ count > 0
     \/ /\ stage = "build" /\ request.bytes # <<>> /\ request.jobs # <<>>
        /\ \A i \in DOMAIN request.jobs : RightLengths(request.jobs[i])
  /\ UNCHANGED <<parser, request, env, control, word, device>>

(* ... and those that look for the device and at it.                        *)
Looks ==
  \/ /\ Pass("layout", "probe") /\ control' \in {"uio", "mem"}
     /\ UNCHANGED <<parser, request, env, built, word, device>>
  \/ /\ Pass("probe", "message") /\ FullHardware /\ word' = 0
     /\ UNCHANGED <<parser, request, env, built, control, device>>

(* Every step is one of a few kinds.                                        *)
LEMMA Steps ==
  ASSUME TypeInv, AnswerInv, Next
  PROVE  \/ Errs
         \/ SuccessResponse
         \/ response' = response
            /\ (GetStatus \/ LoadImage \/ (Checked /\ Still) \/ ParserStep \/ Builds \/ Looks
                  \/ WriteMessage \/ WriteJobs \/ Configure \/ Launch)
<1> USE DEF Pass
<1>1. ASSUME stage # "answered", stage' = "answered", response'.kind # "ok"
      PROVE  Errs
  BY <1>1, ErrorStages
<1>2. ASSUME NEW kind \in {"parse_error", "invalid_request", "limit_error", "service_unavailable",
                      "service_timeout"}, NEW code, Fail(kind, code)
      PROVE  stage' = "answered" /\ response'.kind # "ok"
  BY <1>2, FailAnswers
<1>3. CASE GetStatus \/ LoadImage \/ ParserStep \/ WriteMessage \/ WriteJobs \/ Configure \/ Launch
           \/ SuccessResponse
  BY <1>3 DEF GetStatus, LoadImage, ParserStep, WriteMessage, WriteJobs, Configure, Launch, SuccessResponse
<1>4. CASE Receive \/ ParseJson \/ DecodePayload
  <2>1. CASE Receive
    BY <2>1 DEF Receive, Checked, Still
  <2>2. CASE ParseJson
    BY <1>1, <1>2, <2>2 DEF ParseJson, Checked, Still
  <2>3. CASE DecodePayload
    BY <1>1, <1>2, <2>3 DEF DecodePayload, Checked, Still
  <2> QED BY <1>4, <2>1, <2>2, <2>3
<1>5. CASE BuildTransaction
  BY <1>1, <1>2, <1>5 DEF BuildTransaction, Builds, LoseConnection
<1>6. CASE BuildBatch
  BY <1>1, <1>2, <1>6 DEF BuildBatch, Builds
<1>7. CASE ValidateTimeout \/ CheckSizes
  <2>1. CASE ValidateTimeout
    BY <1>1, <1>2, <2>1 DEF ValidateTimeout, Checked, Still
  <2>2. CASE CheckSizes
    BY <1>1, <1>2, <2>2 DEF CheckSizes, Checked, Still
  <2> QED BY <1>7, <2>1, <2>2
<1>8. CASE ResolveLayout
  <2>1. \A c \in Resolve("control") : c \in {"uio", "mem", "error"}
    BY DEF Resolve, Discover, TypeInv, Environments, Regions
  <2> QED BY <1>1, <1>2, <1>8, <2>1 DEF ResolveLayout, Looks
<1>9. CASE Probe
  BY <1>1, <1>2, <1>9 DEF Probe, Looks
<1>10. CASE IoFails \/ WaitTimesOut
  BY <1>1, <1>2, <1>10 DEF IoFails, WaitTimesOut
<1> QED BY <1>3, <1>4, <1>5, <1>6, <1>7, <1>8, <1>9, <1>10 DEF Next

(* A window keeps its type as its words are written.                        *)
LEMMA WrittenRange ==
  ASSUME NEW bytes \in Seq(Bytes), NEW size \in Nat, NEW ram \in [1 .. size -> Bytes]
  PROVE  Written(ram, bytes) \in [1 .. size -> Bytes]
<1>1. ASSUME NEW i \in 1 .. size
      PROVE  WindowByte(bytes, i) \in Bytes
  BY WindowByteRange
<1> QED BY <1>1 DEF Written

(* The keys and signatures of a batch have the right lengths.               *)
LEMMA BuiltJobs ==
  ASSUME ParserInv, TypeInv, BuiltInv, Place \notin Decoding \cup {"answered"}
  PROVE  \A i \in DOMAIN built.jobs : RightLengths(built.jobs[i])
<1>1. CASE Transaction
  BY <1>1, BuiltRange DEF BuiltInv, TypeInv
<1>2. CASE ~Transaction
  BY <1>2 DEF BuiltInv, Built
<1> QED BY <1>1, <1>2

(* Each conjunct is kept by every step: types first.                        *)
LEMMA HostTypeStep ==
  ASSUME HostInv, [Next]_vars
  PROVE  ParserInv' /\ TypeInv'
<1>1. ParserInv /\ TypeInv /\ AnswerInv /\ BuiltInv /\ DecodedInv
  BY DEF HostInv
<1>2. CASE UNCHANGED vars
  <2>1. UNCHANGED parser
    BY <1>2 DEF vars
  <2>2. ParserInv'
    BY <1>1, <2>1, ParserAdvances
  <2> QED BY <1>1, <1>2, <2>2 DEF vars, device, TypeInv
<1>3. CASE Errs
  <2>1. UNCHANGED parser
    BY <1>3 DEF Errs
  <2>2. ParserInv'
    BY <1>1, <2>1, ParserAdvances
  <2> QED BY <1>1, <1>3, <2>2 DEF Errs, device, TypeInv, Stages
<1>4. CASE ParserStep
  <2>1. ParserInv'
    BY <1>1, <1>4, ParserAdvances DEF ParserStep
  <2> QED BY <1>1, <1>4, <2>1 DEF ParserStep, device, TypeInv
<1>5. ASSUME UNCHANGED parser
      PROVE  ParserInv'
  BY <1>1, <1>5, ParserAdvances
<1>6. CASE GetStatus \/ SuccessResponse
  <2>1. UNCHANGED <<parser, request, env, built, control, device>> /\ stage' \in Stages
    BY <1>1, <1>6 DEF GetStatus, SuccessResponse, Pass, Stages, TypeInv, device
  <2> QED BY <1>1, <1>5, <2>1 DEF TypeInv, device
<1>7. CASE LoadImage
  <2>1. env' \in Environments
    BY <1>1, <1>7 DEF LoadImage, TypeInv, Environments
  <2> QED BY <1>1, <1>5, <1>7, <2>1 DEF LoadImage, TypeInv, device
<1>8. CASE Checked /\ Still
  <2>1. stage' \in Stages
    BY <1>8 DEF Checked, Pass, Stages, Decoding
  <2> QED BY <1>1, <1>5, <1>8, <2>1 DEF Still, TypeInv, device
<1>9. CASE Builds
  <2>1. Built \in Batches
    BY <1>1, <1>9, BuiltRange DEF Builds, TypeInv, DecodedInv
  <2> QED BY <1>1, <1>5, <1>9, <2>1 DEF Builds, TypeInv, Stages, device
<1>10. CASE Looks
  BY <1>1, <1>5, <1>10 DEF Looks, Pass, TypeInv, Stages, Writing, device
<1>11. CASE WriteMessage
  <2>1. mram' \in [1 .. MESSAGE_SIZE -> Bytes]
    BY <1>1, <1>11, WrittenRange, Sizes DEF WriteMessage, TypeInv, Batches
  <2> QED BY <1>1, <1>5, <1>11, <2>1 DEF WriteMessage, TypeInv, Stages, Writing
<1>12. CASE WriteJobs
  <2>1. JobImage \in Seq(Bytes)
    BY <1>1, <1>12, BuiltJobs, JobImageBytes DEF WriteJobs, TypeInv, Place, Decoding
  <2>2. jram' \in [1 .. JobSize -> Bytes]
    BY <1>1, <1>12, <2>1, WrittenRange, Sizes DEF WriteJobs, TypeInv
  <2> QED BY <1>1, <1>5, <1>12, <2>2 DEF WriteJobs, TypeInv, Stages, Writing
<1>13. CASE Configure
  <2>1. regs' \in RegsType
    BY <1>1, <1>13 DEF Configure, TypeInv, RegsType, Requests, Batches
  <2> QED BY <1>1, <1>5, <1>13, <2>1 DEF Configure, Pass, TypeInv, Stages, Running
<1>14. CASE Launch
  <2>1. result' \in BatchResults
    BY <1>1, <1>14, ResultRange DEF Launch, TypeInv
  <2> QED BY <1>1, <1>5, <1>14, <2>1 DEF Launch, Pass, TypeInv, Stages, Running
<1> QED
  BY <1>1, <1>2, <1>3, <1>4, <1>6, <1>7, <1>8, <1>9, <1>10, <1>11, <1>12, <1>13, <1>14, Steps

(* A window is written word by word.                                        *)
LEMMA WordStep ==
  ASSUME HostInv, [Next]_vars
  PROVE  WordInv'
<1>1. TypeInv /\ AnswerInv /\ WordInv
  BY DEF HostInv
<1>2. ASSUME NEW size \in Nat, WordIn(size), word + WordBytes < size, word' = word + WordBytes
      PROVE  WordIn(size)'
  <2>1. PICK k \in Nat : word = k * WordBytes
    BY <1>2 DEF WordIn
  <2>2. word' = (k + 1) * WordBytes /\ word' < size /\ k + 1 \in Nat
    BY <1>2, <2>1, Sizes
  <2> QED BY <2>2 DEF WordIn
<1>3. ASSUME NEW size \in Nat, size > 0, word' = 0
      PROVE  WordIn(size)'
  <2>1. word' = 0 * WordBytes
    BY <1>3, Sizes
  <2> QED BY <1>3, <2>1 DEF WordIn
<1>4. CASE UNCHANGED vars
  BY <1>1, <1>4 DEF vars, WordInv, WordIn
<1>5. CASE Errs
  BY <1>1, <1>5 DEF Errs, WordInv, Stages, Decoding, Writing, Running
<1>6. CASE WriteMessage
  <2>1. CASE word + WordBytes < MESSAGE_SIZE
    BY <1>1, <1>2, <1>6, <2>1, Sizes DEF WriteMessage, WordInv
  <2>2. CASE ~(word + WordBytes < MESSAGE_SIZE)
    BY <1>1, <1>3, <1>6, <2>2, Sizes DEF WriteMessage, WordInv
  <2> QED BY <2>1, <2>2
<1>7. CASE WriteJobs
  <2>1. CASE word + WordBytes < JobSize
    BY <1>1, <1>2, <1>7, <2>1, Sizes DEF WriteJobs, WordInv
  <2>2. CASE ~(word + WordBytes < JobSize)
    BY <1>1, <1>7, <2>2 DEF WriteJobs, WordInv
  <2> QED BY <2>1, <2>2
<1>8. CASE Looks
  BY <1>1, <1>3, <1>8, Sizes DEF Looks, Pass, WordInv
<1>9. CASE GetStatus \/ LoadImage \/ SuccessResponse \/ (Checked /\ Still) \/ ParserStep \/ Builds
           \/ Configure \/ Launch
  <2>1. stage \notin {"message", "jobs"} /\ stage' \notin {"message", "jobs"} /\ word' = word
    BY <1>9
       DEF GetStatus, LoadImage, SuccessResponse, Checked, Still, ParserStep, Builds, Configure, Launch,
           Pass
  <2> QED BY <1>1, <2>1 DEF WordInv
<1> QED BY <1>1, <1>4, <1>5, <1>6, <1>7, <1>8, <1>9, Steps

(* A request writes only after every check.                                 *)
LEMMA TouchedStep ==
  ASSUME HostInv, [Next]_vars
  PROVE  TouchedInv'
<1>1. TypeInv /\ AnswerInv /\ TouchedInv
  BY DEF HostInv
<1>2. CASE UNCHANGED vars
  BY <1>1, <1>2 DEF vars, device, TouchedInv
<1>3. CASE Errs
  BY <1>1, <1>3 DEF Errs, TouchedInv, device, Writing, Running
<1>4. CASE SuccessResponse
  BY <1>1, <1>4 DEF SuccessResponse, Pass, device, TouchedInv, Writing, Running
<1>5. CASE GetStatus \/ LoadImage \/ (Checked /\ Still) \/ ParserStep \/ Builds \/ Looks
  <2>1. touched' = touched /\ stage \notin Writing \cup Running \cup {"answered"}
    BY <1>5
       DEF GetStatus, LoadImage, Checked, Still, ParserStep, Builds, Looks, Pass, device, Writing, Running
  <2> QED BY <1>1, <2>1 DEF TouchedInv
<1>6. CASE WriteMessage \/ WriteJobs \/ Configure \/ Launch
  <2>1. stage' \in Writing \cup Running
    BY <1>6 DEF WriteMessage, WriteJobs, Configure, Launch, Pass, Writing, Running
  <2> QED BY <2>1 DEF TouchedInv
<1> QED BY <1>1, <1>2, <1>3, <1>4, <1>5, <1>6, Steps

(* Decoding does what the handlers do in their order.                       *)
LEMMA DecodedStep ==
  ASSUME HostInv, [Next]_vars
  PROVE  DecodedInv'
<1>1. TypeInv /\ AnswerInv /\ DecodedInv
  BY DEF HostInv
<1>2. CASE UNCHANGED vars
  BY <1>1, <1>2 DEF vars, DecodedInv, Transaction
<1>3. CASE Errs \/ SuccessResponse \/ Builds \/ Looks \/ WriteMessage \/ WriteJobs \/ Configure \/ Launch
  <2>1. stage' \notin {"decode", "parsing", "build"}
    BY <1>3 DEF Errs, SuccessResponse, Builds, Looks, WriteMessage, WriteJobs, Configure, Launch, Pass
  <2> QED BY <2>1 DEF DecodedInv
<1>4. CASE GetStatus \/ LoadImage \/ ParserStep
  BY <1>1, <1>4 DEF GetStatus, LoadImage, ParserStep, DecodedInv, Transaction
<1>5. CASE Checked /\ Still
  BY <1>1, <1>5 DEF Checked, Still, Pass, DecodedInv, Transaction
<1> QED BY <1>1, <1>2, <1>3, <1>4, <1>5, Steps

(* Once built, the batch stays what was asked, and its sizes are checked.   *)
LEMMA BuiltStep ==
  ASSUME HostInv, [Next]_vars
  PROVE  BuiltInv'
<1>1. ParserInv /\ TypeInv /\ AnswerInv /\ DecodedInv /\ BuiltInv
  BY DEF HostInv
<1>2. ASSUME UNCHANGED <<parser, request, built>>, Place' = Place
      PROVE  BuiltInv'
  BY <1>1, <1>2 DEF BuiltInv, Built, Transaction, RightLengths, parser
<1>3. ASSUME Place' \in Decoding \cup {"answered"}
      PROVE  BuiltInv'
  BY <1>3 DEF BuiltInv
<1>4. CASE UNCHANGED vars
  BY <1>2, <1>4 DEF vars, Place
<1>5. CASE Errs
  BY <1>3, <1>5 DEF Errs, Place
<1>6. CASE SuccessResponse
  BY <1>1, <1>2, <1>6 DEF SuccessResponse, Pass, Place
<1>7. CASE GetStatus \/ LoadImage
  BY <1>1, <1>2, <1>7 DEF GetStatus, LoadImage, Place
<1>8. CASE ParserStep
  BY <1>1, <1>3, <1>8 DEF ParserStep, Place, Decoding
<1>9. CASE Checked /\ Still
  <2>1. CASE stage' \in Decoding
    BY <1>3, <2>1 DEF Place, Decoding
  <2>2. CASE stage' \notin Decoding
    <3>1. /\ stage \in {"timeout", "sizes"} /\ stage' \in {"sizes", "layout"}
          /\ stage = "timeout" <=> stage' = "sizes"
          /\ stage = "timeout" => request.timeout_ms > 0
          /\ stage = "sizes" => Len(built.message) <= MESSAGE_SIZE /\ Len(built.jobs) <= MaxJobs
      BY <1>9, <2>2 DEF Checked, Pass, Decoding
    <3>2. Place = stage /\ Place' = stage'
      BY <3>1 DEF Place
    <3>3. UNCHANGED <<parser, request, built>> /\ Built' = Built
      BY <1>9 DEF Still, Built, Transaction, parser
    <3> QED BY <1>1, <3>1, <3>2, <3>3 DEF BuiltInv, Decoding, Transaction, RightLengths, parser
  <2> QED BY <2>1, <2>2
<1>10. CASE Builds
  <2>1. /\ request.json /\ request.decodes /\ built' = Built /\ Built' = Built
        /\ UNCHANGED <<parser, request>> /\ Place' = "timeout"
    BY <1>1, <1>10 DEF Builds, DecodedInv, Built, Transaction, parser, Place
  <2>2. CASE Transaction
    <3>1. verdict = "ok" /\ count > 0
      BY <1>1, <1>10, <2>2 DEF Builds, DecodedInv
    <3>2. Built.jobs # <<>>
      BY <1>1, <2>2, <3>1, BuiltRange DEF TypeInv
    <3> QED BY <2>1, <2>2, <3>1, <3>2 DEF BuiltInv, Transaction, parser
  <2>3. CASE ~Transaction
    <3>1. request.bytes # <<>> /\ request.jobs # <<>> /\ \A i \in DOMAIN request.jobs : RightLengths(request.jobs[i])
      BY <1>10, <2>3 DEF Builds
    <3>2. Built.jobs # <<>>
      BY <2>3, <3>1 DEF Built
    <3> QED BY <2>1, <2>3, <3>1, <3>2 DEF BuiltInv, Transaction, RightLengths
  <2> QED BY <2>2, <2>3
<1>11. CASE Looks \/ WriteMessage \/ WriteJobs \/ Configure \/ Launch
  <2>1. /\ stage \in {"layout", "probe", "message", "jobs", "configure", "launch"}
        /\ stage' \in {"probe", "message", "jobs", "configure", "launch", "wait"}
        /\ UNCHANGED <<parser, request, built>>
    BY <1>11 DEF Looks, WriteMessage, WriteJobs, Configure, Launch, Pass
  <2>2. Place = stage /\ Place' = stage' /\ Built' = Built
    BY <2>1 DEF Place, Built, Transaction, parser
  <2> QED BY <1>1, <2>1, <2>2 DEF BuiltInv, Decoding, Transaction, RightLengths, parser
<1> QED
  BY <1>1, <1>4, <1>5, <1>6, <1>7, <1>8, <1>9, <1>10, <1>11, Steps

(* One word more of a window holds what it should.                          *)
LEMMA WordHeld ==
  ASSUME NEW size \in Nat, NEW ram \in [1 .. size -> Bytes], NEW bytes, word \in Nat, Holds(ram, bytes, word),
         word < size
  PROVE  \A i \in 1 .. size : i <= word + WordBytes => Written(ram, bytes)[i] = WindowByte(bytes, i)
<1> SUFFICES ASSUME NEW i \in 1 .. size, i <= word + WordBytes
             PROVE  Written(ram, bytes)[i] = WindowByte(bytes, i)
  OBVIOUS
<1>1. Written(ram, bytes)[i] = IF i \in word + 1 .. word + WordBytes THEN WindowByte(bytes, i) ELSE ram[i]
  BY DEF Written
<1>2. CASE i \in word + 1 .. word + WordBytes
  BY <1>1, <1>2
<1>3. CASE i \notin word + 1 .. word + WordBytes
  <2>1. i \in 1 .. word
    BY <1>3, Sizes
  <2> QED BY <1>1, <1>3, <2>1 DEF Holds
<1> QED BY <1>2, <1>3

(* After its last word a window holds all of it, whatever it held before.   *)
LEMMA WindowStep ==
  ASSUME HostInv, [Next]_vars
  PROVE  WindowInv'
<1>1. TypeInv /\ AnswerInv /\ WordInv /\ WindowInv
  BY DEF HostInv
<1>2. ASSUME NEW ram, NEW bytes
      PROVE  Holds(ram, bytes, 0)
  BY SMTT(30) DEF Holds
<1>3. CASE UNCHANGED vars
  <2>1. UNCHANGED <<stage, built, mram, jram, word, response>>
    BY <1>3 DEF vars, device
  <2> QED BY <1>1, <2>1 DEF WindowInv, Place, Holds, JobImage, WindowByte
<1>4. CASE Errs
  BY <1>4 DEF Errs, WindowInv, Place, Running
<1>5. CASE SuccessResponse
  <2>1. /\ stage = "wait" /\ stage' = "answered" /\ Place = "wait" /\ Place' = "wait"
        /\ UNCHANGED <<built, mram, jram>>
    BY <1>1, <1>5 DEF SuccessResponse, Pass, Place, device
  <2> QED BY <1>1, <2>1 DEF WindowInv, Running, Holds, JobImage, WindowByte
<1>6. CASE GetStatus \/ LoadImage \/ (Checked /\ Still) \/ ParserStep \/ Builds
  <2>1. stage' \notin Writing \cup Running \cup {"answered"}
    BY <1>6 DEF GetStatus, LoadImage, Checked, ParserStep, Builds, Pass, Writing, Running
  <2> QED BY <2>1 DEF WindowInv, Place, Writing, Running
<1>7. CASE Looks
  BY <1>1, <1>2, <1>7 DEF Looks, Pass, WindowInv, Place, Running
<1>8. CASE WriteMessage
  <2>1. /\ stage = "message" /\ mram' = Written(mram, built.message) /\ built' = built /\ jram' = jram
        /\ \/ word + WordBytes < MESSAGE_SIZE /\ word' = word + WordBytes /\ stage' = "message"
           \/ ~(word + WordBytes < MESSAGE_SIZE) /\ word' = 0 /\ stage' = "jobs"
    BY <1>8 DEF WriteMessage
  <2>2. word \in Nat /\ word < MESSAGE_SIZE
    BY <1>1, <2>1, Sizes DEF WordInv, WordIn
  <2>3. Holds(mram, built.message, word) /\ mram \in [1 .. MESSAGE_SIZE -> Bytes]
    BY <1>1, <2>1 DEF WindowInv, TypeInv
  <2>4. \A i \in 1 .. MESSAGE_SIZE :
          i <= word + WordBytes => mram'[i] = WindowByte(built.message, i)
    BY <2>1, <2>2, <2>3, WordHeld, Sizes
  <2>5. CASE word + WordBytes < MESSAGE_SIZE
    <3>1. \A i \in 1 .. word' : mram'[i] = WindowByte(built.message, i)
      BY <2>1, <2>2, <2>4, <2>5, Sizes
    <3>2. Holds(mram, built.message, word)'
      BY <2>1, <3>1 DEF Holds, WindowByte
    <3> QED BY <2>1, <2>5, <3>2 DEF WindowInv, Place, Running
  <2>6. CASE ~(word + WordBytes < MESSAGE_SIZE)
    <3>1. \A i \in 1 .. MESSAGE_SIZE : mram'[i] = WindowByte(built.message, i)
      BY <2>1, <2>2, <2>4, <2>6, Sizes
    <3>2. Holds(mram, built.message, MESSAGE_SIZE)' /\ Holds(jram, JobImage, word)'
      BY <2>1, <2>6, <3>1 DEF Holds, WindowByte
    <3> QED BY <2>1, <2>6, <3>2 DEF WindowInv, Place, Running
  <2> QED BY <2>5, <2>6
<1>9. CASE WriteJobs
  <2>1. /\ stage = "jobs" /\ jram' = Written(jram, JobImage) /\ built' = built /\ mram' = mram
        /\ \/ word + WordBytes < JobSize /\ word' = word + WordBytes /\ stage' = "jobs"
           \/ ~(word + WordBytes < JobSize) /\ word' = 0 /\ stage' = "configure"
    BY <1>9 DEF WriteJobs
  <2>2. word \in Nat /\ word < JobSize
    BY <1>1, <2>1, Sizes DEF WordInv, WordIn
  <2>3. /\ Holds(jram, JobImage, word) /\ jram \in [1 .. JobSize -> Bytes]
        /\ Holds(mram, built.message, MESSAGE_SIZE)
    BY <1>1, <2>1 DEF WindowInv, TypeInv, Place
  <2>4. \A i \in 1 .. JobSize : i <= word + WordBytes => jram'[i] = WindowByte(JobImage, i)
    BY <2>1, <2>2, <2>3, WordHeld, Sizes, SMTT(30)
  <2>5. JobImage' = JobImage /\ Holds(mram, built.message, MESSAGE_SIZE)'
    BY <2>1, <2>3, Zenon DEF JobImage, Holds, WindowByte
  <2>6. CASE word + WordBytes < JobSize
    <3>1. \A i \in 1 .. word' : jram'[i] = WindowByte(JobImage, i)
      BY <2>1, <2>2, <2>4, <2>6, Sizes
    <3>2. Holds(jram, JobImage, word)'
      BY <2>5, <3>1 DEF Holds, WindowByte
    <3> QED BY <2>1, <2>5, <2>6, <3>2 DEF WindowInv, Place, Running
  <2>7. CASE ~(word + WordBytes < JobSize)
    <3>1. \A i \in 1 .. JobSize : jram'[i] = WindowByte(JobImage, i)
      BY <2>1, <2>2, <2>4, <2>7, Sizes
    <3>2. Holds(jram, JobImage, JobSize)'
      BY <2>5, <3>1, SMTT(30) DEF Holds, WindowByte
    <3> QED BY <2>1, <2>5, <2>7, <3>2 DEF WindowInv, Place, Running
  <2> QED BY <2>6, <2>7
<1>10. CASE Configure \/ Launch
  <2>1. /\ stage \in {"configure", "launch"} /\ stage' \in {"launch", "wait"}
        /\ UNCHANGED <<built, mram, jram>>
    BY <1>10 DEF Configure, Launch, Pass
  <2>2. Place = stage /\ Place' = stage'
    BY <2>1 DEF Place
  <2> QED BY <1>1, <2>1, <2>2 DEF WindowInv, Running, Holds, JobImage, WindowByte
<1> QED
  BY <1>1, <1>3, <1>4, <1>5, <1>6, <1>7, <1>8, <1>9, <1>10, Steps

(* A batch is launched on the full image, with its own configuration.       *)
LEMMA LaunchStep ==
  ASSUME HostInv, [Next]_vars
  PROVE  LaunchInv' /\ AnswerInv'
<1>1. TypeInv /\ AnswerInv /\ LaunchInv
  BY DEF HostInv
<1>2. ASSUME UNCHANGED <<env, regs, built, request, result, mram, jram>>
      PROVE  Results' = Results /\ FullHardware' = FullHardware /\ AllSignersVerified' = AllSignersVerified
  BY <1>2
     DEF Results, JobVerified, Accepted, DispatchCount, DroppedCount, RequestedU8, LimitEffective,
         LaunchError, FullHardware, AllSignersVerified, ResultBits
<1>3. CASE UNCHANGED vars
  <2>1. UNCHANGED <<stage, env, regs, built, request, result, mram, jram, response>>
    BY <1>3 DEF vars, device
  <2> QED BY <1>1, <1>2, <2>1 DEF LaunchInv, AnswerInv, Place
<1>4. CASE Errs
  BY <1>4 DEF Errs, LaunchInv, AnswerInv, Place, Writing, Running
<1>5. CASE SuccessResponse
  <2>1. /\ stage = "wait" /\ stage' = "answered" /\ Place = "wait" /\ Place' = "wait"
        /\ UNCHANGED <<env, regs, built, request, result, mram, jram>>
        /\ response'.verified = AllSignersVerified
    BY <1>1, <1>5 DEF SuccessResponse, Pass, Place, device
  <2> QED BY <1>1, <1>2, <2>1 DEF LaunchInv, AnswerInv, Writing, Running
<1>6. CASE /\ GetStatus \/ LoadImage \/ (Checked /\ Still) \/ ParserStep \/ Builds
           /\ response' = response
  <2>1. stage # "answered" /\ stage' \notin Writing \cup Running \cup {"answered"}
    BY <1>6 DEF GetStatus, LoadImage, Checked, ParserStep, Builds, Pass, Writing, Running
  <2> QED BY <1>1, <1>6, <2>1 DEF LaunchInv, AnswerInv, Place, Running, NoResponse
<1>7. CASE Looks /\ response' = response
  <2>1. /\ stage # "answered" /\ stage' \in {"probe", "message"} /\ env' = env
        /\ stage' = "message" => FullHardware
    BY <1>7 DEF Looks, Pass
  <2> QED BY <1>1, <1>7, <2>1 DEF LaunchInv, AnswerInv, Place, Writing, Running, FullHardware, NoResponse
<1>8. CASE WriteMessage \/ WriteJobs
  <2>1. /\ stage \in {"message", "jobs"} /\ stage' \in {"message", "jobs", "configure"}
        /\ env' = env /\ response' = response
    BY <1>8 DEF WriteMessage, WriteJobs
  <2> QED BY <1>1, <2>1 DEF LaunchInv, AnswerInv, Place, Writing, Running, FullHardware, NoResponse
<1>9. CASE Configure
  <2>1. /\ stage = "configure" /\ stage' = "launch" /\ UNCHANGED <<env, built, request, response>>
        /\ regs' = [message_length |-> Len(built.message), job_count |-> Len(built.jobs),
                    limit |-> request.dispatch_limit, mode |-> request.verify_mode,
                    timeout |-> request.job_timeout_cycles]
    BY <1>9 DEF Configure, Pass
  <2> QED BY <1>1, <2>1 DEF LaunchInv, AnswerInv, Place, Writing, Running, FullHardware, NoResponse
<1>10. CASE Launch
  <2>1. /\ stage = "launch" /\ stage' = "wait"
        /\ UNCHANGED <<env, built, request, response, mram, jram, regs>>
    BY <1>10 DEF Launch, Pass
  <2>2. FullHardware /\ env.image.mode = "full"
    BY <1>1, <2>1 DEF LaunchInv, Place, Running, FullHardware
  <2>3. result' \in Results
    BY <1>10, <2>2 DEF Launch
  <2>4. Results' = Results /\ FullHardware' = FullHardware
    BY <2>1
       DEF Results, JobVerified, Accepted, DispatchCount, DroppedCount, RequestedU8, LimitEffective,
           LaunchError, FullHardware
  <2>5. stage # "answered" => response = NoResponse
    BY <1>1 DEF AnswerInv
  <2> QED BY <1>1, <2>1, <2>2, <2>3, <2>4, <2>5 DEF LaunchInv, AnswerInv, Place, Running, NoResponse
<1> QED
  BY <1>1, <1>3, <1>4, <1>5, <1>6, <1>7, <1>8, <1>9, <1>10, Steps

(* A request starts on windows that hold anything.                          *)
LEMMA HostStarts ==
  ASSUME Init
  PROVE  HostInv
<1>1. PICK s \in Scenarios : /\ request = s.request /\ env = s.env
                             /\ mram = [i \in 1 .. MESSAGE_SIZE |-> s.residue]
                             /\ jram = [i \in 1 .. JobSize |-> s.residue]
  BY DEF Init
<1>2. s \in [request : Requests, env : Environments, residue : Bytes]
  BY HostAssumption
<1>3. /\ request \in Requests /\ env \in Environments
      /\ mram \in [1 .. MESSAGE_SIZE -> Bytes] /\ jram \in [1 .. JobSize -> Bytes]
  BY <1>1, <1>2
<1>4. ParserInv
  BY ParserStarts DEF Init
<1>5. 0 \in 0 .. MaxJobs
  BY Sizes
<1>6. /\ stage = "idle" /\ word = 0 /\ touched = FALSE /\ response = NoResponse /\ control = "none"
      /\ built = [message |-> <<>>, jobs |-> <<>>] /\ regs = NoRegs
      /\ result = [error |-> FALSE, result_valid |-> FALSE, accepted |-> 0, dropped |-> 0, mask |-> {}]
  BY DEF Init
<1>7. TypeInv
  <2>1. regs \in RegsType
    BY <1>5, <1>6 DEF NoRegs, RegsType, Modes
  <2>2. built \in Batches
    BY <1>6 DEF Batches
  <2>3. result \in BatchResults
    BY <1>5, <1>6 DEF BatchResults
  <2> QED BY <1>3, <1>6, <2>1, <2>2, <2>3 DEF TypeInv, Stages, Decoding
<1>8. WordInv /\ TouchedInv /\ DecodedInv /\ BuiltInv /\ WindowInv /\ LaunchInv /\ AnswerInv
  BY <1>6
     DEF WordInv, TouchedInv, DecodedInv, BuiltInv, WindowInv, LaunchInv, AnswerInv, Place, Decoding,
         Writing, Running
<1> QED BY <1>4, <1>7, <1>8 DEF HostInv

(* The invariant of a request.                                              *)
THEOREM HostInvariant == Spec => []HostInv
<1>1. Init => HostInv
  BY HostStarts
<1>2. HostInv /\ [Next]_vars => HostInv'
  BY HostTypeStep, WordStep, TouchedStep, DecodedStep, BuiltStep, WindowStep, LaunchStep DEF HostInv
<1> QED BY <1>1, <1>2, PTL DEF Spec
-----------------------------------------------------------------------------
(* The scan stays inside the transaction, the accesses inside the windows,  *)
(* and what the device reports inside its counts.                           *)
THEOREM HostTypes == Spec => []HostTypeOK
<1>1. HostInv => HostTypeOK
  <2> SUFFICES ASSUME HostInv PROVE HostTypeOK
    OBVIOUS
  <2>1. ParserInv /\ TypeInv /\ WordInv
    BY DEF HostInv
  <2>2. MESSAGE_SIZE % WordBytes = 0 /\ JobSize % WordBytes = 0
    BY HostAssumption
  <2>3. word \in CASE stage = "message" -> 0 .. MESSAGE_SIZE - WordBytes
                  [] stage = "jobs" -> 0 .. JobSize - WordBytes
                  [] OTHER -> {0}
    <3>1. CASE stage = "message"
      BY <2>1, <2>2, <3>1, WordInside, Sizes DEF WordInv
    <3>2. CASE stage = "jobs"
      BY <2>1, <2>2, <3>2, WordInside, Sizes DEF WordInv
    <3>3. CASE stage \notin {"message", "jobs"}
      BY <2>1, <3>3 DEF WordInv
    <3> QED BY <3>1, <3>2, <3>3
  <2> QED BY <2>1, <2>3 DEF HostTypeOK, ParserInv, ParserTypeOK, TypeInv
<1> QED BY <1>1, HostInvariant, PTL

(* A request refused as malformed or too large, or lost in a panic, has not *)
(* written a word to the device.                                            *)
THEOREM RefusedIsUntouched == Spec => []RefusedUntouched
<1>1. HostInv => RefusedUntouched
  BY DEF HostInv, TypeInv, TouchedInv, AnswerInv, NoResponse, RefusedUntouched, Writing, Running
<1> QED BY <1>1, HostInvariant, PTL

(* What the device reads from a window is what was to be written there.     *)
LEMMA WindowSlice ==
  ASSUME NEW size \in Nat, NEW ram \in [1 .. size -> Bytes], NEW bytes \in Seq(Bytes),
         Holds(ram, bytes, size), NEW from \in Nat, NEW wanted \in Seq(Bytes),
         from + Len(wanted) <= size, from + Len(wanted) <= Len(bytes),
         \A k \in 1 .. Len(wanted) : bytes[from + k] = wanted[k]
  PROVE  SubSeq(ram, from + 1, from + Len(wanted)) = wanted
<1> DEFINE n == Len(wanted)
           slice == SubSeq(ram, from + 1, from + n)
<1>1. ram \in Seq(Bytes) /\ Len(ram) = size
  BY FunctionIsSeq
<1>2. /\ n \in Nat /\ slice \in Seq(Bytes) /\ Len(slice) = n
      /\ \A k \in 1 .. n : slice[k] = ram[from + k]
  BY <1>1, SliceInside
<1>3. ASSUME NEW k \in 1 .. n
      PROVE  slice[k] = wanted[k]
  <2>1. from + k \in 1 .. size /\ from + k <= Len(bytes)
    BY <1>2
  <2> QED BY <1>2, <2>1 DEF Holds, WindowByte
<1> HIDE DEF slice
<1>4. slice = wanted
  BY <1>2, <1>3, SeqEqual
<1> QED BY <1>4 DEF slice

(* The same from the start of a window.                                     *)
LEMMA WindowStart ==
  ASSUME NEW size \in Nat, NEW ram \in [1 .. size -> Bytes], NEW bytes \in Seq(Bytes),
         Holds(ram, bytes, size), Len(bytes) <= size
  PROVE  SubSeq(ram, 1, Len(bytes)) = bytes
<1>1. PICK from \in Nat : from = 0
  OBVIOUS
<1>2. Len(bytes) \in Nat
  OBVIOUS
<1>3. \A k \in 1 .. Len(bytes) : bytes[from + k] = bytes[k]
  BY <1>1
<1>4. from + Len(bytes) <= size /\ from + Len(bytes) <= Len(bytes)
  BY <1>1, <1>2
<1>5. SubSeq(ram, from + 1, from + Len(bytes)) = bytes
  BY <1>3, <1>4, WindowSlice
<1>6. from + 1 = 1 /\ from + Len(bytes) = Len(bytes)
  BY <1>1, <1>2
<1> QED BY <1>5, <1>6

(* Multiplication is monotonic.                                             *)
LEMMA Times ==
  ASSUME NEW a \in Nat, NEW b \in Nat, NEW w \in Nat, a <= b
  PROVE  a * w <= b * w
OBVIOUS

(* A key and its signature in an image of the jobs.                         *)
JobAt(image, base, key, sig) ==
  /\ base + JobBytes <= Len(image) /\ base + JobBytes <= JobSize
  /\ Len(key) = KeyBytes /\ Len(sig) = SigBytes
  /\ \A k \in 1 .. JobBytes :
       image[base + k] = IF k <= KeyBytes THEN key[k] ELSE sig[k - KeyBytes]

(* They are what the engines read from the job window.                      *)
KeyRead(ram, base) == SubSeq(ram, base + 1, base + KeyBytes)
SigRead(ram, base) == SubSeq(ram, base + KeyBytes + 1, base + JobBytes)

(* They are the bytes of the job's key and signature.                       *)
LEMMA JobSlices ==
  ASSUME NEW ram \in [1 .. JobSize -> Bytes], NEW image \in Seq(Bytes), Holds(ram, image, JobSize),
         NEW base \in Nat, NEW key \in Seq(Bytes), NEW sig \in Seq(Bytes), JobAt(image, base, key, sig)
  PROVE  KeyRead(ram, base) = key /\ SigRead(ram, base) = sig
<1>1. KeyBytes \in Nat /\ SigBytes \in Nat /\ JobSize \in Nat /\ Len(image) \in Nat
  BY Sizes
<1> USE DEF JobAt
<1>2. SubSeq(ram, base + 1, base + KeyBytes) = key
  <2>1. base + Len(key) <= JobSize /\ base + Len(key) <= Len(image)
    BY <1>1 DEF JobBytes
  <2>2. \A k \in 1 .. Len(key) : image[base + k] = key[k]
    BY <1>1 DEF JobBytes
  <2>3. SubSeq(ram, base + 1, base + Len(key)) = key
    BY <1>1, <2>1, <2>2, WindowSlice
  <2> QED BY <2>3
<1>3. SubSeq(ram, base + KeyBytes + 1, base + JobBytes) = sig
  <2> DEFINE from == base + KeyBytes
  <2>1. from \in Nat /\ from + Len(sig) <= JobSize /\ from + Len(sig) <= Len(image)
    BY <1>1 DEF JobBytes
  <2>2. ASSUME NEW k \in 1 .. Len(sig)
        PROVE  image[from + k] = sig[k]
    <3>1. KeyBytes + k \in 1 .. JobBytes /\ ~(KeyBytes + k <= KeyBytes) /\ (KeyBytes + k) - KeyBytes = k
      BY <1>1 DEF JobBytes
    <3>2. image[base + (KeyBytes + k)] = sig[(KeyBytes + k) - KeyBytes]
      BY <3>1
    <3>3. base + (KeyBytes + k) = from + k
      BY <1>1
    <3> QED BY <3>1, <3>2, <3>3
  <2> HIDE DEF from
  <2>3. SubSeq(ram, from + 1, from + Len(sig)) = sig
    BY <1>1, <2>1, <2>2, WindowSlice
  <2>4. from + Len(sig) = base + JobBytes
    BY <1>1 DEF from, JobBytes
  <2> QED BY <2>3, <2>4 DEF from
<1> QED BY <1>2, <1>3 DEF KeyRead, SigRead

(* So what the engines decide of a job, they decide of the batch's own key, *)
(* signature and message.                                                   *)
LEMMA JobOnDevice ==
  ASSUME HostInv, Place = "wait", NEW j \in 1 .. Len(built.jobs)
  PROVE  JobVerified(j) = Genuine(request.verify_mode, built.jobs[j].key, built.jobs[j].sig, built.message)
<1>1. ParserInv /\ TypeInv /\ BuiltInv /\ WindowInv /\ LaunchInv
  BY DEF HostInv
<1>2. /\ Len(built.message) <= MESSAGE_SIZE /\ Len(built.jobs) <= MaxJobs
      /\ Holds(mram, built.message, MESSAGE_SIZE) /\ Holds(jram, JobImage, JobSize)
      /\ regs.mode = request.verify_mode /\ regs.message_length = Len(built.message)
  BY <1>1 DEF BuiltInv, WindowInv, LaunchInv, Decoding, Running
<1>3. \A i \in DOMAIN built.jobs : RightLengths(built.jobs[i])
  BY <1>1, BuiltJobs DEF Decoding
<1>4. /\ built \in Batches /\ built.message \in Seq(Bytes) /\ Len(built.message) \in Nat
      /\ mram \in [1 .. MESSAGE_SIZE -> Bytes] /\ jram \in [1 .. JobSize -> Bytes]
      /\ Len(built.jobs) \in Nat
  BY <1>1 DEF TypeInv, Batches
<1>5. PICK job \in [key : Seq(Bytes), sig : Seq(Bytes)] : job = built.jobs[j] /\ RightLengths(job)
  <2>1. built.jobs \in Seq([key : Seq(Bytes), sig : Seq(Bytes)]) /\ j \in DOMAIN built.jobs
    BY <1>4 DEF Batches
  <2> QED BY <1>3, <2>1, ElementOfSeq
<1>6. SubSeq(mram, 1, regs.message_length) = built.message
  <2>1. PICK bytes \in Seq(Bytes) : bytes = built.message
    BY <1>4
  <2>2. MESSAGE_SIZE \in Nat
    BY Sizes
  <2>3. Len(bytes) <= MESSAGE_SIZE /\ Holds(mram, bytes, MESSAGE_SIZE)
    BY <1>2, <2>1
  <2>4. SubSeq(mram, 1, Len(bytes)) = bytes
    BY <1>4, <2>2, <2>3, WindowStart
  <2> QED BY <1>2, <2>1, <2>4
<1>7. JobImage \in Seq(Bytes) /\ Len(JobImage) = Len(built.jobs) * JobBytes
  BY <1>3, <1>4, JobImageBytes
<1>8. \A k \in 1 .. JobBytes :
        JobImage[(j - 1) * JobBytes + k] = IF k <= KeyBytes THEN job.key[k] ELSE job.sig[k - KeyBytes]
  BY <1>3, <1>4, <1>5, JobImageBytes
<1>9. PICK base \in Nat : /\ base = (j - 1) * JobBytes
                          /\ base + JobBytes <= Len(JobImage) /\ base + JobBytes <= JobSize
  <2>1. JobBytes \in Nat /\ MaxJobs \in Nat /\ MaxJobs * JobBytes <= JobSize /\ JobSize \in Nat
    BY Sizes, HostAssumption
  <2>2. (j - 1) * JobBytes \in Nat /\ (j - 1) * JobBytes + JobBytes = j * JobBytes
    BY <1>4, <2>1
  <2>3. j * JobBytes <= Len(built.jobs) * JobBytes
    <3>1. j \in Nat /\ j <= Len(built.jobs)
      BY <1>4
    <3> QED BY <1>4, <2>1, <3>1, Times
  <2>4. Len(built.jobs) * JobBytes <= MaxJobs * JobBytes
    <3>1. Len(built.jobs) <= MaxJobs
      BY <1>2
    <3> QED BY <1>4, <2>1, <3>1, Times
  <2>5. j * JobBytes \in Nat /\ Len(built.jobs) * JobBytes \in Nat /\ MaxJobs * JobBytes \in Nat
    BY <1>4, <2>1
  <2>6. j * JobBytes <= Len(JobImage) /\ j * JobBytes <= JobSize
    BY <1>7, <2>1, <2>3, <2>4, <2>5
  <2> QED BY <2>2, <2>6
<1>10. KeyRead(jram, base) = job.key /\ SigRead(jram, base) = job.sig
  <2>1. PICK k0 \in Seq(Bytes), s0 \in Seq(Bytes) : k0 = job.key /\ s0 = job.sig
    BY <1>5
  <2>2. Len(k0) = KeyBytes /\ Len(s0) = SigBytes
    BY <1>5, <2>1 DEF RightLengths
  <2>3. \A k \in 1 .. JobBytes :
          JobImage[base + k] = IF k <= KeyBytes THEN k0[k] ELSE s0[k - KeyBytes]
    BY <1>8, <1>9, <2>1
  <2>4. PICK image \in Seq(Bytes) : image = JobImage
    BY <1>7
  <2>5. JobAt(image, base, k0, s0)
    BY <1>9, <2>2, <2>3, <2>4 DEF JobAt
  <2>6. PICK ram \in [1 .. JobSize -> Bytes] : ram = jram /\ Holds(ram, image, JobSize)
    BY <1>2, <1>4, <2>4
  <2>7. KeyRead(ram, base) = k0 /\ SigRead(ram, base) = s0
    BY <1>9, <2>1, <2>4, <2>5, <2>6, JobSlices
  <2> QED BY <2>1, <2>6, <2>7
<1> QED BY <1>2, <1>5, <1>6, <1>9, <1>10 DEF JobVerified, KeyRead, SigRead

(* An answer that says "verified" is computed from a result that confirms   *)
(* every job of the batch.                                                  *)
LEMMA VerifiedBatch ==
  ASSUME HostInv, response.kind = "ok", response.verified
  PROVE  /\ Place = "wait" /\ built.jobs # <<>>
         /\ \A j \in 1 .. Len(built.jobs) : JobVerified(j)
<1>1. TypeInv /\ BuiltInv /\ LaunchInv /\ AnswerInv
  BY DEF HostInv
<1>2. Place = "wait" /\ AllSignersVerified
  <2>1. stage = "answered"
    <3>1. response # NoResponse
      BY DEF NoResponse
    <3> QED BY <1>1, <3>1 DEF AnswerInv
  <2>2. response.verified = AllSignersVerified
    BY <1>1, <2>1, Zenon DEF AnswerInv
  <2>3. AllSignersVerified
    BY <2>2, Zenon
  <2> QED BY <2>1, <2>3 DEF Place
<1>3. built.jobs # <<>> /\ result \in Results
  BY <1>1, <1>2 DEF BuiltInv, LaunchInv, Decoding
<1>4. LaunchError(regs) = ERR_NONE
  BY <1>2, <1>3 DEF AllSignersVerified, Results
<1>5. PICK judged : result.mask = {j \in judged : JobVerified(j)}
  <2>1. PICK judged :
          result = [error |-> judged # 1 .. Accepted, result_valid |-> TRUE, accepted |-> Accepted,
                    dropped |-> DroppedCount(regs), mask |-> {j \in judged : JobVerified(j)}]
    BY <1>3, <1>4, Zenon DEF Results
  <2> QED BY <2>1
<1>6. \A j \in 1 .. Len(built.jobs) : j \in result.mask
  BY <1>2 DEF AllSignersVerified, ResultBits
<1> QED BY <1>2, <1>3, <1>5, <1>6

(* Whatever the windows held before, whatever the dispatch limit, the       *)
(* watchdog and the image: an answer that says "verified" stands for a      *)
(* batch whose every signature is genuine for its key over its message.     *)
VerifiedJobsGenuine ==
  response.kind = "ok" /\ response.verified =>
    /\ built.jobs # <<>>
    /\ \A i \in DOMAIN built.jobs :
         Genuine(request.verify_mode, built.jobs[i].key, built.jobs[i].sig, built.message)

(* Both endpoints verify the batch they built.                              *)
THEOREM VerifiedJobs == Spec => []VerifiedJobsGenuine
<1>1. HostInv => VerifiedJobsGenuine
  <2> SUFFICES ASSUME HostInv, response.kind = "ok", response.verified
               PROVE  /\ built.jobs # <<>>
                      /\ \A i \in DOMAIN built.jobs :
                           Genuine(request.verify_mode, built.jobs[i].key, built.jobs[i].sig,
                                   built.message)
    BY DEF VerifiedJobsGenuine
  <2>1. DOMAIN built.jobs = 1 .. Len(built.jobs)
    BY DEF HostInv, TypeInv, Batches
  <2>2. built.jobs # <<>> /\ \A j \in 1 .. Len(built.jobs) : JobVerified(j) /\ Place = "wait"
    BY VerifiedBatch
  <2> QED BY <2>1, <2>2, JobOnDevice
<1> QED BY <1>1, HostInvariant, PTL

-----------------------------------------------------------------------------
(* What the request asks, when the transaction is read by the grammar.      *)

(* A step of the daemon is a step of the parser or leaves it alone.         *)
LEMMA ParserSteps ==
  ASSUME HostInv, [Next]_vars
  PROVE  [ParserNext]_parser
<1>1. TypeInv /\ AnswerInv
  BY DEF HostInv
<1>2. CASE UNCHANGED vars
  BY <1>2 DEF vars
<1>3. CASE ParserStep
  BY <1>3 DEF ParserStep
<1>4. CASE Errs \/ SuccessResponse \/ GetStatus \/ LoadImage \/ (Checked /\ Still) \/ Builds \/ Looks
             \/ WriteMessage \/ WriteJobs \/ Configure \/ Launch
  BY <1>4
     DEF Errs, SuccessResponse, GetStatus, LoadImage, Still, Builds, Looks, WriteMessage, WriteJobs,
         Configure, Launch
<1> QED BY <1>1, <1>2, <1>3, <1>4, Steps

(* So in the daemon too the scan follows the grammar.                       *)
THEOREM HostFormat == Spec => []FormatInv
<1>1. Init => FormatInv
  BY FormatStarts DEF Init
<1>2. HostInv /\ FormatInv /\ [Next]_vars => FormatInv'
  BY ParserSteps, FormatAdvances DEF HostInv
<1> QED BY <1>1, <1>2, HostInvariant, PTL DEF Spec

(* The handler's parser accepts exactly the transactions.                   *)
THEOREM HostAccepts == Spec => []AcceptsExactly
<1>1. HostInv /\ FormatInv => AcceptsExactly
  BY AcceptsByFormat DEF HostInv
<1> QED BY <1>1, HostInvariant, HostFormat, PTL

(* What the grammar says a transaction asks, from its one reading.          *)
LEMMA AskedByReading ==
  ASSUME Transaction, NEW n, NEW sig, NEW head, NEW key, Readings = {<<n, sig, head, key>>}
  PROVE  /\ AskedMessage = SubSeq(data, sig + n * SigBytes + 1, Len(data))
         /\ AskedJobs =
              [i \in 1 .. n |->
                [key |-> SubSeq(data, key + (i - 1) * KeyBytes + 1, key + i * KeyBytes),
                 sig |-> SubSeq(data, sig + (i - 1) * SigBytes + 1, sig + i * SigBytes)]]
<1> DEFINE r == CHOOSE r \in Readings : TRUE
<1>1. r = <<n, sig, head, key>>
  OBVIOUS
<1>2. r[1] = n /\ r[2] = sig /\ r[4] = key
  BY <1>1
<1> HIDE DEF r
<1>3. /\ AskedMessage = SubSeq(data, r[2] + r[1] * SigBytes + 1, Len(data))
      /\ AskedJobs =
           [i \in 1 .. r[1] |->
             [key |-> SubSeq(data, r[4] + (i - 1) * KeyBytes + 1, r[4] + i * KeyBytes),
              sig |-> SubSeq(data, r[2] + (i - 1) * SigBytes + 1, r[2] + i * SigBytes)]]
  BY DEF AskedMessage, AskedJobs, r
<1> QED BY <1>2, <1>3

(* A batch that was built is what the request asks.                         *)
LEMMA BuiltIsAsked ==
  ASSUME ParserInv, FormatInv, request \in Requests,
         Transaction => verdict = "ok" /\ count < ByteMod
  PROVE  AskedMessage = Built.message /\ AskedJobs = Built.jobs
<1>1. CASE ~Transaction
  BY <1>1 DEF AskedMessage, AskedJobs, Built
<1>2. CASE Transaction
  <2>1. /\ Readings = {<<count, SigStart, HeaderStart, KeyStart>>}
        /\ SigStart \in Nat /\ KeyStart \in Nat /\ count <= KeyCount /\ Len(sigs) = count
        /\ Len(keys) = KeyCount /\ body = SigStart + count * SigBytes
        /\ StartsFrom(sigs, SigBytes, SigStart) /\ StartsFrom(keys, KeyBytes, KeyStart)
    BY <1>2, AcceptedReading
  <2>2. /\ count \in Nat /\ KeyCount \in Nat /\ DOMAIN sigs = 1 .. count /\ DOMAIN keys = 1 .. KeyCount
        /\ KeyBytes \in Nat /\ SigBytes \in Nat
    BY <2>1, ParserAssumption DEF ParserInv, ParserTypeOK
  <2> DEFINE asked(i) ==
               [key |-> SubSeq(data, KeyStart + (i - 1) * KeyBytes + 1, KeyStart + i * KeyBytes),
                sig |-> SubSeq(data, SigStart + (i - 1) * SigBytes + 1, SigStart + i * SigBytes)]
             slice(i) ==
               [key |-> SubSeq(data, keys[i] + 1, keys[i] + KeyBytes),
                sig |-> SubSeq(data, sigs[i] + 1, sigs[i] + SigBytes)]
  <2>3. /\ AskedMessage = SubSeq(data, SigStart + count * SigBytes + 1, Len(data))
        /\ AskedJobs = [i \in 1 .. count |-> asked(i)]
    BY <1>2, <2>1, AskedByReading
  <2>4. ASSUME NEW i \in 1 .. count
        PROVE  slice(i) = asked(i)
    <3>1. /\ keys[i] = KeyStart + (i - 1) * KeyBytes /\ sigs[i] = SigStart + (i - 1) * SigBytes
      <4>1. i \in DOMAIN sigs /\ i \in DOMAIN keys
        BY <2>1, <2>2
      <4> QED BY <2>1, <4>1 DEF StartsFrom
    <3>2. \A a, b \in Nat : a + (i - 1) * b + b = a + i * b
      BY <2>2
    <3>3. keys[i] + KeyBytes = KeyStart + i * KeyBytes /\ sigs[i] + SigBytes = SigStart + i * SigBytes
      BY <2>1, <2>2, <3>1, <3>2
    <3> QED BY <3>1, <3>3
  <2>5. Built = [message |-> SubSeq(data, body + 1, Len(data)), jobs |-> [i \in 1 .. count |-> slice(i)]]
    BY <1>2, <2>2 DEF Built
  <2> HIDE DEF asked, slice
  <2> QED BY <2>1, <2>3, <2>4, <2>5
<1> QED BY <1>1, <1>2

(* A transaction has as many jobs as signatures.                            *)
LEMMA BuiltCount ==
  ASSUME HostInv, Place \notin Decoding \cup {"answered", "timeout", "sizes"}
  PROVE  Transaction => verdict = "ok" /\ count < ByteMod /\ count > 0
<1>1. ParserInv /\ TypeInv /\ BuiltInv
  BY DEF HostInv
<1>2. /\ built = Built /\ built.jobs # <<>> /\ Len(built.jobs) <= MaxJobs
      /\ Transaction => verdict = "ok"
  BY <1>1 DEF BuiltInv
<1>3. Transaction => Len(built.jobs) = count
  BY <1>1, <1>2, BuiltRange DEF TypeInv
<1>4. built.jobs \in Seq([key : Seq(Bytes), sig : Seq(Bytes)]) /\ count \in Nat
  BY <1>1 DEF TypeInv, Batches, ParserInv, ParserTypeOK
<1>5. Len(built.jobs) > 0
  BY <1>2, <1>4
<1>6. MaxJobs = ByteMod - 1 /\ ByteMod \in Nat
  BY HostAssumption, Sizes
<1> QED BY <1>2, <1>3, <1>4, <1>5, <1>6

(* A request that came as far as the device was a proper one.               *)
LEMMA RunsProper ==
  ASSUME HostInv, FormatInv, Place = "wait"
  PROVE  Proper /\ AskedMessage = built.message /\ AskedJobs = built.jobs
<1>1. ParserInv /\ TypeInv /\ BuiltInv
  BY DEF HostInv
<1>2. /\ request.json /\ request.decodes /\ request.timeout_ms > 0
      /\ built = Built /\ built.jobs # <<>>
      /\ ~Transaction => /\ request.bytes # <<>>
                         /\ \A i \in DOMAIN request.jobs : RightLengths(request.jobs[i])
  BY <1>1 DEF BuiltInv, Decoding
<1>3. Transaction => verdict = "ok" /\ count < ByteMod /\ count > 0
  BY BuiltCount DEF Decoding
<1>4. AskedMessage = built.message /\ AskedJobs = built.jobs
  BY <1>1, <1>2, <1>3, BuiltIsAsked DEF TypeInv
<1>5. CASE Transaction
  <2> DEFINE r == <<count, SigStart, HeaderStart, KeyStart>>
  <2>1. Readings = {r} /\ r[1] = count /\ count \in Nat
    BY <1>1, <1>3, <1>5, AcceptedReading DEF ParserInv, ParserTypeOK
  <2> HIDE DEF r
  <2>2. 0 \in 0 .. r[1] - 1 /\ r \in Readings
    BY <1>3, <1>5, <2>1
  <2>3. <<r[4] + 0 * KeyBytes, r[2] + 0 * SigBytes>> \in Signers
    BY <2>2 DEF Signers
  <2> QED BY <1>2, <1>4, <1>5, <2>2, <2>3 DEF Proper, WellFormed
<1>6. CASE ~Transaction
  <2>1. built.jobs = request.jobs
    BY <1>2, <1>6 DEF Built
  <2> QED BY <1>2, <1>4, <1>6, <2>1 DEF Proper
<1> QED BY <1>4, <1>5, <1>6

(* An answer that says "verified" answers a proper request whose signatures *)
(* are all genuine, each for its own signer and over exactly its message,   *)
(* for both endpoints.                                                      *)
THEOREM VerifiedRequests == Spec => []VerifiedIsGenuine
<1>1. HostInv /\ FormatInv /\ VerifiedJobsGenuine => VerifiedIsGenuine
  <2> SUFFICES ASSUME HostInv, FormatInv, VerifiedJobsGenuine, response.kind = "ok", response.verified
               PROVE  Proper /\ \A i \in DOMAIN AskedJobs : AskedGenuine(i)
    BY DEF VerifiedIsGenuine
  <2>1. Place = "wait"
    BY VerifiedBatch
  <2>2. Proper /\ AskedMessage = built.message /\ AskedJobs = built.jobs
    BY <2>1, RunsProper
  <2> QED BY <2>2 DEF AskedGenuine, VerifiedJobsGenuine
<1> QED BY <1>1, HostInvariant, HostFormat, VerifiedJobs, PTL
-----------------------------------------------------------------------------
(* The converse: when a proper request is refused, and what a batch of it   *)
(* answers.                                                                 *)

(* A "ready" is about the image that is loaded.                             *)
StatusInv == status.ready => FullHardware

(* The bits of an answer are those of the result.                           *)
BitsInv == stage = "answered" /\ response.kind = "ok" => response.bits = ResultBits

(* What can be wrong with a batch request.                                  *)
BadBatch ==
  \/ request.bytes = <<>> \/ request.jobs = <<>>
  \/ \E i \in DOMAIN request.jobs : ~RightLengths(request.jobs[i])

TooLarge ==
  /\ built = Built /\ (Transaction => verdict = "ok")
  /\ Len(built.message) > MESSAGE_SIZE \/ Len(built.jobs) > MaxJobs

(* Why the daemon may refuse a request, when no device file fails.          *)
Reason ==
  \/ ~FullHardware
  \/ ~request.json \/ ~request.decodes \/ request.timeout_ms = 0
  \/ Transaction /\ (verdict \in {"error", "panic"} \/ (verdict = "ok" /\ count = 0))
  \/ ~Transaction /\ BadBatch
  \/ TooLarge

DeviceFails == {"io", "irq_requires_uio", "timeout"}

RefusalInv ==
  stage = "answered" /\ response.kind # "ok" => response.code \in DeviceFails \/ Reason

ConverseInv == StatusInv /\ BitsInv /\ RefusalInv

(* Each refusal has its reason.                                             *)
LEMMA Reasons ==
  ASSUME HostInv, Next, stage # "answered", stage' = "answered", response'.kind # "ok"
  PROVE  response'.code \in DeviceFails \/ Reason
<1>1. TypeInv /\ AnswerInv /\ DecodedInv /\ BuiltInv
  BY DEF HostInv
<1>2. \A kind, code : Fail(kind, code) => response'.code = code
  BY DEF Fail, ErrorAnswer
<1>3. CASE ParseJson \/ DecodePayload \/ ValidateTimeout
  BY <1>3 DEF ParseJson, DecodePayload, ValidateTimeout, Pass, Reason
<1>4. CASE BuildTransaction
  BY <1>4 DEF BuildTransaction, Pass, Reason
<1>5. CASE BuildBatch
  <2>1. ~Transaction
    BY <1>1, <1>5 DEF BuildBatch, DecodedInv
  <2> QED BY <1>5, <2>1 DEF BuildBatch, Pass, Reason, BadBatch
<1>6. CASE CheckSizes
  <2>1. stage = "sizes" /\ (Len(built.message) > MESSAGE_SIZE \/ Len(built.jobs) > MaxJobs)
    BY <1>6 DEF CheckSizes, Pass
  <2>2. built = Built /\ (Transaction => verdict = "ok")
    BY <1>1, <2>1 DEF BuiltInv, Place, Decoding
  <2> QED BY <2>1, <2>2 DEF TooLarge, Reason
<1>7. CASE ResolveLayout \/ IoFails \/ WaitTimesOut
  BY <1>2, <1>7 DEF ResolveLayout, IoFails, WaitTimesOut, Pass, DeviceFails
<1>8. CASE Probe
  BY <1>8 DEF Probe, Pass, Reason
<1>9. CASE GetStatus \/ LoadImage \/ Receive \/ ParserStep \/ WriteMessage \/ WriteJobs \/ Configure
           \/ Launch \/ SuccessResponse
  BY <1>9
     DEF GetStatus, LoadImage, Receive, ParserStep, WriteMessage, WriteJobs, Configure, Launch,
         SuccessResponse, Pass
<1> QED BY <1>3, <1>4, <1>5, <1>6, <1>7, <1>8, <1>9 DEF Next

(* Nothing follows an answer.                                               *)
LEMMA AnswerEnds ==
  ASSUME Next
  PROVE  stage # "answered"
BY DEF Next, GetStatus, LoadImage, Receive, ParseJson, DecodePayload, ParserStep, BuildTransaction, BuildBatch,
       ValidateTimeout, CheckSizes, ResolveLayout, Probe, WriteMessage, WriteJobs, Configure, Launch, IoFails,
       WaitTimesOut, SuccessResponse, Pass

(* A request that is refused leaves everything as it was.                   *)
LEMMA ReasonStays ==
  ASSUME UNCHANGED <<parser, request, env, built>>
  PROVE  Reason' = Reason /\ FullHardware' = FullHardware
BY DEF Reason, FullHardware, Transaction, BadBatch, TooLarge, RightLengths, Built, parser

(* The image changes, and the status answer, in steps of their own.         *)
LEMMA OtherSteps ==
  ASSUME Next, ~GetStatus, ~LoadImage
  PROVE  UNCHANGED <<env, status>>
<1>1. CASE Receive \/ ParseJson \/ DecodePayload \/ ParserStep
  BY <1>1 DEF Receive, ParseJson, DecodePayload, ParserStep, Fail
<1>2. CASE BuildTransaction \/ BuildBatch
  BY <1>2 DEF BuildTransaction, BuildBatch, Fail, LoseConnection
<1>3. CASE ValidateTimeout \/ CheckSizes \/ ResolveLayout \/ Probe \/ IoFails \/ WaitTimesOut
  BY <1>3 DEF ValidateTimeout, CheckSizes, ResolveLayout, Probe, IoFails, WaitTimesOut, Fail
<1>4. CASE WriteMessage \/ WriteJobs \/ Configure \/ Launch \/ SuccessResponse
  BY <1>4 DEF WriteMessage, WriteJobs, Configure, Launch, SuccessResponse
<1> QED BY <1>1, <1>2, <1>3, <1>4 DEF Next

(* Each step keeps the three.                                               *)
LEMMA ConverseStep ==
  ASSUME HostInv, ConverseInv, [Next]_vars
  PROVE  ConverseInv'
<1>1. TypeInv /\ AnswerInv /\ StatusInv /\ BitsInv /\ RefusalInv
  BY DEF HostInv, ConverseInv
<1>2. CASE UNCHANGED vars
  <2>1. UNCHANGED <<parser, stage, request, env, built, status, response, result>>
    BY <1>2 DEF vars, device
  <2>2. Reason' = Reason /\ FullHardware' = FullHardware
    BY <2>1, ReasonStays
  <2> QED BY <1>1, <2>1, <2>2 DEF ConverseInv, StatusInv, BitsInv, RefusalInv, ResultBits
<1>3. CASE Next
  <2>1. StatusInv'
    <3>1. CASE GetStatus
      <4>1. env' = env /\ (status'.ready => status' = StatusOfImage)
        BY <3>1 DEF GetStatus
      <4>2. StatusOfImage.ready = FullHardware
        BY DEF StatusOfImage
      <4>3. status'.ready => FullHardware
        BY <4>1, <4>2, Zenon
      <4> QED BY <4>1, <4>3 DEF StatusInv, FullHardware
    <3>2. CASE LoadImage
      BY <3>2 DEF LoadImage, NoStatus, StatusInv
    <3>3. CASE ~GetStatus /\ ~LoadImage
      <4>1. UNCHANGED <<env, status>>
        BY <1>3, <3>3, OtherSteps
      <4> QED BY <1>1, <4>1 DEF StatusInv, FullHardware
    <3> QED BY <3>1, <3>2, <3>3
  <2>2. BitsInv'
    <3>1. CASE SuccessResponse
      <4>1. response'.bits = ResultBits /\ result' = result
        BY <3>1 DEF SuccessResponse, device
      <4> QED BY <4>1 DEF BitsInv, ResultBits
    <3>2. CASE ~SuccessResponse
      <4>1. response'.kind # "ok"
        BY <1>1, <1>3, <3>2, AnswerEnds, Steps DEF Errs, AnswerInv, NoResponse
      <4> QED BY <4>1 DEF BitsInv
    <3> QED BY <3>1, <3>2
  <2>3. RefusalInv'
    <3> SUFFICES ASSUME stage' = "answered", response'.kind # "ok"
                 PROVE  response'.code \in DeviceFails \/ Reason'
      BY DEF RefusalInv, DeviceFails
    <3>1. stage # "answered"
      BY <1>3, AnswerEnds
    <3>2. Errs
      BY <1>1, <1>3, <3>1, ErrorStages
    <3>3. Reason' = Reason
      BY <3>2, ReasonStays DEF Errs
    <3> QED BY <1>3, <3>1, <3>3, Reasons
  <2> QED BY <2>1, <2>2, <2>3 DEF ConverseInv
<1> QED BY <1>2, <1>3

(* Why a refusal is justified, and what the bits of an answer are.          *)
THEOREM ConverseInvariant == Spec => []ConverseInv
<1>1. Init => ConverseInv
  BY DEF Init, ConverseInv, StatusInv, BitsInv, RefusalInv, NoStatus, NoResponse
<1>2. HostInv /\ ConverseInv /\ [Next]_vars => ConverseInv'
  BY ConverseStep
<1> QED BY <1>1, <1>2, HostInvariant, PTL DEF Spec

(* As many jobs as the limit leaves.                                        *)
Dispatched ==
  IF request.dispatch_limit \in 1 .. Len(built.jobs) THEN request.dispatch_limit ELSE Len(built.jobs)

(* As many parts fit a whole as go into it.                                 *)
LEMMA WholeParts ==
  ASSUME NEW a \in Nat, NEW b \in Nat \ {0}, NEW c \in Nat, a * b <= c
  PROVE  a <= c \div b
<1> DEFINE q == c \div b
<1>1. q \in Nat /\ c % b = c - b * q
  BY DivMod
<1>2. c % b \in 0 .. b - 1
  OBVIOUS
<1> HIDE DEF q
<1>3. ASSUME q < a
      PROVE  FALSE
  <2>1. (q + 1) * b <= a * b
    BY <1>1, <1>3, Times
  <2>2. (q + 1) * b = b * q + b /\ b * q \in Nat /\ a * b \in Nat
    BY <1>1
  <2> QED BY <1>1, <1>2, <2>1, <2>2
<1> QED BY <1>1, <1>3 DEF q

(* The hardware accepts a batch that passed the checks of the driver, and   *)
(* computes its counts without a wrap.                                      *)
LEMMA LaunchAccepted ==
  ASSUME HostInv, Place = "wait"
  PROVE  /\ LaunchError(regs) = ERR_NONE /\ Accepted = Dispatched
         /\ DroppedCount(regs) = Len(built.jobs) - Dispatched
         /\ Dispatched \in 1 .. Len(built.jobs) /\ Len(built.jobs) \in 1 .. MaxJobs
<1> DEFINE n == Len(built.jobs)
<1>1. TypeInv /\ BuiltInv /\ LaunchInv
  BY DEF HostInv
<1>2. /\ built.jobs # <<>> /\ n <= MaxJobs /\ Len(built.message) <= MESSAGE_SIZE
      /\ built.jobs \in Seq([key : Seq(Bytes), sig : Seq(Bytes)]) /\ built.message \in Seq(Bytes)
      /\ request.dispatch_limit \in 0 .. MaxJobs
  BY <1>1 DEF BuiltInv, TypeInv, Batches, Requests, Decoding
<1>3. n \in 1 .. MaxJobs /\ MaxJobs \in Nat \ {0}
  BY <1>2, Sizes
<1>4. /\ regs.message_length = Len(built.message) /\ regs.job_count = n
      /\ regs.limit = request.dispatch_limit
  BY <1>1 DEF LaunchInv, Running
<1>5. MaxJobs <= RamJobs
  <2>1. /\ RamJobs = JobSize \div JobBytes /\ MaxJobs * JobBytes <= JobSize
        /\ JobBytes \in Nat \ {0} /\ JobSize \in Nat
    BY HostAssumption, Sizes
  <2> QED BY <1>3, <2>1, WholeParts
<1>6. RequestedU8(regs) = n
  <2> HIDE DEF n
  <2>1. n \in Nat /\ MaxJobs \in Nat /\ n <= MaxJobs
    BY <1>3
  <2>2. n % (MaxJobs + 1) = n
    BY ONLY <2>1
  <2> QED BY <1>4, <2>2 DEF RequestedU8
<1>7. DispatchCount(regs) = Dispatched /\ Dispatched \in 1 .. n
  BY <1>2, <1>3, <1>4, <1>6 DEF DispatchCount, LimitEffective, Dispatched
<1>8. DroppedCount(regs) = n - Dispatched
  BY <1>6, <1>7 DEF DroppedCount
<1>9. LaunchError(regs) = ERR_NONE
  <2>1. ~(regs.message_length > MaxMessage)
    BY <1>2, <1>4, Sizes DEF MESSAGE_SIZE
  <2>2. ~(regs.job_count = 0 \/ regs.job_count > MaxJobs)
    BY <1>3, <1>4
  <2>3. ~(DispatchCount(regs) > RamJobs)
    BY <1>3, <1>5, <1>7, LaunchAssumption
  <2> QED BY <2>1, <2>2, <2>3 DEF LaunchError
<1>10. Accepted = Dispatched
  BY <1>7, <1>9 DEF Accepted
<1> QED BY <1>3, <1>7, <1>8, <1>9, <1>10

(* Without a watchdog a batch judges every job it accepts.                  *)
LEMMA WholeBatch ==
  ASSUME HostInv, Place = "wait", request.job_timeout_cycles = 0
  PROVE  /\ result.result_valid /\ ~result.error
         /\ result.accepted = Dispatched /\ result.dropped = Len(built.jobs) - Dispatched
         /\ \A j \in 1 .. Dispatched : j \in result.mask <=> JobVerified(j)
<1>1. LaunchError(regs) = ERR_NONE /\ Accepted = Dispatched
      /\ DroppedCount(regs) = Len(built.jobs) - Dispatched
  BY LaunchAccepted
<1>2. result \in Results /\ regs.timeout = 0
  BY DEF HostInv, LaunchInv, Running
<1>3. \E judged \in {1 .. Accepted} :
        result = [error |-> judged # 1 .. Accepted, result_valid |-> TRUE, accepted |-> Accepted,
                  dropped |-> DroppedCount(regs), mask |-> {j \in judged : JobVerified(j)}]
  BY <1>1, <1>2, Zenon DEF Results
<1>4. result = [error |-> 1 .. Accepted # 1 .. Accepted, result_valid |-> TRUE, accepted |-> Accepted,
                dropped |-> DroppedCount(regs), mask |-> {j \in 1 .. Accepted : JobVerified(j)}]
  BY <1>3, Zenon
<1>5. /\ result.result_valid /\ ~result.error /\ result.accepted = Accepted
      /\ result.dropped = DroppedCount(regs) /\ result.mask = {j \in 1 .. Accepted : JobVerified(j)}
  BY <1>4
<1> QED BY <1>1, <1>5

(* No reason is left to refuse a proper request that fits.                  *)
LEMMA NoReason ==
  ASSUME HostInv, FormatInv, FullHardware, Proper, Fits
  PROVE  ~Reason
<1>1. ParserInv /\ TypeInv
  BY DEF HostInv
<1>2. request.json /\ request.decodes /\ request.timeout_ms # 0
  BY DEF Proper
<1>3. ASSUME Transaction, verdict # "none"
      PROVE  verdict = "ok" /\ count < ByteMod /\ count > 0
  <2>1. WellFormed /\ Signers # {}
    BY <1>3 DEF Proper
  <2>2. verdict = "ok" /\ count < ByteMod
    BY <1>1, <1>3, <2>1, TransactionAccepted
  <2> DEFINE r == <<count, SigStart, HeaderStart, KeyStart>>
  <2>3. Readings = {r} /\ r[1] = count /\ count \in Nat
    BY <1>1, <2>2, AcceptedReading DEF ParserInv, ParserTypeOK
  <2> HIDE DEF r
  <2>4. PICK x : x \in Signers
    BY <2>1
  <2>5. PICK i \in 0 .. r[1] - 1 : TRUE
    BY <2>3, <2>4 DEF Signers
  <2> QED BY <2>2, <2>3, <2>5
<1>4. ~Transaction => ~BadBatch
  BY DEF Proper, BadBatch
<1>5. ~TooLarge
  <2> SUFFICES ASSUME TooLarge PROVE FALSE
    OBVIOUS
  <2>1. built = Built /\ (Transaction => verdict = "ok")
    BY DEF TooLarge
  <2>2. Transaction => count < ByteMod
    BY <1>3, <2>1
  <2>3. AskedMessage = built.message /\ AskedJobs = built.jobs
    BY <1>1, <2>1, <2>2, BuiltIsAsked DEF TypeInv
  <2>4. Len(built.message) \in Nat /\ Len(built.jobs) \in Nat /\ MESSAGE_SIZE \in Nat /\ MaxJobs \in Nat
    BY <1>1, Sizes DEF TypeInv, Batches
  <2> QED BY <2>3, <2>4 DEF TooLarge, Fits
<1> QED BY <1>2, <1>3, <1>4, <1>5 DEF Reason

(* The answer to a request that is not refused.                             *)
LEMMA DeviceAnswer ==
  ASSUME HostInv, FormatInv, BitsInv, stage = "answered", response.kind = "ok",
         request.job_timeout_cycles = 0
  PROVE  LET n == Len(AskedJobs)
             m == IF request.dispatch_limit \in 1 .. n THEN request.dispatch_limit ELSE n
         IN  /\ DOMAIN response.bits = 1 .. m
             /\ \A i \in 1 .. m : response.bits[i] <=> AskedGenuine(i)
             /\ response.verified <=> m = n /\ \A i \in 1 .. n : AskedGenuine(i)
<1> DEFINE n == Len(built.jobs)
<1>1. Place = "wait"
  BY DEF Place
<1>2. AskedMessage = built.message /\ AskedJobs = built.jobs
  BY <1>1, RunsProper
<1>3. \A i \in 1 .. n : JobVerified(i) <=> AskedGenuine(i)
  BY <1>1, <1>2, JobOnDevice DEF AskedGenuine
<1>4. Dispatched \in 1 .. n /\ n \in Nat
  BY <1>1, LaunchAccepted
<1>5. /\ result.result_valid /\ ~result.error
      /\ result.accepted = Dispatched /\ result.dropped = n - Dispatched
      /\ \A j \in 1 .. Dispatched : j \in result.mask <=> JobVerified(j)
  BY <1>1, WholeBatch
<1>6. /\ DOMAIN ResultBits = 1 .. Dispatched
      /\ \A j \in 1 .. Dispatched : ResultBits[j] <=> AskedGenuine(j)
  <2>1. DOMAIN ResultBits = 1 .. Dispatched
    BY <1>5 DEF ResultBits
  <2>2. \A j \in 1 .. Dispatched : ResultBits[j] = (j \in result.mask)
    BY <1>5 DEF ResultBits
  <2>3. \A j \in 1 .. Dispatched : ResultBits[j] <=> JobVerified(j)
    BY <1>5, <2>2
  <2>4. \A j \in 1 .. Dispatched : j \in 1 .. n
    BY <1>4
  <2> HIDE DEF n
  <2> QED BY <1>3, <2>1, <2>3, <2>4
<1>7. response.bits = ResultBits
  BY DEF BitsInv
<1>8. response.verified = AllSignersVerified
  BY DEF HostInv, AnswerInv
<1>9. ResultBits # <<>>
  BY <1>4, <1>6
<1>10. AllSignersVerified <=> Dispatched = n /\ \A i \in 1 .. n : AskedGenuine(i)
  <2>1. n - Dispatched = 0 <=> Dispatched = n
    BY <1>4
  <2> QED BY <1>5, <1>6, <1>9, <2>1 DEF AllSignersVerified
<1>11. response.verified <=> Dispatched = n /\ \A i \in 1 .. n : AskedGenuine(i)
  BY <1>8, <1>10, Zenon
<1>12. Dispatched = IF request.dispatch_limit \in 1 .. n THEN request.dispatch_limit ELSE n
  BY DEF Dispatched
<1> HIDE DEF n
<1>13. Len(AskedJobs) = n
  BY <1>2 DEF n
<1> QED BY <1>6, <1>7, <1>11, <1>12, <1>13

(* If the last status answer was "ready" and the image is still that one, a *)
(* proper request that fits is answered by the device: unless a device file *)
(* fails or time runs out, the bits of the answer are those of the jobs not *)
(* cut off by the limit, and it says "verified" if the limit leaves all of  *)
(* them and all are genuine.                                                *)
THEOREM AnswersComplete == Spec => []AnswerComplete
<1>1. HostInv /\ FormatInv /\ ConverseInv => AnswerComplete
  <2> SUFFICES ASSUME HostInv, FormatInv, ConverseInv, Answered, status.ready, Proper, Fits,
                      response.code \notin DeviceFails
               PROVE  /\ response.kind = "ok"
                      /\ request.job_timeout_cycles = 0 =>
                           LET n == Len(AskedJobs)
                               m == IF request.dispatch_limit \in 1 .. n THEN request.dispatch_limit ELSE n
                           IN  /\ DOMAIN response.bits = 1 .. m
                               /\ \A i \in 1 .. m : response.bits[i] <=> AskedGenuine(i)
                               /\ response.verified <=> m = n /\ \A i \in 1 .. n : AskedGenuine(i)
    BY DEF AnswerComplete, DeviceFails
  <2>1. stage = "answered" /\ FullHardware /\ BitsInv /\ RefusalInv
    BY DEF ConverseInv, StatusInv, Answered
  <2>2. ~Reason
    BY <2>1, NoReason
  <2>3. response.kind = "ok"
    BY <2>1, <2>2 DEF RefusalInv
  <2> QED BY <2>1, <2>3, DeviceAnswer
<1> QED BY <1>1, HostInvariant, HostFormat, ConverseInvariant, PTL
=============================================================================
