------------------------------- MODULE Parser -------------------------------
(***************************************************************************)
(* parse_transaction of parser.rs: one pass over the bytes of a serialized *)
(* transaction, one step per field or list item.  The jobs it returns are  *)
(* positions of a public key and of a signature in those bytes.            *)
(*                                                                         *)
(* Sizes are parameters.  In the code a byte carries seven bits of a       *)
(* length (GroupBase 2^7), lengths end at 2^16 - 1, a key, a block hash or *)
(* an address has 32 bytes and a signature 64.                             *)
(***************************************************************************)
EXTENDS Integers, Sequences

CONSTANTS
  GroupBase,   (* weight of the second byte of a length                     *)
  U16Max,      (* largest length                                            *)
  KeyBytes,
  SigBytes,
  Inputs       (* byte strings offered to the parser                        *)

ByteMod == 2 * GroupBase
Bytes == 0 .. ByteMod - 1

ASSUME ParserAssumption ==
  /\ GroupBase \in Nat \ {0, 1}
  /\ U16Max \in Nat
  /\ KeyBytes \in Nat \ {0} /\ SigBytes \in Nat \ {0}
  /\ Inputs \subseteq Seq(Bytes)

VARIABLES
  data,      (* transaction_bytes                                           *)
  pc,        (* the field that comes next                                   *)
  offset,    (* bytes consumed                                              *)
  left,      (* items of the current list still to come                     *)
  count,     (* num_signatures                                              *)
  sigs,      (* where each signature starts                                 *)
  keys,      (* where each static account key starts                        *)
  body,      (* where the message starts                                    *)
  version,
  required,  (* num_required_signatures                                     *)
  verdict    (* "none", "ok", "error", or "panic"                           *)

parser == <<data, pc, offset, left, count, sigs, keys, body, version, required, verdict>>

Bad == -1    (* no offset: the bytes ended, or a length was malformed       *)
-----------------------------------------------------------------------------
(* The bytes of one length, from the position at on: the last one, and only *)
(* it, has no continuation bit; there are at most three.                    *)
Byte(at) == data[at + 1]

Groups(at) ==
  {n \in 1 .. 3 : /\ at + n <= Len(data)
                  /\ Byte(at + n - 1) < GroupBase
                  /\ \A i \in 1 .. n - 1 : Byte(at + i - 1) >= GroupBase}

Group(at, i) == Byte(at + i) % GroupBase

Value(at, n) ==
  CASE n = 1 -> Group(at, 0)
    [] n = 2 -> Group(at, 0) + GroupBase * Group(at, 1)
    [] n = 3 -> Group(at, 0) + GroupBase * Group(at, 1) + GroupBase * GroupBase * Group(at, 2)

(* decode_compact_u16: the value, and where it ends. *)
(* Mutant: a third byte is not understood. *)
CompactTwoBytes(at) ==
  IF \E n \in Groups(at) : n < 3 /\ Value(at, n) <= U16Max
  THEN LET n == CHOOSE n \in Groups(at) : TRUE IN [value |-> Value(at, n), next |-> at + n]
  ELSE [value |-> 0, next |-> Bad]
Compact(at) ==
  IF \E n \in Groups(at) : Value(at, n) <= U16Max
  THEN LET n == CHOOSE n \in Groups(at) : TRUE IN [value |-> Value(at, n), next |-> at + n]
  ELSE [value |-> 0, next |-> Bad]

Take(at, size) == IF at = Bad \/ at + size > Len(data) THEN Bad ELSE at + size

(* A length and that many bytes. *)
SkipVector(at) ==
  IF at = Bad \/ Compact(at).next = Bad THEN Bad ELSE Take(Compact(at).next, Compact(at).value)

(* Program index, account indices, data. *)
SkipInstruction(at) == SkipVector(SkipVector(Take(at, 1)))

(* Account key, writable indices, read-only indices. *)
SkipLookup(at) == SkipVector(SkipVector(Take(at, KeyBytes)))

(* encode_compact_u16, for the tests and for whoever builds a transaction. *)
EncodeCompact(value) ==
  CASE value < GroupBase -> <<value>>
    [] value \in GroupBase .. GroupBase^2 - 1 ->
         <<GroupBase + (value % GroupBase), value \div GroupBase>>
    [] OTHER ->
         <<GroupBase + (value % GroupBase), GroupBase + ((value \div GroupBase) % GroupBase),
           value \div GroupBase^2>>
-----------------------------------------------------------------------------
ParserInit ==
  /\ data \in Inputs
  /\ pc = "count"
  /\ offset = 0 /\ left = 0 /\ count = 0 /\ body = 0 /\ required = 0
  /\ sigs = <<>> /\ keys = <<>>
  /\ version = "legacy" /\ verdict = "none"

At(field) == pc = field

(* A list: its length, its items, and the field after it.                   *)
ListLength(field, items) ==
  /\ At(field) /\ Compact(offset).next # Bad
  /\ pc' = items
  /\ left' = Compact(offset).value /\ offset' = Compact(offset).next

Item(items, next) ==
  /\ At(items) /\ left > 0 /\ next # Bad
  /\ left' = left - 1 /\ offset' = next
  /\ UNCHANGED pc

ListEnd(items, field) ==
  /\ At(items) /\ left = 0
  /\ pc' = field
  /\ UNCHANGED <<offset, left>>

CountSignatures ==
  /\ ListLength("count", "signatures")
  /\ count' = left'
  /\ UNCHANGED <<data, sigs, keys, body, version, required, verdict>>

TakeSignature ==
  /\ Item("signatures", Take(offset, SigBytes))
  /\ sigs' = Append(sigs, offset)
  /\ UNCHANGED <<data, count, keys, body, version, required, verdict>>

(* parse_message gets the bytes from here on. *)
BeginMessage ==
  /\ ListEnd("signatures", "version")
  /\ body' = offset
  /\ UNCHANGED <<data, count, sigs, keys, version, required, verdict>>

(* A first byte with the top bit set names a version, of which 0 is known.  *)
KnownVersion == offset < Len(data) /\ Byte(offset) <= GroupBase

ReadVersion ==
  /\ At("version") /\ KnownVersion
  /\ pc' = "header"
  /\ version' = IF Byte(offset) = GroupBase THEN "v0" ELSE "legacy"
  /\ offset' = IF Byte(offset) = GroupBase THEN offset + 1 ELSE offset
  /\ UNCHANGED <<data, left, count, sigs, keys, body, required, verdict>>

ReadHeader ==
  /\ At("header") /\ Take(offset, 3) # Bad
  /\ pc' = "key_count"
  /\ required' = Byte(offset) /\ offset' = Take(offset, 3)
  /\ UNCHANGED <<data, left, count, sigs, keys, body, version, verdict>>

CountKeys ==
  /\ ListLength("key_count", "keys")
  /\ UNCHANGED <<data, count, sigs, keys, body, version, required, verdict>>

TakeKey ==
  /\ Item("keys", Take(offset, KeyBytes))
  /\ keys' = Append(keys, offset)
  /\ UNCHANGED <<data, count, sigs, body, version, required, verdict>>

EndKeys ==
  /\ ListEnd("keys", "blockhash")
  /\ UNCHANGED <<data, count, sigs, keys, body, version, required, verdict>>

TakeBlockhash ==
  /\ At("blockhash") /\ Take(offset, KeyBytes) # Bad
  /\ pc' = "instruction_count" /\ offset' = Take(offset, KeyBytes)
  /\ UNCHANGED <<data, left, count, sigs, keys, body, version, required, verdict>>

CountInstructions ==
  /\ ListLength("instruction_count", "instructions")
  /\ UNCHANGED <<data, count, sigs, keys, body, version, required, verdict>>

TakeInstruction ==
  /\ Item("instructions", SkipInstruction(offset))
  /\ UNCHANGED <<data, count, sigs, keys, body, version, required, verdict>>

(* Only a v0 message has address table lookups. *)
EndInstructions ==
  /\ ListEnd("instructions", IF version = "v0" THEN "lookup_count" ELSE "check")
  /\ UNCHANGED <<data, count, sigs, keys, body, version, required, verdict>>

CountLookups ==
  /\ ListLength("lookup_count", "lookups")
  /\ UNCHANGED <<data, count, sigs, keys, body, version, required, verdict>>

TakeLookup ==
  /\ Item("lookups", SkipLookup(offset))
  /\ UNCHANGED <<data, count, sigs, keys, body, version, required, verdict>>

EndLookups ==
  /\ ListEnd("lookups", "check")
  /\ UNCHANGED <<data, count, sigs, keys, body, version, required, verdict>>

(* The last three checks: nothing is left over, the signature count, cut to *)
(* a byte, is the one in the header, and each signer has a key.             *)
Consistent ==
  /\ offset = Len(data)
  /\ count % ByteMod = required
  /\ Len(keys) >= required

End(outcome) ==
  /\ pc' = "end" /\ verdict' = outcome
  /\ UNCHANGED <<data, offset, left, count, sigs, keys, body, version, required>>

(* Each signature is paired with the key of its index; an index past the    *)
(* keys panics.                                                             *)
BuildJobs ==
  /\ At("check") /\ Consistent
  /\ End(IF Len(sigs) <= Len(keys) THEN "ok" ELSE "panic")

(* Any field that cannot be read, and any check that fails, is an error.    *)
Fault ==
  \/ pc \in {"count", "key_count", "instruction_count", "lookup_count"} /\ Compact(offset).next = Bad
  \/ At("signatures") /\ left > 0 /\ Take(offset, SigBytes) = Bad
  \/ At("version") /\ ~KnownVersion
  \/ At("header") /\ Take(offset, 3) = Bad
  \/ At("keys") /\ left > 0 /\ Take(offset, KeyBytes) = Bad
  \/ At("blockhash") /\ Take(offset, KeyBytes) = Bad
  \/ At("instructions") /\ left > 0 /\ SkipInstruction(offset) = Bad
  \/ At("lookups") /\ left > 0 /\ SkipLookup(offset) = Bad
  \/ At("check") /\ ~Consistent

Reject == Fault /\ End("error")

ParserNext ==
  \/ CountSignatures \/ TakeSignature \/ BeginMessage
  \/ ReadVersion \/ ReadHeader
  \/ CountKeys \/ TakeKey \/ EndKeys \/ TakeBlockhash
  \/ CountInstructions \/ TakeInstruction \/ EndInstructions
  \/ CountLookups \/ TakeLookup \/ EndLookups
  \/ BuildJobs \/ Reject

ParserSpec == ParserInit /\ [][ParserNext]_parser /\ WF_parser(ParserNext)
=============================================================================
