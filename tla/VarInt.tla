------------------------------- MODULE VarInt -------------------------------
(***************************************************************************)
(* The VarInt encoding (Types/TVarInt.cpp, Packet::varInt and the header   *)
(* of Packet::send): a number cut into segments, least significant first,  *)
(* each byte with a bit that says whether another follows.                 *)
(*                                                                         *)
(* A number is written byte by byte, by the server or by a peer, and then  *)
(* read back byte by byte with readVarIntRaw.  The server writes an        *)
(* int32_t and shifts it arithmetically; a peer (external) shifts the same *)
(* bits logically, as the protocol wants it.  The widths are parameters,   *)
(* 32 and 7 in the code: TLC's numbers have 32 bits themselves.            *)
(* PacketStream composes these steps with what follows the number.         *)
(***************************************************************************)
EXTENDS Integers, Sequences

CONSTANTS
  Width,      \* bits of an int32_t
  Segment,    \* bits of a segment: SEGMENT_BITS is 2^Segment - 1
  MaxBytes    \* bound: bytes written before the model stops writing

ASSUME VarIntAssumption ==
  /\ Width \in Nat \ {0}
  /\ Segment \in 1..Width
  /\ MaxBytes \in Nat

VARIABLES
  writer,     \* who writes: "server" or "peer"
  given,      \* the number to be written
  content,    \* what is left of it to write
  bytes,      \* the bytes written
  mode,       \* "write", "read", "done" or "threw"
  value,      \* the bits read so far
  position    \* readVarIntRaw's position

vars == <<writer, given, content, bytes, mode, value, position>>

\* 2^n, what a shift by n bits multiplies with, or divides by.
Power(n) == LET power[k \in 0..n] == IF k = 0 THEN 1 ELSE 2 * power[k - 1]
            IN  power[n]

Bits     == 0..(Power(Width) - 1)
Int32    == -Power(Width - 1)..(Power(Width - 1) - 1)
Segments == 0..(Power(Segment) - 1)

Byte == [bits : Segments, more : BOOLEAN]

\* The int32_t with the given bits.
Signed(b) == IF b < Power(Width - 1) THEN b ELSE b - Power(Width)

\* The number of segments of an unsigned number.
sizeVarInt[b \in Bits] ==
  IF b \in Segments THEN 1 ELSE 1 + sizeVarInt[b \div Power(Segment)]

Init == /\ writer \in {"server", "peer"}
        /\ given \in Int32
        /\ content = IF writer = "server" THEN given ELSE given % Power(Width)
        /\ bytes = <<>>
        /\ mode = "write"
        /\ value = 0
        /\ position = 0

\* What is left fits into one segment: the last byte.
WriteLast ==
  /\ mode = "write"
  /\ content \in Segments
  /\ bytes' = Append(bytes, [bits |-> content, more |-> FALSE])
  /\ mode' = "read"
  /\ UNCHANGED <<writer, given, content, value, position>>

\* Mutant: the shift is forgotten when only one more byte is left.
WriteSegmentShort ==
  /\ mode = "write"
  /\ content > Power(Segment)
  /\ Len(bytes) < MaxBytes
  /\ bytes' = Append(bytes, [bits |-> content % Power(Segment), more |-> TRUE])
  /\ content' = content \div Power(Segment)
  /\ UNCHANGED <<writer, given, mode, value, position>>

\* Mutant: the segment is not masked out of the number.
WriteSegmentUnmasked ==
  /\ mode = "write"
  /\ content \notin Segments
  /\ Len(bytes) < MaxBytes
  /\ bytes' = Append(bytes, [bits |-> content, more |-> TRUE])
  /\ content' = content \div Power(Segment)
  /\ UNCHANGED <<writer, given, mode, value, position>>

\* \div rounds down, as >> does for negative numbers too.
WriteSegment ==
  /\ mode = "write"
  /\ content \notin Segments
  /\ Len(bytes) < MaxBytes
  /\ bytes' = Append(bytes, [bits |-> content % Power(Segment), more |-> TRUE])
  /\ content' = content \div Power(Segment)
  /\ UNCHANGED <<writer, given, mode, value, position>>

\* The next byte: its bits are shifted into place, those beyond the width of
\* the number are lost, and a sixth byte is refused.
NextByte == bytes[position \div Segment + 1]

\* Mutant: the limit is taken one segment too early.
ReadByteShort ==
  /\ mode = "read"
  /\ value' = (value + NextByte.bits * Power(position)) % Power(Width)
  /\ position' = position + Segment
  /\ mode' = IF ~NextByte.more                       THEN "done"
             ELSE IF position + 2 * Segment > Width THEN "threw"
             ELSE "read"
  /\ UNCHANGED <<writer, given, content, bytes>>

ReadByte ==
  /\ mode = "read"
  /\ value' = (value + NextByte.bits * Power(position)) % Power(Width)
  /\ position' = position + Segment
  /\ mode' = IF ~NextByte.more                   THEN "done"
             ELSE IF position + Segment >= Width THEN "threw"
             ELSE "read"
  /\ UNCHANGED <<writer, given, content, bytes>>

WriteNumber == WriteLast \/ WriteSegment

-----------------------------------------------------------------------------
TypeOK == /\ writer \in {"server", "peer"}
          /\ given \in Int32
          /\ content \in Int32 \cup Bits
          /\ bytes \in Seq(Byte)
          /\ mode \in {"write", "read", "done", "threw"}
          /\ value \in Bits
          /\ position \in Nat

\* Every number arrives as what it was, and in the number of bytes sizeVarInt
\* foretells: packet lengths and the buffer of Packet::send rely on it.
ArrivesIntact ==
  /\ mode # "threw"
  /\ mode = "done" => /\ Signed(value) = given
                      /\ Len(bytes) = sizeVarInt[given % Power(Width)]
=============================================================================
