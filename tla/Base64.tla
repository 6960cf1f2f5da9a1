--------------------------------- MODULE Base64 --------------------------------
(***************************************************************************)
(* The encoder and the decoder of base64 that the REST transport wrote for *)
(* itself (transport/src/nwaku_rest.rs).  A byte is a number below 256, a  *)
(* character of the alphabet its position, and Pad stands for '='.         *)
(***************************************************************************)
EXTENDS Integers, Sequences

LOCAL INSTANCE SequencesExt

CONSTANTS
    Bytes,      \* the bytes payloads are made of
    MaxBytes    \* bound: bytes of a payload

ASSUME Base64Assumption == Bytes \subseteq 0 .. 255 /\ MaxBytes \in Nat

VARIABLE plain      \* the payload to encode

Base64Init == plain = <<>>

Pad == 64

\* data.chunks(n): the last one may be shorter.
ChunksOf(s, n) == [i \in 1 .. (Len(s) + n - 1) \div n |-> SubSeq(s, (i - 1) * n + 1, IF i * n < Len(s) THEN i * n ELSE Len(s))]
Item(c, i) == IF i <= Len(c) THEN c[i] ELSE 0

\* Mutant: both places are padded unless the chunk is full.
EncodeChunkShort(c) ==
    LET triple == Item(c, 1) * 2 ^ 16 + Item(c, 2) * 2 ^ 8 + Item(c, 3)
        digit(shift) == (triple \div 2 ^ shift) % 64
    IN <<digit(18), digit(12), IF Len(c) > 2 THEN digit(6) ELSE Pad, IF Len(c) > 2 THEN digit(0) ELSE Pad>>

EncodeChunk(c) ==
    LET triple == Item(c, 1) * 2 ^ 16 + Item(c, 2) * 2 ^ 8 + Item(c, 3)
        digit(shift) == (triple \div 2 ^ shift) % 64
    IN <<digit(18), digit(12), IF Len(c) > 1 THEN digit(6) ELSE Pad, IF Len(c) > 2 THEN digit(0) ELSE Pad>>

Base64Encode(data) == FlattenSeq([i \in DOMAIN ChunksOf(data, 3) |-> EncodeChunk(ChunksOf(data, 3)[i])])

\* A last chunk of one character is dropped.
DecodeChunk(c) ==
    LET triple == Item(c, 1) * 2 ^ 18 + Item(c, 2) * 2 ^ 12 + Item(c, 3) * 2 ^ 6 + Item(c, 4)
        byte(shift) == (triple \div 2 ^ shift) % 256
    IN SubSeq(<<byte(16), byte(8), byte(0)>>, 1, Len(c) - 1)

\* Characters outside the alphabet are skipped, the padding among them.
Base64Decode(text) ==
    LET digits == SelectSeq(text, LAMBDA d : d # Pad)
    IN FlattenSeq([i \in DOMAIN ChunksOf(digits, 4) |-> DecodeChunk(ChunksOf(digits, 4)[i])])

\* The payload grows by a byte: every payload of up to MaxBytes is reached.
MoreData == Len(plain) < MaxBytes /\ \E b \in Bytes : plain' = Append(plain, b)

-------------------------------------------------------------------------------
(* Properties *)

\* Bit k of a sequence of numbers of w bits, most significant first.
BitOf(s, w, k) == (s[(k - 1) \div w + 1] \div 2 ^ (w - 1 - ((k - 1) % w))) % 2

\* base64_encode is base64 as its standard has it: the bits of the payload in groups of six, filled up
\* with zeros, in groups of four characters filled up with '='; and base64_decode gives the payload
\* back.  What another implementation of Waku decodes is what was published.
Base64IsStandard ==
    LET text == Base64Encode(plain)
        digits == SelectSeq(text, LAMBDA d : d # Pad)
        bits == 8 * Len(plain)
    IN /\ Len(digits) = (bits + 5) \div 6 /\ Len(text) = 4 * ((Len(plain) + 2) \div 3)
       /\ SubSeq(text, 1, Len(digits)) = digits
       /\ \A k \in 1 .. 6 * Len(digits) :
            BitOf(digits, 6, k) = IF k <= bits THEN BitOf(plain, 8, k) ELSE 0
       /\ Base64Decode(text) = plain
===============================================================================
