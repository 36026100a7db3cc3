----------------------------- MODULE ByteBuffer ------------------------------
(***************************************************************************)
(* Buffer::ibuffer (codec/buffer.hpp): bytes that somebody else owns and a    *)
(* cursor into them.  Nothing in a read looks at the end of the buffer: a     *)
(* read that goes past it yields whatever is in memory there, here Stray.    *)
(* ConsumesTheBuffer (MsgCoding) is why its value never matters.             *)
(***************************************************************************)
EXTENDS Integers, Sequences
LOCAL INSTANCE SequencesExt

Stray == 170

\* A new buffer: the cursor goes back to the start.
Open(bytes) == [bytes |-> bytes, cp |-> 0]

\* No operation left, and the cursor between both ends.
Good(ib) == ib.cp \in 0 .. Len(ib.bytes)
Eof(ib) == ib.cp = Len(ib.bytes)

\* Only the relative direction is ever used.
Seek(ib, off) == [ib EXCEPT !.cp = @ + off]

\* The next bytes, the least significant one first.
Peek(ib, width) ==
  [i \in 1 .. width |-> IF ib.cp + i \in DOMAIN ib.bytes
                        THEN ib.bytes[ib.cp + i] ELSE Stray]

Uint(bytes) == FoldRight(LAMBDA byte, n : byte + 256 * n, bytes, 0)

Bit(bytes, i) == (bytes[(i \div 8) + 1] \div 2 ^ (i % 8)) % 2

\* The 32 bits of a card code: its last bit is no part of the code.
CodeOf(bytes) == Uint([bytes EXCEPT ![4] = @ % 128])

\* An effect description: 4 bits of a string's number under the bits of a
\* code, of which 32 are kept.
EffectCode(bytes) ==
  Uint([i \in 1 .. 4 |-> bytes[i] \div 16 + 16 * (bytes[i + 1] % 16)])
EffectString(bytes) == bytes[1] % 16
=============================================================================
