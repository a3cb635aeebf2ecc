--------------------------- MODULE RuntimeBitset ---------------------------
(***************************************************************************)
(* class RuntimeBitset: the neighbors of a node as bytes, which is how     *)
(* graphs keep them and packets carry them.  A bitset is its bitCount and  *)
(* the content of its bytes; bit 0 is the highest bit of byte 0 (the       *)
(* build without bit-banding).  Everywhere else the modules take a bitset  *)
(* for the set of its bits, which BitsetsAreSets justifies.                *)
(***************************************************************************)
EXTENDS Integers, FiniteSets

ByteSize(size) == (size + 7) \div 8

\* The constructors and setAll; "RuntimeBitset won't work" for a size that is
\* not a multiple of eight: the bits that fill the last byte count as well.
Bitset(size, init) ==
    [bitCount |-> size, content |-> [i \in 0..(ByteSize(size) - 1) |-> IF init THEN 255 ELSE 0]]
SetAll(b, value) == Bitset(b.bitCount, value)

LOCAL Mask(i) == 128 \div 2 ^ (i % 8)

\* operator[] on the right and on the left of an assignment.
Bit(b, i) == (b.content[i \div 8] \div Mask(i)) % 2 = 1
AssignBit(b, i, value) ==
    [b EXCEPT !.content[i \div 8] =
        @ + (IF value THEN Mask(i) ELSE 0) - (IF Bit(b, i) THEN Mask(i) ELSE 0)]

IsEmpty(b) == \A i \in DOMAIN b.content : b.content[i] = 0

\* operator==, by memcmp.
EqualBits(a, b) == a.bitCount = b.bitCount /\ a.content = b.content
-----------------------------------------------------------------------------
Bits(b) == {i \in 0..(b.bitCount - 1) : Bit(b, i)}

\* With one and two bytes: an assignment adds or removes one bit and no other,
\* emptiness and equality are those of the sets of bits, and a round of
\* assignments can be undone.
ASSUME BitsetsAreSets ==
    \A size \in {8, 16} : \A init \in BOOLEAN : \A i, j \in 0..(size - 1) : \A v, w \in BOOLEAN :
        LET b == AssignBit(AssignBit(Bitset(size, init), i, v), j, w)
            all == IF init THEN 0..(size - 1) ELSE {}
            first == IF v THEN all \cup {i} ELSE all \ {i}
            both == IF w THEN first \cup {j} ELSE first \ {j}
        IN  /\ Bits(b) = both
            /\ IsEmpty(b) <=> both = {}
            /\ EqualBits(b, SetAll(b, init)) <=> both = all
=============================================================================
