------------------------------- MODULE PTWord -------------------------------
(***************************************************************************)
(* A size_t is the set of the positions of its one bits.  The operators    *)
(* are the C operators the sources apply to such words: a | b is union,    *)
(* a & b intersection, a & ~b difference, and the two shifts below.        *)
(***************************************************************************)
EXTENDS Integers

Bits == 0..63
Word == SUBSET Bits

\* w << n and w >> n on a 64-bit unsigned word: bits shifted out are lost.
Shl(w, n) == {b + n : b \in {c \in w : c + n \in Bits}}
Shr(w, n) == {b - n : b \in {c \in w : c - n \in Bits}}

\* ((1ull << width) - 1) << low
Mask(low, width) == low .. (low + width - 1)

\* A bit field of the given width at position low, as a number of its own.
Field(w, low, width) == Shr(w \cap Mask(low, width), low)

(***************************************************************************)
(* A 32-bit int, as it appears in expressions such as 7 << (mt * 8).  An   *)
(* int is a set of positions below 32; SignExtend is its conversion to     *)
(* size_t.                                                                 *)
(***************************************************************************)
IntBits == 0..31
IntNot(i) == IntBits \ i
SignExtend(i) == IF 31 \in i THEN i \cup (32..63) ELSE i
=============================================================================
