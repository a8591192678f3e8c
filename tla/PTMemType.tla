----------------------------- MODULE PTMemType ------------------------------
(***************************************************************************)
(* The functions of ptedit.c on the value of the PAT (MAIR_EL1 on aarch64) *)
(* register: eight bytes, of which byte i is memory-type attribute i.      *)
(***************************************************************************)
EXTENDS PTEntry, FiniteSetsExt

Ids == 0..7

\* PTEDIT_MT_*
MT_UC == IF Arch = "x86_64" THEN {} ELSE {2, 6}
MT_WC == {0}
MT_WT == IF Arch = "x86_64" THEN {2} ELSE {0, 1, 3, 4, 5, 7}
MT_WP == {0, 2}
MT_WB == IF Arch = "x86_64" THEN {1, 2} ELSE 0..7
MT_UCMINUS == {0, 1, 2}

\* On x86_64 the upper five bits of each byte are reserved.
MtWidth == IF Arch = "x86_64" THEN 3 ELSE 8

MtValue(w, i) == Field(w, 8 * i, MtWidth)

\* i << n for an int.  From 32 on the result is undefined in C: the shift
\* instruction takes n modulo 32, constant folding makes it zero.
IntShl(i, n) == {b + n : b \in {c \in i : c + n \in IntBits}}
IntShlOutcomes(i, n) == IF n < 32 THEN {IntShl(i, n)} ELSE {IntShl(i, n % 32), {}}

\* mts &= ~(7 << (mt * 8)), in which ~ is applied to an int and the result
\* converted to size_t; then mts |= (size_t)value << (mt * 8).
SetMtOutcomes(w, mt, value) ==
  {(w \cap SignExtend(IntNot(k))) \cup Shl(value, 8 * mt) :
     k \in IntShlOutcomes(Mask(0, MtWidth), 8 * mt)}

\* aarch64 also matches a byte of two equal halves, each of them the type.
FindMtShort(w, type) == {i \in 0..6 : MtValue(w, i) = type}     \* erroneous: i < 7
ptedit_find_mt(w, type) ==
  {i \in Ids : \/ MtValue(w, i) = type
               \/ /\ Arch = "aarch64"
                  /\ Field(w, 8 * i, 4) = type /\ Field(w, 8 * i + 4, 4) = type}

\* -1 if there is none.
ptedit_find_first_mt(w, type) ==
  LET found == ptedit_find_mt(w, type) IN IF found = {} THEN -1 ELSE Min(found)

\* GET_PAT reads two halves into ints; or-ing the lower one sign-extends it.
GetPat(w) ==
  IF Arch = "x86_64" THEN SignExtend(w \cap IntBits) \cup (w \ IntBits) ELSE w

\* An attribute number as the argument of ptedit_apply_mt.
IdBits(i) == {b \in MtIndex : (i \div 2^b) % 2 = 1}
IdOf(bits) == CHOOSE i \in Ids : IdBits(i) = bits
=============================================================================
