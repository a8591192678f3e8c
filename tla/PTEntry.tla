------------------------------- MODULE PTEntry ------------------------------
(***************************************************************************)
(* A page-table entry and the functions of ptedit.c that read and change   *)
(* one: the page-frame number, the memory type and single flag bits.  All  *)
(* bit positions are those of ptedit.h.                                    *)
(***************************************************************************)
EXTENDS PTWord

CONSTANT Arch           \* the #if branch compiled in

ASSUME ArchAssumption == Arch \in {"x86_64", "aarch64"}

PRESENT == 0
RW == 1
USER == 2
PWT == 3
PCD == 4
ACCESSED == IF Arch = "x86_64" THEN 5 ELSE 10
DIRTY == 6
PSE == 7
PAT == 7
PAT_LARGE == 12
NX == 63

\* The PTEDIT_PAGE_BIT_* constants of the architecture.
PageBits ==
  IF Arch = "x86_64" THEN (0..12) \cup (58..63) ELSE (0..11) \cup (52..63)

-----------------------------------------------------------------------------
(* Page-frame numbers *)

PfnWidth == IF Arch = "x86_64" THEN 40 ELSE 36

\* A plausible error: the cleared mask has the width of the cast structure.
SetPfnNarrowMask(pte, pfn) == (pte \ Mask(12, 28)) \cup Shl(pfn, 12)

ptedit_set_pfn(pte, pfn) == (pte \ Mask(12, PfnWidth)) \cup Shl(pfn, 12)

ptedit_get_pfn(pte) == Shr(pte \cap Mask(12, PfnWidth), 12)

\* The pfn bit field of ptedit_pte_t (and of the pgd, p4d, pud and pmd types).
CastPfnWidth == IF Arch = "x86_64" THEN 28 ELSE 36
ptedit_cast_pfn(entry) == Field(entry, 12, CastPfnWidth)

\* The pfn bit field of ptedit_pmd_large_t, counted in 2 MB frames.
LargePfnWidth == IF Arch = "x86_64" THEN 19 ELSE 27
ptedit_cast_large_pfn(entry) == Field(entry, 21, LargePfnWidth)

-----------------------------------------------------------------------------
(* Memory types: a 3-bit index into the PAT or the MAIR, as a set of its   *)
(* one bits, scattered over the entry on x86_64 and contiguous on aarch64. *)

MtIndex == 0..2

MtBit(i, huge) ==
  IF Arch = "aarch64" THEN i + 2
  ELSE IF i = 0 THEN PWT
  ELSE IF i = 1 THEN PCD
  ELSE IF huge THEN PAT_LARGE ELSE PAT

MtBits(huge) == {MtBit(i, huge) : i \in MtIndex}

ptedit_apply_mt(entry, mt) ==
  (entry \ MtBits(FALSE)) \cup {MtBit(i, FALSE) : i \in mt \cap MtIndex}

ptedit_apply_mt_huge(entry, mt) ==
  (entry \ MtBits(TRUE)) \cup {MtBit(i, TRUE) : i \in mt \cap MtIndex}

ptedit_extract_mt(entry) == {i \in MtIndex : MtBit(i, FALSE) \in entry}

ptedit_extract_mt_huge(entry) == {i \in MtIndex : MtBit(i, TRUE) \in entry}
=============================================================================
