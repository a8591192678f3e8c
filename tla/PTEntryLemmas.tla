---------------------------- MODULE PTEntryLemmas ---------------------------
(***************************************************************************)
(* Lemmas about the functions on one entry, for both architectures, every  *)
(* entry and every argument the functions accept, and about walks through  *)
(* any page tables.                                                        *)
(***************************************************************************)
EXTENDS PTWalk, PTMemType, WellFoundedInduction, TLAPS

-----------------------------------------------------------------------------
(* Frame numbers *)

\* Bit x of the frame number is bit x + 12 of the entry.
LEMMA GetPfnBits ==
  ASSUME NEW w \in Word, NEW x
  PROVE  x \in ptedit_get_pfn(w) <=> x \in 0 .. PfnWidth - 1 /\ x + 12 \in w
<1>1. PfnWidth \in {36, 40}
  BY ArchAssumption DEF PfnWidth
<1> QED BY <1>1 DEF ptedit_get_pfn, Shr, Mask, Word, Bits

\* ptedit_get_pfn returns what ptedit_set_pfn stored, when it fits the field.
LEMMA GetSetPfn ==
  ASSUME NEW w \in Word, NEW p \in SUBSET (0 .. PfnWidth - 1)
  PROVE  ptedit_get_pfn(ptedit_set_pfn(w, p)) = p
<1>1. PfnWidth \in {36, 40}
  BY ArchAssumption DEF PfnWidth
<1>2. ptedit_set_pfn(w, p) \in Word
  BY DEF ptedit_set_pfn, Word, Shl
<1>3. \A x \in 0 .. PfnWidth - 1 : x + 12 \in ptedit_set_pfn(w, p) <=> x \in p
  BY <1>1 DEF ptedit_set_pfn, Shl, Mask, Word, Bits
<1>4. \A x : x \in ptedit_get_pfn(ptedit_set_pfn(w, p)) <=> x \in p
  BY <1>2, <1>3, GetPfnBits
<1> QED BY <1>4

\* ptedit_set_pfn leaves every bit outside the frame-number field alone.
LEMMA SetPfnFrame ==
  ASSUME NEW w \in Word, NEW p \in SUBSET (0 .. PfnWidth - 1),
         NEW b \in Bits \ Mask(12, PfnWidth)
  PROVE  b \in ptedit_set_pfn(w, p) <=> b \in w
BY ArchAssumption
   DEF ptedit_set_pfn, Shl, Mask, PfnWidth, Word, Bits

-----------------------------------------------------------------------------
(* Memory types *)

\* The three memory-type bits are distinct positions, and none of them lies
\* in the frame-number field of the same kind of entry.
LEMMA MtBitPositions ==
  ASSUME NEW h \in BOOLEAN
  PROVE  /\ \A i \in MtIndex : MtBit(i, h) \in Bits
         /\ \A i, j \in MtIndex : MtBit(i, h) = MtBit(j, h) => i = j
         /\ \A i \in MtIndex : MtBit(i, h) \notin
              (IF h THEN Mask(21, LargePfnWidth) ELSE Mask(12, PfnWidth))
BY ArchAssumption
   DEF MtIndex, MtBit, Bits, Mask, LargePfnWidth, PfnWidth, PWT, PCD, PAT, PAT_LARGE

\* ptedit_extract_mt returns what ptedit_apply_mt stored: the low three bits
\* of the byte.
LEMMA ExtractApplyMt ==
  ASSUME NEW w \in Word, NEW m \in SUBSET (0..7)
  PROVE  /\ ptedit_extract_mt(ptedit_apply_mt(w, m)) = m \cap (0..2)
         /\ ptedit_extract_mt_huge(ptedit_apply_mt_huge(w, m)) = m \cap (0..2)
<1>1. \A i, j \in MtIndex : MtBit(i, FALSE) = MtBit(j, FALSE) => i = j
  BY MtBitPositions
<1>2. \A i, j \in MtIndex : MtBit(i, TRUE) = MtBit(j, TRUE) => i = j
  BY MtBitPositions
<1>3. ptedit_extract_mt(ptedit_apply_mt(w, m)) = m \cap (0..2)
  BY <1>1 DEF ptedit_extract_mt, ptedit_apply_mt, MtBits, MtIndex
<1>4. ptedit_extract_mt_huge(ptedit_apply_mt_huge(w, m)) = m \cap (0..2)
  BY <1>2 DEF ptedit_extract_mt_huge, ptedit_apply_mt_huge, MtBits, MtIndex
<1> QED BY <1>3, <1>4

\* The attribute number survives its way into the entry and back.
LEMMA IdOfIdBits == ASSUME NEW i \in Ids PROVE IdOf(IdBits(i)) = i
<1>0. 2^0 = 1 /\ 2^1 = 2 /\ 2^2 = 4
  OBVIOUS
<1>1. ASSUME NEW j \in Ids
      PROVE  /\ 0 \in IdBits(j) <=> j \in {1, 3, 5, 7}
             /\ 1 \in IdBits(j) <=> j \in {2, 3, 6, 7}
             /\ 2 \in IdBits(j) <=> j \in {4, 5, 6, 7}
  <2>1. /\ 0 \in IdBits(j) <=> (j \div 1) % 2 = 1
        /\ 1 \in IdBits(j) <=> (j \div 2) % 2 = 1
        /\ 2 \in IdBits(j) <=> (j \div 4) % 2 = 1
    BY <1>0 DEF IdBits, MtIndex
  <2> QED BY <2>1 DEF Ids
<1>2. \A j \in Ids : IdBits(j) = IdBits(i) => j = i
  BY <1>1 DEF Ids
<1> QED BY <1>2 DEF IdOf

\* ptedit_find_first_mt reports an attribute of the type, and -1 only if there
\* is none.
LEMMA FindFirstMt ==
  ASSUME Arch = "x86_64", NEW w, NEW v
  PROVE  LET i == ptedit_find_first_mt(w, v)
         IN  \/ i = -1 /\ \A j \in Ids : MtValue(w, j) # v
             \/ i # -1 /\ i \in Ids /\ MtValue(w, i) = v
<1> DEFINE found == ptedit_find_mt(w, v)
<1>1. found = {j \in Ids : MtValue(w, j) = v}
  BY DEF ptedit_find_mt
<1>2. CASE found = {}
  BY <1>1, <1>2 DEF ptedit_find_first_mt
<1>3. CASE found # {}
  <2>1. PICK m \in found : \A y \in found : ~ (<<y, m>> \in OpToRel(<, Nat))
    <3>1. found \subseteq Nat
      BY <1>1 DEF Ids
    <3> QED BY <1>3, <3>1, NatLessThanWellFounded, WFMin
  <2>2. ASSUME NEW y \in found PROVE m <= y
    <3>1. y \in Nat /\ m \in Nat
      BY <1>1 DEF Ids
    <3>2. ~(y < m)
      BY <2>1, <3>1 DEF OpToRel
    <3> QED BY <3>1, <3>2
  <2>3. Min(found) \in found
    BY <2>2 DEF Min
  <2>4. ptedit_find_first_mt(w, v) = Min(found)
    BY <1>3 DEF ptedit_find_first_mt
  <2> QED BY <1>1, <2>3, <2>4 DEF Ids
<1> QED BY <1>2, <1>3

-----------------------------------------------------------------------------
(* Walks *)

\* A bit field that begins at bit 12.
LEMMA FieldBits ==
  ASSUME NEW e, NEW n \in {28, 40}, NEW x
  PROVE  x \in Field(e, 12, n) <=> x \in 0 .. n - 1 /\ x + 12 \in e
BY DEF Field, Shr, Mask, Bits

\* The library's structures have the frame number of a table below 1 TiB.
LEMMA CastIsFrame ==
  ASSUME Arch = "x86_64", NEW e, FrameOf(e) \subseteq 0..27
  PROVE  ptedit_cast_pfn(e) = FrameOf(e)
<1>1. ptedit_cast_pfn(e) = Field(e, 12, 28)
  BY DEF ptedit_cast_pfn, CastPfnWidth
<1>2. \A x : x \in Field(e, 12, 28) <=> x \in FrameOf(e)
  BY FieldBits DEF FrameOf
<1> QED BY <1>1, <1>2

LEMMA DerefValue ==
  ASSUME NEW D, NEW m \in [D -> Word], NEW s
  PROVE  /\ Deref(m, s) \in Word
         /\ s \in D => Deref(m, s) = m[s]
         /\ s \notin D => Deref(m, s) = {}
<1>1. CASE s \in D
  <2>1. {m[t] : t \in {s} \cap DOMAIN m} = {m[s]}
    BY <1>1
  <2> QED BY <1>1, <2>1 DEF Deref
<1>2. CASE s \notin D
  <2>1. {m[t] : t \in {s} \cap DOMAIN m} = {}
    BY <1>2
  <2> QED BY <1>2, <2>1 DEF Deref, Word
<1> QED BY <1>1, <1>2

\* A path, one level after the other.
LEMMA PathLevels ==
  ASSUME NEW m, NEW r, NEW va
  PROVE  LET P == Path(m, r, va)
         IN  /\ DOMAIN P = Levels
             /\ P["PGD"] = Slot(r, va, "PGD") /\ P["P4D"] = P["PGD"]
             /\ P["PUD"] = Slot(FrameOf(Deref(m, P["PGD"])), va, "PUD")
             /\ P["PMD"] = Slot(FrameOf(Deref(m, P["PUD"])), va, "PMD")
             /\ P["PTE"] = Slot(FrameOf(Deref(m, P["PMD"])), va, "PTE")
BY DEF Path, Levels

\* What the kernel's walk finds lies on the path.
LEMMA KernelWalkSlots ==
  ASSUME NEW m, NEW r, NEW va, NEW l \in DOMAIN KernelWalk(m, r, va)
  PROVE  l \in Levels /\ KernelWalk(m, r, va)[l] = Path(m, r, va)[l]
BY DEF KernelWalk, Restrict
=============================================================================
