---------------------------- MODULE PTEntryProofs ---------------------------
(***************************************************************************)
(* Proofs about sequences of calls on one entry, for both architectures,   *)
(* every entry and every argument the functions accept.                    *)
(***************************************************************************)
EXTENDS PTEntrySeq, PTEntryLemmas, TLAPS

\* The frame-number field of the entry, as a set of bit positions.
LEMMA PfnMaskBits == PfnMask = IF Huge THEN 21 .. (20 + LargePfnWidth)
                                       ELSE 12 .. (11 + PfnWidth)
BY ArchAssumption, SeqAssumption DEF PfnMask, Mask, LargePfnWidth, PfnWidth

\* The bits set_bit and clear_bit take are bits of a word, outside the
\* frame-number field.
LEMMA FlagBitPositions == FlagBits \subseteq Bits \ PfnMask
<1>1. CASE Huge
  BY <1>1, ArchAssumption, SeqAssumption, PfnMaskBits
     DEF PageBits, Bits, LargePfnWidth
<1>2. CASE ~Huge
  BY <1>2, ArchAssumption, SeqAssumption, PfnMaskBits
     DEF PageBits, Bits, PfnWidth, PAT_LARGE
<1> QED BY <1>1, <1>2, SeqAssumption

\* No call makes the entry anything but a 64-bit word.
LEMMA EntryTypeStep == EntryTypeOK /\ [EntryNext]_entryVars => EntryTypeOK'
<1> SUFFICES ASSUME EntryTypeOK, [EntryNext]_entryVars PROVE EntryTypeOK'
  OBVIOUS
<1>1. CASE \E p \in Pfns : SetPfn(p)
  BY <1>1 DEF EntryTypeOK, Word, SetPfn, ptedit_set_pfn, Shl
<1>2. CASE \E m \in Mts : ApplyMt(m)
  <2>1. \A h \in BOOLEAN, i \in MtIndex : MtBit(i, h) \in Bits
    BY MtBitPositions
  <2> QED
    BY <1>2, <2>1 DEF EntryTypeOK, Word, ApplyMt, ptedit_apply_mt, ptedit_apply_mt_huge
<1>3. CASE \E b \in FlagBits : SetBit(b) \/ ClearBit(b)
  BY <1>3, FlagBitPositions DEF EntryTypeOK, Word, SetBit, ClearBit
<1>4. CASE UNCHANGED entryVars
  BY <1>4 DEF EntryTypeOK, entryVars
<1> QED BY <1>1, <1>2, <1>3, <1>4 DEF EntryNext

\* The entry stays a 64-bit word.
THEOREM TypeCorrect == EntrySpec => []EntryTypeOK
<1>1. EntryInit => EntryTypeOK
  BY SeqAssumption DEF EntryInit, EntryTypeOK
<1> QED BY <1>1, EntryTypeStep, PTL DEF EntrySpec

\* The frame number depends only on the bits of its field, and the memory
\* type only on the memory-type bits.
LEMMA FieldsDependOnTheirBits ==
  /\ (\A b \in PfnMask : b \in entry' <=> b \in entry) => PfnField' = PfnField
  /\ (\A b \in MtBits(Huge) : b \in entry' <=> b \in entry) => MtField' = MtField
<1>1. ASSUME \A b \in PfnMask : b \in entry' <=> b \in entry
      PROVE  PfnField' = PfnField
  <2>1. entry' \cap PfnMask = entry \cap PfnMask
    BY <1>1
  <2> QED BY <2>1 DEF PfnField, PfnMask, ptedit_get_pfn, ptedit_cast_large_pfn, Field
<1>2. ASSUME \A b \in MtBits(Huge) : b \in entry' <=> b \in entry
      PROVE  MtField' = MtField
  BY <1>2, SeqAssumption DEF MtField, MtBits, ptedit_extract_mt, ptedit_extract_mt_huge
<1> QED BY <1>1, <1>2

\* Every call is a call of the abstract record of fields, with the same
\* argument.
LEMMA StepImplementsFields == EntryTypeOK /\ [EntryNext]_entryVars => [Fields!Next]_(Fields!vars)
<1> SUFFICES ASSUME EntryTypeOK, [EntryNext]_entryVars PROVE [Fields!Next]_(Fields!vars)
  OBVIOUS
<1>0. PfnMask \cap MtBits(Huge) = {}
  BY MtBitPositions, SeqAssumption DEF PfnMask, MtBits
<1>1. ASSUME NEW p \in Pfns, SetPfn(p) PROVE Fields!SetPfn(p)
  <2>1. ~Huge /\ p \in SUBSET (0 .. PfnWidth - 1)
    BY <1>1, SeqAssumption DEF SetPfn
  <2>2. PfnField' = p
    BY <1>1, <2>1, GetSetPfn DEF SetPfn, PfnField, EntryTypeOK
  <2>3. \A b \in Bits \ PfnMask : b \in entry' <=> b \in entry
    BY <1>1, <2>1, SetPfnFrame DEF SetPfn, PfnMask, EntryTypeOK
  <2>4. MtBits(Huge) \subseteq Bits
    BY MtBitPositions, SeqAssumption DEF MtBits
  <2>5. MtField' = MtField
    BY <1>0, <2>3, <2>4, FieldsDependOnTheirBits
  <2>6. entry' \subseteq Bits
    BY <1>1 DEF SetPfn, EntryTypeOK, Word, ptedit_set_pfn, Shl
  <2>7. FlagField' = FlagField
    BY <2>3, <2>6 DEF FlagField, PfnMask, EntryTypeOK, Word
  <2> QED BY <1>1, <2>2, <2>5, <2>7 DEF SetPfn, Fields!SetPfn
<1>2. ASSUME NEW m \in Mts, ApplyMt(m) PROVE Fields!ApplyMt(m)
  <2>1. MtField' = m \cap (0..2)
    BY <1>2, ExtractApplyMt, SeqAssumption DEF ApplyMt, MtField, EntryTypeOK
  <2>2. \A b : b \notin MtBits(Huge) => (b \in entry' <=> b \in entry)
    BY <1>2, SeqAssumption
       DEF ApplyMt, ptedit_apply_mt, ptedit_apply_mt_huge, MtBits
  <2>3. PfnField' = PfnField
    BY <1>0, <2>2, FieldsDependOnTheirBits
  <2>4. FlagField' = FlagField
    BY <2>2 DEF FlagField, PfnMask
  <2> QED BY <1>2, <2>1, <2>3, <2>4 DEF ApplyMt, Fields!ApplyMt
<1>3. ASSUME NEW b \in FlagBits PROVE /\ SetBit(b) => Fields!SetBit(b)
                                      /\ ClearBit(b) => Fields!ClearBit(b)
  <2>0. b \in Bits /\ b \notin PfnMask
    BY FlagBitPositions
  <2> SUFFICES ASSUME SetBit(b) \/ ClearBit(b)
               PROVE  /\ SetBit(b) => Fields!SetBit(b)
                      /\ ClearBit(b) => Fields!ClearBit(b)
    OBVIOUS
  <2>1. \A c : c # b => (c \in entry' <=> c \in entry)
    BY DEF SetBit, ClearBit
  <2>2. PfnField' = PfnField
    BY <2>0, <2>1, FieldsDependOnTheirBits
  <2>3. CASE b \in MtBits(Huge)
    <3>1. PICK i \in MtIndex : b = MtBit(i, Huge)
      BY <2>3 DEF MtBits
    <3>2. \A j \in MtIndex : MtBit(j, Huge) = b => j = i
      BY <3>1, MtBitPositions, SeqAssumption
    <3>3. MtPos[b] = i
      BY <2>3, <3>1, <3>2 DEF MtPos
    <3>4. MtField = {j \in MtIndex : MtBit(j, Huge) \in entry}
      BY SeqAssumption DEF MtField, ptedit_extract_mt, ptedit_extract_mt_huge
    <3>5. MtField' = {j \in MtIndex : MtBit(j, Huge) \in entry'}
      BY SeqAssumption DEF MtField, ptedit_extract_mt, ptedit_extract_mt_huge
    <3>6. SetBit(b) => MtField' = MtField \cup {i}
      BY <3>1, <3>2, <3>4, <3>5 DEF SetBit
    <3>7. ClearBit(b) => MtField' = MtField \ {i}
      BY <3>1, <3>2, <3>4, <3>5 DEF ClearBit
    <3>8. FlagField' = FlagField
      BY <2>1, <2>3 DEF FlagField, PfnMask
    <3>9. b \in DOMAIN MtPos
      BY <2>3 DEF MtPos
    <3> QED BY <2>2, <3>3, <3>6, <3>7, <3>8, <3>9
            DEF SetBit, ClearBit, Fields!SetBit, Fields!ClearBit
  <2>4. CASE b \notin MtBits(Huge)
    <3>1. MtField' = MtField
      BY <2>1, <2>4, FieldsDependOnTheirBits
    <3>2. SetBit(b) => FlagField' = FlagField \cup {b}
      BY <2>0, <2>4 DEF SetBit, FlagField, PfnMask
    <3>3. ClearBit(b) => FlagField' = FlagField \ {b}
      BY <2>0, <2>4 DEF ClearBit, FlagField, PfnMask
    <3>4. b \notin DOMAIN MtPos
      BY <2>4 DEF MtPos
    <3> QED BY <2>2, <3>1, <3>2, <3>3, <3>4
            DEF SetBit, ClearBit, Fields!SetBit, Fields!ClearBit
  <2> QED BY <2>3, <2>4
<1>4. CASE UNCHANGED entryVars
  BY <1>4 DEF entryVars, Fields!vars, PfnField, MtField, FlagField, PfnMask
<1> QED BY <1>1, <1>2, <1>3, <1>4 DEF EntryNext, Fields!Next

\* The entry functions of ptedit.c implement a record of three independent
\* fields: on both architectures, for every entry and every sequence of
\* calls, each call sets its own field to its argument and leaves the others.
THEOREM EntryImplementsFields == EntrySpec => FieldsSpec
<1>1. EntryInit => Fields!Init
  BY DEF EntryInit, Fields!Init
<1> QED BY <1>1, TypeCorrect, StepImplementsFields, PTL DEF EntrySpec, FieldsSpec, Fields!Spec
=============================================================================
