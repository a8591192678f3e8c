----------------------------- MODULE PTEntrySeq -----------------------------
(***************************************************************************)
(* Any sequence of the entry functions applied to one entry: a PTE, or,    *)
(* when Huge, a PMD that maps a 2 MB page (memory types then go through    *)
(* the _huge functions, and ptedit.h offers no set_pfn).                   *)
(***************************************************************************)
EXTENDS PTEntry

CONSTANTS Huge,         \* the entry maps a 2 MB page
          Pfns,         \* arguments of ptedit_set_pfn
          Mts,          \* arguments of ptedit_apply_mt (unsigned char)
          FlagBits,     \* arguments of ptedit_pte_set_bit, _clear_bit
          InitEntries   \* entries found in the page table

\* set_pfn does not mask its argument: in range is the caller's obligation.
ASSUME SeqAssumption ==
  /\ Huge \in BOOLEAN
  /\ Pfns \subseteq SUBSET (0 .. PfnWidth - 1)
  /\ Mts \subseteq SUBSET (0..7)
  /\ FlagBits \subseteq PageBits \ (IF Huge THEN {} ELSE {PAT_LARGE})
  /\ InitEntries \subseteq Word

VARIABLES entry,        \* the value of the entry
          last          \* the last call and its argument

entryVars == <<entry, last>>

EntryInit == entry \in InitEntries /\ last = <<"init">>

SetPfn(p) ==
  /\ ~Huge
  /\ entry' = ptedit_set_pfn(entry, p)
  /\ last' = <<"set_pfn", p>>

ApplyMt(m) ==
  /\ entry' = IF Huge THEN ptedit_apply_mt_huge(entry, m)
                      ELSE ptedit_apply_mt(entry, m)
  /\ last' = <<"apply_mt", m>>

SetBit(b) ==
  /\ entry' = entry \cup {b}
  /\ last' = <<"set_bit", b>>

ClearBit(b) ==
  /\ entry' = entry \ {b}
  /\ last' = <<"clear_bit", b>>

EntryNext ==
  \/ \E p \in Pfns : SetPfn(p)
  \/ \E m \in Mts : ApplyMt(m)
  \/ \E b \in FlagBits : SetBit(b) \/ ClearBit(b)

EntrySpec == EntryInit /\ [][EntryNext]_entryVars

-----------------------------------------------------------------------------

\* The entry is a 64-bit word whatever is called (nothing is shifted out of
\* it): the size_t of ptedit.c.
EntryTypeOK == entry \in Word

(***************************************************************************)
(* The fields of the entry as the readers of ptedit.h see them.            *)
(***************************************************************************)
PfnField == IF Huge THEN ptedit_cast_large_pfn(entry) ELSE ptedit_get_pfn(entry)
MtField == IF Huge THEN ptedit_extract_mt_huge(entry) ELSE ptedit_extract_mt(entry)
PfnMask == IF Huge THEN Mask(21, LargePfnWidth) ELSE Mask(12, PfnWidth)
FlagField == (entry \ PfnMask) \ MtBits(Huge)

MtPos == [b \in MtBits(Huge) |-> CHOOSE i \in MtIndex : MtBit(i, Huge) = b]

Fields == INSTANCE EntryFields WITH
            pfn <- PfnField,
            mt <- MtField,
            flags <- FlagField,
            MtPos <- MtPos

\* Setter and reader functions agree, and no call disturbs a field it does
\* not name: ptedit_set_pfn/get_pfn, apply_mt/extract_mt (and _huge) and the
\* bit functions implement a record of three independent fields.
FieldsSpec == Fields!Spec
=============================================================================
