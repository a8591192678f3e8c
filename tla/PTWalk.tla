------------------------------- MODULE PTWalk -------------------------------
(***************************************************************************)
(* Walking x86_64 page tables of four levels: the walk of the kernel       *)
(* module (resolve_vm in module/pteditor.c), the walk of the library's     *)
(* user-space implementation (ptedit_resolve_user_ext in ptedit.c) and the *)
(* walk of the CPU, against which both are judged.                         *)
(*                                                                         *)
(* Physical memory m is a function from slots to entries; a slot is the    *)
(* frame of a table and an index into it, an address is a word.            *)
(***************************************************************************)
EXTENDS PTEntry, Functions

Levels == {"PGD", "P4D", "PUD", "PMD", "PTE"}

\* The levels a CPU with four-level paging has: P4D is folded into PGD.
CpuLevels == Levels \ {"P4D"}

\* ptedit_paging_definition: page_offset 12, nine bits per level, has_p4d 0.
LevelShift ==
  [PGD |-> 39, P4D |-> 39, PUD |-> 30, PMD |-> 21, PTE |-> 12]
Index(va, l) == Field(va, LevelShift[l], 9)

Slot(frame, va, l) == <<frame, Index(va, l)>>

\* Memory outside the modelled tables reads as zero.
Deref(m, s) == UNION {m[t] : t \in {s} \cap DOMAIN m}

Present(e) == PRESENT \in e

-----------------------------------------------------------------------------
(* The kernel's predicates on entries (external) *)

FrameOf(e) == Field(e, 12, 40)
NoEntry(e) == e \ {ACCESSED, DIRTY} = {}          \* p4d_none, pud_none, pmd_none
Bad(e) == (e \ Mask(12, 40)) \ {PRESENT, RW, USER, ACCESSED, DIRTY, NX} # {}
PudLarge(e) == {PSE, PRESENT} \subseteq e
PmdLarge(e) == PSE \in e

\* The slots of an address, following frame numbers alone (pgd_offset,
\* p4d_offset, pud_offset, pmd_offset and pte_offset_map; P4D is PGD).
Path(m, root, va) ==
  LET pgd == Slot(root, va, "PGD")
      pud == Slot(FrameOf(Deref(m, pgd)), va, "PUD")
      pmd == Slot(FrameOf(Deref(m, pud)), va, "PMD")
      pte == Slot(FrameOf(Deref(m, pmd)), va, "PTE")
  IN  [PGD |-> pgd, P4D |-> pgd, PUD |-> pud, PMD |-> pmd, PTE |-> pte]

-----------------------------------------------------------------------------
(* resolve_vm: level |-> slot for the levels it finds valid.  pgd_none and  *)
(* pgd_bad are constantly false and p4d_offset is the identity when P4D is  *)
(* folded.  Entries that are not present but not zero are walked through.   *)

\* The levels passed before a level is reached.
Above == [PGD |-> {}, P4D |-> {"PGD"}, PUD |-> {"PGD", "P4D"},
          PMD |-> {"PGD", "P4D", "PUD"}, PTE |-> {"PGD", "P4D", "PUD", "PMD"}]

KernelFinds(l, e) ==
  /\ l \in {"P4D", "PUD", "PMD"} => ~NoEntry(e)
  /\ l = "P4D" => ~Bad(e)
KernelGoesOn(l, e) ==
  /\ l = "PUD" => ~PudLarge(e)
  /\ l = "PMD" => ~PmdLarge(e)

KernelWalk(m, root, va) ==
  LET s == Path(m, root, va)
      Valid(l) == \A k \in Above[l] \cup {l} :
                    LET e == Deref(m, s[k])
                    IN  KernelFinds(k, e) /\ (k # l => KernelGoesOn(k, e))
  IN  Restrict(s, {l \in Levels : Valid(l)})

-----------------------------------------------------------------------------
(* ptedit_resolve_user_ext, one table read at a time *)

\* The level read after entry e of level l, or "end".
UserNextLevel(l, e) ==
  CASE l = "PGD" /\ Present(e) -> "PUD"
    [] l = "PUD" /\ Present(e) -> "PMD"
    [] l = "PMD" /\ Present(e) /\ PSE \notin e -> "PTE"
    [] OTHER -> "end"

\* What the result gains: a PGD entry is reported only when present, the
\* others in any case.
UserReport(vm, l, e) ==
  IF l = "PGD" /\ ~Present(e)
    THEN vm
    ELSE [k \in DOMAIN vm \cup {l} |-> IF k = l THEN e ELSE vm[k]]

UserSlotSwapped(vm, root, va, l) ==      \* erroneous: pmdi and pti exchanged
  CASE l = "PGD" -> Slot(root, va, l)
    [] l = "PUD" -> Slot(ptedit_cast_pfn(vm["PGD"]), va, l)
    [] l = "PMD" -> Slot(ptedit_cast_pfn(vm["PUD"]), va, "PTE")
    [] l = "PTE" -> Slot(ptedit_cast_pfn(vm["PMD"]), va, "PMD")

\* The slots ptedit_update_user_ext writes to, from a result it resolved.
UserSlot(vm, root, va, l) ==
  CASE l = "PGD" -> Slot(root, va, l)
    [] l = "PUD" -> Slot(ptedit_cast_pfn(vm["PGD"]), va, l)
    [] l = "PMD" -> Slot(ptedit_cast_pfn(vm["PUD"]), va, l)
    [] l = "PTE" -> Slot(ptedit_cast_pfn(vm["PMD"]), va, l)

-----------------------------------------------------------------------------
(* The CPU's walk (external): the slots it reads for an address *)

NamesTable(l, e) == Present(e) /\ (l \in {"PUD", "PMD"} => PSE \notin e)

CpuWalk(m, root, va) ==
  LET s == Path(m, root, va)
      Read(l) == \A k \in Above[l] : NamesTable(k, Deref(m, s[k]))
  IN  Restrict(s, {l \in CpuLevels : Read(l)})

\* Every table on the way is there: the walk ends at an entry that maps a
\* page, whether or not that last entry is present.
Mapped(m, root, va) ==
  LET w == CpuWalk(m, root, va) IN
  \/ "PTE" \in DOMAIN w
  \/ "PMD" \in DOMAIN w /\ PSE \in Deref(m, w["PMD"])

\* What a TLB holds for an address: the entries used, without the bits the
\* CPU itself raises.  An address without a present page has none.
Translation(m, root, va) ==
  LET w == CpuWalk(m, root, va) IN
  IF Mapped(m, root, va) /\ \A l \in DOMAIN w : Present(Deref(m, w[l]))
    THEN [l \in DOMAIN w |-> Deref(m, w[l]) \ {ACCESSED, DIRTY}]
    ELSE <<>>
=============================================================================
