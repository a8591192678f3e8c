-------------------------- MODULE PTProgramsProofs --------------------------
(***************************************************************************)
(* Theorems about the programs, for any number of CPUs, any addresses,     *)
(* page tables and PAT registers, as long as the process is laid out as    *)
(* Layout says.                                                            *)
(*                                                                         *)
(* The argument annotates the programs: before every instruction the       *)
(* entries that map the six addresses, the entries the program holds in    *)
(* its variables and the contents of its pages are those Leaf, Variables   *)
(* and Contents name, whatever bits the CPUs have raised since; a cached   *)
(* translation is the one the tables give, unless the program stored to    *)
(* the entry and has not flushed it.  Each instruction takes one           *)
(* annotation to the next, and the steps of the machine keep it.           *)
(*                                                                         *)
(* memmap, which edits nothing but runs while the kernel does, has an      *)
(* invariant of its own at the end of the module.                          *)
(***************************************************************************)
EXTENDS PTPrograms, PTEntryLemmas, FiniteSetTheorems, TLAPS

-----------------------------------------------------------------------------
(* Where things are.  The entry of a 2 MB page is a PMD, that of any other  *)
(* page a PTE; P4D is PGD, which both walks of the kernel count.            *)

LeafAt(a) == IF a = Huge THEN "PMD" ELSE "PTE"
Dirs(a) == Above[LeafAt(a)]
OnPath(a) == Dirs(a) \cup {LeafAt(a)}
At(a, l) == Path(InitMem, Root, a)[l]
LeafSlot(a) == At(a, LeafAt(a))
DirSlots == UNION {{At(a, l) : l \in Dirs(a)} : a \in Vas}
LeafSlots == {LeafSlot(a) : a \in Vas}

\* An entry without the bits that the CPU raises: what the programs found.
Core(e) == e \ {ACCESSED, DIRTY}
Own(a) == Core(InitMem[LeafSlot(a)])
OwnFrame(a) == FrameOf(Own(a))
TableA == FrameOf(InitMem[At(PageA, "PMD")])

-----------------------------------------------------------------------------
(* Hypotheses: the process a program finds itself in *)

\* The addresses differ, and the programs are those of the repository.
Separate ==
  /\ LET va == <<PageA, PageB, PageP, Huge, PmapVa, Target>>
     IN  \A i, j \in 1..6 : va[i] = va[j] => i = j
  /\ Programs \subseteq DOMAIN Code

\* Directories are present, as the kernel writes them, and lie below 1 TiB;
\* all pages but the one that is still to be mapped are present.
TablesThere ==
  /\ InitMem \in [DOMAIN InitMem -> Word]
  /\ \A a \in Vas : \A l \in Dirs(a) :
       /\ At(a, l) \in DOMAIN InitMem
       /\ LET e == InitMem[At(a, l)] IN Present(e) /\ ~Bad(e) /\ FrameOf(e) \subseteq 0..27
  /\ \A a \in Vas : /\ LeafSlot(a) \in DOMAIN InitMem
                    /\ Present(InitMem[LeafSlot(a)]) <=> a # PmapVa
  /\ PSE \in InitMem[LeafSlot(Huge)]

\* No two addresses share their entry, no entry is a directory's, and the
\* pages that are written to hold neither.  Pages A and B differ.
PagesApart ==
  /\ \A a, b \in Vas : LeafSlot(a) = LeafSlot(b) => a = b
  /\ LeafSlots \cap DirSlots = {}
  /\ \A a \in {PageA, PageB, PageP, Target}, s \in LeafSlots \cup DirSlots : s[1] # OwnFrame(a)
  /\ OwnFrame(PageA) # OwnFrame(PageB)
  /\ \A a \in {PageA, PageB} : <<OwnFrame(a), {}>> \in DOMAIN InitMem

\* Pages P and Huge are write-back, by the first attribute of that type.
PagesCached ==
  \A w \in Pats :
    LET i == ptedit_find_first_mt(w, MT_WB)
    IN  /\ i # -1
        /\ ptedit_extract_mt(Own(PageP)) = IdBits(i)
        /\ ptedit_extract_mt_huge(Own(Huge)) = IdBits(i)

Layout == Separate /\ TablesThere /\ PagesApart /\ PagesCached

-----------------------------------------------------------------------------
(* The annotation: what holds of program p before its instruction i *)

\* While page A shows page B, page P shows the page table of A, and P and
\* Huge are uncachable; once something is mapped at PmapVa.
ShowsB(p, i) ==
  \/ p = "example" /\ i \in {0} \cup (7..14)
  \/ p = "map_pt" /\ i \in 8..10
  \/ p = "map_pt_manual" /\ i \in 10..12
ShowsTable(p, i) == p = "map_pt_manual" /\ i \in 8..13
Uncached(p, i) == p = "uncachable" /\ i \in 4..5
UncachedHuge(p, i) == p = "uncachable" /\ i \in 11..12
Pmapped(p, i) == (p = "example" /\ i >= 10) \/ (p = "map_pt" /\ i >= 6)

\* The entry that maps a, with /proc/umem or not and register value w.
Leaf(p, i, u, w, a) ==
  LET uc == IdBits(ptedit_find_first_mt(w, MT_UC)) IN
  IF a = PageA /\ ShowsB(p, i) THEN ptedit_set_pfn(Own(a), OwnFrame(PageB))
  ELSE IF a = PageP /\ ShowsTable(p, i) THEN ptedit_set_pfn(Own(a), TableA)
  ELSE IF a = PageP /\ Uncached(p, i) THEN ptedit_apply_mt(Own(a), uc)
  ELSE IF a = Huge /\ UncachedHuge(p, i) THEN ptedit_apply_mt_huge(Own(a), uc)
  ELSE IF a = PmapVa /\ u /\ Pmapped(p, i)
    THEN ptedit_set_pfn({PRESENT, RW, USER}, IF p = "example" THEN OwnFrame(PageA) ELSE TableA)
  ELSE Own(a)

\* Addresses whose entry may have been stored to since their last flush.  For
\* Huge the history variable looks at a PTE that is none.
Stored(p, i) ==
  IF p \notin {"map_pt", "map_pt_manual"} THEN {}
  ELSE IF (p = "map_pt" /\ i \in {8, 11}) \/ (p = "map_pt_manual" /\ i \in {10, 13, 14})
    THEN {PageA, Huge} ELSE {Huge}

\* Addresses the program has written to.
Written(p, i) ==
  IF (p = "map_pt" /\ i > 1) \/ (p = "map_pt_manual" /\ i > 2) THEN {PageA}
  ELSE IF p = "performance" /\ i > 1 THEN {Target} ELSE {}

\* Page |-> what it is filled with.
Contents(p, i, m) ==
  /\ p = "example" /\ i > 1 => m[<<OwnFrame(PageA), {}>>] = CharA
  /\ p = "example" /\ i \in 3..11 => m[<<OwnFrame(PageB), {}>>] = CharB
  /\ p = "example" /\ i > 11 => m[<<OwnFrame(PageB), {}>>] = CharC
  /\ (p = "map_pt" /\ i > 2) \/ (p = "map_pt_manual" /\ i > 3) =>
       m[<<OwnFrame(PageB), {}>>] = CharS

\* Entry l of variable x is c, apart from the bits that the CPU raises.
Saved(e, x, l, c) ==
  x \in DOMAIN e /\ l \in DOMAIN e[x] /\ e[x][l] \in Word /\ Core(e[x][l]) = c
\* Entries as they are once the CPU has written to the page.
Used(a, l) == IF l = LeafAt(a) THEN Own(a) \cup {ACCESSED, DIRTY}
                               ELSE InitMem[At(a, l)] \cup {ACCESSED}

Variables(p, i, e, u, w) ==
  /\ p = "example" => /\ i > 3 => Saved(e, "vm", "PTE", Own(PageA))
                      /\ i > 5 => Saved(e, "target", "PTE", Own(PageB))
  /\ p = "map_pt" => /\ i > 3 => Saved(e, "secret", "PTE", Own(PageB))
                     /\ i > 4 => /\ Saved(e, "target", "PTE", Own(PageA))
                                 /\ Saved(e, "target", "PMD", Core(InitMem[At(PageA, "PMD")]))
                                 /\ e["target"]["PTE"] = Used(PageA, "PTE")
  /\ p = "map_pt_manual" =>
       /\ i > 4 => Saved(e, "secret", "PTE", Own(PageB))
       /\ i > 5 => /\ Saved(e, "target", "PTE", Own(PageA))
                   /\ Saved(e, "target", "PMD", Core(InitMem[At(PageA, "PMD")]))
                   /\ e["target"]["PTE"] = Used(PageA, "PTE")
       /\ i > 6 => Saved(e, "pt", "PTE", Own(PageP))
  /\ p = "uncachable" =>
       /\ i \in 4..13 => ptedit_find_first_mt(w, MT_UC) # -1
       /\ i \in 3..6 => Saved(e, "entry", "PTE", Leaf(p, i, u, w, PageP))
       /\ i \in 9..10 => Saved(e, "huge", "PMD", Own(Huge))
       /\ i \in 10..12 => Saved(e, "original", "PMD", Own(Huge))
  /\ p = "virt2phys" /\ i > 2 =>
       /\ Saved(e, "entry", "PTE", Own(Target))
       /\ Saved(e, "entry", "PMD", Core(InitMem[At(Target, "PMD")]))
  /\ p = "performance" =>
       /\ i > 2 => "entry" \in DOMAIN e /\ e["entry"] = [l \in OnPath(Target) |-> Used(Target, l)]
       /\ i > 3 => /\ "entry_us" \in DOMAIN e
                   /\ e["entry_us"] = [l \in CpuLevels |-> Used(Target, l)]

-----------------------------------------------------------------------------
(* The inductive invariant *)

\* The translation of an address by way of its directories and entry e.
Via(a, e) ==
  IF Present(e) THEN [l \in OnPath(a) \ {"P4D"} |-> IF l = LeafAt(a) THEN e ELSE Core(InitMem[At(a, l)])]
                ELSE <<>>

\* Directories are what they were, apart from ACCESSED; entries are as the
\* annotation has them.
Tables(m, g) ==
  /\ m \in [DOMAIN InitMem -> Word]
  /\ \A s \in DirSlots : m[s] \ {ACCESSED} = InitMem[s] \ {ACCESSED}
  /\ \A a \in Vas : Core(m[LeafSlot(a)]) = g[a]

Raised(m, a) == \A l \in Dirs(a) : ACCESSED \in m[At(a, l)]

Caches(t, m, g, st) ==
  /\ t = [c \in Cpus |-> [a \in Vas |-> t[c][a]]]
  /\ \A c \in Cpus, a \in Vas :
       /\ t[c][a] \in {<<>>, Via(a, g[a])} \/ a \in st
       /\ t[c][a] # <<>> => Raised(m, a)

Leaves(p, i, u, w) == [a \in Vas |-> Leaf(p, i, u, w, a)]

BaseInv ==
  /\ cpu \in Cpus /\ umem \in BOOLEAN /\ pat \in Pats /\ prog \in Programs
  /\ code = Code[prog] /\ pc \in 0 .. Len(code) + 1
  /\ failed = {} /\ (pc = 0 => ~umem)

RunInv ==
  /\ work = {} /\ unflushed \subseteq Stored(prog, pc)
  /\ Tables(mem, Leaves(prog, pc, umem, pat))
  /\ Caches(tlb, mem, Leaves(prog, pc, umem, pat), unflushed)
  /\ \A a \in Written(prog, pc) : Raised(mem, a) /\ {ACCESSED, DIRTY} \subseteq mem[LeafSlot(a)]
  /\ Contents(prog, pc, mem)
  /\ env = [x \in DOMAIN env |-> env[x]] /\ Variables(prog, pc, env, umem, pat)

IdleInv ==
  /\ pc > 0 /\ unflushed = {} /\ tlb = [c \in Cpus |-> [a \in Vas |-> <<>>]]

ProgramsInv ==
  /\ BaseInv
  /\ prog # "memmap" => RunInv
  /\ prog = "memmap" => IdleInv

-----------------------------------------------------------------------------
(* Entries *)

\* The library is built for x86_64.
LEMMA X86 ==
  /\ Arch = "x86_64" /\ ACCESSED = 5 /\ DIRTY = 6 /\ PfnWidth = 40
  /\ PRESENT = 0 /\ RW = 1 /\ USER = 2 /\ PSE = 7 /\ NX = 63
BY ProgramsAssumption DEF ACCESSED, DIRTY, PfnWidth, PRESENT, RW, USER, PSE, NX

\* ptedit_get_pfn reads the field the CPU uses.
LEMMA PfnIsFrame == ASSUME NEW e PROVE ptedit_get_pfn(e) = FrameOf(e)
BY X86 DEF ptedit_get_pfn, FrameOf, Field

\* The bits that a CPU raises are part of nothing else.
LEMMA SameCore ==
  ASSUME NEW e, NEW f, Core(e) = Core(f)
  PROVE  /\ FrameOf(e) = FrameOf(f)
         /\ Present(e) <=> Present(f)
         /\ PSE \in e <=> PSE \in f
         /\ Bad(e) <=> Bad(f)
<1>1. \A x : x \notin {5, 6} => (x \in e <=> x \in f)
  BY X86 DEF Core
<1>2. FrameOf(e) = FrameOf(f)
  <2>1. \A x : x \in FrameOf(e) <=> x \in FrameOf(f)
    BY <1>1, FieldBits DEF FrameOf
  <2> QED BY <2>1
<1>3. Bad(e) <=> Bad(f)
  BY <1>1, X86 DEF Bad
<1> QED BY <1>1, <1>2, <1>3, X86 DEF Present

\* Taking off the bits that the CPU raises, once or twice.
LEMMA CoreOfCore ==
  ASSUME NEW e \in Word
  PROVE  Core(e) \in Word /\ Core(Core(e)) = Core(e)
BY DEF Core, Word

\* A frame number has 40 bits.
LEMMA FrameBits == ASSUME NEW e PROVE FrameOf(e) \in SUBSET (0..39)
BY FieldBits DEF FrameOf

\* Bits of an entry with another frame number.
LEMMA SetPfnBits ==
  ASSUME NEW e \in Word, NEW p \in SUBSET (0..39)
  PROVE  /\ ptedit_set_pfn(e, p) \in Word
         /\ \A x : x \in ptedit_set_pfn(e, p) <=>
                     IF x \in 12..51 THEN x - 12 \in p ELSE x \in e
<1>1. \A x : x \in Shl(p, 12) <=> x \in 12..51 /\ x - 12 \in p
  BY DEF Shl, Bits
<1>2. Mask(12, 40) = 12..51
  BY DEF Mask
<1>3. \A x : x \in ptedit_set_pfn(e, p) <=>
               IF x \in 12..51 THEN x - 12 \in p ELSE x \in e
  BY <1>1, <1>2, X86 DEF ptedit_set_pfn
<1>4. ptedit_set_pfn(e, p) \in Word
  BY DEF ptedit_set_pfn, Shl, Word
<1> QED BY <1>3, <1>4

\* ptedit_set_pfn replaces the frame number, commutes with the CPU's raising
\* of bits, and can be undone.
LEMMA SetPfn ==
  ASSUME NEW e \in Word, NEW p \in SUBSET (0..39)
  PROVE  /\ ptedit_set_pfn(e, p) \in Word
         /\ FrameOf(ptedit_set_pfn(e, p)) = p
         /\ Present(ptedit_set_pfn(e, p)) <=> Present(e)
         /\ Core(ptedit_set_pfn(e, p)) = ptedit_set_pfn(Core(e), p)
         /\ ptedit_set_pfn(ptedit_set_pfn(e, p), FrameOf(e)) = e
         /\ e \cap {ACCESSED, DIRTY} = ptedit_set_pfn(e, p) \cap {ACCESSED, DIRTY}
<1> DEFINE s == ptedit_set_pfn(e, p)
<1>1. s \in Word /\ \A x : x \in s <=> IF x \in 12..51 THEN x - 12 \in p ELSE x \in e
  BY SetPfnBits
<1>2. Core(e) \in Word /\ FrameOf(e) \in SUBSET (0..39)
  BY CoreOfCore, FrameBits
<1>3. \A x : x \in ptedit_set_pfn(Core(e), p) <=>
               IF x \in 12..51 THEN x - 12 \in p ELSE x \in Core(e)
  BY <1>2, SetPfnBits
<1>4. \A x : x \in ptedit_set_pfn(s, FrameOf(e)) <=>
               IF x \in 12..51 THEN x - 12 \in FrameOf(e) ELSE x \in s
  BY <1>1, <1>2, SetPfnBits
<1> HIDE DEF s
<1>5. FrameOf(s) = p
  <2>1. p \in SUBSET (0 .. PfnWidth - 1)
    BY X86
  <2> QED BY <2>1, GetSetPfn, PfnIsFrame DEF s
<1>6. Core(s) = ptedit_set_pfn(Core(e), p)
  <2>1. \A x : x \in Core(s) <=> x \in ptedit_set_pfn(Core(e), p)
    BY <1>1, <1>3, X86 DEF Core
  <2> QED BY <2>1
<1>7. ptedit_set_pfn(s, FrameOf(e)) = e
  <2>1. \A x : x \in 12..51 => (x - 12 \in FrameOf(e) <=> x \in e)
    BY FieldBits DEF FrameOf
  <2>2. \A x : x \in ptedit_set_pfn(s, FrameOf(e)) <=> x \in e
    BY <1>1, <1>4, <2>1
  <2> QED BY <2>2
<1>8. Present(s) <=> Present(e)
  BY <1>1, X86 DEF Present
<1>9. e \cap {ACCESSED, DIRTY} = s \cap {ACCESSED, DIRTY}
  BY <1>1, X86
<1> QED BY <1>1, <1>5, <1>6, <1>7, <1>8, <1>9 DEF s

\* The memory type: likewise.
LEMMA ApplyMt ==
  ASSUME NEW e \in Word, NEW n \in SUBSET (0..2)
  PROVE  /\ ptedit_apply_mt(e, n) \in Word
         /\ Present(ptedit_apply_mt(e, n)) <=> Present(e)
         /\ Core(ptedit_apply_mt(e, n)) = ptedit_apply_mt(Core(e), n)
         /\ ptedit_apply_mt(ptedit_apply_mt(e, n), ptedit_extract_mt(e)) = e
         /\ ptedit_extract_mt(ptedit_apply_mt(e, n)) = n
<1>1. ASSUME NEW f \in Word, NEW k \in SUBSET (0..2)
      PROVE  \A x : x \in ptedit_apply_mt(f, k) <=>
                      \/ x \in f \ {3, 4, 7}
                      \/ x = 3 /\ 0 \in k
                      \/ x = 4 /\ 1 \in k
                      \/ x = 7 /\ 2 \in k
  BY X86 DEF ptedit_apply_mt, MtBits, MtBit, MtIndex, PWT, PCD, PAT
<1>2. ASSUME NEW f
      PROVE  \A x : x \in ptedit_extract_mt(f) <=>
                      \/ x = 0 /\ 3 \in f
                      \/ x = 1 /\ 4 \in f
                      \/ x = 2 /\ 7 \in f
  BY X86 DEF ptedit_extract_mt, MtBit, MtIndex, PWT, PCD, PAT
<1>3. ptedit_apply_mt(e, n) \in Word
  <2>1. {MtBit(i, FALSE) : i \in n \cap MtIndex} \in SUBSET Bits
    BY MtBitPositions
  <2> QED BY <2>1 DEF ptedit_apply_mt, Word
<1>4. Core(e) \in Word /\ ptedit_extract_mt(e) \in SUBSET (0..2)
  BY <1>2, CoreOfCore
<1>5. Core(ptedit_apply_mt(e, n)) = ptedit_apply_mt(Core(e), n)
  <2>1. \A x : x \in Core(ptedit_apply_mt(e, n)) <=> x \in ptedit_apply_mt(Core(e), n)
    BY <1>1, <1>4, X86 DEF Core
  <2> QED BY <2>1
<1>6. ptedit_apply_mt(ptedit_apply_mt(e, n), ptedit_extract_mt(e)) = e
  <2>1. \A x : x \in ptedit_apply_mt(ptedit_apply_mt(e, n), ptedit_extract_mt(e)) <=> x \in e
    BY <1>1, <1>2, <1>3, <1>4
  <2> QED BY <2>1
<1>7. ptedit_extract_mt(ptedit_apply_mt(e, n)) = n
  <2>1. 0..2 \subseteq 0..7
    OBVIOUS
  <2>2. n \in SUBSET (0..7)
    BY <2>1, Zenon
  <2>3. n \cap (0..2) = n
    BY Zenon
  <2> QED BY <2>2, <2>3, ExtractApplyMt
<1>8. Present(ptedit_apply_mt(e, n)) <=> Present(e)
  BY <1>1, X86 DEF Present
<1> QED BY <1>3, <1>5, <1>6, <1>7, <1>8

\* The memory type of a 2 MB page.
LEMMA ApplyMtHuge ==
  ASSUME NEW e \in Word, NEW n \in SUBSET (0..2)
  PROVE  /\ ptedit_apply_mt_huge(e, n) \in Word
         /\ Present(ptedit_apply_mt_huge(e, n)) <=> Present(e)
         /\ PSE \in ptedit_apply_mt_huge(e, n) <=> PSE \in e
         /\ Core(ptedit_apply_mt_huge(e, n)) = ptedit_apply_mt_huge(Core(e), n)
         /\ ptedit_extract_mt_huge(ptedit_apply_mt_huge(e, n)) = n
<1>1. ASSUME NEW f \in Word, NEW k \in SUBSET (0..2)
      PROVE  \A x : x \in ptedit_apply_mt_huge(f, k) <=>
                      \/ x \in f \ {3, 4, 12}
                      \/ x = 3 /\ 0 \in k
                      \/ x = 4 /\ 1 \in k
                      \/ x = 12 /\ 2 \in k
  BY X86 DEF ptedit_apply_mt_huge, MtBits, MtBit, MtIndex, PWT, PCD, PAT_LARGE
<1>2. ASSUME NEW f
      PROVE  \A x : x \in ptedit_extract_mt_huge(f) <=>
                      \/ x = 0 /\ 3 \in f
                      \/ x = 1 /\ 4 \in f
                      \/ x = 2 /\ 12 \in f
  BY X86 DEF ptedit_extract_mt_huge, MtBit, MtIndex, PWT, PCD, PAT_LARGE
<1>3. ptedit_apply_mt_huge(e, n) \in Word
  <2>1. {MtBit(i, TRUE) : i \in n \cap MtIndex} \in SUBSET Bits
    BY MtBitPositions
  <2> QED BY <2>1 DEF ptedit_apply_mt_huge, Word
<1>4. Core(e) \in Word
  BY CoreOfCore
<1>5. Core(ptedit_apply_mt_huge(e, n)) = ptedit_apply_mt_huge(Core(e), n)
  <2>1. \A x : x \in Core(ptedit_apply_mt_huge(e, n)) <=> x \in ptedit_apply_mt_huge(Core(e), n)
    BY <1>1, <1>4, X86 DEF Core
  <2> QED BY <2>1
<1>6. ptedit_extract_mt_huge(ptedit_apply_mt_huge(e, n)) = n
  <2>1. 0..2 \subseteq 0..7
    OBVIOUS
  <2>2. n \in SUBSET (0..7)
    BY <2>1, Zenon
  <2>3. n \cap (0..2) = n
    BY Zenon
  <2> QED BY <2>2, <2>3, ExtractApplyMt
<1>7. /\ Present(ptedit_apply_mt_huge(e, n)) <=> Present(e)
      /\ PSE \in ptedit_apply_mt_huge(e, n) <=> PSE \in e
  BY <1>1, X86 DEF Present
<1> QED BY <1>3, <1>5, <1>6, <1>7

-----------------------------------------------------------------------------
(* Walks *)

\* The levels on the way to an address.
LEMMA PathShape ==
  ASSUME NEW a
  PROVE  /\ a = Huge => /\ LeafAt(a) = "PMD" /\ Dirs(a) = {"PGD", "P4D", "PUD"}
                        /\ OnPath(a) = {"PGD", "P4D", "PUD", "PMD"}
         /\ a # Huge => /\ LeafAt(a) = "PTE" /\ Dirs(a) = {"PGD", "P4D", "PUD", "PMD"}
                        /\ OnPath(a) = {"PGD", "P4D", "PUD", "PMD", "PTE"}
         /\ Dirs(a) \subseteq OnPath(a) /\ LeafAt(a) \in OnPath(a) /\ LeafAt(a) \notin Dirs(a)
         /\ OnPath(a) \subseteq Levels
BY DEF LeafAt, Dirs, OnPath, Above, Levels

\* The six addresses are six.
LEMMA Addresses ==
  ASSUME Layout
  PROVE  /\ PageA # PageB /\ PageA # PageP /\ PageA # Huge /\ PageA # PmapVa /\ PageA # Target
         /\ PageB # PageP /\ PageB # Huge /\ PageB # PmapVa /\ PageB # Target
         /\ PageP # Huge /\ PageP # PmapVa /\ PageP # Target
         /\ Huge # PmapVa /\ Huge # Target /\ PmapVa # Target
         /\ Vas = {PageA, PageB, PageP, Huge, PmapVa, Target}
<1> DEFINE va == <<PageA, PageB, PageP, Huge, PmapVa, Target>>
<1>1. \A i, j \in 1..6 : va[i] = va[j] => i = j
  BY DEF Layout, Separate
<1>2. /\ va[1] = PageA /\ va[2] = PageB /\ va[3] = PageP
      /\ va[4] = Huge /\ va[5] = PmapVa /\ va[6] = Target
  OBVIOUS
<1> HIDE DEF va
<1>3. \A i, j \in 1..6 : i # j => va[i] # va[j]
  BY <1>1
<1> QED BY <1>2, <1>3 DEF Vas

\* The entry that maps an address, as the program finds it.
LEMMA LeafEntry ==
  ASSUME Layout, NEW a \in Vas
  PROVE  /\ LeafSlot(a) \in DOMAIN InitMem /\ LeafSlot(a) \notin DirSlots
         /\ InitMem[LeafSlot(a)] \in Word /\ Own(a) \in Word /\ Core(Own(a)) = Own(a)
         /\ Present(Own(a)) <=> a # PmapVa
         /\ PSE \in Own(Huge)
         /\ OwnFrame(a) \in SUBSET (0..39)
<1>1. LeafSlot(a) \in DOMAIN InitMem /\ InitMem[LeafSlot(a)] \in Word
  BY DEF Layout, TablesThere
<1>2. Own(a) \in Word /\ Core(Own(a)) = Own(a)
  BY <1>1, CoreOfCore DEF Own
<1>3. Present(Own(a)) <=> a # PmapVa
  BY <1>1, X86 DEF Layout, TablesThere, Own, Core, Present
<1>4. PSE \in Own(Huge)
  BY X86 DEF Layout, TablesThere, Own, Core
<1>5. LeafSlot(a) \notin DirSlots
  BY DEF Layout, PagesApart, LeafSlots
<1>6. OwnFrame(a) \in SUBSET (0..39)
  BY FrameBits DEF OwnFrame
<1> QED BY <1>1, <1>2, <1>3, <1>4, <1>5, <1>6

\* A directory: what it was at the start, apart from ACCESSED.
LEMMA DirEntry ==
  ASSUME Layout, NEW m, NEW g, Tables(m, g), NEW a \in Vas, NEW l \in Dirs(a)
  PROVE  /\ At(a, l) \in DirSlots /\ At(a, l) \in DOMAIN InitMem
         /\ m[At(a, l)] \in Word /\ Core(m[At(a, l)]) = Core(InitMem[At(a, l)])
         /\ FrameOf(m[At(a, l)]) = FrameOf(InitMem[At(a, l)])
         /\ FrameOf(m[At(a, l)]) \subseteq 0..27
         /\ Present(m[At(a, l)]) /\ PSE \notin m[At(a, l)]
         /\ ~Bad(m[At(a, l)]) /\ ~NoEntry(m[At(a, l)])
<1> DEFINE s == At(a, l)
<1>1. s \in DirSlots
  BY DEF DirSlots
<1>2. s \in DOMAIN InitMem /\ Present(InitMem[s]) /\ ~Bad(InitMem[s]) /\ FrameOf(InitMem[s]) \subseteq 0..27
  BY DEF Layout, TablesThere
<1>3. m[s] \in Word /\ m[s] \ {ACCESSED} = InitMem[s] \ {ACCESSED}
  BY <1>1, <1>2 DEF Tables
<1>4. Core(m[s]) = Core(InitMem[s])
  BY <1>3 DEF Core
<1>5. FrameOf(m[s]) = FrameOf(InitMem[s]) /\ Present(m[s]) /\ ~Bad(m[s])
  BY <1>2, <1>4, SameCore
<1>6. PSE \notin m[s]
  BY <1>5, X86 DEF Bad, Mask
<1>7. ~NoEntry(m[s])
  BY <1>5, X86 DEF NoEntry, Present
<1> QED BY <1>1, <1>2, <1>3, <1>4, <1>5, <1>6, <1>7

\* Walks pass the slots they passed at the start.
LEMMA PathKept ==
  ASSUME Layout, NEW m, NEW g, Tables(m, g), NEW a \in Vas, NEW l \in OnPath(a)
  PROVE  /\ Path(m, Root, a)[l] = At(a, l)
         /\ At(a, l) \in DOMAIN InitMem
         /\ m[At(a, l)] \in Word
         /\ Deref(m, At(a, l)) = m[At(a, l)]
<1> DEFINE P == Path(m, Root, a)
           Q == Path(InitMem, Root, a)
<1>1. ASSUME NEW k \in OnPath(a)
      PROVE  /\ Q[k] \in DOMAIN InitMem /\ m[Q[k]] \in Word
             /\ Deref(m, Q[k]) = m[Q[k]] /\ Deref(InitMem, Q[k]) = InitMem[Q[k]]
  <2>1. Q[k] \in DOMAIN InitMem
    <3>1. CASE k \in Dirs(a)
      BY <3>1, DirEntry DEF At
    <3>2. CASE k = LeafAt(a)
      BY <3>2, LeafEntry DEF At, LeafSlot
    <3> QED BY <3>1, <3>2 DEF OnPath
  <2>2. m \in [DOMAIN InitMem -> Word] /\ InitMem \in [DOMAIN InitMem -> Word]
    BY DEF Tables, Layout, TablesThere
  <2> QED BY <2>1, <2>2, DerefValue
<1>2. \A k \in Dirs(a) : FrameOf(Deref(m, Q[k])) = FrameOf(Deref(InitMem, Q[k]))
  BY <1>1, DirEntry, PathShape DEF At
<1>3. /\ P["PGD"] = Slot(Root, a, "PGD") /\ P["P4D"] = P["PGD"]
      /\ P["PUD"] = Slot(FrameOf(Deref(m, P["PGD"])), a, "PUD")
      /\ P["PMD"] = Slot(FrameOf(Deref(m, P["PUD"])), a, "PMD")
      /\ P["PTE"] = Slot(FrameOf(Deref(m, P["PMD"])), a, "PTE")
  BY PathLevels
<1>4. /\ Q["PGD"] = Slot(Root, a, "PGD") /\ Q["P4D"] = Q["PGD"]
      /\ Q["PUD"] = Slot(FrameOf(Deref(InitMem, Q["PGD"])), a, "PUD")
      /\ Q["PMD"] = Slot(FrameOf(Deref(InitMem, Q["PUD"])), a, "PMD")
      /\ Q["PTE"] = Slot(FrameOf(Deref(InitMem, Q["PMD"])), a, "PTE")
  BY PathLevels
<1> HIDE DEF P, Q
<1>5. P["PGD"] = Q["PGD"] /\ P["P4D"] = Q["P4D"]
  BY <1>3, <1>4
<1>6. P["PUD"] = Q["PUD"]
  BY <1>2, <1>3, <1>4, <1>5, PathShape
<1>7. P["PMD"] = Q["PMD"]
  BY <1>2, <1>3, <1>4, <1>6, PathShape
<1>8. a # Huge => P["PTE"] = Q["PTE"]
  BY <1>2, <1>3, <1>4, <1>7, PathShape
<1>9. P[l] = Q[l]
  BY <1>5, <1>6, <1>7, <1>8, PathShape
<1> QED BY <1>1, <1>9 DEF P, Q, At

\* What is required of the annotation of a 2 MB page.
LEMMA LeafValue ==
  ASSUME Layout, NEW m, NEW g, Tables(m, g), NEW a \in Vas
  PROVE  /\ LeafSlot(a) \in DOMAIN InitMem /\ m[LeafSlot(a)] \in Word
         /\ Core(m[LeafSlot(a)]) = g[a]
         /\ Present(m[LeafSlot(a)]) <=> Present(g[a])
         /\ PSE \in m[LeafSlot(a)] <=> PSE \in g[a]
         /\ FrameOf(m[LeafSlot(a)]) = FrameOf(g[a])
<1>1. LeafSlot(a) \in DOMAIN InitMem /\ m[LeafSlot(a)] \in Word
  BY LeafEntry DEF Tables
<1>2. Core(m[LeafSlot(a)]) = g[a]
  BY DEF Tables
<1>3. Core(m[LeafSlot(a)]) = Core(g[a])
  BY <1>1, <1>2, CoreOfCore
<1> QED BY <1>1, <1>2, <1>3, SameCore

\* The kernel's walk finds the directories and the entry.
LEMMA KernelPath ==
  ASSUME Layout, NEW m, NEW g, Tables(m, g), PSE \in g[Huge], NEW a \in Vas
  PROVE  /\ DOMAIN KernelWalk(m, Root, a) = OnPath(a)
         /\ \A l \in OnPath(a) : KernelWalk(m, Root, a)[l] = At(a, l)
<1> DEFINE P == Path(m, Root, a)
           E(l) == Deref(m, P[l])
           Valid(l) == \A k \in Above[l] \cup {l} :
                         KernelFinds(k, E(k)) /\ (k # l => KernelGoesOn(k, E(k)))
<1>1. \A l \in OnPath(a) : P[l] = At(a, l) /\ E(l) = m[At(a, l)]
  BY PathKept
<1>2. KernelWalk(m, Root, a) = Restrict(P, {l \in Levels : Valid(l)})
  BY DEF KernelWalk
<1>3. \A l \in Dirs(a) : KernelFinds(l, E(l)) /\ KernelGoesOn(l, E(l))
  BY <1>1, DirEntry, PathShape DEF KernelFinds, KernelGoesOn, PudLarge, PmdLarge
<1>4. KernelFinds(LeafAt(a), E(LeafAt(a))) /\ (a = Huge => ~KernelGoesOn("PMD", E("PMD")))
  <2>1. CASE a = Huge
    <3>1. E("PMD") = m[LeafSlot(a)] /\ PSE \in E("PMD")
      BY <1>1, <2>1, PathShape, LeafValue DEF LeafSlot
    <3>2. LeafAt(a) = "PMD" /\ ~NoEntry(E("PMD")) /\ PmdLarge(E("PMD"))
      BY <2>1, <3>1, X86, PathShape DEF NoEntry, PmdLarge
    <3> QED BY <2>1, <3>2 DEF KernelFinds, KernelGoesOn
  <2>2. CASE a # Huge
    BY <2>2, PathShape DEF KernelFinds
  <2> QED BY <2>1, <2>2
<1> HIDE DEF P, E
<1>5. {l \in Levels : Valid(l)} = OnPath(a)
  <2>1. CASE a = Huge
    BY <1>3, <1>4, <2>1, PathShape DEF Above, Levels
  <2>2. CASE a # Huge
    BY <1>3, <1>4, <2>2, PathShape DEF Above, Levels
  <2> QED BY <2>1, <2>2
<1> HIDE DEF Valid
<1>6. KernelWalk(m, Root, a) = [l \in OnPath(a) |-> P[l]]
  BY <1>2, <1>5 DEF Restrict
<1> QED BY <1>1, <1>6

\* So does the CPU's.
LEMMA CpuPath ==
  ASSUME Layout, NEW m, NEW g, Tables(m, g), PSE \in g[Huge], NEW a \in Vas
  PROVE  /\ DOMAIN CpuWalk(m, Root, a) = OnPath(a) \ {"P4D"}
         /\ \A l \in OnPath(a) \ {"P4D"} : CpuWalk(m, Root, a)[l] = At(a, l)
<1> DEFINE P == Path(m, Root, a)
           E(l) == Deref(m, P[l])
           Read(l) == \A k \in Above[l] : NamesTable(k, E(k))
<1>1. \A l \in OnPath(a) : P[l] = At(a, l) /\ E(l) = m[At(a, l)]
  BY PathKept
<1>2. CpuWalk(m, Root, a) = Restrict(P, {l \in CpuLevels : Read(l)})
  BY DEF CpuWalk
<1>3. \A l \in Dirs(a) : NamesTable(l, E(l))
  BY <1>1, DirEntry, PathShape DEF NamesTable
<1>4. a = Huge => ~NamesTable("PMD", E("PMD"))
  BY <1>1, PathShape, LeafValue DEF LeafSlot, NamesTable
<1> HIDE DEF P, E
<1>5. {l \in CpuLevels : Read(l)} = OnPath(a) \ {"P4D"}
  <2>1. CASE a = Huge
    BY <1>3, <1>4, <2>1, PathShape DEF Above, Levels, CpuLevels
  <2>2. CASE a # Huge
    BY <1>3, <1>4, <2>2, PathShape DEF Above, Levels, CpuLevels
  <2> QED BY <2>1, <2>2
<1> HIDE DEF Read
<1>6. CpuWalk(m, Root, a) = [l \in OnPath(a) \ {"P4D"} |-> P[l]]
  BY <1>2, <1>5 DEF Restrict
<1> QED BY <1>1, <1>6

\* The CPU translates an address by the entry that the annotation has for it.
LEMMA TranslationIs ==
  ASSUME Layout, NEW m, NEW g, Tables(m, g), PSE \in g[Huge], NEW a \in Vas
  PROVE  Translation(m, Root, a) = Via(a, g[a])
<1> DEFINE w == CpuWalk(m, Root, a)
<1>1. DOMAIN w = OnPath(a) \ {"P4D"} /\ \A l \in DOMAIN w : w[l] = At(a, l) /\ Deref(m, w[l]) = m[At(a, l)]
  <2>1. DOMAIN w = OnPath(a) \ {"P4D"} /\ \A l \in OnPath(a) \ {"P4D"} : w[l] = At(a, l)
    BY CpuPath
  <2>2. \A l \in OnPath(a) : Deref(m, At(a, l)) = m[At(a, l)]
    BY PathKept
  <2> HIDE DEF w
  <2> QED BY <2>1, <2>2
<1>2. Mapped(m, Root, a)
  <2>1. CASE a = Huge
    <3>1. "PMD" \in DOMAIN w /\ Deref(m, w["PMD"]) = m[LeafSlot(a)]
      BY <1>1, <2>1, PathShape DEF LeafSlot
    <3> QED BY <2>1, <3>1, LeafValue DEF Mapped
  <2>2. CASE a # Huge
    BY <1>1, <2>2, PathShape DEF Mapped
  <2> QED BY <2>1, <2>2
<1>3. ASSUME NEW l \in DOMAIN w
      PROVE  /\ l = LeafAt(a) => /\ Core(Deref(m, w[l])) = g[a]
                                 /\ Present(Deref(m, w[l])) <=> Present(g[a])
             /\ l # LeafAt(a) => /\ Core(Deref(m, w[l])) = Core(InitMem[At(a, l)])
                                 /\ Present(Deref(m, w[l]))
  <2>1. CASE l = LeafAt(a)
    BY <1>1, <2>1, LeafValue DEF LeafSlot
  <2>2. CASE l # LeafAt(a)
    BY <1>1, <2>2, DirEntry DEF OnPath
  <2> QED BY <2>1, <2>2
<1>4. LeafAt(a) \in DOMAIN w
  BY <1>1, PathShape
<1>5. Translation(m, Root, a) =
        IF \A l \in DOMAIN w : Present(Deref(m, w[l])) THEN [l \in DOMAIN w |-> Core(Deref(m, w[l]))] ELSE <<>>
  BY <1>2 DEF Translation, Core
<1> HIDE DEF w
<1>6. CASE Present(g[a])
  <2>1. Translation(m, Root, a) = [l \in DOMAIN w |-> Core(Deref(m, w[l]))]
    BY <1>3, <1>5, <1>6
  <2>2. Via(a, g[a]) = [l \in DOMAIN w |-> IF l = LeafAt(a) THEN g[a] ELSE Core(InitMem[At(a, l)])]
    BY <1>1, <1>6 DEF Via
  <2> QED BY <1>3, <2>1, <2>2
<1>7. CASE ~Present(g[a])
  BY <1>3, <1>4, <1>5, <1>7 DEF Via
<1> QED BY <1>6, <1>7

-----------------------------------------------------------------------------
(* The instructions *)

\* The text of each program, instruction by instruction.
LEMMA ExampleText ==
  LET c == Code["example"] IN
  /\ DOMAIN c = 1..14 /\ Len(c) = 14
  /\ c[1] = memset(PageA, CharA)
  /\ c[2] = memset(PageB, CharB)
  /\ c[3] = resolve("vm", PageA)
  /\ c[4] = expect(PageA, CharA)
  /\ c[5] = resolve("target", PageB)
  /\ c[6] = redirect(PageA, "vm", "target", "PTE")
  /\ c[7] = expect(PageA, CharB)
  /\ c[8] = read_page("vm", CharA)
  /\ c[9] = pmap("vm", "PTE", FALSE)
  /\ c[10] = expect(PmapVa, CharA)
  /\ c[11] = write_page("target", CharC)
  /\ c[12] = barrier
  /\ c[13] = expect(PageA, CharC)
  /\ c[14] = pte_set_pfn(PageA, "vm")
<1>1. Code["example"] = example_main
  BY DEF Code
<1> QED BY <1>1 DEF example_main

LEMMA MapPtText ==
  LET c == Code["map_pt"] IN
  /\ DOMAIN c = 1..10 /\ Len(c) = 10
  /\ c[1] = memset(PageA, CharB)
  /\ c[2] = memset(PageB, CharS)
  /\ c[3] = resolve("secret", PageB)
  /\ c[4] = resolve("target", PageA)
  /\ c[5] = pmap("target", "PMD", TRUE)
  /\ c[6] = expect_entry(PmapVa, PageA, "target")
  /\ c[7] = store_pfn(PmapVa, PageA, "secret")
  /\ c[8] = invalidate(PageA)
  /\ c[9] = expect(PageA, CharS)
  /\ c[10] = store(PmapVa, PageA, "target")
<1>1. Code["map_pt"] = map_pt_main
  BY DEF Code
<1> QED BY <1>1 DEF map_pt_main

LEMMA MapPtManualText ==
  LET c == Code["map_pt_manual"] IN
  /\ DOMAIN c = 1..13 /\ Len(c) = 13
  /\ c[1] = memset(PageP, CharA)
  /\ c[2] = memset(PageA, CharB)
  /\ c[3] = memset(PageB, CharS)
  /\ c[4] = resolve("secret", PageB)
  /\ c[5] = resolve("target", PageA)
  /\ c[6] = resolve("pt", PageP)
  /\ c[7] = redirect(PageP, "pt", "target", "PMD")
  /\ c[8] = expect_entry(PageP, PageA, "target")
  /\ c[9] = store_pfn(PageP, PageA, "secret")
  /\ c[10] = invalidate(PageA)
  /\ c[11] = expect(PageA, CharS)
  /\ c[12] = store(PageP, PageA, "target")
  /\ c[13] = update(PageP, "pt", "PTE")
<1>1. Code["map_pt_manual"] = map_pt_manual_main
  BY DEF Code
<1> QED BY <1>1 DEF map_pt_manual_main

LEMMA UncachableText ==
  LET c == Code["uncachable"] IN
  /\ DOMAIN c = 1..13 /\ Len(c) = 13
  /\ c[1] = memset(PageP, CharA)
  /\ c[2] = resolve("entry", PageP)
  /\ c[3] = retype(PageP, "entry", "PTE", MT_UC)
  /\ c[4] = expect_type(PageP, MT_UC)
  /\ c[5] = retype(PageP, "entry", "PTE", MT_WB)
  /\ c[6] = expect_type(PageP, MT_WB)
  /\ c[7] = mmap_huge
  /\ c[8] = resolve("huge", Huge)
  /\ c[9] = copy("original", "huge")
  /\ c[10] = retype(Huge, "huge", "PMD", MT_UC)
  /\ c[11] = expect_type(Huge, MT_UC)
  /\ c[12] = update(Huge, "original", "PMD")
  /\ c[13] = expect_type(Huge, MT_WB)
<1>1. Code["uncachable"] = uncachable_main
  BY DEF Code
<1> QED BY <1>1 DEF uncachable_main

LEMMA Virt2physText ==
  LET c == Code["virt2phys"] IN
  /\ DOMAIN c = 1..3 /\ Len(c) = 3
  /\ c[1] = memset(Target, CharX)
  /\ c[2] = resolve("entry", Target)
  /\ c[3] = virt2phys("entry", Target, {3})
<1>1. Code["virt2phys"] = virt2phys_main
  BY DEF Code
<1> QED BY <1>1 DEF virt2phys_main

LEMMA PerformanceText ==
  LET c == Code["performance"] IN
  /\ DOMAIN c = 1..6 /\ Len(c) = 6
  /\ c[1] = memset(Target, CharX)
  /\ c[2] = resolve("entry", Target)
  /\ c[3] = resolve_user("entry_us", Target)
  /\ c[4] = same("entry", "entry_us")
  /\ c[5] = resolve_user("entry_us", Target)
  /\ c[6] = same("entry", "entry_us")
<1>1. Code["performance"] = performance_main
  BY DEF Code
<1> QED BY <1>1 DEF performance_main

LEMMA MemmapText ==
  LET c == Code["memmap"] IN
  /\ DOMAIN c = 1..1 /\ Len(c) = 1
  /\ c[1] = memmap
<1>1. Code["memmap"] = memmap_main
  BY DEF Code
<1> QED BY <1>1 DEF memmap_main

\* The seven programs.
LEMMA ProgramNames ==
  DOMAIN Code = {"example", "map_pt", "map_pt_manual", "uncachable", "virt2phys",
                 "performance", "memmap"}
BY DEF Code

-----------------------------------------------------------------------------
(* The annotation *)

\* The annotation of the entries is the same before instructions i and j.
SameSpans(p, i, j) ==
  /\ ShowsB(p, i) <=> ShowsB(p, j)
  /\ ShowsTable(p, i) <=> ShowsTable(p, j)
  /\ Uncached(p, i) <=> Uncached(p, j)
  /\ UncachedHuge(p, i) <=> UncachedHuge(p, j)
  /\ Pmapped(p, i) <=> Pmapped(p, j)

\* The annotation names the same entries before i and j.
LEMMA SameLeaves ==
  ASSUME NEW p, NEW i, NEW j, SameSpans(p, i, j), NEW u, NEW w
  PROVE  Leaves(p, i, u, w) = Leaves(p, j, u, w)
BY DEF SameSpans, Leaves, Leaf

\* Which instructions end or begin what the annotation says.
LEMMA SpansMove ==
  ASSUME NEW p \in DOMAIN Code, NEW i \in DOMAIN Code[p],
         Code[p][i].op \notin {"redirect", "pte_set_pfn", "store", "store_pfn", "update", "retype", "pmap"}
  PROVE  SameSpans(p, i, i + 1)
<1>1. CASE p = "example"
  BY <1>1, ExampleText
     DEF barrier, expect, memset, pmap, pte_set_pfn, read_page, redirect, resolve, write_page,
         SameSpans, ShowsB, ShowsTable, Uncached, UncachedHuge, Pmapped
<1>2. CASE p = "map_pt"
  BY <1>2, MapPtText
     DEF expect, expect_entry, invalidate, memset, pmap, resolve, store, store_pfn,
         SameSpans, ShowsB, ShowsTable, Uncached, UncachedHuge, Pmapped
<1>3. CASE p = "map_pt_manual"
  BY <1>3, MapPtManualText
     DEF expect, expect_entry, invalidate, memset, redirect, resolve, store, store_pfn, update,
         SameSpans, ShowsB, ShowsTable, Uncached, UncachedHuge, Pmapped
<1>4. CASE p = "uncachable"
  BY <1>4, UncachableText
     DEF copy, expect_type, memset, mmap_huge, resolve, retype, update,
         SameSpans, ShowsB, ShowsTable, Uncached, UncachedHuge, Pmapped
<1>5. CASE p = "virt2phys"
  BY <1>5, Virt2physText
     DEF memset, resolve, virt2phys,
         SameSpans, ShowsB, ShowsTable, Uncached, UncachedHuge, Pmapped
<1>6. CASE p = "performance"
  BY <1>6, PerformanceText
     DEF memset, resolve, resolve_user, same,
         SameSpans, ShowsB, ShowsTable, Uncached, UncachedHuge, Pmapped
<1>7. CASE p = "memmap"
  BY <1>7, MemmapText
     DEF memmap,
         SameSpans, ShowsB, ShowsTable, Uncached, UncachedHuge, Pmapped
<1> QED BY <1>1, <1>2, <1>3, <1>4, <1>5, <1>6, <1>7, ProgramNames

\* Of the instructions only invalidate takes an address off those stored to.
LEMMA StoredMoves ==
  ASSUME NEW p \in DOMAIN Code, NEW i \in DOMAIN Code[p],
         Code[p][i].op # "invalidate"
  PROVE  Stored(p, i) \subseteq Stored(p, i + 1)
<1>1. CASE p = "example"
  BY <1>1, ExampleText
     DEF barrier, expect, memset, pmap, pte_set_pfn, read_page, redirect, resolve, write_page, Stored
<1>2. CASE p = "map_pt"
  BY <1>2, MapPtText
     DEF expect, expect_entry, invalidate, memset, pmap, resolve, store, store_pfn, Stored
<1>3. CASE p = "map_pt_manual"
  BY <1>3, MapPtManualText
     DEF expect, expect_entry, invalidate, memset, redirect, resolve, store, store_pfn, update, Stored
<1>4. CASE p = "uncachable"
  BY <1>4, UncachableText
     DEF copy, expect_type, memset, mmap_huge, resolve, retype, update, Stored
<1>5. CASE p = "virt2phys"
  BY <1>5, Virt2physText
     DEF memset, resolve, virt2phys, Stored
<1>6. CASE p = "performance"
  BY <1>6, PerformanceText
     DEF memset, resolve, resolve_user, same, Stored
<1>7. CASE p = "memmap"
  BY <1>7, MemmapText
     DEF memmap, Stored
<1> QED BY <1>1, <1>2, <1>3, <1>4, <1>5, <1>6, <1>7, ProgramNames

\* Of the instructions only memset adds an address that was written to.
LEMMA WrittenMoves ==
  ASSUME NEW p \in DOMAIN Code, NEW i \in DOMAIN Code[p],
         Code[p][i].op # "memset"
  PROVE  Written(p, i + 1) = Written(p, i)
<1>1. CASE p = "example"
  BY <1>1, ExampleText
     DEF barrier, expect, memset, pmap, pte_set_pfn, read_page, redirect, resolve, write_page, Written
<1>2. CASE p = "map_pt"
  BY <1>2, MapPtText
     DEF expect, expect_entry, invalidate, memset, pmap, resolve, store, store_pfn, Written
<1>3. CASE p = "map_pt_manual"
  BY <1>3, MapPtManualText
     DEF expect, expect_entry, invalidate, memset, redirect, resolve, store, store_pfn, update, Written
<1>4. CASE p = "uncachable"
  BY <1>4, UncachableText
     DEF copy, expect_type, memset, mmap_huge, resolve, retype, update, Written
<1>5. CASE p = "virt2phys"
  BY <1>5, Virt2physText
     DEF memset, resolve, virt2phys, Written
<1>6. CASE p = "performance"
  BY <1>6, PerformanceText
     DEF memset, resolve, resolve_user, same, Written
<1>7. CASE p = "memmap"
  BY <1>7, MemmapText
     DEF memmap, Written
<1> QED BY <1>1, <1>2, <1>3, <1>4, <1>5, <1>6, <1>7, ProgramNames

\* Of the instructions only memset and write_page change contents.
LEMMA ContentsMove ==
  ASSUME NEW p \in DOMAIN Code, NEW i \in DOMAIN Code[p],
         Code[p][i].op \notin {"memset", "write_page"}, NEW m, Contents(p, i, m)
  PROVE  Contents(p, i + 1, m)
<1>1. CASE p = "example"
  BY <1>1, ExampleText
     DEF barrier, expect, memset, pmap, pte_set_pfn, read_page, redirect, resolve, write_page, Contents
<1>2. CASE p = "map_pt"
  BY <1>2, MapPtText
     DEF expect, expect_entry, invalidate, memset, pmap, resolve, store, store_pfn, Contents
<1>3. CASE p = "map_pt_manual"
  BY <1>3, MapPtManualText
     DEF expect, expect_entry, invalidate, memset, redirect, resolve, store, store_pfn, update, Contents
<1>4. CASE p = "uncachable"
  BY <1>4, UncachableText
     DEF copy, expect_type, memset, mmap_huge, resolve, retype, update, Contents
<1>5. CASE p = "virt2phys"
  BY <1>5, Virt2physText
     DEF memset, resolve, virt2phys, Contents
<1>6. CASE p = "performance"
  BY <1>6, PerformanceText
     DEF memset, resolve, resolve_user, same, Contents
<1>7. CASE p = "memmap"
  BY <1>7, MemmapText
     DEF memmap, Contents
<1> QED BY <1>1, <1>2, <1>3, <1>4, <1>5, <1>6, <1>7, ProgramNames

\* Of the instructions only those that assign change variables.
LEMMA VariablesMove ==
  ASSUME NEW p \in DOMAIN Code, NEW i \in DOMAIN Code[p],
         Code[p][i].op \notin {"resolve", "copy", "resolve_user", "retype"},
         NEW e, NEW u, NEW w, Variables(p, i, e, u, w)
  PROVE  Variables(p, i + 1, e, u, w)
<1>1. CASE p = "example"
  BY <1>1, ExampleText
     DEF barrier, expect, memset, pmap, pte_set_pfn, read_page, redirect, resolve, write_page, Variables
<1>2. CASE p = "map_pt"
  BY <1>2, MapPtText
     DEF expect, expect_entry, invalidate, memset, pmap, resolve, store, store_pfn, Variables
<1>3. CASE p = "map_pt_manual"
  BY <1>3, MapPtManualText
     DEF expect, expect_entry, invalidate, memset, redirect, resolve, store, store_pfn, update, Variables
<1>4. CASE p = "uncachable"
  <2>1. i \in {1, 4, 6, 7, 11, 12, 13}
    BY <1>4, UncachableText DEF resolve, copy, retype
  <2>2. CASE i = 4
    <3>1. Leaf(p, 5, u, w, PageP) = Leaf(p, 4, u, w, PageP)
      BY <1>4 DEF Leaf, ShowsB, ShowsTable, Uncached, UncachedHuge, Pmapped
    <3>2. Saved(e, "entry", "PTE", Leaf(p, 4, u, w, PageP))
      BY <1>4, <2>2 DEF Variables
    <3> QED BY <1>4, <2>2, <3>1, <3>2 DEF Variables
  <2>3. CASE i # 4
    BY <1>4, <2>1, <2>3 DEF Variables
  <2> QED BY <2>2, <2>3
<1>5. CASE p = "virt2phys"
  BY <1>5, Virt2physText
     DEF memset, resolve, virt2phys, Variables
<1>6. CASE p = "performance"
  BY <1>6, PerformanceText
     DEF memset, resolve, resolve_user, same, Variables
<1>7. CASE p = "memmap"
  BY <1>7, MemmapText
     DEF memmap, Variables
<1> QED BY <1>1, <1>2, <1>3, <1>4, <1>5, <1>6, <1>7, ProgramNames

\* What the annotation says of entries.
LEMMA LeafIs ==
  ASSUME Layout, NEW p, NEW i, NEW u, NEW w, NEW a \in Vas
  PROVE  /\ Leaf(p, i, u, w, a) \in Word
         /\ Core(Leaf(p, i, u, w, a)) = Leaf(p, i, u, w, a)
         /\ a # PmapVa => Present(Leaf(p, i, u, w, a))
         /\ a = Huge => PSE \in Leaf(p, i, u, w, a)
<1> DEFINE uc == IdBits(ptedit_find_first_mt(w, MT_UC))
           e == Leaf(p, i, u, w, a)
<1>1. uc \in SUBSET (0..2)
  BY DEF IdBits, MtIndex
<1>2. /\ Own(a) \in Word /\ Core(Own(a)) = Own(a)
      /\ Present(Own(a)) <=> a # PmapVa
      /\ PSE \in Own(Huge)
  BY LeafEntry
<1>3. OwnFrame(PageB) \in SUBSET (0..39) /\ OwnFrame(PageA) \in SUBSET (0..39) /\ TableA \in SUBSET (0..39)
  BY FrameBits DEF OwnFrame, TableA
<1>4. CASE e = Own(a)
  BY <1>2, <1>4
<1>5. CASE a = PageA /\ e = ptedit_set_pfn(Own(a), OwnFrame(PageB))
  BY <1>2, <1>3, <1>5, SetPfn, Addresses
<1>6. CASE a = PageP /\ e = ptedit_set_pfn(Own(a), TableA)
  BY <1>2, <1>3, <1>6, SetPfn, Addresses
<1>7. CASE a = PageP /\ e = ptedit_apply_mt(Own(a), uc)
  <2>1. /\ ptedit_apply_mt(Own(a), uc) \in Word
        /\ Present(ptedit_apply_mt(Own(a), uc)) <=> Present(Own(a))
        /\ Core(ptedit_apply_mt(Own(a), uc)) = ptedit_apply_mt(Core(Own(a)), uc)
    BY <1>1, <1>2, ApplyMt
  <2> QED BY <1>2, <1>7, <2>1, Addresses
<1>8. CASE a = Huge /\ e = ptedit_apply_mt_huge(Own(a), uc)
  <2>1. /\ ptedit_apply_mt_huge(Own(a), uc) \in Word
        /\ Present(ptedit_apply_mt_huge(Own(a), uc)) <=> Present(Own(a))
        /\ PSE \in ptedit_apply_mt_huge(Own(a), uc) <=> PSE \in Own(a)
        /\ Core(ptedit_apply_mt_huge(Own(a), uc)) = ptedit_apply_mt_huge(Core(Own(a)), uc)
    BY <1>1, <1>2, ApplyMtHuge
  <2> QED BY <1>2, <1>8, <2>1, Addresses
<1>9. CASE a = PmapVa /\ \E f \in {OwnFrame(PageA), TableA} : e = ptedit_set_pfn({PRESENT, RW, USER}, f)
  <2> DEFINE new == {PRESENT, RW, USER}
  <2>1. new \in Word /\ Core(new) = new
    BY X86 DEF Word, Bits, Core
  <2>2. PICK f \in {OwnFrame(PageA), TableA} : e = ptedit_set_pfn(new, f)
    BY <1>9
  <2> HIDE DEF new, e
  <2>3. e \in Word /\ Core(e) = e
    BY <1>3, <2>1, <2>2, SetPfn
  <2> QED BY <1>9, <2>3, Addresses DEF e
<1>10. \/ e = Own(a)
       \/ a = PageA /\ e = ptedit_set_pfn(Own(a), OwnFrame(PageB))
       \/ a = PageP /\ e = ptedit_set_pfn(Own(a), TableA)
       \/ a = PageP /\ e = ptedit_apply_mt(Own(a), uc)
       \/ a = Huge /\ e = ptedit_apply_mt_huge(Own(a), uc)
       \/ a = PmapVa /\ e = ptedit_set_pfn({PRESENT, RW, USER}, OwnFrame(PageA))
       \/ a = PmapVa /\ e = ptedit_set_pfn({PRESENT, RW, USER}, TableA)
  BY DEF Leaf
<1> HIDE DEF e, uc
<1> QED BY <1>4, <1>5, <1>6, <1>7, <1>8, <1>9, <1>10 DEF e

\* As long as an address has the entry it had.
LEMMA LeafOwn ==
  ASSUME Layout, NEW p, NEW i, NEW u, NEW w, NEW a \in Vas,
         a = PageA => ~ShowsB(p, i),
         a = PageP => ~ShowsTable(p, i) /\ ~Uncached(p, i),
         a = Huge => ~UncachedHuge(p, i),
         a = PmapVa => ~Pmapped(p, i) \/ u = FALSE
  PROVE  Leaf(p, i, u, w, a) = Own(a)
BY Addresses DEF Leaf

-----------------------------------------------------------------------------
(* Memory and TLBs *)

\* What a step leaves alone.
Kept(m, n, slots) == \A s \in slots : n[s] = m[s]
StayRaised(m, n) == \A b \in Vas : Raised(m, b) => Raised(n, b)
Put(m, s, e) == [m EXCEPT ![s] = e]
RaiseAt(m, w) ==
  [s \in DOMAIN m |-> IF \E l \in DOMAIN w : w[l] = s THEN m[s] \cup {ACCESSED} ELSE m[s]]
Holds(m, a, v) == a \in {PageA, PageB} => m[<<OwnFrame(a), {}>>] = v
NotIn(a) == {s \in DOMAIN InitMem : s[1] # OwnFrame(a)}

\* Pages hold no tables.
LEMMA DataSlots ==
  ASSUME Layout, NEW a \in {PageA, PageB, PageP, Target}
  PROVE  /\ \A s \in LeafSlots \cup DirSlots : s[1] # OwnFrame(a)
         /\ <<OwnFrame(a), {}>> \notin LeafSlots \cup DirSlots
         /\ a \in {PageA, PageB} => <<OwnFrame(a), {}>> \in DOMAIN InitMem
<1>1. \A s \in LeafSlots \cup DirSlots : s[1] # OwnFrame(a)
  BY DEF Layout, PagesApart
<1>2. <<OwnFrame(a), {}>>[1] = OwnFrame(a)
  OBVIOUS
<1> QED BY <1>1, <1>2 DEF Layout, PagesApart

\* A store to the entry of an address.
LEMMA LeafWrite ==
  ASSUME Layout, NEW m, NEW g, Tables(m, g), NEW a \in Vas, NEW e \in Word,
         NEW h, h[a] = Core(e), \A b \in Vas \ {a} : h[b] = g[b],
         NEW n, n = Put(m, LeafSlot(a), e)
  PROVE  /\ Tables(n, h)
         /\ n[LeafSlot(a)] = e
         /\ Kept(m, n, DOMAIN InitMem \ {LeafSlot(a)}) /\ StayRaised(m, n)
<1>1. /\ m \in [DOMAIN InitMem -> Word]
      /\ \A s \in DirSlots : m[s] \ {ACCESSED} = InitMem[s] \ {ACCESSED}
      /\ \A b \in Vas : Core(m[LeafSlot(b)]) = g[b]
  BY DEF Tables
<1>2. /\ n \in [DOMAIN InitMem -> Word] /\ n[LeafSlot(a)] = e
      /\ \A s \in DOMAIN InitMem : s # LeafSlot(a) => n[s] = m[s]
  BY <1>1, LeafEntry DEF Put
<1>3. DirSlots \subseteq DOMAIN InitMem
  BY DEF DirSlots, Layout, TablesThere
<1>4. \A s \in DirSlots : n[s] = m[s]
  BY <1>2, <1>3, LeafEntry
<1>5. \A b \in Vas \ {a} : n[LeafSlot(b)] = m[LeafSlot(b)]
  BY <1>2, LeafEntry DEF Layout, PagesApart
<1>6. Tables(n, h)
  BY <1>1, <1>2, <1>4, <1>5 DEF Tables
<1>7. \A b \in Vas : Raised(m, b) => Raised(n, b)
  BY <1>4 DEF Raised, DirSlots
<1> QED BY <1>2, <1>6, <1>7 DEF Kept, StayRaised

\* A page is filled.
LEMMA PageFill ==
  ASSUME Layout, NEW m, NEW g, Tables(m, g), NEW a \in {PageA, PageB, PageP, Target},
         NEW v \in Word, NEW n, n = Fill(m, OwnFrame(a), v)
  PROVE  /\ Tables(n, g)
         /\ Kept(m, n, LeafSlots \cup DirSlots) /\ Kept(m, n, NotIn(a)) /\ StayRaised(m, n)
         /\ Holds(n, a, v)
<1>1. /\ m \in [DOMAIN InitMem -> Word]
      /\ \A s \in DirSlots : m[s] \ {ACCESSED} = InitMem[s] \ {ACCESSED}
      /\ \A b \in Vas : Core(m[LeafSlot(b)]) = g[b]
  BY DEF Tables
<1>2. /\ n \in [DOMAIN InitMem -> Word]
      /\ \A s \in DOMAIN InitMem : n[s] = IF s[1] = OwnFrame(a) THEN v ELSE m[s]
  BY <1>1 DEF Fill
<1>3. LeafSlots \cup DirSlots \subseteq DOMAIN InitMem
  BY DEF DirSlots, LeafSlots, Layout, TablesThere
<1>4. \A s \in LeafSlots \cup DirSlots : n[s] = m[s]
  BY <1>2, <1>3, DataSlots
<1>5. Tables(n, g)
  BY <1>1, <1>2, <1>4 DEF Tables, LeafSlots
<1>6. a \in {PageA, PageB} => n[<<OwnFrame(a), {}>>] = v
  <2>1. <<OwnFrame(a), {}>>[1] = OwnFrame(a)
    OBVIOUS
  <2> QED BY <1>2, <2>1, DataSlots
<1>7. \A b \in Vas : Raised(m, b) => Raised(n, b)
  BY <1>4 DEF Raised, DirSlots
<1> QED BY <1>2, <1>4, <1>5, <1>6, <1>7 DEF Kept, StayRaised, NotIn, Holds

\* A CPU raises ACCESSED in the entries it reads.
LEMMA WalkRaises ==
  ASSUME Layout, NEW m, NEW g, Tables(m, g), PSE \in g[Huge], NEW a \in Vas,
         NEW w, w = CpuWalk(m, Root, a), NEW n, n = RaiseAt(m, w)
  PROVE  /\ Tables(n, g) /\ StayRaised(m, n) /\ Raised(n, a)
         /\ Kept(m, n, DOMAIN InitMem \ (LeafSlots \cup DirSlots))
         /\ \A s \in LeafSlots : m[s] \subseteq n[s]
<1>1. /\ m \in [DOMAIN InitMem -> Word]
      /\ \A s \in DirSlots : m[s] \ {ACCESSED} = InitMem[s] \ {ACCESSED}
      /\ \A b \in Vas : Core(m[LeafSlot(b)]) = g[b]
  BY DEF Tables
<1>2. LeafSlots \cup DirSlots \subseteq DOMAIN InitMem
  BY DEF DirSlots, LeafSlots, Layout, TablesThere
<1>3. DOMAIN w = OnPath(a) \ {"P4D"} /\ \A l \in DOMAIN w : w[l] = At(a, l)
  BY CpuPath
<1>4. \A l \in DOMAIN w : w[l] \in LeafSlots \cup DirSlots
  BY <1>3 DEF OnPath, DirSlots, LeafSlots, LeafSlot
<1>5. /\ n \in [DOMAIN InitMem -> Word]
      /\ \A s \in DOMAIN InitMem :
           /\ n[s] \in {m[s], m[s] \cup {ACCESSED}}
           /\ n[s] # m[s] => s \in LeafSlots \cup DirSlots
      /\ \A l \in DOMAIN w : ACCESSED \in n[w[l]]
  <2>1. \A s \in DOMAIN InitMem : m[s] \cup {ACCESSED} \in Word
    BY <1>1, X86 DEF Word, Bits
  <2>2. \A s \in DOMAIN InitMem : n[s] = IF \E l \in DOMAIN w : w[l] = s THEN m[s] \cup {ACCESSED} ELSE m[s]
    BY <1>1 DEF RaiseAt
  <2>3. n \in [DOMAIN InitMem -> Word]
    BY <1>1, <2>1 DEF RaiseAt
  <2> QED BY <1>2, <1>4, <2>2, <2>3
<1>6. \A s \in DOMAIN InitMem : n[s] \ {ACCESSED} = m[s] \ {ACCESSED} /\ Core(n[s]) = Core(m[s])
  BY <1>5 DEF Core
<1>7. Tables(n, g)
  <2>1. \A s \in DirSlots : n[s] \ {ACCESSED} = InitMem[s] \ {ACCESSED}
    BY <1>1, <1>2, <1>6
  <2>2. \A b \in Vas : Core(n[LeafSlot(b)]) = g[b]
    BY <1>1, <1>2, <1>6 DEF LeafSlots
  <2> QED BY <1>5, <2>1, <2>2 DEF Tables
<1>8. \A b \in Vas : Raised(m, b) => Raised(n, b)
  <2>1. \A b \in Vas : \A l \in Dirs(b) : At(b, l) \in DOMAIN InitMem
    BY <1>2 DEF DirSlots
  <2> QED BY <1>5, <2>1 DEF Raised
<1>9. Raised(n, a)
  <2>1. \A l \in Dirs(a) \ {"P4D"} : ACCESSED \in n[At(a, l)]
    BY <1>3, <1>5, PathShape
  <2>2. At(a, "P4D") = At(a, "PGD") /\ "PGD" \in Dirs(a)
    BY PathLevels, PathShape DEF At
  <2> QED BY <2>1, <2>2 DEF Raised
<1> QED BY <1>2, <1>5, <1>7, <1>8, <1>9 DEF Kept, StayRaised

\* An access by way of a translation that is not stale.
LEMMA CachedFrame ==
  ASSUME NEW t, NEW m, NEW g, NEW st, Caches(t, m, g, st),
         NEW c \in Cpus, NEW a \in Vas \ {Huge}, a \notin st, t[c][a] # <<>>
  PROVE  /\ t[c][a] = Via(a, g[a]) /\ Present(g[a])
         /\ PageFrame(t[c][a]) = FrameOf(g[a]) /\ LeafLevel(t[c][a]) = "PTE"
         /\ Raised(m, a)
<1>1. t[c][a] = Via(a, g[a]) /\ Raised(m, a)
  BY DEF Caches
<1>2. Present(g[a])
  BY <1>1 DEF Via
<1>3. "PTE" \in DOMAIN Via(a, g[a]) /\ Via(a, g[a])["PTE"] = g[a]
  BY <1>2, PathShape DEF Via
<1> QED BY <1>1, <1>2, <1>3 DEF PageFrame, LeafLevel

\* Translations stay good as long as the entries of addresses that are not
\* stale stay the same.
LEMMA CachesKept ==
  ASSUME NEW t, NEW m, NEW g, NEW st, Caches(t, m, g, st), NEW n, NEW h, NEW su,
         st \subseteq su, \A b \in Vas \ su : h[b] = g[b], StayRaised(m, n)
  PROVE  Caches(t, n, h, su)
BY DEF Caches, StayRaised

FlushAll(t, a) == [c \in Cpus |-> [t[c] EXCEPT ![a] = <<>>]]
FillOne(t, c, a, v) == [t EXCEPT ![c][a] = v]

\* An address is flushed everywhere.
LEMMA CachesFlushed ==
  ASSUME NEW t, NEW m, NEW g, NEW st, Caches(t, m, g, st), NEW n, NEW h, NEW a \in Vas,
         \A b \in Vas \ {a} : h[b] = g[b], StayRaised(m, n),
         NEW f, f = FlushAll(t, a)
  PROVE  Caches(f, n, h, st \ {a})
<1>1. \A c \in Cpus : t[c] = [b \in Vas |-> t[c][b]]
  <2>1. t = [c \in Cpus |-> [b \in Vas |-> t[c][b]]]
    BY DEF Caches
  <2> QED BY <2>1
<1>2. \A c \in Cpus : f[c] = [b \in Vas |-> f[c][b]] /\ f[c][a] = <<>> /\ \A b \in Vas \ {a} : f[c][b] = t[c][b]
  BY <1>1 DEF FlushAll
<1>3. f = [c \in Cpus |-> [b \in Vas |-> f[c][b]]]
  BY <1>2 DEF FlushAll
<1>4. ASSUME NEW c \in Cpus, NEW b \in Vas
      PROVE  /\ f[c][b] \in {<<>>, Via(b, h[b])} \/ b \in st \ {a}
             /\ f[c][b] # <<>> => Raised(n, b)
  <2>1. /\ t[c][b] \in {<<>>, Via(b, g[b])} \/ b \in st
        /\ t[c][b] # <<>> => Raised(m, b)
    BY DEF Caches
  <2>2. CASE b = a
    BY <1>2, <2>2
  <2>3. CASE b # a
    BY <1>2, <2>1, <2>3 DEF StayRaised
  <2> QED BY <2>2, <2>3
<1> QED BY <1>3, <1>4 DEF Caches

\* One translation is filled in or evicted.
LEMMA CachesSet ==
  ASSUME NEW t, NEW m, NEW g, NEW st, Caches(t, m, g, st), NEW n, NEW c \in Cpus, NEW a \in Vas,
         NEW v, v \in {<<>>, Via(a, g[a])}, v # <<>> => Raised(n, a), StayRaised(m, n),
         NEW f, f = FillOne(t, c, a, v)
  PROVE  Caches(f, n, g, st)
<1>1. t = [d \in Cpus |-> [b \in Vas |-> t[d][b]]]
  BY DEF Caches
<1>2. /\ f = [d \in Cpus |-> [b \in Vas |-> f[d][b]]]
      /\ \A d \in Cpus, b \in Vas : f[d][b] = IF d = c /\ b = a THEN v ELSE t[d][b]
  BY <1>1 DEF FillOne
<1>3. ASSUME NEW d \in Cpus, NEW b \in Vas
      PROVE  /\ f[d][b] \in {<<>>, Via(b, g[b])} \/ b \in st
             /\ f[d][b] # <<>> => Raised(n, b)
  BY <1>2 DEF Caches, StayRaised
<1> QED BY <1>2, <1>3 DEF Caches

-----------------------------------------------------------------------------
(* Steps *)

Now == Leaves(prog, pc, umem, pat)

\* What the invariant says of a running program.
LEMMA Facts ==
  ASSUME Layout, ProgramsInv, prog # "memmap"
  PROVE  /\ BaseInv /\ RunInv
         /\ prog \in DOMAIN Code /\ code = Code[prog] /\ cpu \in Cpus
         /\ Tables(mem, Now) /\ Caches(tlb, mem, Now, unflushed) /\ PSE \in Now[Huge]
         /\ \A a \in Vas : Now[a] = Leaf(prog, pc, umem, pat, a)
         /\ Huge \in Vas
<1>1. BaseInv /\ RunInv
  BY DEF ProgramsInv
<1>2. prog \in DOMAIN Code /\ code = Code[prog] /\ cpu \in Cpus
  BY <1>1 DEF BaseInv, Layout, Separate
<1>3. Tables(mem, Now) /\ Caches(tlb, mem, Now, unflushed)
  BY <1>1 DEF RunInv, Now
<1>4. \A a \in Vas : Now[a] = Leaf(prog, pc, umem, pat, a)
  BY DEF Now, Leaves
<1>5. Huge \in Vas
  BY DEF Vas
<1> QED BY <1>1, <1>2, <1>3, <1>4, <1>5, LeafIs

\* The program is at one of its instructions.
LEMMA ProgramPoint ==
  ASSUME Layout, ProgramsInv, prog # "memmap", Running
  PROVE  /\ pc \in DOMAIN Code[prog] /\ Op = Code[prog][pc]
         /\ pc \in Nat \ {0} /\ pc + 1 \in 0 .. Len(code) + 1 /\ pc + 1 # 0
<1>1. code = Code[prog] /\ prog \in DOMAIN Code
  BY Facts
<1>2. pc \in DOMAIN Code[prog] /\ Op = Code[prog][pc]
  BY <1>1 DEF Running, Op
<1>3. DOMAIN Code[prog] = 1 .. Len(Code[prog]) /\ Len(Code[prog]) \in Nat
  BY <1>1, ProgramNames, ExampleText, MapPtText, MapPtManualText, UncachableText,
     Virt2physText, PerformanceText, MemmapText
<1> QED BY <1>1, <1>2, <1>3

\* Instructions that change nothing of the machine.
LEMMA QuietStep ==
  ASSUME Layout, ProgramsInv, prog # "memmap", Running, pc' = pc + 1, failed' = {},
         UNCHANGED <<mem, tlb, cpu, fixed, env, unflushed, work>>,
         Op.op \in {"expect", "expect_type", "expect_entry", "read_page", "same", "virt2phys",
                    "barrier", "mmap_huge"}
  PROVE  BaseInv' /\ RunInv'
<1>1. /\ prog \in DOMAIN Code /\ pc \in DOMAIN Code[prog] /\ Op = Code[prog][pc]
      /\ pc \in Nat \ {0} /\ pc + 1 \in 0 .. Len(code) + 1 /\ pc + 1 # 0
  BY Facts, ProgramPoint
<1>2. BaseInv /\ RunInv
  BY Facts
<1>3. UNCHANGED <<mem, tlb, cpu, umem, pat, prog, code, env, unflushed, work>>
  BY DEF fixed
<1>4. BaseInv'
  BY <1>1, <1>2, <1>3 DEF BaseInv
<1>5. Leaves(prog, pc + 1, umem, pat) = Leaves(prog, pc, umem, pat)
  BY <1>1, SpansMove, SameLeaves
<1>6. /\ Stored(prog, pc) \subseteq Stored(prog, pc + 1)
      /\ Written(prog, pc + 1) = Written(prog, pc)
      /\ Contents(prog, pc, mem) => Contents(prog, pc + 1, mem)
      /\ Variables(prog, pc, env, umem, pat) => Variables(prog, pc + 1, env, umem, pat)
  BY <1>1, StoredMoves, WrittenMoves, ContentsMove, VariablesMove
<1>7. RunInv'
  BY <1>2, <1>3, <1>5, <1>6 DEF RunInv
<1> QED BY <1>4, <1>7

\* Where each instruction occurs.
LEMMA Instructions ==
  ASSUME Layout, ProgramsInv, prog # "memmap", Running
  PROVE
  /\ Op.op = "memset" =>
       \/ prog = "example" /\ pc = 1 /\ Op = memset(PageA, CharA)
       \/ prog = "example" /\ pc = 2 /\ Op = memset(PageB, CharB)
       \/ prog = "map_pt" /\ pc = 1 /\ Op = memset(PageA, CharB)
       \/ prog = "map_pt" /\ pc = 2 /\ Op = memset(PageB, CharS)
       \/ prog = "map_pt_manual" /\ pc = 1 /\ Op = memset(PageP, CharA)
       \/ prog = "map_pt_manual" /\ pc = 2 /\ Op = memset(PageA, CharB)
       \/ prog = "map_pt_manual" /\ pc = 3 /\ Op = memset(PageB, CharS)
       \/ prog = "uncachable" /\ pc = 1 /\ Op = memset(PageP, CharA)
       \/ prog = "virt2phys" /\ pc = 1 /\ Op = memset(Target, CharX)
       \/ prog = "performance" /\ pc = 1 /\ Op = memset(Target, CharX)
  /\ Op.op = "resolve" =>
       \/ prog = "example" /\ pc = 3 /\ Op = resolve("vm", PageA)
       \/ prog = "example" /\ pc = 5 /\ Op = resolve("target", PageB)
       \/ prog = "map_pt" /\ pc = 3 /\ Op = resolve("secret", PageB)
       \/ prog = "map_pt" /\ pc = 4 /\ Op = resolve("target", PageA)
       \/ prog = "map_pt_manual" /\ pc = 4 /\ Op = resolve("secret", PageB)
       \/ prog = "map_pt_manual" /\ pc = 5 /\ Op = resolve("target", PageA)
       \/ prog = "map_pt_manual" /\ pc = 6 /\ Op = resolve("pt", PageP)
       \/ prog = "uncachable" /\ pc = 2 /\ Op = resolve("entry", PageP)
       \/ prog = "uncachable" /\ pc = 8 /\ Op = resolve("huge", Huge)
       \/ prog = "virt2phys" /\ pc = 2 /\ Op = resolve("entry", Target)
       \/ prog = "performance" /\ pc = 2 /\ Op = resolve("entry", Target)
  /\ Op.op = "expect" =>
       \/ prog = "example" /\ pc = 4 /\ Op = expect(PageA, CharA)
       \/ prog = "example" /\ pc = 7 /\ Op = expect(PageA, CharB)
       \/ prog = "example" /\ pc = 10 /\ Op = expect(PmapVa, CharA)
       \/ prog = "example" /\ pc = 13 /\ Op = expect(PageA, CharC)
       \/ prog = "map_pt" /\ pc = 9 /\ Op = expect(PageA, CharS)
       \/ prog = "map_pt_manual" /\ pc = 11 /\ Op = expect(PageA, CharS)
  /\ Op.op = "redirect" =>
       \/ prog = "example" /\ pc = 6 /\ Op = redirect(PageA, "vm", "target", "PTE")
       \/ prog = "map_pt_manual" /\ pc = 7 /\ Op = redirect(PageP, "pt", "target", "PMD")
  /\ Op.op = "read_page" => prog = "example" /\ pc = 8 /\ Op = read_page("vm", CharA)
  /\ Op.op = "pmap" =>
       \/ prog = "example" /\ pc = 9 /\ Op = pmap("vm", "PTE", FALSE)
       \/ prog = "map_pt" /\ pc = 5 /\ Op = pmap("target", "PMD", TRUE)
  /\ Op.op = "write_page" => prog = "example" /\ pc = 11 /\ Op = write_page("target", CharC)
  /\ Op.op = "barrier" => prog = "example" /\ pc = 12 /\ Op = barrier
  /\ Op.op = "pte_set_pfn" => prog = "example" /\ pc = 14 /\ Op = pte_set_pfn(PageA, "vm")
  /\ Op.op = "expect_entry" =>
       \/ prog = "map_pt" /\ pc = 6 /\ Op = expect_entry(PmapVa, PageA, "target")
       \/ prog = "map_pt_manual" /\ pc = 8 /\ Op = expect_entry(PageP, PageA, "target")
  /\ Op.op = "store_pfn" =>
       \/ prog = "map_pt" /\ pc = 7 /\ Op = store_pfn(PmapVa, PageA, "secret")
       \/ prog = "map_pt_manual" /\ pc = 9 /\ Op = store_pfn(PageP, PageA, "secret")
  /\ Op.op = "invalidate" =>
       \/ prog = "map_pt" /\ pc = 8 /\ Op = invalidate(PageA)
       \/ prog = "map_pt_manual" /\ pc = 10 /\ Op = invalidate(PageA)
  /\ Op.op = "store" =>
       \/ prog = "map_pt" /\ pc = 10 /\ Op = store(PmapVa, PageA, "target")
       \/ prog = "map_pt_manual" /\ pc = 12 /\ Op = store(PageP, PageA, "target")
  /\ Op.op = "update" =>
       \/ prog = "map_pt_manual" /\ pc = 13 /\ Op = update(PageP, "pt", "PTE")
       \/ prog = "uncachable" /\ pc = 12 /\ Op = update(Huge, "original", "PMD")
  /\ Op.op = "retype" =>
       \/ prog = "uncachable" /\ pc = 3 /\ Op = retype(PageP, "entry", "PTE", MT_UC)
       \/ prog = "uncachable" /\ pc = 5 /\ Op = retype(PageP, "entry", "PTE", MT_WB)
       \/ prog = "uncachable" /\ pc = 10 /\ Op = retype(Huge, "huge", "PMD", MT_UC)
  /\ Op.op = "expect_type" =>
       \/ prog = "uncachable" /\ pc = 4 /\ Op = expect_type(PageP, MT_UC)
       \/ prog = "uncachable" /\ pc = 6 /\ Op = expect_type(PageP, MT_WB)
       \/ prog = "uncachable" /\ pc = 11 /\ Op = expect_type(Huge, MT_UC)
       \/ prog = "uncachable" /\ pc = 13 /\ Op = expect_type(Huge, MT_WB)
  /\ Op.op = "mmap_huge" => prog = "uncachable" /\ pc = 7 /\ Op = mmap_huge
  /\ Op.op = "copy" => prog = "uncachable" /\ pc = 9 /\ Op = copy("original", "huge")
  /\ Op.op = "virt2phys" => prog = "virt2phys" /\ pc = 3 /\ Op = virt2phys("entry", Target, {3})
  /\ Op.op = "resolve_user" =>
       \/ prog = "performance" /\ pc = 3 /\ Op = resolve_user("entry_us", Target)
       \/ prog = "performance" /\ pc = 5 /\ Op = resolve_user("entry_us", Target)
  /\ Op.op = "same" =>
       \/ prog = "performance" /\ pc = 4 /\ Op = same("entry", "entry_us")
       \/ prog = "performance" /\ pc = 6 /\ Op = same("entry", "entry_us")
<1>0. prog \in DOMAIN Code /\ pc \in DOMAIN Code[prog] /\ Op = Code[prog][pc]
  BY Facts, ProgramPoint
<1>1. CASE prog = "example"
  BY <1>0, <1>1, ExampleText
     DEF barrier, expect, memset, pmap, pte_set_pfn, read_page, redirect, resolve, write_page
<1>2. CASE prog = "map_pt"
  BY <1>0, <1>2, MapPtText
     DEF expect, expect_entry, invalidate, memset, pmap, resolve, store, store_pfn
<1>3. CASE prog = "map_pt_manual"
  BY <1>0, <1>3, MapPtManualText
     DEF expect, expect_entry, invalidate, memset, redirect, resolve, store, store_pfn, update
<1>4. CASE prog = "uncachable"
  BY <1>0, <1>4, UncachableText
     DEF copy, expect_type, memset, mmap_huge, resolve, retype, update
<1>5. CASE prog = "virt2phys"
  BY <1>0, <1>5, Virt2physText
     DEF memset, resolve, virt2phys
<1>6. CASE prog = "performance"
  BY <1>0, <1>6, PerformanceText
     DEF memset, resolve, resolve_user, same
<1> QED BY <1>0, <1>1, <1>2, <1>3, <1>4, <1>5, <1>6, ProgramNames

-----------------------------------------------------------------------------
(* The checks *)

\* Where the annotation says accesses go.
LEMMA LeafFrames ==
  ASSUME Layout, NEW p, NEW i, NEW u, NEW w
  PROVE  /\ ~ShowsB(p, i) => Leaf(p, i, u, w, PageA) = Own(PageA)
         /\ ShowsB(p, i) => /\ Leaf(p, i, u, w, PageA) = ptedit_set_pfn(Own(PageA), OwnFrame(PageB))
                            /\ FrameOf(Leaf(p, i, u, w, PageA)) = OwnFrame(PageB)
         /\ ShowsTable(p, i) => /\ Leaf(p, i, u, w, PageP) = ptedit_set_pfn(Own(PageP), TableA)
                                /\ FrameOf(Leaf(p, i, u, w, PageP)) = TableA
         /\ u /\ Pmapped(p, i) =>
              /\ Leaf(p, i, u, w, PmapVa) =
                   ptedit_set_pfn({PRESENT, RW, USER}, IF p = "example" THEN OwnFrame(PageA) ELSE TableA)
              /\ FrameOf(Leaf(p, i, u, w, PmapVa)) = IF p = "example" THEN OwnFrame(PageA) ELSE TableA
              /\ Present(Leaf(p, i, u, w, PmapVa))
         /\ Present(Leaf(p, i, u, w, PmapVa)) => u /\ Pmapped(p, i)
         /\ Leaf(p, i, u, w, PageB) = Own(PageB)
         /\ Leaf(p, i, u, w, Target) = Own(Target)
<1> DEFINE new == {PRESENT, RW, USER}
<1>1. /\ Own(PageA) \in Word /\ Own(PageP) \in Word /\ ~Present(Own(PmapVa))
      /\ OwnFrame(PageA) \in SUBSET (0..39) /\ OwnFrame(PageB) \in SUBSET (0..39)
      /\ TableA \in SUBSET (0..39)
  BY LeafEntry, FrameBits DEF Vas, TableA
<1>2. new \in Word /\ Present(new)
  BY X86 DEF Word, Bits, Present
<1> HIDE DEF new
<1>3. /\ FrameOf(ptedit_set_pfn(Own(PageA), OwnFrame(PageB))) = OwnFrame(PageB)
      /\ FrameOf(ptedit_set_pfn(Own(PageP), TableA)) = TableA
      /\ FrameOf(ptedit_set_pfn(new, OwnFrame(PageA))) = OwnFrame(PageA)
      /\ FrameOf(ptedit_set_pfn(new, TableA)) = TableA
      /\ Present(ptedit_set_pfn(new, OwnFrame(PageA)))
      /\ Present(ptedit_set_pfn(new, TableA))
  BY <1>1, <1>2, SetPfn
<1>4. /\ ~ShowsB(p, i) => Leaf(p, i, u, w, PageA) = Own(PageA)
      /\ ShowsB(p, i) => Leaf(p, i, u, w, PageA) = ptedit_set_pfn(Own(PageA), OwnFrame(PageB))
      /\ ShowsTable(p, i) => Leaf(p, i, u, w, PageP) = ptedit_set_pfn(Own(PageP), TableA)
      /\ Leaf(p, i, u, w, PageB) = Own(PageB)
      /\ Leaf(p, i, u, w, Target) = Own(Target)
  BY Addresses DEF Leaf
<1>5. /\ u /\ Pmapped(p, i) =>
           Leaf(p, i, u, w, PmapVa) = ptedit_set_pfn(new, IF p = "example" THEN OwnFrame(PageA) ELSE TableA)
      /\ ~(u /\ Pmapped(p, i)) => Leaf(p, i, u, w, PmapVa) = Own(PmapVa)
  BY Addresses DEF Leaf, new
<1>6. Present(Leaf(p, i, u, w, PmapVa)) => u /\ Pmapped(p, i)
  BY <1>1, <1>5
<1>7. u /\ Pmapped(p, i) =>
           /\ FrameOf(Leaf(p, i, u, w, PmapVa)) = IF p = "example" THEN OwnFrame(PageA) ELSE TableA
           /\ Present(Leaf(p, i, u, w, PmapVa))
  BY <1>3, <1>5
<1> QED BY <1>3, <1>4, <1>5, <1>6, <1>7 DEF new

\* A cached translation is the one of the annotation, unless stored to.
LEMMA Seen ==
  ASSUME Layout, ProgramsInv, prog # "memmap", NEW a \in Vas \ {Huge}, a \notin Stored(prog, pc),
         Accessible(a)
  PROVE  /\ tlb[cpu][a] = Via(a, Now[a])
         /\ FrameAt(a) = FrameOf(Leaf(prog, pc, umem, pat, a))
         /\ Present(Leaf(prog, pc, umem, pat, a))
         /\ LeafLevel(tlb[cpu][a]) = "PTE" /\ Raised(mem, a)
<1>1. a \notin unflushed /\ Caches(tlb, mem, Now, unflushed) /\ cpu \in Cpus
      /\ Now[a] = Leaf(prog, pc, umem, pat, a)
  BY Facts DEF RunInv
<1> QED BY <1>1, CachedFrame DEF Accessible, FrameAt

\* Pages A and B have a word to read.
LEMMA PageContents ==
  ASSUME Layout, ProgramsInv, prog # "memmap", NEW a \in {PageA, PageB}
  PROVE  Deref(mem, <<OwnFrame(a), {}>>) = mem[<<OwnFrame(a), {}>>]
<1>1. mem \in [DOMAIN InitMem -> Word]
  BY Facts DEF Tables
<1>2. <<OwnFrame(a), {}>> \in DOMAIN InitMem
  BY DataSlots
<1> QED BY <1>1, <1>2, DerefValue

\* "OK!": a page shows what the program expects (example.c, map_pt.c, map_pt_manual.c).
LEMMA ExpectInv ==
  ASSUME Layout, ProgramsInv, prog # "memmap", Expect
  PROVE  BaseInv' /\ RunInv'
<1>1. /\ Running /\ Op.op = "expect" /\ pc' = pc + 1 /\ Accessible(Op.va)
      /\ failed' = IF WordAt(Op.va, {}) = Op.word THEN failed ELSE failed \cup {pc}
      /\ UNCHANGED <<mem, tlb, cpu, fixed, env, unflushed, work>>
  BY DEF Expect, Execute, Check, mapVars
<1>3. \/ prog = "example" /\ pc = 4 /\ Op = expect(PageA, CharA)
      \/ prog = "example" /\ pc = 7 /\ Op = expect(PageA, CharB)
      \/ prog = "example" /\ pc = 10 /\ Op = expect(PmapVa, CharA)
      \/ prog = "example" /\ pc = 13 /\ Op = expect(PageA, CharC)
      \/ prog = "map_pt" /\ pc = 9 /\ Op = expect(PageA, CharS)
      \/ prog = "map_pt_manual" /\ pc = 11 /\ Op = expect(PageA, CharS)
  BY <1>1, Instructions
<1>4. Op.va \in Vas \ {Huge} /\ Op.va \notin Stored(prog, pc)
  BY <1>3, Addresses DEF expect, Stored, Vas
<1>5. FrameAt(Op.va) = FrameOf(Leaf(prog, pc, umem, pat, Op.va)) /\ Present(Leaf(prog, pc, umem, pat, Op.va))
  BY <1>1, <1>4, Seen
<1>6. /\ WordAt(Op.va, {}) = Deref(mem, <<FrameAt(Op.va), {}>>)
      /\ Contents(prog, pc, mem) /\ failed = {}
  BY Facts DEF WordAt, RunInv, BaseInv
<1>7. /\ Deref(mem, <<OwnFrame(PageA), {}>>) = mem[<<OwnFrame(PageA), {}>>]
      /\ Deref(mem, <<OwnFrame(PageB), {}>>) = mem[<<OwnFrame(PageB), {}>>]
  BY PageContents
<1>8. WordAt(Op.va, {}) = Op.word
  <2>1. CASE prog = "example" /\ pc = 4
    <3>1. FrameAt(Op.va) = OwnFrame(PageA) /\ Op.word = CharA
      BY <1>3, <1>5, <2>1, LeafFrames DEF expect, ShowsB, OwnFrame
    <3> QED BY <1>6, <1>7, <2>1, <3>1 DEF Contents
  <2>2. CASE prog = "example" /\ pc = 7
    <3>1. FrameAt(Op.va) = OwnFrame(PageB) /\ Op.word = CharB
      BY <1>3, <1>5, <2>2, LeafFrames DEF expect, ShowsB
    <3> QED BY <1>6, <1>7, <2>2, <3>1 DEF Contents
  <2>3. CASE prog = "example" /\ pc = 10
    <3>1. FrameAt(Op.va) = OwnFrame(PageA) /\ Op.word = CharA
      BY <1>3, <1>5, <2>3, LeafFrames DEF expect
    <3> QED BY <1>6, <1>7, <2>3, <3>1 DEF Contents
  <2>4. CASE prog = "example" /\ pc = 13
    <3>1. FrameAt(Op.va) = OwnFrame(PageB) /\ Op.word = CharC
      BY <1>3, <1>5, <2>4, LeafFrames DEF expect, ShowsB
    <3> QED BY <1>6, <1>7, <2>4, <3>1 DEF Contents
  <2>5. CASE (prog = "map_pt" /\ pc = 9) \/ (prog = "map_pt_manual" /\ pc = 11)
    <3>1. FrameAt(Op.va) = OwnFrame(PageB) /\ Op.word = CharS
      BY <1>3, <1>5, <2>5, LeafFrames DEF expect, ShowsB
    <3> QED BY <1>6, <1>7, <2>5, <3>1 DEF Contents
  <2> QED BY <1>3, <2>1, <2>2, <2>3, <2>4, <2>5
<1> QED BY <1>1, <1>6, <1>8, QuietStep

\* The attribute ptedit_find_first_mt finds has the type it was asked for.
LEMMA MtFound ==
  ASSUME NEW w, NEW v, ptedit_find_first_mt(w, v) # -1
  PROVE  /\ IdBits(ptedit_find_first_mt(w, v)) \in SUBSET (0..2)
         /\ MtValue(w, IdOf(IdBits(ptedit_find_first_mt(w, v)))) = v
<1>1. ptedit_find_first_mt(w, v) \in Ids /\ MtValue(w, ptedit_find_first_mt(w, v)) = v
  BY X86, FindFirstMt
<1> QED BY <1>1, IdOfIdBits DEF IdBits, MtIndex

\* "Mapping should now be uncachable", and cachable again (uncachable.c).
LEMMA ExpectTypeInv ==
  ASSUME Layout, ProgramsInv, prog # "memmap", ExpectType
  PROVE  BaseInv' /\ RunInv'
<1>1. /\ Running /\ Op.op = "expect_type" /\ pc' = pc + 1 /\ Accessible(Op.va)
      /\ failed' = IF TypeAt(Op.va) = Op.word THEN failed ELSE failed \cup {pc}
      /\ UNCHANGED <<mem, tlb, cpu, fixed, env, unflushed, work>>
  BY DEF ExpectType, Execute, Check, mapVars
<1>2. \/ prog = "uncachable" /\ pc = 4 /\ Op = expect_type(PageP, MT_UC)
      \/ prog = "uncachable" /\ pc = 6 /\ Op = expect_type(PageP, MT_WB)
      \/ prog = "uncachable" /\ pc = 11 /\ Op = expect_type(Huge, MT_UC)
      \/ prog = "uncachable" /\ pc = 13 /\ Op = expect_type(Huge, MT_WB)
  BY <1>1, Instructions
<1> DEFINE a == Op.va
           e == Leaf(prog, pc, umem, pat, a)
           uc == IdBits(ptedit_find_first_mt(pat, MT_UC))
           wb == IdBits(ptedit_find_first_mt(pat, MT_WB))
<1>3. a \in {PageP, Huge} /\ a \in Vas /\ Op.word \in {MT_UC, MT_WB}
  BY <1>2 DEF expect_type, Vas
<1>4. tlb[cpu][a] = Via(a, e) /\ Present(e)
  <2>1. unflushed = {} /\ cpu \in Cpus /\ Caches(tlb, mem, Now, unflushed) /\ Now[a] = e
    BY <1>2, <1>3, Facts DEF RunInv, Stored
  <2>2. tlb[cpu][a] = Via(a, e)
    BY <1>1, <1>3, <2>1 DEF Caches, Accessible
  <2>3. Present(e)
    BY <1>3, LeafIs, Addresses
  <2> QED BY <2>2, <2>3
<1>5. /\ a = PageP => "PTE" \in DOMAIN Via(a, e) /\ Via(a, e)["PTE"] = e
      /\ a = Huge => "PTE" \notin DOMAIN Via(a, e) /\ Via(a, e)["PMD"] = e
  BY <1>4, PathShape, Addresses DEF Via
<1>6. /\ a = PageP => TypeAt(a) = MtValue(pat, IdOf(ptedit_extract_mt(e)))
      /\ a = Huge => TypeAt(a) = MtValue(pat, IdOf(ptedit_extract_mt_huge(e)))
  BY <1>4, <1>5, Addresses DEF TypeAt
<1>7. /\ pat \in Pats /\ Variables(prog, pc, env, umem, pat) /\ failed = {}
  BY Facts DEF BaseInv, RunInv
<1>8. /\ uc \in SUBSET (0..2) /\ MtValue(pat, IdOf(uc)) = MT_UC
      /\ MtValue(pat, IdOf(wb)) = MT_WB
      /\ ptedit_extract_mt(Own(PageP)) = wb /\ ptedit_extract_mt_huge(Own(Huge)) = wb
  <2>1. ptedit_find_first_mt(pat, MT_UC) # -1
    BY <1>2, <1>7 DEF Variables
  <2>2. /\ ptedit_find_first_mt(pat, MT_WB) # -1
        /\ ptedit_extract_mt(Own(PageP)) = wb /\ ptedit_extract_mt_huge(Own(Huge)) = wb
    BY <1>7 DEF Layout, PagesCached
  <2> QED BY <2>1, <2>2, MtFound
<1>9. /\ pc = 4 => a = PageP /\ e = ptedit_apply_mt(Own(PageP), uc) /\ Op.word = MT_UC
      /\ pc = 6 => a = PageP /\ e = Own(PageP) /\ Op.word = MT_WB
      /\ pc = 11 => a = Huge /\ e = ptedit_apply_mt_huge(Own(Huge), uc) /\ Op.word = MT_UC
      /\ pc = 13 => a = Huge /\ e = Own(Huge) /\ Op.word = MT_WB
  BY <1>2, Addresses DEF expect_type, Leaf, ShowsB, ShowsTable, Uncached, UncachedHuge, Pmapped
<1>10. Own(PageP) \in Word /\ Own(Huge) \in Word
  BY LeafEntry DEF Vas
<1> HIDE DEF a, e, uc, wb
<1>11. TypeAt(a) = Op.word
  BY <1>2, <1>6, <1>8, <1>9, <1>10, ApplyMt, ApplyMtHuge
<1> QED BY <1>1, <1>7, <1>11, QuietStep DEF a

\* The entry of page A lies in the table that its PMD names.
LEMMA EntryOfA == ASSUME Layout PROVE <<TableA, Index(PageA, "PTE")>> = LeafSlot(PageA)
<1>1. InitMem \in [DOMAIN InitMem -> Word] /\ At(PageA, "PMD") \in DOMAIN InitMem
  BY PathShape, Addresses DEF Layout, TablesThere
<1>2. Deref(InitMem, At(PageA, "PMD")) = InitMem[At(PageA, "PMD")]
  BY <1>1, DerefValue
<1>3. At(PageA, "PTE") = Slot(FrameOf(Deref(InitMem, At(PageA, "PMD"))), PageA, "PTE")
  BY PathLevels DEF At
<1>4. LeafAt(PageA) = "PTE"
  BY PathShape, Addresses
<1> QED BY <1>2, <1>3, <1>4 DEF TableA, LeafSlot, Slot

\* The page table of A, as it is mapped, shows the entry of A.
LEMMA ThroughTable ==
  ASSUME Layout, ProgramsInv, prog # "memmap", NEW at \in {PageP, PmapVa}, Accessible(at),
         \/ at = PageP /\ ShowsTable(prog, pc)
         \/ at = PmapVa /\ prog = "map_pt"
  PROVE  /\ <<FrameAt(at), Index(PageA, "PTE")>> = LeafSlot(PageA)
         /\ WordAt(at, Index(PageA, "PTE")) = mem[LeafSlot(PageA)]
<1>1. at \in Vas \ {Huge} /\ at \notin Stored(prog, pc)
  BY Addresses DEF Stored, Vas
<1>2. FrameAt(at) = FrameOf(Leaf(prog, pc, umem, pat, at)) /\ Present(Leaf(prog, pc, umem, pat, at))
  BY <1>1, Seen
<1>3. FrameAt(at) = TableA
  BY <1>2, LeafFrames, Addresses
<1>4. mem \in [DOMAIN InitMem -> Word] /\ LeafSlot(PageA) \in DOMAIN InitMem
  BY Facts, LeafEntry DEF Tables, Vas
<1> QED BY <1>3, <1>4, EntryOfA, DerefValue DEF WordAt

\* "Fail!" is not printed: the mapped page table holds the entry resolved before.
LEMMA ExpectEntryInv ==
  ASSUME Layout, ProgramsInv, prog # "memmap", ExpectEntry
  PROVE  BaseInv' /\ RunInv'
<1> DEFINE ok == WordAt(Op.at, Index(Op.va, "PTE")) = env[Op.x]["PTE"]
<1>1. /\ Running /\ Op.op = "expect_entry" /\ pc' = pc + 1 /\ Accessible(Op.at)
      /\ failed' = IF ok THEN failed ELSE failed \cup {pc}
      /\ UNCHANGED <<mem, tlb, cpu, fixed, env, unflushed, work>>
  BY DEF ExpectEntry, Execute, Check, mapVars
<1>2. \/ prog = "map_pt" /\ pc = 6 /\ Op = expect_entry(PmapVa, PageA, "target")
      \/ prog = "map_pt_manual" /\ pc = 8 /\ Op = expect_entry(PageP, PageA, "target")
  BY <1>1, Instructions
<1>3. /\ Op.va = PageA /\ Op.x = "target" /\ Op.at \in {PageP, PmapVa}
      /\ \/ Op.at = PageP /\ ShowsTable(prog, pc)
         \/ Op.at = PmapVa /\ prog = "map_pt"
  BY <1>2 DEF expect_entry, ShowsTable
<1>4. WordAt(Op.at, Index(PageA, "PTE")) = mem[LeafSlot(PageA)]
  BY <1>1, <1>3, ThroughTable
<1>5. Core(mem[LeafSlot(PageA)]) = Own(PageA)
  <2>1. Core(mem[LeafSlot(PageA)]) = Leaf(prog, pc, umem, pat, PageA)
    BY Facts DEF Tables, Vas
  <2> QED BY <1>2, <2>1, LeafFrames DEF ShowsB
<1>6. {ACCESSED, DIRTY} \subseteq mem[LeafSlot(PageA)]
  BY <1>2, Facts DEF RunInv, Written
<1>7. env["target"]["PTE"] = Own(PageA) \cup {ACCESSED, DIRTY} /\ failed = {}
  <2>1. env["target"]["PTE"] = Used(PageA, "PTE") /\ failed = {}
    BY <1>2, Facts DEF RunInv, Variables, BaseInv
  <2> QED BY <2>1, PathShape, Addresses DEF Used
<1>8. ok
  BY <1>3, <1>4, <1>5, <1>6, <1>7 DEF Core
<1> QED BY <1>1, <1>7, <1>8, QuietStep

\* A frame number taken from a variable.
LEMMA SavedFrame ==
  ASSUME NEW e, NEW x, NEW l, NEW c, Saved(e, x, l, c), Core(c) = c
  PROVE  /\ x \in DOMAIN e /\ l \in DOMAIN e[x] /\ e[x][l] \in Word /\ Core(e[x][l]) = c
         /\ FrameOf(e[x][l]) = FrameOf(c)
         /\ ptedit_get_pfn(e[x][l]) = FrameOf(c)
<1>1. Core(e[x][l]) = Core(c)
  BY DEF Saved
<1> QED BY <1>1, SameCore, PfnIsFrame DEF Saved

\* ptedit_read_physical_page shows what the page was filled with.
LEMMA ReadPageInv ==
  ASSUME Layout, ProgramsInv, prog # "memmap", ReadPage
  PROVE  BaseInv' /\ RunInv'
<1> DEFINE ok == Deref(mem, <<ptedit_get_pfn(env[Op.x]["PTE"]), {}>>) = Op.word
<1>1. /\ Running /\ Op.op = "read_page" /\ pc' = pc + 1
      /\ failed' = IF ok THEN failed ELSE failed \cup {pc}
      /\ UNCHANGED <<mem, tlb, cpu, fixed, env, unflushed, work>>
  BY DEF ReadPage, Execute, Check, mapVars
<1>2. prog = "example" /\ pc = 8 /\ Op = read_page("vm", CharA)
  BY <1>1, Instructions
<1>3. Saved(env, "vm", "PTE", Own(PageA)) /\ Contents(prog, pc, mem) /\ failed = {}
  BY <1>2, Facts DEF RunInv, BaseInv, Variables
<1>4. Core(Own(PageA)) = Own(PageA)
  BY LeafEntry DEF Vas
<1>5. ptedit_get_pfn(env["vm"]["PTE"]) = OwnFrame(PageA)
  BY <1>3, <1>4, SavedFrame DEF OwnFrame
<1>6. Deref(mem, <<OwnFrame(PageA), {}>>) = CharA
  BY <1>2, <1>3, PageContents DEF Contents
<1>7. ok
  BY <1>2, <1>5, <1>6 DEF read_page
<1> QED BY <1>1, <1>3, <1>7, QuietStep

\* The two resolvers agree (performance.c).
LEMMA SameInv ==
  ASSUME Layout, ProgramsInv, prog # "memmap", Same
  PROVE  BaseInv' /\ RunInv'
<1> DEFINE ok == is_same(env[Op.x], env[Op.y])
<1>1. /\ Running /\ Op.op = "same" /\ pc' = pc + 1
      /\ failed' = IF ok THEN failed ELSE failed \cup {pc}
      /\ UNCHANGED <<mem, tlb, cpu, fixed, env, unflushed, work>>
  BY DEF Same, Execute, Check, mapVars
<1>2. prog = "performance" /\ pc \in {4, 6} /\ Op = same("entry", "entry_us")
  BY <1>1, Instructions
<1>3. /\ env["entry"] = [l \in OnPath(Target) |-> Used(Target, l)]
      /\ env["entry_us"] = [l \in CpuLevels |-> Used(Target, l)]
      /\ failed = {}
  BY <1>2, Facts DEF RunInv, BaseInv, Variables
<1>4. ok
  BY <1>2, <1>3 DEF same, is_same
<1> QED BY <1>1, <1>3, <1>4, QuietStep

\* The physical address is the one the CPU would use (virt2phys.c).
LEMMA Virt2PhysInv ==
  ASSUME Layout, ProgramsInv, prog # "memmap", Virt2Phys
  PROVE  BaseInv' /\ RunInv'
<1> DEFINE e == env[Op.x]
           va == Op.va \cup Op.offset
           phys == IF is_normal_page(e["PMD"])
                     THEN Shl(ptedit_get_pfn(e["PTE"]), 12) \cup (va \cap Mask(0, 12))
                     ELSE Shl(ptedit_get_pfn(e["PMD"]), 21) \cup (va \cap Mask(0, 21))
           tr == Translation(mem, Root, Op.va)
           size == IF LeafLevel(tr) = "PTE" THEN 12 ELSE 21
           ok == phys = Shl(PageFrame(tr), 12) \cup (va \cap Mask(0, size))
<1>1. /\ Running /\ Op.op = "virt2phys" /\ pc' = pc + 1
      /\ failed' = IF ok THEN failed ELSE failed \cup {pc}
      /\ UNCHANGED <<mem, tlb, cpu, fixed, env, unflushed, work>>
  BY DEF Virt2Phys, Execute, Check, mapVars
<1>2. prog = "virt2phys" /\ pc = 3 /\ Op = virt2phys("entry", Target, {3})
  BY <1>1, Instructions
<1>3. Op.va = Target /\ Op.x = "entry" /\ Target \in Vas \ {Huge}
  BY <1>2, Addresses DEF virt2phys
<1>4. /\ Saved(env, "entry", "PTE", Own(Target))
      /\ Saved(env, "entry", "PMD", Core(InitMem[At(Target, "PMD")])) /\ failed = {}
  BY <1>2, Facts DEF RunInv, BaseInv, Variables
<1>5. Own(Target) \in Word /\ Core(Own(Target)) = Own(Target) /\ Present(Own(Target))
  BY <1>3, LeafEntry, Addresses
<1>6. ptedit_get_pfn(e["PTE"]) = FrameOf(Own(Target))
  BY <1>3, <1>4, <1>5, SavedFrame
<1>7. is_normal_page(e["PMD"])
  <2>1. ~Bad(InitMem[At(Target, "PMD")])
    BY <1>3, PathShape DEF Layout, TablesThere
  <2>2. Core(e["PMD"]) = Core(InitMem[At(Target, "PMD")])
    BY <1>3, <1>4 DEF Saved
  <2>3. ~Bad(e["PMD"])
    BY <2>1, <2>2, SameCore
  <2> QED BY <2>3, X86 DEF Bad, Mask, is_normal_page
<1>8. tr = Via(Target, Own(Target))
  <2>1. Now[Target] = Own(Target)
    BY <1>3, Facts, LeafFrames
  <2> QED BY <1>3, <2>1, Facts, TranslationIs
<1>9. "PTE" \in DOMAIN tr /\ tr["PTE"] = Own(Target)
  BY <1>3, <1>5, <1>8, PathShape DEF Via
<1> HIDE DEF e, va, tr
<1>10. LeafLevel(tr) = "PTE" /\ PageFrame(tr) = FrameOf(Own(Target))
  BY <1>9 DEF LeafLevel, PageFrame
<1>11. ok
  BY <1>6, <1>7, <1>10
<1> QED BY <1>1, <1>4, <1>11, QuietStep

\* The serializing barrier leaves everything as it is.
LEMMA BarrierInv ==
  ASSUME Layout, ProgramsInv, prog # "memmap", Barrier \/ MmapHuge
  PROVE  BaseInv' /\ RunInv'
<1>1. /\ Running /\ Op.op \in {"barrier", "mmap_huge"} /\ pc' = pc + 1 /\ failed' = failed
      /\ UNCHANGED <<mem, tlb, cpu, fixed, env, unflushed, work>>
  BY DEF Barrier, MmapHuge, Execute, mapVars
<1>2. failed = {}
  BY Facts DEF BaseInv
<1> QED BY <1>1, <1>2, QuietStep

-----------------------------------------------------------------------------
(* The edits *)

\* What an instruction has to establish.
LEMMA StepInv ==
  ASSUME Layout, ProgramsInv, prog # "memmap", Running, pc' = pc + 1, failed' = failed,
         UNCHANGED <<cpu, fixed, work>>,
         unflushed' \subseteq Stored(prog, pc + 1),
         Tables(mem', Leaves(prog, pc + 1, umem, pat)),
         Caches(tlb', mem', Leaves(prog, pc + 1, umem, pat), unflushed'),
         \A a \in Written(prog, pc + 1) : Raised(mem', a) /\ {ACCESSED, DIRTY} \subseteq mem'[LeafSlot(a)],
         Contents(prog, pc + 1, mem'),
         env' = [x \in DOMAIN env' |-> env'[x]], Variables(prog, pc + 1, env', umem, pat)
  PROVE  BaseInv' /\ RunInv'
<1>1. pc \in Nat \ {0} /\ pc + 1 \in 0 .. Len(code) + 1 /\ pc + 1 # 0
  BY ProgramPoint
<1>2. BaseInv /\ RunInv
  BY Facts
<1>3. UNCHANGED <<cpu, umem, pat, prog, code, work>>
  BY DEF fixed
<1>4. BaseInv'
  BY <1>1, <1>2, <1>3 DEF BaseInv
<1>5. RunInv'
  BY <1>2, <1>3 DEF RunInv
<1> QED BY <1>4, <1>5

\* uncachable.c stops without an attribute or a 2 MB page, with its edits undone.
LEMMA GiveUpInv ==
  ASSUME Layout, ProgramsInv, prog # "memmap", GiveUp
  PROVE  BaseInv' /\ RunInv'
<1>1. /\ Running /\ pc' = End
      /\ \/ Op.op = "retype" /\ ptedit_find_first_mt(pat, Op.word) = -1
         \/ Op.op = "mmap_huge"
      /\ UNCHANGED <<mem, tlb, cpu, umem, pat, prog, code, env, failed, unflushed, work>>
  BY DEF GiveUp, mapVars, fixed
<1>2. BaseInv /\ RunInv
  BY Facts
<1>3. \A w \in Pats : ptedit_find_first_mt(w, MT_WB) # -1
  BY DEF Layout, PagesCached
<1>4. prog = "uncachable" /\ pc \in {3, 7, 10}
  <2>1. pat \in Pats
    BY <1>2 DEF BaseInv
  <2>2. CASE Op.op = "mmap_huge"
    BY <1>1, <2>2, Instructions
  <2>3. CASE Op.op = "retype" /\ ptedit_find_first_mt(pat, Op.word) = -1
    <3>1. \/ prog = "uncachable" /\ pc = 3 /\ Op = retype(PageP, "entry", "PTE", MT_UC)
          \/ prog = "uncachable" /\ pc = 5 /\ Op = retype(PageP, "entry", "PTE", MT_WB)
          \/ prog = "uncachable" /\ pc = 10 /\ Op = retype(Huge, "huge", "PMD", MT_UC)
      BY <1>1, <2>3, Instructions
    <3>2. pc = 5 => Op.word = MT_WB
      BY <3>1 DEF retype
    <3> QED BY <1>3, <2>1, <2>3, <3>1, <3>2
  <2> QED BY <1>1, <2>2, <2>3
<1>5. End = 14 /\ Len(code) = 13
  BY <1>2, <1>4, UncachableText DEF BaseInv, End
<1>6. BaseInv'
  BY <1>1, <1>2, <1>5 DEF BaseInv
<1>7. Leaves(prog, 14, umem, pat) = Leaves(prog, pc, umem, pat)
  <2>1. SameSpans(prog, 14, pc)
    BY <1>4 DEF SameSpans, ShowsB, ShowsTable, Uncached, UncachedHuge, Pmapped
  <2> QED BY <2>1, SameLeaves
<1>8. /\ Stored(prog, 14) = Stored(prog, pc) /\ Written(prog, 14) = {}
      /\ Contents(prog, 14, mem) /\ Variables(prog, 14, env, umem, pat)
  BY <1>4 DEF Stored, Written, Contents, Variables
<1>9. RunInv'
  BY <1>1, <1>2, <1>5, <1>7, <1>8 DEF RunInv
<1> QED BY <1>6, <1>9

\* An address is mapped iff its entry is present.
LEMMA NotMappedIs ==
  ASSUME Layout, ProgramsInv, prog # "memmap", NEW a \in Vas, NotMapped(a)
  PROVE  a = PmapVa /\ ~(umem /\ Pmapped(prog, pc))
<1>1. Via(a, Now[a]) = <<>>
  BY Facts, TranslationIs DEF NotMapped
<1>2. ~Present(Now[a])
  <2>1. SUFFICES ASSUME Present(Now[a]) PROVE FALSE
    OBVIOUS
  <2>2. LeafAt(a) \in DOMAIN Via(a, Now[a])
    BY <2>1, PathShape DEF Via
  <2> QED BY <1>1, <2>2
<1>3. Now[a] = Leaf(prog, pc, umem, pat, a)
  BY Facts
<1> QED BY <1>2, <1>3, LeafIs, LeafFrames

\* A program dies only where /proc/umem is missing.
LEMMA CrashInv ==
  ASSUME Layout, ProgramsInv, prog # "memmap", Crash
  PROVE  BaseInv' /\ RunInv'
<1>1. /\ Running /\ pc' = 0
      /\ \/ Op.op = "expect" /\ NotMapped(Op.va)
         \/ Op.op = "expect_entry" /\ NotMapped(Op.at)
         \/ Op.op = "resolve_user" /\ ~umem
      /\ UNCHANGED <<mem, tlb, cpu, umem, pat, prog, code, env, failed, unflushed, work>>
  BY DEF Crash, mapVars, fixed
<1>2. BaseInv /\ RunInv
  BY Facts
<1>3. /\ ~umem
      /\ \/ prog = "example" /\ pc = 10
         \/ prog = "map_pt" /\ pc = 6
         \/ prog = "performance" /\ pc \in {3, 5}
  <2>1. CASE Op.op = "expect" /\ NotMapped(Op.va)
    <3>1. Op.va \in Vas /\ (Op.va = PmapVa => prog = "example" /\ pc = 10)
      BY <1>1, <2>1, Instructions, Addresses DEF expect
    <3>2. Op.va = PmapVa /\ ~(umem /\ Pmapped(prog, pc))
      BY <2>1, <3>1, NotMappedIs
    <3> QED BY <3>1, <3>2 DEF Pmapped
  <2>2. CASE Op.op = "expect_entry" /\ NotMapped(Op.at)
    <3>1. Op.at \in Vas /\ (Op.at = PmapVa => prog = "map_pt" /\ pc = 6)
      BY <1>1, <2>2, Instructions, Addresses DEF expect_entry
    <3>2. Op.at = PmapVa /\ ~(umem /\ Pmapped(prog, pc))
      BY <2>2, <3>1, NotMappedIs
    <3> QED BY <3>1, <3>2 DEF Pmapped
  <2>3. CASE Op.op = "resolve_user" /\ ~umem
    BY <1>1, <2>3, Instructions
  <2> QED BY <1>1, <2>1, <2>2, <2>3
<1>4. BaseInv'
  BY <1>1, <1>2, <1>3 DEF BaseInv
<1>5. Leaves(prog, 0, umem, pat) = Leaves(prog, pc, umem, pat)
  BY <1>3 DEF Leaves, Leaf, ShowsB, ShowsTable, Uncached, UncachedHuge
<1>6. /\ Stored(prog, 0) = Stored(prog, pc) /\ Written(prog, 0) = {}
      /\ Contents(prog, 0, mem) /\ Variables(prog, 0, env, umem, pat)
  BY <1>3 DEF Stored, Written, Contents, Variables
<1>7. RunInv'
  BY <1>1, <1>2, <1>5, <1>6 DEF RunInv
<1> QED BY <1>4, <1>7

\* memset fills the page that the address shows.
LEMMA MemsetInv ==
  ASSUME Layout, ProgramsInv, prog # "memmap", Memset
  PROVE  BaseInv' /\ RunInv'
<1> DEFINE a == Op.va
           s == LeafSlot(a)
           n == Fill(mem, OwnFrame(a), Op.word)
           e == n[s] \cup {ACCESSED, DIRTY}
<1>1. /\ Running /\ Op.op = "memset" /\ pc' = pc + 1 /\ Accessible(a)
      /\ mem' = [Fill(mem, FrameAt(a), Op.word) EXCEPT
                   ![Path(mem, Root, a)[LeafLevel(tlb[cpu][a])]] = @ \cup {ACCESSED, DIRTY}]
      /\ UNCHANGED <<tlb, cpu, fixed, env, failed, unflushed, work>>
  BY DEF Memset, Execute, mapVars
<1>2. /\ a \in {PageA, PageB, PageP, Target} /\ Op.word \in Word
      /\ \/ prog = "example" /\ pc = 1 /\ a = PageA /\ Op.word = CharA
         \/ prog = "example" /\ pc = 2 /\ a = PageB /\ Op.word = CharB
         \/ prog = "map_pt" /\ pc = 1 /\ a = PageA
         \/ prog = "map_pt" /\ pc = 2 /\ a = PageB /\ Op.word = CharS
         \/ prog = "map_pt_manual" /\ pc = 1
         \/ prog = "map_pt_manual" /\ pc = 2 /\ a = PageA
         \/ prog = "map_pt_manual" /\ pc = 3 /\ a = PageB /\ Op.word = CharS
         \/ prog = "uncachable" /\ pc = 1
         \/ prog = "virt2phys" /\ pc = 1
         \/ prog = "performance" /\ pc = 1 /\ a = Target
  <2>1. CharA \in Word /\ CharB \in Word /\ CharS \in Word /\ CharX \in Word
    BY DEF CharA, CharB, CharS, CharX, Word, Bits
  <2> QED BY <1>1, <2>1, Instructions DEF memset
<1>3. a \in Vas \ {Huge} /\ a \notin Stored(prog, pc)
  BY <1>2, Addresses DEF Stored
<1>4. FrameAt(a) = OwnFrame(a) /\ LeafLevel(tlb[cpu][a]) = "PTE" /\ Raised(mem, a)
  <2> HIDE DEF a
  <2>0. ~ShowsB(prog, pc) /\ ~ShowsTable(prog, pc) /\ ~Uncached(prog, pc) /\ a # PmapVa
    BY <1>2, Addresses DEF ShowsB, ShowsTable, Uncached
  <2>1. Leaf(prog, pc, umem, pat, a) = Own(a)
    BY <1>3, <2>0, LeafOwn
  <2> QED BY <1>1, <1>3, <2>1, Seen DEF OwnFrame
<1>5. Path(mem, Root, a)["PTE"] = s
  BY <1>3, Facts, PathKept, PathShape DEF LeafSlot
<1>6. /\ Tables(mem, Now) /\ Caches(tlb, mem, Now, unflushed) /\ RunInv
      /\ prog \in DOMAIN Code /\ pc \in DOMAIN Code[prog] /\ Op = Code[prog][pc]
  BY <1>1, Facts, ProgramPoint
<1> HIDE DEF a
<1>7. /\ Tables(n, Now)
      /\ Kept(mem, n, LeafSlots \cup DirSlots) /\ Kept(mem, n, NotIn(a)) /\ StayRaised(mem, n)
      /\ Holds(n, a, Op.word)
  <2>1. n = Fill(mem, OwnFrame(a), Op.word)
    OBVIOUS
  <2>2. a \in {PageA, PageB, PageP, Target} /\ Op.word \in Word /\ Tables(mem, Now)
    BY <1>2, <1>6
  <2> HIDE DEF n
  <2> QED BY <2>1, <2>2, PageFill
<1>8. mem' = [n EXCEPT ![s] = e]
  BY <1>1, <1>4, <1>5
<1> HIDE DEF n
<1>9. e \in Word /\ Core(e) = Now[a]
  <2>1. n[s] \in Word /\ Core(n[s]) = Now[a]
    BY <1>3, <1>7, LeafValue
  <2> QED BY <2>1, X86 DEF Core, Word, Bits
<1> HIDE DEF e
<1>10. /\ Tables(mem', Now) /\ mem'[s] = e
       /\ Kept(n, mem', DOMAIN InitMem \ {s}) /\ StayRaised(n, mem')
  <2>1. a \in Vas /\ e \in Word /\ Now[a] = Core(e) /\ \A b \in Vas \ {a} : Now[b] = Now[b]
    BY <1>3, <1>9
  <2>2. Tables(n, Now) /\ mem' = Put(n, LeafSlot(a), e)
    BY <1>7, <1>8 DEF Put
  <2> QED BY <2>1, <2>2, LeafWrite
<1>11. Now = Leaves(prog, pc + 1, umem, pat)
  BY <1>1, <1>6, SpansMove, SameLeaves DEF Now
<1>12. StayRaised(mem, mem')
  BY <1>7, <1>10 DEF StayRaised
<1>13. Caches(tlb', mem', Now, unflushed')
  BY <1>1, <1>6, <1>12, CachesKept
<1>14. ASSUME NEW b \in Written(prog, pc + 1)
       PROVE  Raised(mem', b) /\ {ACCESSED, DIRTY} \subseteq mem'[LeafSlot(b)]
  <2>1. CASE b = a
    BY <1>3, <1>4, <1>10, <1>12, <2>1 DEF e, StayRaised
  <2>2. CASE b # a
    <3>1. b \in Written(prog, pc) /\ b \in Vas
      BY <1>2, <2>2 DEF Written, Vas
    <3>2. Raised(mem, b) /\ {ACCESSED, DIRTY} \subseteq mem[LeafSlot(b)]
      BY <1>6, <3>1 DEF RunInv
    <3>3. LeafSlot(b) # s /\ LeafSlot(b) \in DOMAIN InitMem /\ LeafSlot(b) \in LeafSlots
      BY <1>3, <2>2, <3>1, LeafEntry DEF Layout, PagesApart, LeafSlots
    <3> QED BY <1>7, <1>10, <1>12, <3>1, <3>2, <3>3 DEF StayRaised, Kept
  <2> QED BY <2>1, <2>2
<1>15. Contents(prog, pc + 1, mem')
  <2>1. Contents(prog, pc, mem)
    BY <1>6 DEF RunInv
  <2>2. s \in LeafSlots
    BY <1>3 DEF LeafSlots
  <2>3. ASSUME NEW b \in {PageA, PageB}
        PROVE  /\ a = b => mem'[<<OwnFrame(b), {}>>] = Op.word
               /\ a \in {PageA, PageB} \ {b} => mem'[<<OwnFrame(b), {}>>] = mem[<<OwnFrame(b), {}>>]
    <3>1. <<OwnFrame(b), {}>> \in DOMAIN InitMem /\ <<OwnFrame(b), {}>> # s
      BY <2>2, DataSlots
    <3>2. <<OwnFrame(b), {}>>[1] = OwnFrame(b)
      OBVIOUS
    <3>3. OwnFrame(PageA) # OwnFrame(PageB)
      BY DEF Layout, PagesApart
    <3> QED BY <1>7, <1>10, <3>1, <3>2, <3>3 DEF Kept, NotIn, Holds
  <2> QED BY <1>2, <2>1, <2>3, Addresses DEF Contents
<1>16. unflushed' \subseteq Stored(prog, pc + 1)
  BY <1>1, <1>6, StoredMoves DEF RunInv
<1>17. env' = [x \in DOMAIN env' |-> env'[x]] /\ Variables(prog, pc + 1, env', umem, pat)
  BY <1>1, <1>6, VariablesMove DEF RunInv
<1> QED BY <1>1, <1>10, <1>11, <1>13, <1>14, <1>15, <1>16, <1>17, StepInv

\* ptedit_write_physical_page fills the page of the entry.
LEMMA WritePageInv ==
  ASSUME Layout, ProgramsInv, prog # "memmap", WritePage
  PROVE  BaseInv' /\ RunInv'
<1>1. /\ Running /\ Op.op = "write_page" /\ pc' = pc + 1
      /\ mem' = Fill(mem, ptedit_get_pfn(env[Op.x]["PTE"]), Op.word)
      /\ UNCHANGED <<tlb, cpu, fixed, env, failed, unflushed, work>>
  BY DEF WritePage, Execute, mapVars
<1>2. prog = "example" /\ pc = 11 /\ Op = write_page("target", CharC)
  BY <1>1, Instructions
<1>3. /\ Tables(mem, Now) /\ Caches(tlb, mem, Now, unflushed) /\ RunInv
      /\ prog \in DOMAIN Code /\ pc \in DOMAIN Code[prog] /\ Op = Code[prog][pc]
  BY <1>1, Facts, ProgramPoint
<1>4. mem' = Fill(mem, OwnFrame(PageB), CharC)
  <2>1. Saved(env, "target", "PTE", Own(PageB))
    BY <1>2, <1>3 DEF RunInv, Variables
  <2>2. Core(Own(PageB)) = Own(PageB)
    BY LeafEntry DEF Vas
  <2> QED BY <1>1, <1>2, <2>1, <2>2, SavedFrame DEF write_page, OwnFrame
<1>5. CharC \in Word
  BY DEF CharC, Word, Bits
<1>6. /\ Tables(mem', Now)
      /\ Kept(mem, mem', NotIn(PageB)) /\ StayRaised(mem, mem')
      /\ Holds(mem', PageB, CharC)
  BY <1>3, <1>4, <1>5, PageFill
<1>7. Caches(tlb', mem', Now, unflushed')
  BY <1>1, <1>3, <1>6, CachesKept
<1>8. Now = Leaves(prog, pc + 1, umem, pat)
  BY <1>1, <1>3, SpansMove, SameLeaves DEF Now
<1>9. Contents(prog, pc + 1, mem')
  <2>1. mem[<<OwnFrame(PageA), {}>>] = CharA
    BY <1>2, <1>3 DEF RunInv, Contents
  <2>2. /\ <<OwnFrame(PageA), {}>> \in DOMAIN InitMem /\ OwnFrame(PageA) # OwnFrame(PageB)
        /\ <<OwnFrame(PageA), {}>>[1] = OwnFrame(PageA)
    BY DEF Layout, PagesApart
  <2> QED BY <1>2, <1>6, <2>1, <2>2 DEF Contents, Kept, NotIn, Holds
<1>10. unflushed' \subseteq Stored(prog, pc + 1) /\ Written(prog, pc + 1) = {}
  BY <1>1, <1>2, <1>3, StoredMoves DEF RunInv, Written
<1>11. env' = [x \in DOMAIN env' |-> env'[x]] /\ Variables(prog, pc + 1, env', umem, pat)
  BY <1>1, <1>3, VariablesMove DEF RunInv
<1> QED BY <1>1, <1>6, <1>7, <1>8, <1>9, <1>10, <1>11, StepInv

-----------------------------------------------------------------------------
(* Resolving *)

Assigned(e, x, found) == [y \in DOMAIN e \cup {x} |-> IF y = x THEN found ELSE e[y]]

\* The other variables keep what they hold.
LEMMA AssignedIs ==
  ASSUME NEW e, NEW x, NEW found, NEW f, f = Assigned(e, x, found)
  PROVE  /\ x \in DOMAIN f /\ f[x] = found /\ f = [y \in DOMAIN f |-> f[y]]
         /\ \A y, l, c : y # x /\ Saved(e, y, l, c) => Saved(f, y, l, c)
         /\ \A y : y # x /\ y \in DOMAIN e => y \in DOMAIN f /\ f[y] = e[y]
<1>1. /\ x \in DOMAIN f /\ f[x] = found /\ f = [y \in DOMAIN f |-> f[y]]
      /\ \A y : y # x /\ y \in DOMAIN e => y \in DOMAIN f /\ f[y] = e[y]
  BY DEF Assigned
<1>2. \A y, l, c : y # x /\ Saved(e, y, l, c) => Saved(f, y, l, c)
  BY <1>1 DEF Saved
<1> QED BY <1>1, <1>2

\* Instructions that only assign to a variable.
LEMMA AssignStep ==
  ASSUME Layout, ProgramsInv, prog # "memmap", Running, pc' = pc + 1,
         UNCHANGED <<mem, tlb, cpu, fixed, failed, unflushed, work>>,
         Op.op \in {"resolve", "resolve_user", "copy"},
         env' = [x \in DOMAIN env' |-> env'[x]], Variables(prog, pc + 1, env', umem, pat)
  PROVE  BaseInv' /\ RunInv'
<1>1. /\ prog \in DOMAIN Code /\ pc \in DOMAIN Code[prog] /\ Op = Code[prog][pc] /\ RunInv
      /\ Tables(mem, Now) /\ Caches(tlb, mem, Now, unflushed)
  BY Facts, ProgramPoint
<1>2. Leaves(prog, pc + 1, umem, pat) = Now
  BY <1>1, SpansMove, SameLeaves DEF Now
<1>3. /\ Stored(prog, pc) \subseteq Stored(prog, pc + 1)
      /\ Written(prog, pc + 1) = Written(prog, pc)
      /\ Contents(prog, pc, mem) => Contents(prog, pc + 1, mem)
  BY <1>1, StoredMoves, WrittenMoves, ContentsMove
<1>4. /\ unflushed' \subseteq Stored(prog, pc + 1) /\ Contents(prog, pc + 1, mem')
      /\ \A a \in Written(prog, pc + 1) : Raised(mem', a) /\ {ACCESSED, DIRTY} \subseteq mem'[LeafSlot(a)]
  BY <1>1, <1>3 DEF RunInv
<1> QED BY <1>1, <1>2, <1>4, StepInv

\* ptedit_resolve reports the entries on the way to an address.
LEMMA Resolved ==
  ASSUME Layout, ProgramsInv, prog # "memmap", NEW a \in Vas
  PROVE  ptedit_resolve(a) = [l \in OnPath(a) |-> mem[At(a, l)]]
<1> DEFINE w == KernelWalk(mem, Root, a)
<1>1. DOMAIN w = OnPath(a) /\ \A l \in OnPath(a) : w[l] = At(a, l)
  BY Facts, KernelPath
<1>2. \A l \in OnPath(a) : Deref(mem, At(a, l)) = mem[At(a, l)]
  BY Facts, PathKept
<1>3. ptedit_resolve(a) = [l \in DOMAIN w |-> Deref(mem, w[l])]
  BY DEF ptedit_resolve
<1> HIDE DEF w
<1> QED BY <1>1, <1>2, <1>3

\* What the variable holds then.
LEMMA ResolvedIs ==
  ASSUME Layout, ProgramsInv, prog # "memmap", NEW a \in Vas,
         Leaf(prog, pc, umem, pat, a) = Own(a),
         NEW e, NEW x, x \in DOMAIN e, e[x] = [l \in OnPath(a) |-> mem[At(a, l)]]
  PROVE  /\ Saved(e, x, LeafAt(a), Own(a))
         /\ \A l \in Dirs(a) : Saved(e, x, l, Core(InitMem[At(a, l)]))
<1>1. Tables(mem, Now) /\ Now[a] = Own(a)
  BY Facts
<1>2. OnPath(a) = Dirs(a) \cup {LeafAt(a)}
  BY DEF OnPath
<1>3. mem[At(a, LeafAt(a))] \in Word /\ Core(mem[At(a, LeafAt(a))]) = Own(a)
  BY <1>1, LeafValue DEF LeafSlot
<1>4. \A l \in Dirs(a) : mem[At(a, l)] \in Word /\ Core(mem[At(a, l)]) = Core(InitMem[At(a, l)])
  BY <1>1, DirEntry
<1> QED BY <1>2, <1>3, <1>4 DEF Saved

\* The entries of a page that was written to, bit by bit.
LEMMA UsedIs ==
  ASSUME Layout, ProgramsInv, prog # "memmap", NEW a \in Vas, a \in Written(prog, pc),
         Leaf(prog, pc, umem, pat, a) = Own(a)
  PROVE  \A l \in OnPath(a) : mem[At(a, l)] = Used(a, l)
<1>1. Raised(mem, a) /\ {ACCESSED, DIRTY} \subseteq mem[LeafSlot(a)]
  BY Facts DEF RunInv
<1>2. Tables(mem, Now) /\ Now[a] = Own(a)
  BY Facts
<1>3. mem[LeafSlot(a)] = Own(a) \cup {ACCESSED, DIRTY}
  <2>1. Core(mem[LeafSlot(a)]) = Own(a)
    BY <1>2 DEF Tables
  <2> QED BY <1>1, <2>1 DEF Core
<1>4. ASSUME NEW l \in Dirs(a) PROVE mem[At(a, l)] = InitMem[At(a, l)] \cup {ACCESSED}
  <2>1. mem[At(a, l)] \ {ACCESSED} = InitMem[At(a, l)] \ {ACCESSED}
    BY <1>2, DirEntry DEF Tables
  <2>2. ACCESSED \in mem[At(a, l)]
    BY <1>1 DEF Raised
  <2> QED BY <2>1, <2>2
<1> QED BY <1>3, <1>4, PathShape DEF Used, OnPath, LeafSlot

\* ptedit_resolve fills a variable.
LEMMA ResolveInv ==
  ASSUME Layout, ProgramsInv, prog # "memmap", Resolve
  PROVE  BaseInv' /\ RunInv'
<1> DEFINE a == Op.va
           x == Op.x
<1>1. /\ Running /\ Op.op = "resolve" /\ pc' = pc + 1
      /\ env' = Assigned(env, x, ptedit_resolve(a))
      /\ UNCHANGED <<mem, tlb, cpu, fixed, failed, unflushed, work>>
  BY DEF Resolve, Execute, Assign, mapVars, Assigned
<1>2. \/ prog = "example" /\ pc = 3 /\ x = "vm" /\ a = PageA
      \/ prog = "example" /\ pc = 5 /\ x = "target" /\ a = PageB
      \/ prog = "map_pt" /\ pc = 3 /\ x = "secret" /\ a = PageB
      \/ prog = "map_pt" /\ pc = 4 /\ x = "target" /\ a = PageA
      \/ prog = "map_pt_manual" /\ pc = 4 /\ x = "secret" /\ a = PageB
      \/ prog = "map_pt_manual" /\ pc = 5 /\ x = "target" /\ a = PageA
      \/ prog = "map_pt_manual" /\ pc = 6 /\ x = "pt" /\ a = PageP
      \/ prog = "uncachable" /\ pc = 2 /\ x = "entry" /\ a = PageP
      \/ prog = "uncachable" /\ pc = 8 /\ x = "huge" /\ a = Huge
      \/ prog = "virt2phys" /\ pc = 2 /\ x = "entry" /\ a = Target
      \/ prog = "performance" /\ pc = 2 /\ x = "entry" /\ a = Target
  BY <1>1, Instructions DEF resolve
<1> HIDE DEF a, x
<1>3. a \in Vas /\ a # PmapVa
  BY <1>2, Addresses
<1>4. Leaf(prog, pc, umem, pat, a) = Own(a)
  <2>1. ~ShowsB(prog, pc) /\ ~ShowsTable(prog, pc) /\ ~Uncached(prog, pc) /\ ~UncachedHuge(prog, pc)
    BY <1>2 DEF ShowsB, ShowsTable, Uncached, UncachedHuge
  <2> QED BY <1>3, <2>1, LeafOwn
<1>5. /\ x \in DOMAIN env' /\ env'[x] = [l \in OnPath(a) |-> mem[At(a, l)]]
      /\ env' = [y \in DOMAIN env' |-> env'[y]]
      /\ \A y, l, c : y # x /\ Saved(env, y, l, c) => Saved(env', y, l, c)
  BY <1>1, <1>3, Resolved, AssignedIs
<1>6. /\ Saved(env', x, LeafAt(a), Own(a))
      /\ \A l \in Dirs(a) : Saved(env', x, l, Core(InitMem[At(a, l)]))
  BY <1>3, <1>4, <1>5, ResolvedIs
<1>7. /\ a \in {PageA, PageB, PageP, Target} =>
           Saved(env', x, "PTE", Own(a)) /\ Saved(env', x, "PMD", Core(InitMem[At(a, "PMD")]))
      /\ a = Huge => Saved(env', x, "PMD", Own(a))
  BY <1>6, PathShape, Addresses
<1>8. a \in Written(prog, pc) => /\ env'[x] = [l \in OnPath(a) |-> Used(a, l)]
                                 /\ a # Huge => env'[x]["PTE"] = Used(a, "PTE")
  BY <1>3, <1>4, <1>5, UsedIs, PathShape
<1>9. Variables(prog, pc, env, umem, pat)
  BY Facts DEF RunInv
<1>10. Variables(prog, pc + 1, env', umem, pat)
  <2>1. CASE prog = "example"
    BY <1>2, <1>5, <1>7, <1>9, <2>1 DEF Variables
  <2>2. CASE prog = "map_pt"
    BY <1>2, <1>5, <1>7, <1>8, <1>9, <2>2, Addresses DEF Variables, Written
  <2>3. CASE prog = "map_pt_manual"
    <3>1. pc = 6 => env'["target"]["PTE"] = env["target"]["PTE"]
      <4>1. pc = 6 => x = "pt" /\ "target" \in DOMAIN env
        BY <1>2, <1>9, <2>3 DEF Variables, Saved
      <4> QED BY <1>1, <4>1, AssignedIs
    <3> QED BY <1>2, <1>5, <1>7, <1>8, <1>9, <2>3, <3>1, Addresses DEF Variables, Written
  <2>4. CASE prog = "uncachable"
    <3>1. Leaf(prog, 3, umem, pat, PageP) = Own(PageP)
      BY <2>4, Addresses DEF Leaf, ShowsTable, Uncached
    <3> QED BY <1>2, <1>5, <1>7, <1>9, <2>4, <3>1 DEF Variables
  <2>5. CASE prog = "virt2phys"
    BY <1>2, <1>5, <1>7, <1>9, <2>5 DEF Variables
  <2>6. CASE prog = "performance"
    BY <1>2, <1>5, <1>8, <1>9, <2>6 DEF Variables, Written
  <2> QED BY <1>2, <2>1, <2>2, <2>3, <2>4, <2>5, <2>6
<1> QED BY <1>1, <1>5, <1>10, AssignStep

\* The library's own walk finds what the kernel's does.
LEMMA UserResolved ==
  ASSUME Layout, ProgramsInv, prog # "memmap"
  PROVE  ptedit_resolve_user(Target) = [l \in CpuLevels |-> mem[At(Target, l)]]
<1> DEFINE E(l) == mem[At(Target, l)]
           Visit(walk, l) ==
             LET e == Deref(mem, Slot(walk.frame, Target, l)) IN
             IF walk.next # l THEN walk
             ELSE [vm |-> UserReport(walk.vm, l, e), frame |-> ptedit_cast_pfn(e),
                   next |-> UserNextLevel(l, e)]
           w0 == [vm |-> <<>>, frame |-> Root, next |-> "PGD"]
           w1 == Visit(w0, "PGD")
           w2 == Visit(w1, "PUD")
           w3 == Visit(w2, "PMD")
           w4 == Visit(w3, "PTE")
<1>1. Target \in Vas /\ Tables(mem, Now) /\ OnPath(Target) = {"PGD", "P4D", "PUD", "PMD", "PTE"}
      /\ Dirs(Target) = {"PGD", "P4D", "PUD", "PMD"}
  BY Facts, PathShape, Addresses
<1>2. \A l \in {"PGD", "PUD", "PMD"} :
        /\ Deref(mem, At(Target, l)) = E(l) /\ Present(E(l)) /\ PSE \notin E(l)
        /\ ptedit_cast_pfn(E(l)) = FrameOf(E(l))
        /\ FrameOf(E(l)) = FrameOf(Deref(InitMem, At(Target, l)))
  <2>1. ASSUME NEW l \in {"PGD", "PUD", "PMD"}
        PROVE  /\ Deref(mem, At(Target, l)) = E(l) /\ Present(E(l)) /\ PSE \notin E(l)
               /\ FrameOf(E(l)) = FrameOf(InitMem[At(Target, l)]) /\ FrameOf(E(l)) \subseteq 0..27
               /\ At(Target, l) \in DOMAIN InitMem
    BY <1>1, PathKept, DirEntry
  <2>2. InitMem \in [DOMAIN InitMem -> Word]
    BY DEF Layout, TablesThere
  <2>3. \A l \in {"PGD", "PUD", "PMD"} : Deref(InitMem, At(Target, l)) = InitMem[At(Target, l)]
    BY <2>1, <2>2, DerefValue
  <2> HIDE DEF E
  <2> QED BY <2>1, <2>3, X86, CastIsFrame
<1>3. Deref(mem, At(Target, "PTE")) = E("PTE")
  BY <1>1, PathKept
<1>4. /\ At(Target, "PGD") = Slot(Root, Target, "PGD")
      /\ At(Target, "PUD") = Slot(FrameOf(E("PGD")), Target, "PUD")
      /\ At(Target, "PMD") = Slot(FrameOf(E("PUD")), Target, "PMD")
      /\ At(Target, "PTE") = Slot(FrameOf(E("PMD")), Target, "PTE")
  <2>1. /\ At(Target, "PGD") = Slot(Root, Target, "PGD")
        /\ At(Target, "PUD") = Slot(FrameOf(Deref(InitMem, At(Target, "PGD"))), Target, "PUD")
        /\ At(Target, "PMD") = Slot(FrameOf(Deref(InitMem, At(Target, "PUD"))), Target, "PMD")
        /\ At(Target, "PTE") = Slot(FrameOf(Deref(InitMem, At(Target, "PMD"))), Target, "PTE")
    BY PathLevels DEF At
  <2> QED BY <1>2, <2>1
<1> HIDE DEF E
<1>5. /\ w1.frame = FrameOf(E("PGD")) /\ w1.next = "PUD"
      /\ DOMAIN w1.vm = {"PGD"} /\ w1.vm["PGD"] = E("PGD")
  BY <1>2, <1>4 DEF UserReport, UserNextLevel
<1> HIDE DEF w1
<1>6. /\ w2.frame = FrameOf(E("PUD")) /\ w2.next = "PMD"
      /\ DOMAIN w2.vm = {"PGD", "PUD"} /\ w2.vm["PGD"] = E("PGD") /\ w2.vm["PUD"] = E("PUD")
  BY <1>2, <1>4, <1>5 DEF UserReport, UserNextLevel
<1> HIDE DEF w2
<1>7. /\ w3.frame = FrameOf(E("PMD")) /\ w3.next = "PTE"
      /\ DOMAIN w3.vm = {"PGD", "PUD", "PMD"}
      /\ w3.vm["PGD"] = E("PGD") /\ w3.vm["PUD"] = E("PUD") /\ w3.vm["PMD"] = E("PMD")
  BY <1>2, <1>4, <1>6 DEF UserReport, UserNextLevel
<1> HIDE DEF w3
<1>8. w4.vm = [l \in {"PGD", "PUD", "PMD", "PTE"} |-> E(l)]
  <2>1. w4.vm = [k \in DOMAIN w3.vm \cup {"PTE"} |-> IF k = "PTE" THEN E("PTE") ELSE w3.vm[k]]
    BY <1>3, <1>4, <1>7 DEF UserReport
  <2> QED BY <1>7, <2>1
<1>9. ptedit_resolve_user(Target) = w4.vm
  BY DEF ptedit_resolve_user, w1, w2, w3
<1>10. CpuLevels = {"PGD", "PUD", "PMD", "PTE"}
  BY DEF CpuLevels, Levels
<1> HIDE DEF w4
<1> QED BY <1>8, <1>9, <1>10 DEF E

\* The user-space implementation fills a variable.
LEMMA ResolveUserInv ==
  ASSUME Layout, ProgramsInv, prog # "memmap", ResolveUser
  PROVE  BaseInv' /\ RunInv'
<1>1. /\ Running /\ Op.op = "resolve_user" /\ pc' = pc + 1
      /\ env' = Assigned(env, Op.x, ptedit_resolve_user(Op.va))
      /\ UNCHANGED <<mem, tlb, cpu, fixed, failed, unflushed, work>>
  BY DEF ResolveUser, Execute, Assign, mapVars, Assigned
<1>2. prog = "performance" /\ pc \in {3, 5} /\ Op.x = "entry_us" /\ Op.va = Target
  BY <1>1, Instructions DEF resolve_user
<1>3. \A l \in CpuLevels : mem[At(Target, l)] = Used(Target, l)
  <2>1. Target \in Vas /\ Target \in Written(prog, pc) /\ Leaf(prog, pc, umem, pat, Target) = Own(Target)
    BY <1>2, LeafFrames DEF Vas, Written
  <2>2. CpuLevels \subseteq OnPath(Target)
    BY PathShape, Addresses DEF CpuLevels, Levels
  <2> QED BY <2>1, <2>2, UsedIs
<1>4. /\ "entry" \in DOMAIN env /\ env["entry"] = [l \in OnPath(Target) |-> Used(Target, l)]
  BY <1>2, Facts DEF RunInv, Variables
<1>5. /\ "entry_us" \in DOMAIN env' /\ env'["entry_us"] = [l \in CpuLevels |-> mem[At(Target, l)]]
      /\ env' = [y \in DOMAIN env' |-> env'[y]]
      /\ "entry" \in DOMAIN env' /\ env'["entry"] = env["entry"]
  BY <1>1, <1>2, <1>4, UserResolved, AssignedIs
<1>6. Variables(prog, pc + 1, env', umem, pat)
  BY <1>2, <1>3, <1>4, <1>5 DEF Variables
<1> QED BY <1>1, <1>5, <1>6, AssignStep

\* An assignment of entries.
LEMMA CopyInv ==
  ASSUME Layout, ProgramsInv, prog # "memmap", Copy
  PROVE  BaseInv' /\ RunInv'
<1>1. /\ Running /\ Op.op = "copy" /\ pc' = pc + 1
      /\ env' = Assigned(env, Op.y, env[Op.x])
      /\ UNCHANGED <<mem, tlb, cpu, fixed, failed, unflushed, work>>
  BY DEF Copy, Execute, Assign, mapVars, Assigned
<1>2. prog = "uncachable" /\ pc = 9 /\ Op.y = "original" /\ Op.x = "huge"
  BY <1>1, Instructions DEF copy
<1>3. Saved(env, "huge", "PMD", Own(Huge)) /\ ptedit_find_first_mt(pat, MT_UC) # -1
  BY <1>2, Facts DEF RunInv, Variables
<1>4. /\ "original" \in DOMAIN env' /\ env'["original"] = env["huge"]
      /\ env' = [y \in DOMAIN env' |-> env'[y]]
      /\ Saved(env', "huge", "PMD", Own(Huge))
  BY <1>1, <1>2, <1>3, AssignedIs
<1>5. Saved(env', "original", "PMD", Own(Huge))
  BY <1>3, <1>4 DEF Saved
<1>6. Variables(prog, pc + 1, env', umem, pat)
  BY <1>2, <1>3, <1>4, <1>5 DEF Variables
<1> QED BY <1>1, <1>4, <1>6, AssignStep

-----------------------------------------------------------------------------
(* Updates *)

\* An edit of the tables leaves the contents of pages.
LEMMA ContentsKept ==
  ASSUME Layout, NEW m, NEW n, NEW a \in Vas, Kept(m, n, DOMAIN InitMem \ {LeafSlot(a)}),
         NEW p, NEW i, Contents(p, i, m)
  PROVE  Contents(p, i, n)
<1>1. LeafSlot(a) \in LeafSlots
  BY DEF LeafSlots
<1>2. /\ n[<<OwnFrame(PageA), {}>>] = m[<<OwnFrame(PageA), {}>>]
      /\ n[<<OwnFrame(PageB), {}>>] = m[<<OwnFrame(PageB), {}>>]
  BY <1>1, DataSlots DEF Kept
<1> QED BY <1>2 DEF Contents

\* Pages that were written to keep their bits when another entry is stored.
LEMMA WrittenKept ==
  ASSUME Layout, NEW m, NEW n, NEW a \in Vas, NEW b \in Vas \ {a},
         Kept(m, n, DOMAIN InitMem \ {LeafSlot(a)}), StayRaised(m, n),
         Raised(m, b) /\ {ACCESSED, DIRTY} \subseteq m[LeafSlot(b)]
  PROVE  Raised(n, b) /\ {ACCESSED, DIRTY} \subseteq n[LeafSlot(b)]
<1>1. LeafSlot(b) # LeafSlot(a) /\ LeafSlot(b) \in DOMAIN InitMem
  BY LeafEntry DEF Layout, PagesApart
<1> QED BY <1>1 DEF Kept, StayRaised

\* The addresses written to are among the six.
LEMMA WrittenVas ==
  ASSUME Layout, NEW p, NEW i
  PROVE  Written(p, i) \subseteq {PageA, Target} /\ Written(p, i) \subseteq Vas
BY DEF Written, Vas

\* ptedit_update with the entry of an address.
LEMMA UpdateStep ==
  ASSUME Layout, ProgramsInv, prog # "memmap", Running, pc' = pc + 1,
         Op.op \in {"update", "redirect", "pte_set_pfn", "retype"},
         NEW a \in Vas, NEW l, l = LeafAt(a), NEW e \in Word, ptedit_update(a, l, e),
         NEW h, h = Leaves(prog, pc + 1, umem, pat),
         h[a] = Core(e), \A b \in Vas \ {a} : h[b] = Now[b], a \notin Written(prog, pc),
         env' = [x \in DOMAIN env' |-> env'[x]], Variables(prog, pc + 1, env', umem, pat)
  PROVE  BaseInv' /\ RunInv'
<1>1. /\ prog \in DOMAIN Code /\ pc \in DOMAIN Code[prog] /\ Op = Code[prog][pc] /\ RunInv
      /\ Tables(mem, Now) /\ Caches(tlb, mem, Now, unflushed) /\ PSE \in Now[Huge]
  BY Facts, ProgramPoint
<1>2. /\ mem' = Put(mem, LeafSlot(a), e) /\ tlb' = FlushAll(tlb, a) /\ unflushed' = unflushed \ {a}
      /\ UNCHANGED <<cpu, fixed, failed, work>>
  <2>1. /\ mem' = IF l \in DOMAIN KernelWalk(mem, Root, a)
                    THEN [mem EXCEPT ![KernelWalk(mem, Root, a)[l]] = e] ELSE mem
        /\ tlb' = Flush(a) /\ unflushed' = unflushed \ {a}
        /\ UNCHANGED <<cpu, fixed, failed, work>>
    BY DEF ptedit_update, mapVars
  <2>2. l \in DOMAIN KernelWalk(mem, Root, a) /\ KernelWalk(mem, Root, a)[l] = LeafSlot(a)
    BY <1>1, KernelPath, PathShape DEF LeafSlot
  <2> QED BY <2>1, <2>2 DEF Put, FlushAll, Flush
<1>3. /\ Tables(mem', h) /\ Kept(mem, mem', DOMAIN InitMem \ {LeafSlot(a)})
      /\ StayRaised(mem, mem')
  BY <1>1, <1>2, LeafWrite
<1>4. Caches(tlb', mem', h, unflushed')
  BY <1>1, <1>2, <1>3, CachesFlushed
<1>5. /\ Stored(prog, pc) \subseteq Stored(prog, pc + 1)
      /\ Written(prog, pc + 1) = Written(prog, pc)
      /\ Contents(prog, pc + 1, mem)
  BY <1>1, StoredMoves, WrittenMoves, ContentsMove DEF RunInv
<1>6. unflushed' \subseteq Stored(prog, pc + 1)
  BY <1>1, <1>2, <1>5 DEF RunInv
<1>7. Contents(prog, pc + 1, mem')
  BY <1>3, <1>5, ContentsKept
<1>8. ASSUME NEW b \in Written(prog, pc + 1)
      PROVE  Raised(mem', b) /\ {ACCESSED, DIRTY} \subseteq mem'[LeafSlot(b)]
  <2>1. b \in Vas \ {a}
    BY <1>5, WrittenVas
  <2>2. Raised(mem, b) /\ {ACCESSED, DIRTY} \subseteq mem[LeafSlot(b)]
    BY <1>1, <1>5 DEF RunInv
  <2> QED BY <1>3, <2>1, <2>2, WrittenKept
<1> QED BY <1>2, <1>3, <1>4, <1>6, <1>7, <1>8, StepInv

\* ptedit_update with an entry as it was resolved.
LEMMA UpdateInv ==
  ASSUME Layout, ProgramsInv, prog # "memmap", Update
  PROVE  BaseInv' /\ RunInv'
<1> DEFINE a == Op.va
           l == Op.level
           e == env[Op.x][l]
           h == Leaves(prog, pc + 1, umem, pat)
<1>1. /\ Running /\ Op.op = "update" /\ pc' = pc + 1
      /\ ptedit_update(a, l, e) /\ env' = env
  BY DEF Update, Execute
<1>2. \/ prog = "map_pt_manual" /\ pc = 13 /\ a = PageP /\ Op.x = "pt" /\ l = "PTE"
      \/ prog = "uncachable" /\ pc = 12 /\ a = Huge /\ Op.x = "original" /\ l = "PMD"
  BY <1>1, Instructions DEF update
<1>3. /\ prog \in DOMAIN Code /\ pc \in DOMAIN Code[prog] /\ Op = Code[prog][pc] /\ RunInv
      /\ \A b \in Vas : Now[b] = Leaf(prog, pc, umem, pat, b)
  BY <1>1, Facts, ProgramPoint
<1>4. a \in Vas /\ l = LeafAt(a) /\ a \notin Written(prog, pc)
  BY <1>2, PathShape, Addresses DEF Written
<1>5. Saved(env, Op.x, l, Own(a))
  BY <1>2, <1>3 DEF RunInv, Variables
<1>6. e \in Word /\ Core(e) = Own(a)
  BY <1>5 DEF Saved
<1>7. h[a] = Core(e) /\ \A b \in Vas \ {a} : h[b] = Now[b]
  <2> HIDE DEF e, a, l
  <2>1. Leaf(prog, pc + 1, umem, pat, a) = Own(a)
    BY <1>2, Addresses DEF Leaf, ShowsTable, Uncached, UncachedHuge
  <2>2. ASSUME NEW b \in Vas \ {a} PROVE Leaf(prog, pc + 1, umem, pat, b) = Leaf(prog, pc, umem, pat, b)
    BY <1>2, <2>2, Addresses DEF Leaf, ShowsB, ShowsTable, Uncached, UncachedHuge, Pmapped
  <2> QED BY <1>3, <1>4, <1>6, <2>1, <2>2 DEF Leaves
<1>8. env' = [x \in DOMAIN env' |-> env'[x]] /\ Variables(prog, pc + 1, env', umem, pat)
  BY <1>1, <1>3, VariablesMove DEF RunInv
<1> HIDE DEF a, l, e, h
<1>9. h = Leaves(prog, pc + 1, umem, pat)
  BY DEF h
<1> QED BY <1>1, <1>4, <1>6, <1>7, <1>8, <1>9, UpdateStep

\* ptedit_set_pfn and ptedit_update.
LEMMA RedirectInv ==
  ASSUME Layout, ProgramsInv, prog # "memmap", Redirect
  PROVE  BaseInv' /\ RunInv'
<1> DEFINE a == Op.va
           v == env[Op.x]["PTE"]
           p == ptedit_get_pfn(env[Op.y][Op.level])
           e == ptedit_set_pfn(v, p)
           h == Leaves(prog, pc + 1, umem, pat)
           q == IF a = PageA THEN OwnFrame(PageB) ELSE TableA
<1>1. /\ Running /\ Op.op = "redirect" /\ pc' = pc + 1
      /\ ptedit_update(a, "PTE", e) /\ env' = env
  BY DEF Redirect, Execute
<1>2. \/ /\ prog = "example" /\ pc = 6 /\ a = PageA
         /\ Op.x = "vm" /\ Op.y = "target" /\ Op.level = "PTE"
      \/ /\ prog = "map_pt_manual" /\ pc = 7 /\ a = PageP
         /\ Op.x = "pt" /\ Op.y = "target" /\ Op.level = "PMD"
  BY <1>1, Instructions DEF redirect
<1>3. /\ prog \in DOMAIN Code /\ pc \in DOMAIN Code[prog] /\ Op = Code[prog][pc] /\ RunInv
      /\ \A b \in Vas : Now[b] = Leaf(prog, pc, umem, pat, b)
  BY <1>1, Facts, ProgramPoint
<1>4. a \in Vas /\ "PTE" = LeafAt(a) /\ a \notin Written(prog, pc)
  BY <1>2, PathShape, Addresses DEF Written
<1>5. v \in Word /\ Core(v) = Own(a)
  <2>1. Saved(env, Op.x, "PTE", Own(a))
    BY <1>2, <1>3 DEF RunInv, Variables
  <2> QED BY <2>1 DEF Saved
<1>6. p = q /\ p \in SUBSET (0..39)
  <2>1. CASE a = PageA
    <3>1. Saved(env, "target", "PTE", Own(PageB)) /\ Op.y = "target" /\ Op.level = "PTE"
      BY <1>2, <1>3, <2>1, Addresses DEF RunInv, Variables
    <3>2. Core(Own(PageB)) = Own(PageB)
      BY LeafEntry DEF Vas
    <3> QED BY <2>1, <3>1, <3>2, SavedFrame, FrameBits DEF OwnFrame
  <2>2. CASE a = PageP
    <3> DEFINE d == InitMem[At(PageA, "PMD")]
    <3>1. Saved(env, "target", "PMD", Core(d)) /\ Op.y = "target" /\ Op.level = "PMD"
      BY <1>2, <1>3, <2>2, Addresses DEF RunInv, Variables
    <3>2. Core(Core(d)) = Core(d)
      BY DEF Core
    <3>3. FrameOf(Core(d)) = FrameOf(d)
      BY <3>2, SameCore
    <3>4. p = FrameOf(Core(d))
      BY <3>1, <3>2, SavedFrame
    <3> QED BY <2>2, <3>3, <3>4, FrameBits, Addresses DEF TableA
  <2> QED BY <1>2, <2>1, <2>2
<1> HIDE DEF a, v, p, q
<1>7. e \in Word /\ Core(e) = ptedit_set_pfn(Own(a), q)
  BY <1>5, <1>6, SetPfn
<1> HIDE DEF e
<1>8. h[a] = Core(e) /\ \A b \in Vas \ {a} : h[b] = Now[b]
  <2>1. Leaf(prog, pc + 1, umem, pat, a) = ptedit_set_pfn(Own(a), q)
    BY <1>2, Addresses DEF Leaf, ShowsB, ShowsTable, q
  <2>2. ASSUME NEW b \in Vas \ {a} PROVE Leaf(prog, pc + 1, umem, pat, b) = Leaf(prog, pc, umem, pat, b)
    BY <1>2, <2>2, Addresses DEF Leaf, ShowsB, ShowsTable, Uncached, UncachedHuge, Pmapped
  <2> QED BY <1>3, <1>4, <1>7, <2>1, <2>2 DEF Leaves
<1>9. env' = [x \in DOMAIN env' |-> env'[x]] /\ Variables(prog, pc + 1, env', umem, pat)
  BY <1>1, <1>3, VariablesMove DEF RunInv
<1> HIDE DEF h
<1>10. h = Leaves(prog, pc + 1, umem, pat)
  BY DEF h
<1> QED BY <1>1, <1>4, <1>7, <1>8, <1>9, <1>10, UpdateStep

\* ptedit_pte_set_pfn.
LEMMA PteSetPfnInv ==
  ASSUME Layout, ProgramsInv, prog # "memmap", PteSetPfn
  PROVE  BaseInv' /\ RunInv'
<1> DEFINE found == ptedit_resolve(Op.va)
           v == mem[LeafSlot(PageA)]
           e == ptedit_set_pfn(v, OwnFrame(PageA))
           h == Leaves(prog, pc + 1, umem, pat)
<1>1. /\ Running /\ Op.op = "pte_set_pfn" /\ pc' = pc + 1 /\ env' = env
      /\ "PTE" \in DOMAIN found =>
           ptedit_update(Op.va, "PTE",
             ptedit_set_pfn(found["PTE"], ptedit_get_pfn(env[Op.x]["PTE"])))
  BY DEF PteSetPfn, Execute
<1>2. prog = "example" /\ pc = 14 /\ Op.va = PageA /\ Op.x = "vm"
  BY <1>1, Instructions DEF pte_set_pfn
<1>3. /\ prog \in DOMAIN Code /\ pc \in DOMAIN Code[prog] /\ Op = Code[prog][pc] /\ RunInv
      /\ Tables(mem, Now) /\ \A b \in Vas : Now[b] = Leaf(prog, pc, umem, pat, b)
  BY <1>1, Facts, ProgramPoint
<1>4. PageA \in Vas /\ "PTE" = LeafAt(PageA) /\ PageA \notin Written(prog, pc) /\ "PTE" \in OnPath(PageA)
  BY <1>2, PathShape, Addresses DEF Written
<1>5. "PTE" \in DOMAIN found /\ found["PTE"] = v
  BY <1>2, <1>4, Resolved DEF LeafSlot
<1>6. Own(PageA) \in Word /\ Core(Own(PageA)) = Own(PageA)
  BY <1>4, LeafEntry
<1>7. ptedit_get_pfn(env[Op.x]["PTE"]) = OwnFrame(PageA)
  <2>1. Saved(env, "vm", "PTE", Own(PageA))
    BY <1>2, <1>3 DEF RunInv, Variables
  <2> QED BY <1>2, <1>6, <2>1, SavedFrame DEF OwnFrame
<1>8. ptedit_update(PageA, "PTE", e)
  BY <1>1, <1>2, <1>5, <1>7
<1>9. v \in Word /\ Core(v) = ptedit_set_pfn(Own(PageA), OwnFrame(PageB))
  <2>1. v \in Word /\ Core(v) = Leaf(prog, pc, umem, pat, PageA)
    BY <1>3, <1>4, LeafValue
  <2> QED BY <1>2, <2>1, LeafFrames DEF ShowsB
<1>10. e \in Word /\ Core(e) = Own(PageA)
  <2>1. OwnFrame(PageA) \in SUBSET (0..39) /\ OwnFrame(PageB) \in SUBSET (0..39)
    BY FrameBits DEF OwnFrame
  <2> HIDE DEF v
  <2>2. e \in Word /\ Core(e) = ptedit_set_pfn(Core(v), OwnFrame(PageA))
    BY <1>9, <2>1, SetPfn
  <2>3. ptedit_set_pfn(ptedit_set_pfn(Own(PageA), OwnFrame(PageB)), FrameOf(Own(PageA))) = Own(PageA)
    BY <1>6, <2>1, SetPfn
  <2> QED BY <1>9, <2>2, <2>3 DEF OwnFrame
<1> HIDE DEF e
<1>11. h[PageA] = Core(e) /\ \A b \in Vas \ {PageA} : h[b] = Now[b]
  <2>1. Leaf(prog, pc + 1, umem, pat, PageA) = Own(PageA)
    BY <1>2, LeafFrames DEF ShowsB
  <2>2. ASSUME NEW b \in Vas \ {PageA} PROVE Leaf(prog, pc + 1, umem, pat, b) = Leaf(prog, pc, umem, pat, b)
    BY <1>2, <2>2, Addresses DEF Leaf, ShowsB, ShowsTable, Uncached, UncachedHuge, Pmapped
  <2> QED BY <1>3, <1>4, <1>10, <2>1, <2>2 DEF Leaves
<1>12. env' = [x \in DOMAIN env' |-> env'[x]] /\ Variables(prog, pc + 1, env', umem, pat)
  BY <1>1, <1>3, VariablesMove DEF RunInv
<1> HIDE DEF h
<1>13. h = Leaves(prog, pc + 1, umem, pat)
  BY DEF h
<1> QED BY <1>1, <1>4, <1>8, <1>10, <1>11, <1>12, <1>13, UpdateStep

Replaced(e, x, l, new) == [e EXCEPT ![x][l] = new]

\* One entry of a variable is replaced.
LEMMA Retyped ==
  ASSUME NEW e, e = [y \in DOMAIN e |-> e[y]], NEW x, NEW l, NEW c, Saved(e, x, l, c), NEW new \in Word,
         NEW f, f = Replaced(e, x, l, new)
  PROVE  /\ Saved(f, x, l, Core(new)) /\ f = [y \in DOMAIN f |-> f[y]]
         /\ \A y, k, d : y # x /\ Saved(e, y, k, d) => Saved(f, y, k, d)
<1>1. x \in DOMAIN e /\ l \in DOMAIN e[x]
  BY DEF Saved
<1>2. /\ x \in DOMAIN f /\ l \in DOMAIN f[x] /\ f[x][l] = new /\ f = [y \in DOMAIN f |-> f[y]]
      /\ DOMAIN f = DOMAIN e /\ \A y \in DOMAIN e : y # x => f[y] = e[y]
  BY <1>1 DEF Replaced
<1>3. Saved(f, x, l, Core(new))
  BY <1>2 DEF Saved
<1>4. \A y, k, d : y # x /\ Saved(e, y, k, d) => Saved(f, y, k, d)
  BY <1>2 DEF Saved
<1> QED BY <1>2, <1>3, <1>4

\* ptedit_apply_mt, or ptedit_apply_mt_huge, and ptedit_update.
LEMMA RetypeInv ==
  ASSUME Layout, ProgramsInv, prog # "memmap", Retype
  PROVE  BaseInv' /\ RunInv'
<1> DEFINE a == Op.va
           l == Op.level
           n == IdBits(ptedit_find_first_mt(pat, Op.word))
           uc == IdBits(ptedit_find_first_mt(pat, MT_UC))
           v == env[Op.x][l]
           e == IF l = "PTE" THEN ptedit_apply_mt(v, n) ELSE ptedit_apply_mt_huge(v, n)
           h == Leaves(prog, pc + 1, umem, pat)
<1>1. /\ Running /\ Op.op = "retype" /\ pc' = pc + 1 /\ ptedit_find_first_mt(pat, Op.word) # -1
      /\ ptedit_update(a, l, e) /\ env' = Replaced(env, Op.x, l, e)
  BY DEF Retype, Execute, Replaced
<1>2. /\ prog = "uncachable"
      /\ \/ pc = 3 /\ a = PageP /\ Op.x = "entry" /\ l = "PTE" /\ Op.word = MT_UC
         \/ pc = 5 /\ a = PageP /\ Op.x = "entry" /\ l = "PTE" /\ Op.word = MT_WB
         \/ pc = 10 /\ a = Huge /\ Op.x = "huge" /\ l = "PMD" /\ Op.word = MT_UC
  BY <1>1, Instructions DEF retype
<1>3. /\ RunInv /\ \A b \in Vas : Now[b] = Leaf(prog, pc, umem, pat, b)
      /\ pat \in Pats
  BY <1>1, Facts DEF BaseInv
<1>4. a \in Vas /\ l = LeafAt(a) /\ a \notin Written(prog, pc)
  BY <1>2, PathShape, Addresses DEF Written
<1>5. n \in SUBSET (0..2) /\ uc \in SUBSET (0..2)
  BY DEF IdBits, MtIndex
<1>6. /\ pc = 5 => n = ptedit_extract_mt(Own(PageP))
      /\ pc # 5 => n = uc
      /\ ptedit_find_first_mt(pat, MT_UC) # -1
  <2>1. ptedit_extract_mt(Own(PageP)) = IdBits(ptedit_find_first_mt(pat, MT_WB))
    BY <1>3 DEF Layout, PagesCached
  <2>2. pc = 5 => ptedit_find_first_mt(pat, MT_UC) # -1
    BY <1>2, <1>3 DEF RunInv, Variables
  <2> QED BY <1>1, <1>2, <2>1, <2>2
<1> HIDE DEF n, uc, a, l
<1>7. Own(PageP) \in Word /\ Own(Huge) \in Word
  BY LeafEntry DEF Vas
<1>8. /\ pc = 3 => Leaf(prog, pc, umem, pat, PageP) = Own(PageP)
      /\ pc = 5 => Leaf(prog, pc, umem, pat, PageP) = ptedit_apply_mt(Own(PageP), uc)
      /\ pc = 3 => Leaf(prog, pc + 1, umem, pat, PageP) = ptedit_apply_mt(Own(PageP), uc)
      /\ pc = 5 => Leaf(prog, pc + 1, umem, pat, PageP) = Own(PageP)
      /\ pc = 10 => Leaf(prog, pc + 1, umem, pat, Huge) = ptedit_apply_mt_huge(Own(Huge), uc)
  BY <1>2, Addresses DEF Leaf, ShowsTable, Uncached, UncachedHuge, uc
<1>9. \E c : /\ Saved(env, Op.x, l, c)
             /\ pc = 3 => c = Own(PageP)
             /\ pc = 5 => c = ptedit_apply_mt(Own(PageP), uc)
             /\ pc = 10 => c = Own(Huge)
  BY <1>2, <1>3, <1>8 DEF RunInv, Variables
<1>10. e \in Word /\ Core(e) = Leaf(prog, pc + 1, umem, pat, a)
  <2>1. PICK c : /\ Saved(env, Op.x, l, c)
                 /\ pc = 3 => c = Own(PageP)
                 /\ pc = 5 => c = ptedit_apply_mt(Own(PageP), uc)
                 /\ pc = 10 => c = Own(Huge)
    BY <1>9
  <2>2. v \in Word /\ Core(v) = c
    BY <2>1 DEF Saved
  <2> HIDE DEF v
  <2>3. CASE pc = 3
    <3>1. e \in Word /\ Core(e) = ptedit_apply_mt(Core(v), n)
      BY <1>2, <1>5, <2>2, <2>3, ApplyMt
    <3> QED BY <1>2, <1>6, <1>8, <2>1, <2>2, <2>3, <3>1
  <2>4. CASE pc = 5
    <3>1. e \in Word /\ Core(e) = ptedit_apply_mt(Core(v), n)
      BY <1>2, <1>5, <2>2, <2>4, ApplyMt
    <3>2. ptedit_apply_mt(ptedit_apply_mt(Own(PageP), uc), ptedit_extract_mt(Own(PageP))) = Own(PageP)
      BY <1>5, <1>7, ApplyMt
    <3> QED BY <1>2, <1>6, <1>8, <2>1, <2>2, <2>4, <3>1, <3>2
  <2>5. CASE pc = 10
    <3>1. e \in Word /\ Core(e) = ptedit_apply_mt_huge(Core(v), n)
      BY <1>2, <1>5, <2>2, <2>5, ApplyMtHuge
    <3> QED BY <1>2, <1>6, <1>8, <2>1, <2>2, <2>5, <3>1
  <2> QED BY <1>2, <2>3, <2>4, <2>5
<1> HIDE DEF e
<1>11. h[a] = Core(e) /\ \A b \in Vas \ {a} : h[b] = Now[b]
  <2>1. ASSUME NEW b \in Vas \ {a} PROVE Leaf(prog, pc + 1, umem, pat, b) = Leaf(prog, pc, umem, pat, b)
    BY <1>2, <2>1, Addresses DEF Leaf, ShowsB, ShowsTable, Uncached, UncachedHuge, Pmapped
  <2> QED BY <1>3, <1>4, <1>10, <2>1 DEF Leaves
<1>12. env' = [x \in DOMAIN env' |-> env'[x]] /\ Variables(prog, pc + 1, env', umem, pat)
  <2>1. env = [x \in DOMAIN env |-> env[x]]
    BY <1>3 DEF RunInv
  <2>2. /\ Saved(env', Op.x, l, Core(e)) /\ env' = [y \in DOMAIN env' |-> env'[y]]
        /\ \A y, k, d : y # Op.x /\ Saved(env, y, k, d) => Saved(env', y, k, d)
    BY <1>1, <1>9, <1>10, <2>1, Retyped
  <2>3. pc = 10 => Saved(env, "original", "PMD", Own(Huge))
    BY <1>2, <1>3 DEF RunInv, Variables
  <2> QED BY <1>2, <1>6, <1>10, <2>2, <2>3 DEF Variables
<1> HIDE DEF h
<1>13. h = Leaves(prog, pc + 1, umem, pat)
  BY DEF h
<1> QED BY <1>1, <1>4, <1>10, <1>11, <1>12, <1>13, UpdateStep

\* An entry appears where there was none.
LEMMA CachesMapped ==
  ASSUME NEW t, NEW m, NEW g, NEW st, Caches(t, m, g, st), NEW a \in Vas, a \notin st, ~Present(g[a]),
         NEW n, NEW h, \A b \in Vas \ {a} : h[b] = g[b], StayRaised(m, n)
  PROVE  Caches(t, n, h, st)
<1>1. \A c \in Cpus : t[c][a] = <<>>
  BY DEF Caches, Via
<1>2. ASSUME NEW c \in Cpus, NEW b \in Vas
      PROVE  /\ t[c][b] \in {<<>>, Via(b, h[b])} \/ b \in st
             /\ t[c][b] # <<>> => Raised(n, b)
  <2>1. CASE b = a
    BY <1>1, <2>1
  <2>2. CASE b # a
    BY <2>2 DEF Caches, StayRaised
  <2> QED BY <2>1, <2>2
<1>3. t = [c \in Cpus |-> [b \in Vas |-> t[c][b]]]
  BY DEF Caches
<1> QED BY <1>2, <1>3 DEF Caches

\* ptedit_pmap maps the page at an address that had none, if /proc/umem exists.
LEMMA PmapInv ==
  ASSUME Layout, ProgramsInv, prog # "memmap", Pmap
  PROVE  BaseInv' /\ RunInv'
<1> DEFINE v == env[Op.x][Op.level]
           frame == IF Op.cast THEN ptedit_cast_pfn(v) ELSE ptedit_get_pfn(v)
           q == IF prog = "example" THEN OwnFrame(PageA) ELSE TableA
           new == {PRESENT, RW, USER}
           e == ptedit_set_pfn(new, q)
           h == Leaves(prog, pc + 1, umem, pat)
<1>1. /\ Running /\ Op.op = "pmap" /\ pc' = pc + 1
      /\ mem' = IF umem THEN [mem EXCEPT ![Path(mem, Root, PmapVa)["PTE"]] = ptedit_set_pfn(new, frame)]
                        ELSE mem
      /\ UNCHANGED <<tlb, cpu, fixed, env, failed, unflushed, work>>
  BY DEF Pmap, Execute, mapVars
<1>0. \/ prog = "example" /\ pc = 9 /\ Op = pmap("vm", "PTE", FALSE)
      \/ prog = "map_pt" /\ pc = 5 /\ Op = pmap("target", "PMD", TRUE)
  BY <1>1, Instructions
<1>2. (prog = "example" /\ pc = 9) \/ (prog = "map_pt" /\ pc = 5)
  BY <1>0
<1>3. /\ prog \in DOMAIN Code /\ pc \in DOMAIN Code[prog] /\ Op = Code[prog][pc] /\ RunInv
      /\ \A b \in Vas : Now[b] = Leaf(prog, pc, umem, pat, b)
      /\ Tables(mem, Now) /\ Caches(tlb, mem, Now, unflushed) /\ umem \in BOOLEAN
  BY <1>1, Facts, ProgramPoint DEF BaseInv
<1>4. PmapVa \in Vas /\ LeafAt(PmapVa) = "PTE" /\ Path(mem, Root, PmapVa)["PTE"] = LeafSlot(PmapVa)
      /\ PmapVa \notin Written(prog, pc)
  BY <1>3, PathKept, PathShape, Addresses, WrittenVas DEF LeafSlot
<1>5. frame = q
  <2>1. CASE prog = "example"
    <3>1. Op.x = "vm" /\ Op.level = "PTE" /\ ~Op.cast
      BY <1>0, <2>1 DEF pmap
    <3>2. Saved(env, "vm", "PTE", Own(PageA))
      BY <1>2, <1>3, <2>1 DEF RunInv, Variables
    <3>3. Core(Own(PageA)) = Own(PageA)
      BY LeafEntry DEF Vas
    <3> QED BY <2>1, <3>1, <3>2, <3>3, SavedFrame DEF OwnFrame
  <2>2. CASE prog = "map_pt"
    <3> DEFINE d == InitMem[At(PageA, "PMD")]
    <3>1. Op.x = "target" /\ Op.level = "PMD" /\ Op.cast
      BY <1>0, <2>2 DEF pmap
    <3>2. Saved(env, "target", "PMD", Core(d))
      BY <1>2, <1>3, <2>2 DEF RunInv, Variables
    <3>3. Core(Core(d)) = Core(d)
      BY DEF Core
    <3>4. FrameOf(v) = FrameOf(Core(d))
      BY <3>1, <3>2, <3>3, SavedFrame
    <3>5. FrameOf(v) = FrameOf(d)
      BY <3>3, <3>4, SameCore
    <3>6. FrameOf(d) \subseteq 0..27
      BY PathShape, Addresses DEF Layout, TablesThere
    <3>7. ptedit_cast_pfn(v) = FrameOf(v)
      BY <3>5, <3>6, X86, CastIsFrame
    <3> QED BY <2>2, <3>1, <3>5, <3>7 DEF TableA
  <2> QED BY <1>2, <2>1, <2>2
<1>6. q \in SUBSET (0..39)
  BY FrameBits DEF OwnFrame, TableA
<1>7. e \in Word /\ Core(e) = e
  <2>1. new \in Word /\ Core(new) = new
    BY X86 DEF Word, Bits, Core
  <2> HIDE DEF new, q
  <2> QED BY <1>6, <2>1, SetPfn
<1>8. ~Present(Now[PmapVa]) /\ PmapVa \notin unflushed
  <2>1. Leaf(prog, pc, umem, pat, PmapVa) = Own(PmapVa)
    BY <1>2, Addresses DEF Leaf, Pmapped
  <2>2. PmapVa \notin Stored(prog, pc)
    BY Addresses DEF Stored
  <2> QED BY <1>3, <1>4, <2>1, <2>2, LeafEntry DEF RunInv
<1>9. \A b \in Vas \ {PmapVa} : h[b] = Now[b]
  <2>1. ASSUME NEW b \in Vas \ {PmapVa} PROVE Leaf(prog, pc + 1, umem, pat, b) = Leaf(prog, pc, umem, pat, b)
    BY <1>2, <2>1, Addresses DEF Leaf, ShowsB, ShowsTable, Uncached, UncachedHuge
  <2> QED BY <1>3, <2>1 DEF Leaves
<1>10. h[PmapVa] = IF umem THEN e ELSE Now[PmapVa]
  <2>1. Leaf(prog, pc + 1, umem, pat, PmapVa) = IF umem THEN e ELSE Leaf(prog, pc, umem, pat, PmapVa)
    BY <1>2, Addresses DEF Leaf, Pmapped
  <2> QED BY <1>3, <1>4, <2>1 DEF Leaves
<1> HIDE DEF h, e
<1>11. /\ Tables(mem', h) /\ Kept(mem, mem', DOMAIN InitMem \ {LeafSlot(PmapVa)})
       /\ StayRaised(mem, mem')
  <2>1. CASE umem
    <3>1. mem' = Put(mem, LeafSlot(PmapVa), e)
      BY <1>1, <1>4, <1>5, <2>1 DEF Put, e
    <3>2. h[PmapVa] = Core(e)
      BY <1>7, <1>10, <2>1
    <3> QED BY <1>3, <1>4, <1>7, <1>9, <3>1, <3>2, LeafWrite
  <2>2. CASE ~umem
    <3>1. mem' = mem /\ \A b \in Vas : h[b] = Now[b]
      BY <1>1, <1>9, <1>10, <2>2
    <3> QED BY <1>3, <3>1 DEF Tables, Kept, StayRaised
  <2> QED BY <2>1, <2>2
<1>12. Caches(tlb', mem', h, unflushed')
  BY <1>1, <1>3, <1>4, <1>8, <1>9, <1>11, CachesMapped
<1>13. /\ unflushed' \subseteq Stored(prog, pc + 1)
       /\ Written(prog, pc + 1) = Written(prog, pc)
       /\ Contents(prog, pc + 1, mem)
  BY <1>1, <1>3, StoredMoves, WrittenMoves, ContentsMove DEF RunInv
<1>14. Contents(prog, pc + 1, mem')
  BY <1>4, <1>11, <1>13, ContentsKept
<1>15. ASSUME NEW b \in Written(prog, pc + 1)
       PROVE  Raised(mem', b) /\ {ACCESSED, DIRTY} \subseteq mem'[LeafSlot(b)]
  <2>1. b \in Vas \ {PmapVa}
    BY <1>4, <1>13, WrittenVas
  <2>2. Raised(mem, b) /\ {ACCESSED, DIRTY} \subseteq mem[LeafSlot(b)]
    BY <1>3, <1>13 DEF RunInv
  <2> QED BY <1>4, <1>11, <2>1, <2>2, WrittenKept
<1>16. env' = [x \in DOMAIN env' |-> env'[x]] /\ Variables(prog, pc + 1, env', umem, pat)
  BY <1>1, <1>3, VariablesMove DEF RunInv
<1> QED BY <1>1, <1>11, <1>12, <1>13, <1>14, <1>15, <1>16, StepInv DEF h

-----------------------------------------------------------------------------
(* Stores through a mapping of the page table *)

\* A store through a page that shows the page table of A.
LEMMA StoreStep ==
  ASSUME Layout, ProgramsInv, prog # "memmap", Running, pc' = pc + 1,
         Op.op \in {"store", "store_pfn"}, Op.va = PageA, Op.at \in {PageP, PmapVa}, Accessible(Op.at),
         \/ Op.at = PageP /\ ShowsTable(prog, pc)
         \/ Op.at = PmapVa /\ prog = "map_pt",
         Stored(prog, pc + 1) = {PageA, Huge},
         NEW e \in Word, {ACCESSED, DIRTY} \subseteq e, StoreEntry(e),
         NEW h, h = Leaves(prog, pc + 1, umem, pat),
         h[PageA] = Core(e), \A b \in Vas \ {PageA} : h[b] = Now[b]
  PROVE  BaseInv' /\ RunInv'
<1>1. /\ prog \in DOMAIN Code /\ pc \in DOMAIN Code[prog] /\ Op = Code[prog][pc] /\ RunInv
      /\ Tables(mem, Now) /\ Caches(tlb, mem, Now, unflushed) /\ PageA \in Vas
  BY Facts, ProgramPoint, Addresses
<1> DEFINE hit == {b \in Vas : Path(mem, Root, b)["PTE"] = LeafSlot(PageA)}
<1>2. /\ mem' = Put(mem, LeafSlot(PageA), e) /\ unflushed' = unflushed \cup hit
      /\ UNCHANGED <<tlb, cpu, fixed, env, failed, work>>
  <2>1. <<FrameAt(Op.at), Index(Op.va, "PTE")>> = LeafSlot(PageA)
    BY ThroughTable
  <2> QED BY <2>1 DEF StoreEntry, Put, mapVars
<1>3. PageA \in hit /\ hit \subseteq {PageA, Huge}
  <2>1. \A b \in Vas \ {Huge} : Path(mem, Root, b)["PTE"] = LeafSlot(b)
    BY <1>1, PathKept, PathShape DEF LeafSlot
  <2>2. PageA # Huge
    BY Addresses
  <2>3. \A b \in Vas : LeafSlot(b) = LeafSlot(PageA) => b = PageA
    BY <1>1 DEF Layout, PagesApart
  <2> QED BY <1>1, <2>1, <2>2, <2>3
<1> HIDE DEF hit
<1>4. unflushed' \subseteq Stored(prog, pc + 1) /\ unflushed \subseteq unflushed' /\ PageA \in unflushed'
  <2>1. unflushed \subseteq Stored(prog, pc)
    BY <1>1 DEF RunInv
  <2>2. Stored(prog, pc) \subseteq {PageA, Huge}
    BY DEF Stored
  <2> QED BY <1>2, <1>3, <2>1, <2>2
<1>5. /\ Tables(mem', h) /\ Kept(mem, mem', DOMAIN InitMem \ {LeafSlot(PageA)})
      /\ StayRaised(mem, mem') /\ mem'[LeafSlot(PageA)] = e
  <2>1. mem' = Put(mem, LeafSlot(PageA), e) /\ Tables(mem, Now) /\ PageA \in Vas
    BY <1>1, <1>2
  <2>2. h[PageA] = Core(e) /\ \A b \in Vas \ {PageA} : h[b] = Now[b]
    OBVIOUS
  <2> QED BY <2>1, <2>2, LeafWrite
<1>6. Caches(tlb', mem', h, unflushed')
  <2>1. tlb' = tlb /\ \A b \in Vas \ unflushed' : h[b] = Now[b]
    BY <1>2, <1>4
  <2>2. Caches(tlb, mem', h, unflushed')
    BY <1>1, <1>4, <1>5, <2>1, CachesKept
  <2> QED BY <2>1, <2>2
<1>7. Written(prog, pc + 1) = Written(prog, pc) /\ Contents(prog, pc + 1, mem)
  BY <1>1, WrittenMoves, ContentsMove DEF RunInv
<1>8. Contents(prog, pc + 1, mem')
  BY <1>1, <1>5, <1>7, ContentsKept
<1>9. ASSUME NEW b \in Written(prog, pc + 1)
      PROVE  Raised(mem', b) /\ {ACCESSED, DIRTY} \subseteq mem'[LeafSlot(b)]
  <2>1. Raised(mem, b) /\ {ACCESSED, DIRTY} \subseteq mem[LeafSlot(b)] /\ b \in Vas
    BY <1>1, <1>7, WrittenVas DEF RunInv
  <2>2. CASE b = PageA
    BY <1>5, <2>1, <2>2 DEF StayRaised
  <2>3. CASE b # PageA
    BY <1>1, <1>5, <2>1, <2>3, WrittenKept
  <2> QED BY <2>2, <2>3
<1>10. env' = [x \in DOMAIN env' |-> env'[x]] /\ Variables(prog, pc + 1, env', umem, pat)
  BY <1>1, <1>2, VariablesMove DEF RunInv
<1> QED BY <1>2, <1>4, <1>5, <1>6, <1>8, <1>9, <1>10, StepInv

\* The entry of A is put back through the mapping.
LEMMA StoreInv ==
  ASSUME Layout, ProgramsInv, prog # "memmap", Store
  PROVE  BaseInv' /\ RunInv'
<1> DEFINE e == env[Op.x]["PTE"]
           h == Leaves(prog, pc + 1, umem, pat)
<1>1. /\ Running /\ Op.op = "store" /\ pc' = pc + 1 /\ Accessible(Op.at) /\ StoreEntry(e)
  BY DEF Store, Execute
<1>2. /\ Op.va = PageA /\ Op.x = "target"
      /\ \/ prog = "map_pt" /\ pc = 10 /\ Op.at = PmapVa
         \/ prog = "map_pt_manual" /\ pc = 12 /\ Op.at = PageP
  BY <1>1, Instructions DEF store
<1>3. /\ Op.at \in {PageP, PmapVa}
      /\ \/ Op.at = PageP /\ ShowsTable(prog, pc)
         \/ Op.at = PmapVa /\ prog = "map_pt"
      /\ Stored(prog, pc + 1) = {PageA, Huge}
  BY <1>2 DEF ShowsTable, Stored
<1>4. e \in Word /\ Core(e) = Own(PageA) /\ {ACCESSED, DIRTY} \subseteq e
  <2>1. Saved(env, "target", "PTE", Own(PageA)) /\ e = Used(PageA, "PTE")
    BY <1>2, Facts DEF RunInv, Variables
  <2>2. {ACCESSED, DIRTY} \subseteq e
    BY <2>1, PathShape, Addresses DEF Used
  <2> QED BY <1>2, <2>1, <2>2 DEF Saved
<1> HIDE DEF e
<1>5. h[PageA] = Core(e) /\ \A b \in Vas \ {PageA} : h[b] = Now[b]
  <2>1. Leaf(prog, pc + 1, umem, pat, PageA) = Own(PageA)
    BY <1>2, LeafFrames DEF ShowsB
  <2>2. ASSUME NEW b \in Vas \ {PageA} PROVE Leaf(prog, pc + 1, umem, pat, b) = Leaf(prog, pc, umem, pat, b)
    BY <1>2, <2>2, Addresses DEF Leaf, ShowsB, ShowsTable, Uncached, UncachedHuge, Pmapped
  <2>3. \A b \in Vas : Now[b] = Leaf(prog, pc, umem, pat, b)
    BY Facts
  <2> QED BY <1>4, <2>1, <2>2, <2>3, Addresses DEF Leaves
<1> HIDE DEF h
<1>6. h = Leaves(prog, pc + 1, umem, pat)
  BY DEF h
<1> QED BY <1>1, <1>2, <1>3, <1>4, <1>5, <1>6, StoreStep

\* The entry of A gets the frame of B through the mapping.
LEMMA StorePfnInv ==
  ASSUME Layout, ProgramsInv, prog # "memmap", StorePfn
  PROVE  BaseInv' /\ RunInv'
<1> DEFINE v == mem[LeafSlot(PageA)]
           e == ptedit_set_pfn(v, OwnFrame(PageB))
           h == Leaves(prog, pc + 1, umem, pat)
<1>1. /\ Running /\ Op.op = "store_pfn" /\ pc' = pc + 1 /\ Accessible(Op.at)
      /\ StoreEntry(ptedit_set_pfn(WordAt(Op.at, Index(Op.va, "PTE")), ptedit_get_pfn(env[Op.y]["PTE"])))
  BY DEF StorePfn, Execute
<1>2. /\ Op.va = PageA /\ Op.y = "secret"
      /\ \/ prog = "map_pt" /\ pc = 7 /\ Op.at = PmapVa
         \/ prog = "map_pt_manual" /\ pc = 9 /\ Op.at = PageP
  BY <1>1, Instructions DEF store_pfn
<1>3. /\ Op.at \in {PageP, PmapVa}
      /\ \/ Op.at = PageP /\ ShowsTable(prog, pc)
         \/ Op.at = PmapVa /\ prog = "map_pt"
      /\ Stored(prog, pc + 1) = {PageA, Huge}
  BY <1>2 DEF ShowsTable, Stored
<1>4. WordAt(Op.at, Index(Op.va, "PTE")) = v
  BY <1>1, <1>2, <1>3, ThroughTable
<1>5. ptedit_get_pfn(env[Op.y]["PTE"]) = OwnFrame(PageB)
  <2>1. Saved(env, "secret", "PTE", Own(PageB))
    BY <1>2, Facts DEF RunInv, Variables
  <2>2. Core(Own(PageB)) = Own(PageB)
    BY LeafEntry DEF Vas
  <2> QED BY <1>2, <2>1, <2>2, SavedFrame DEF OwnFrame
<1>6. StoreEntry(e)
  BY <1>1, <1>4, <1>5
<1>7. v \in Word /\ Core(v) = Own(PageA) /\ {ACCESSED, DIRTY} \subseteq v
  <2>1. v \in Word /\ Core(v) = Leaf(prog, pc, umem, pat, PageA)
    BY Facts, LeafValue, Addresses
  <2>2. Leaf(prog, pc, umem, pat, PageA) = Own(PageA)
    BY <1>2, LeafFrames DEF ShowsB
  <2>3. PageA \in Written(prog, pc)
    BY <1>2 DEF Written
  <2> QED BY <2>1, <2>2, <2>3, Facts DEF RunInv
<1>8. e \in Word /\ Core(e) = ptedit_set_pfn(Own(PageA), OwnFrame(PageB)) /\ {ACCESSED, DIRTY} \subseteq e
  <2>1. OwnFrame(PageB) \in SUBSET (0..39)
    BY FrameBits DEF OwnFrame
  <2> HIDE DEF v
  <2>2. /\ e \in Word /\ Core(e) = ptedit_set_pfn(Core(v), OwnFrame(PageB))
        /\ v \cap {ACCESSED, DIRTY} = e \cap {ACCESSED, DIRTY}
    BY <1>7, <2>1, SetPfn
  <2> HIDE DEF e
  <2> QED BY <1>7, <2>2
<1> HIDE DEF e
<1>9. h[PageA] = Core(e) /\ \A b \in Vas \ {PageA} : h[b] = Now[b]
  <2>1. Leaf(prog, pc + 1, umem, pat, PageA) = ptedit_set_pfn(Own(PageA), OwnFrame(PageB))
    BY <1>2, LeafFrames DEF ShowsB
  <2>2. ASSUME NEW b \in Vas \ {PageA} PROVE Leaf(prog, pc + 1, umem, pat, b) = Leaf(prog, pc, umem, pat, b)
    BY <1>2, <2>2, Addresses DEF Leaf, ShowsB, ShowsTable, Uncached, UncachedHuge, Pmapped
  <2>3. \A b \in Vas : Now[b] = Leaf(prog, pc, umem, pat, b)
    BY Facts
  <2> QED BY <1>8, <2>1, <2>2, <2>3, Addresses DEF Leaves
<1> HIDE DEF h
<1>10. h = Leaves(prog, pc + 1, umem, pat)
  BY DEF h
<1> QED BY <1>1, <1>2, <1>3, <1>6, <1>8, <1>9, <1>10, StoreStep

\* ptedit_invalidate_tlb reaches every CPU.
LEMMA InvalidateInv ==
  ASSUME Layout, ProgramsInv, prog # "memmap", Invalidate
  PROVE  BaseInv' /\ RunInv'
<1>1. /\ Running /\ Op.op = "invalidate" /\ pc' = pc + 1
      /\ tlb' = FlushAll(tlb, Op.va) /\ unflushed' = unflushed \ {Op.va}
      /\ UNCHANGED <<mem, cpu, fixed, env, failed, work>>
  BY DEF Invalidate, Execute, mapVars, Flush, FlushAll
<1>2. /\ Op.va = PageA
      /\ \/ prog = "map_pt" /\ pc = 8
         \/ prog = "map_pt_manual" /\ pc = 10
  BY <1>1, Instructions DEF invalidate
<1>3. /\ prog \in DOMAIN Code /\ pc \in DOMAIN Code[prog] /\ Op = Code[prog][pc] /\ RunInv
      /\ Tables(mem, Now) /\ Caches(tlb, mem, Now, unflushed) /\ PageA \in Vas
  BY <1>1, Facts, ProgramPoint, Addresses
<1>4. Leaves(prog, pc + 1, umem, pat) = Now
  BY <1>1, <1>3, SpansMove, SameLeaves DEF Now
<1>5. StayRaised(mem, mem') /\ \A b \in Vas \ {PageA} : Now[b] = Now[b]
  BY <1>1 DEF StayRaised
<1>6. Caches(tlb', mem', Now, unflushed')
  BY <1>1, <1>2, <1>3, <1>5, CachesFlushed
<1>7. unflushed' \subseteq Stored(prog, pc + 1)
  BY <1>1, <1>2, <1>3 DEF Stored, RunInv
<1>8. /\ \A a \in Written(prog, pc + 1) : Raised(mem', a) /\ {ACCESSED, DIRTY} \subseteq mem'[LeafSlot(a)]
      /\ Contents(prog, pc + 1, mem')
  BY <1>1, <1>3, WrittenMoves, ContentsMove DEF RunInv
<1>9. env' = [x \in DOMAIN env' |-> env'[x]] /\ Variables(prog, pc + 1, env', umem, pat)
  BY <1>1, <1>3, VariablesMove DEF RunInv
<1> QED BY <1>1, <1>3, <1>4, <1>6, <1>7, <1>8, <1>9, StepInv

-----------------------------------------------------------------------------
(* The machine *)

\* What a step of the machine has to establish.
LEMMA MachineStep ==
  ASSUME Layout, ProgramsInv, prog # "memmap",
         UNCHANGED <<fixed, pc, env, failed, unflushed, work>>, cpu' \in Cpus,
         Tables(mem', Now), Caches(tlb', mem', Now, unflushed),
         StayRaised(mem, mem'), Kept(mem, mem', DOMAIN InitMem \ (LeafSlots \cup DirSlots)),
         \A s \in LeafSlots : mem[s] \subseteq mem'[s]
  PROVE  BaseInv' /\ RunInv'
<1>1. BaseInv /\ RunInv
  BY Facts
<1>2. UNCHANGED <<umem, pat, prog, code, pc, env, failed, unflushed, work>>
  BY DEF fixed
<1>3. BaseInv'
  BY <1>1, <1>2 DEF BaseInv
<1>4. Tables(mem', Leaves(prog, pc, umem, pat)) /\ Caches(tlb', mem', Leaves(prog, pc, umem, pat), unflushed)
  BY DEF Now
<1>5. ASSUME NEW a \in Written(prog, pc)
      PROVE  Raised(mem', a) /\ {ACCESSED, DIRTY} \subseteq mem'[LeafSlot(a)]
  <2>1. a \in Vas /\ LeafSlot(a) \in LeafSlots
    BY WrittenVas DEF LeafSlots
  <2>2. Raised(mem, a) /\ {ACCESSED, DIRTY} \subseteq mem[LeafSlot(a)]
    BY <1>1 DEF RunInv
  <2> QED BY <2>1, <2>2 DEF StayRaised
<1>6. Contents(prog, pc, mem')
  <2>1. /\ mem'[<<OwnFrame(PageA), {}>>] = mem[<<OwnFrame(PageA), {}>>]
        /\ mem'[<<OwnFrame(PageB), {}>>] = mem[<<OwnFrame(PageB), {}>>]
    BY DataSlots DEF Kept
  <2>2. Contents(prog, pc, mem)
    BY <1>1 DEF RunInv
  <2> QED BY <2>1, <2>2 DEF Contents
<1>7. RunInv'
  BY <1>1, <1>2, <1>4, <1>5, <1>6 DEF RunInv
<1> QED BY <1>3, <1>7

\* A CPU walks the tables at any time.
LEMMA TlbFillInv ==
  ASSUME Layout, ProgramsInv, prog # "memmap", NEW c \in Cpus, NEW va \in Vas, TlbFill(c, va)
  PROVE  BaseInv' /\ RunInv'
<1> DEFINE w == CpuWalk(mem, Root, va)
           tr == Translation(mem, Root, va)
<1>1. /\ tlb' = FillOne(tlb, c, va, tr) /\ mem' = RaiseAt(mem, w)
      /\ UNCHANGED <<cpu, fixed, pc, env, failed, unflushed, work>>
  BY DEF TlbFill, FillOne, RaiseAt, mapVars
<1>2. Tables(mem, Now) /\ Caches(tlb, mem, Now, unflushed) /\ PSE \in Now[Huge] /\ cpu \in Cpus
  BY Facts
<1>3. tr = Via(va, Now[va])
  BY <1>2, TranslationIs
<1>4. /\ Tables(mem', Now) /\ StayRaised(mem, mem') /\ Raised(mem', va)
      /\ Kept(mem, mem', DOMAIN InitMem \ (LeafSlots \cup DirSlots))
      /\ \A s \in LeafSlots : mem[s] \subseteq mem'[s]
  <2>1. w = CpuWalk(mem, Root, va)
    OBVIOUS
  <2> HIDE DEF w
  <2> QED BY <1>1, <1>2, <2>1, WalkRaises
<1> HIDE DEF tr, w
<1>5. tr \in {<<>>, Via(va, Now[va])}
  BY <1>3
<1>6. Caches(tlb', mem', Now, unflushed)
  BY <1>1, <1>2, <1>4, <1>5, CachesSet
<1> QED BY <1>1, <1>2, <1>4, <1>6, MachineStep

\* A CPU forgets a translation at any time.
LEMMA TlbEvictInv ==
  ASSUME Layout, ProgramsInv, prog # "memmap", NEW c \in Cpus, NEW va \in Vas, TlbEvict(c, va)
  PROVE  BaseInv' /\ RunInv'
<1> DEFINE none == <<>>
<1>1. /\ tlb' = FillOne(tlb, c, va, none)
      /\ UNCHANGED <<mem, cpu, fixed, pc, env, failed, unflushed, work>>
  BY DEF TlbEvict, FillOne, mapVars
<1>2. Tables(mem, Now) /\ Caches(tlb, mem, Now, unflushed) /\ cpu \in Cpus
  BY Facts
<1>3. /\ StayRaised(mem, mem') /\ Kept(mem, mem', DOMAIN InitMem \ (LeafSlots \cup DirSlots))
      /\ \A s \in LeafSlots : mem[s] \subseteq mem'[s]
  BY <1>1 DEF StayRaised, Kept
<1>4. none \in {<<>>, Via(va, Now[va])} /\ (none # <<>> => Raised(mem', va))
  OBVIOUS
<1> HIDE DEF none
<1>5. Caches(tlb', mem', Now, unflushed)
  BY <1>1, <1>2, <1>3, <1>4, CachesSet
<1> QED BY <1>1, <1>2, <1>3, <1>5, MachineStep

\* The scheduler moves the program.
LEMMA MigrateInv ==
  ASSUME Layout, ProgramsInv, prog # "memmap", NEW c \in Cpus, Migrate(c)
  PROVE  BaseInv' /\ RunInv'
<1>1. cpu' = c /\ UNCHANGED <<mem, tlb, fixed, pc, env, failed, unflushed, work>>
  BY DEF Migrate, mapVars
<1>2. Tables(mem, Now) /\ Caches(tlb, mem, Now, unflushed)
  BY Facts
<1>3. /\ StayRaised(mem, mem') /\ Kept(mem, mem', DOMAIN InitMem \ (LeafSlots \cup DirSlots))
      /\ \A s \in LeafSlots : mem[s] \subseteq mem'[s]
  BY <1>1 DEF StayRaised, Kept
<1>4. Tables(mem', Now) /\ Caches(tlb', mem', Now, unflushed)
  BY <1>1, <1>2
<1> QED BY <1>1, <1>3, <1>4, MachineStep

-----------------------------------------------------------------------------
(* The invariant holds *)

\* The invariant holds when a program starts.
LEMMA InitInv == ASSUME Layout, Init PROVE ProgramsInv
<1>1. /\ mem = InitMem /\ tlb = [c \in Cpus |-> [a \in Vas |-> <<>>]] /\ cpu \in Cpus
      /\ umem \in BOOLEAN /\ pat \in Pats /\ prog \in Programs /\ code = Code[prog] /\ pc = 1
      /\ env = <<>> /\ failed = {} /\ unflushed = {} /\ work = {}
  BY DEF Init
<1>2. prog \in DOMAIN Code
  BY <1>1 DEF Layout, Separate
<1>3. Len(Code[prog]) \in Nat
  BY <1>2, ProgramNames, ExampleText, MapPtText, MapPtManualText, UncachableText, Virt2physText,
     PerformanceText, MemmapText
<1>4. BaseInv
  BY <1>1, <1>3 DEF BaseInv
<1>5. \A a \in Vas : Leaf(prog, 1, umem, pat, a) = Own(a)
  <2>1. /\ ~ShowsB(prog, 1) /\ ~ShowsTable(prog, 1) /\ ~Uncached(prog, 1)
        /\ ~UncachedHuge(prog, 1) /\ ~Pmapped(prog, 1)
    BY DEF ShowsB, ShowsTable, Uncached, UncachedHuge, Pmapped
  <2> QED BY <2>1 DEF Leaf
<1>6. Tables(mem, Leaves(prog, pc, umem, pat))
  <2>1. InitMem \in [DOMAIN InitMem -> Word]
    BY DEF Layout, TablesThere
  <2> QED BY <1>1, <1>5, <2>1 DEF Tables, Leaves, Own
<1>7. Caches(tlb, mem, Leaves(prog, pc, umem, pat), unflushed)
  <2>1. \A c \in Cpus, a \in Vas : tlb[c][a] = <<>>
    BY <1>1
  <2>2. tlb = [c \in Cpus |-> [a \in Vas |-> tlb[c][a]]]
    BY <1>1
  <2> QED BY <2>1, <2>2 DEF Caches
<1>8. Written(prog, pc) = {} /\ Contents(prog, pc, mem) /\ Variables(prog, pc, env, umem, pat)
  BY <1>1 DEF Written, Contents, Variables
<1>9. env = [x \in DOMAIN env |-> env[x]]
  BY <1>1
<1>10. RunInv
  BY <1>1, <1>6, <1>7, <1>8, <1>9 DEF RunInv
<1>11. IdleInv
  BY <1>1 DEF IdleInv
<1> QED BY <1>4, <1>10, <1>11 DEF ProgramsInv

\* memmap caches no translation and edits nothing.
LEMMA MemmapStep ==
  ASSUME Layout, ProgramsInv, prog = "memmap", [Next]_vars
  PROVE  BaseInv' /\ IdleInv'
<1>1. BaseInv /\ IdleInv
  BY DEF ProgramsInv
<1>2. DOMAIN code = {1} /\ Len(code) = 1 /\ code[1] = [op |-> "memmap"]
  BY <1>1, MemmapText DEF BaseInv, memmap
<1>3. Running => Op.op = "memmap"
  BY <1>2 DEF Running, Op
<1>4. Touched = {}
  BY <1>2 DEF Touched
<1>5. \A c \in Cpus, a \in Vas : tlb[c][a] = <<>>
  BY <1>1 DEF IdleInv
<1>6. SUFFICES ASSUME UNCHANGED <<tlb, cpu, umem, pat, prog, code, failed, unflushed>>, pc' \in {pc, End}
               PROVE  BaseInv' /\ IdleInv'
  <2>1. CASE UNCHANGED vars
    BY <1>6, <2>1 DEF vars, fixed
  <2>2. CASE Instruction
    <3>1. Memmap
      BY <1>3, <2>2 DEF Instruction, Execute, Memset, Expect, ExpectType, ExpectEntry, Crash, Store, StorePfn,
         Resolve, ResolveUser, Copy, Update, Redirect, PteSetPfn, Retype, GiveUp, MmapHuge, Invalidate,
         Barrier, Pmap, ReadPage, WritePage, Same, Virt2Phys
    <3> QED BY <1>6, <3>1 DEF Memmap, fixed
  <2>3. CASE \E t \in work : ReadTable(t)
    BY <1>6, <2>3 DEF ReadTable, fixed
  <2>4. CASE \E x \in Changes : KernelChange(x)
    BY <1>6, <2>4 DEF KernelChange, fixed
  <2>5. CASE \E c \in Cpus : Migrate(c) \/ \E va \in Vas : TlbFill(c, va) \/ TlbEvict(c, va)
    BY <1>4, <1>5, <2>5 DEF Migrate, TlbFill, TlbEvict
  <2> QED BY <2>1, <2>2, <2>3, <2>4, <2>5 DEF Next
<1>7. pc' \in 0 .. Len(code) + 1 /\ pc' > 0
  BY <1>1, <1>2, <1>6 DEF BaseInv, IdleInv, End
<1> QED BY <1>1, <1>6, <1>7 DEF BaseInv, IdleInv

\* Every instruction keeps the invariant.
LEMMA InstructionInv ==
  ASSUME Layout, ProgramsInv, prog # "memmap", Instruction
  PROVE  BaseInv' /\ RunInv'
<1>1. ~Memmap
  <2>1. Running => Op.op # "memmap"
    <3>1. SUFFICES ASSUME Running PROVE Op.op # "memmap"
      OBVIOUS
    <3>2. prog \in DOMAIN Code /\ pc \in DOMAIN Code[prog] /\ Op = Code[prog][pc]
      BY <3>1, Facts, ProgramPoint
    <3>3. CASE prog = "example"
      BY <3>2, <3>3, ExampleText
         DEF barrier, expect, memset, pmap, pte_set_pfn, read_page, redirect, resolve, write_page
    <3>4. CASE prog = "map_pt"
      BY <3>2, <3>4, MapPtText
         DEF expect, expect_entry, invalidate, memset, pmap, resolve, store, store_pfn
    <3>5. CASE prog = "map_pt_manual"
      BY <3>2, <3>5, MapPtManualText
         DEF expect, expect_entry, invalidate, memset, redirect, resolve, store, store_pfn, update
    <3>6. CASE prog = "uncachable"
      BY <3>2, <3>6, UncachableText
         DEF copy, expect_type, memset, mmap_huge, resolve, retype, update
    <3>7. CASE prog = "virt2phys"
      BY <3>2, <3>7, Virt2physText DEF memset, resolve, virt2phys
    <3>8. CASE prog = "performance"
      BY <3>2, <3>8, PerformanceText DEF memset, resolve, resolve_user, same
    <3> QED BY <3>2, <3>3, <3>4, <3>5, <3>6, <3>7, <3>8, ProgramNames
  <2> QED BY <2>1 DEF Memmap
<1> QED BY <1>1, MemsetInv, ExpectInv, ExpectTypeInv, ExpectEntryInv, CrashInv, StoreInv, StorePfnInv,
     ResolveInv, ResolveUserInv, CopyInv, UpdateInv, RedirectInv, PteSetPfnInv, RetypeInv, GiveUpInv,
     BarrierInv, InvalidateInv, PmapInv, ReadPageInv, WritePageInv, SameInv, Virt2PhysInv DEF Instruction

\* A run is of one program.
LEMMA ProgKept == ASSUME [Next]_vars PROVE prog' = prog
BY DEF Next, vars, fixed, Instruction, Memset, Expect, ExpectType, ExpectEntry, Crash, Store, StorePfn,
     StoreEntry, Resolve, ResolveUser, Copy, Assign, Check, Update, Redirect, PteSetPfn, Retype, ptedit_update,
     GiveUp, MmapHuge, Invalidate, Barrier, Pmap, ReadPage, WritePage, Same, Virt2Phys, Memmap, ReadTable,
     KernelChange, Migrate, TlbFill, TlbEvict

\* So does every step.
LEMMA NextInv == ASSUME Layout, ProgramsInv, [Next]_vars PROVE ProgramsInv'
<1>1. prog' = prog
  BY ProgKept
<1>2. CASE prog = "memmap"
  BY <1>1, <1>2, MemmapStep DEF ProgramsInv
<1>3. CASE prog # "memmap"
  <2>1. work = {}
    BY <1>3, Facts DEF RunInv
  <2>2. CASE UNCHANGED vars
    <3>1. UNCHANGED <<mem, tlb, cpu, umem, pat, prog, code, pc, env, failed, unflushed, work>>
      BY <2>2 DEF vars, fixed, mapVars
    <3> QED BY <3>1 DEF ProgramsInv, BaseInv, RunInv, IdleInv
  <2>3. CASE Instruction
    BY <1>1, <1>3, <2>3, InstructionInv DEF ProgramsInv
  <2>4. CASE \E c \in Cpus : Migrate(c) \/ \E va \in Vas : TlbFill(c, va) \/ TlbEvict(c, va)
    BY <1>1, <1>3, <2>4, MigrateInv, TlbFillInv, TlbEvictInv DEF ProgramsInv
  <2>5. ~(\E t \in work : ReadTable(t)) /\ ~(\E x \in Changes : KernelChange(x))
    BY <2>1 DEF KernelChange
  <2> QED BY <2>2, <2>3, <2>4, <2>5 DEF Next
<1> QED BY <1>2, <1>3

\* Whatever the CPUs cache and wherever the scheduler moves it, a program is
\* before each instruction where the annotation has it: the entries it edited,
\* the entries it holds in variables and the pages it filled (example.c and
\* the demos) are those it believes in.
THEOREM ProgramsInvariant == ASSUME Layout PROVE Spec => []ProgramsInv
<1>1. Init => ProgramsInv
  BY InitInv
<1>2. ProgramsInv /\ [Next]_vars => ProgramsInv'
  BY NextInv
<1> QED BY <1>1, <1>2, PTL DEF Spec

-----------------------------------------------------------------------------
(* Results *)

\* At the end the annotation has every entry as it was found.
LEMMA EndLeaves ==
  ASSUME Layout, ProgramsInv, prog # "memmap", pc = End, NEW a \in Vas \ {PmapVa}
  PROVE  Leaf(prog, pc, umem, pat, a) = Own(a)
<1>1. prog \in DOMAIN Code /\ pc = Len(Code[prog]) + 1
  BY Facts DEF End
<1>0. /\ Len(Code["example"]) = 14 /\ Len(Code["map_pt"]) = 10
      /\ Len(Code["map_pt_manual"]) = 13 /\ Len(Code["uncachable"]) = 13
  BY ExampleText, MapPtText, MapPtManualText, UncachableText
<1>2. /\ prog = "example" => pc = 15
      /\ prog = "map_pt" => pc = 11
      /\ prog = "map_pt_manual" => pc = 14
      /\ prog = "uncachable" => pc = 14
  <2>1. ASSUME prog = "example" PROVE pc = 15
    <3>1. Len(Code[prog]) = 14
      BY <1>0, <2>1
    <3> QED BY <1>1, <3>1
  <2>2. ASSUME prog = "map_pt" PROVE pc = 11
    <3>1. Len(Code[prog]) = 10
      BY <1>0, <2>2
    <3> QED BY <1>1, <3>1
  <2>3. ASSUME prog = "map_pt_manual" PROVE pc = 14
    <3>1. Len(Code[prog]) = 13
      BY <1>0, <2>3
    <3> QED BY <1>1, <3>1
  <2>4. ASSUME prog = "uncachable" PROVE pc = 14
    <3>1. Len(Code[prog]) = 13
      BY <1>0, <2>4
    <3> QED BY <1>1, <3>1
  <2> QED BY <2>1, <2>2, <2>3, <2>4
<1>3. ~ShowsB(prog, pc) /\ ~ShowsTable(prog, pc) /\ ~Uncached(prog, pc) /\ ~UncachedHuge(prog, pc)
  BY <1>2 DEF ShowsB, ShowsTable, Uncached, UncachedHuge
<1> QED BY <1>3, LeafOwn

\* So every address is translated as it was.
LEMMA UndoneAtEnd == ASSUME Layout, ProgramsInv PROVE ProgramsUndo
<1>1. SUFFICES ASSUME pc = End, prog # "memmap", NEW a \in Vas \ {PmapVa}
               PROVE  Translation(mem, Root, a) = Translation(InitMem, Root, a)
  BY DEF ProgramsUndo
<1>2. Translation(mem, Root, a) = Via(a, Own(a))
  <2>1. Now[a] = Own(a)
    BY <1>1, Facts, EndLeaves
  <2> QED BY <1>1, <2>1, Facts, TranslationIs
<1>3. Translation(InitMem, Root, a) = Via(a, Own(a))
  <2> DEFINE own == [b \in Vas |-> Own(b)]
  <2>1. InitMem \in [DOMAIN InitMem -> Word]
    BY DEF Layout, TablesThere
  <2>2. Tables(InitMem, own)
    BY <2>1 DEF Tables, Own
  <2>3. PSE \in own[Huge] /\ own[a] = Own(a)
    BY LeafEntry DEF Vas
  <2> HIDE DEF own
  <2> QED BY <2>2, <2>3, TranslationIs
<1> QED BY <1>2, <1>3

\* What is cached and not unflushed is what the tables give.
LEMMA NotStale == ASSUME Layout, ProgramsInv PROVE StaleOnlyOwnStores
<1>1. SUFFICES ASSUME NEW c \in Cpus, NEW a \in Vas, tlb[c][a] \notin {<<>>, Translation(mem, Root, a)}
               PROVE  a \in unflushed
  BY DEF StaleOnlyOwnStores
<1>2. prog # "memmap"
  <2>1. SUFFICES ASSUME prog = "memmap" PROVE FALSE
    OBVIOUS
  <2>2. tlb = [d \in Cpus |-> [b \in Vas |-> <<>>]]
    BY <2>1 DEF ProgramsInv, IdleInv
  <2> QED BY <1>1, <2>2
<1>3. Translation(mem, Root, a) = Via(a, Now[a]) /\ Caches(tlb, mem, Now, unflushed)
  BY <1>2, Facts, TranslationIs
<1> QED BY <1>1, <1>3 DEF Caches

\* No program prints "Fail!", "Something went wrong..." or that the resolvers
\* disagree, and none dies where /proc/umem exists: for any number of CPUs,
\* any addresses, tables and PAT.
THEOREM ChecksNeverFail == ASSUME Layout PROVE Spec => []ChecksOk
<1>1. ProgramsInv => ChecksOk
  BY DEF ProgramsInv, BaseInv, ChecksOk
<1> QED BY <1>1, ProgramsInvariant, PTL

\* At its end a program has put every entry back ("Resetting PFN of address",
\* "reset mapping", "should now be cachable again"): the CPU translates every
\* address as before, also when a bit it raised was part of what was put back.
THEOREM ProgramsUndoTheirEdits == ASSUME Layout PROVE Spec => []ProgramsUndo
<1>1. ProgramsInv => ProgramsUndo
  BY UndoneAtEnd
<1> QED BY <1>1, ProgramsInvariant, PTL

\* ptedit_update and ptedit_invalidate_tlb leave no CPU with an old
\* translation; only a store through a mapped page table (map_pt.c,
\* map_pt_manual.c) does, until the program flushes the address.
THEOREM OnlyOwnStoresGoStale == ASSUME Layout PROVE Spec => []StaleOnlyOwnStores
<1>1. ProgramsInv => StaleOnlyOwnStores
  BY NotStale
<1> QED BY <1>1, ProgramsInvariant, PTL

-----------------------------------------------------------------------------
(* memmap.  A table is known by its level, its frame and the bits that the  *)
(* addresses under it have in common; the tables still to be read never     *)
(* have an address in common, with each other or with the pages listed.     *)

\* The words that an entry may have while memmap runs.
Values(s) == {InitMem[s]} \cup {x[2] : x \in {y \in Changes : y[1] = s}}

\* The bits of an address that its table of level l does not index by.
High(a, l) == a \cap (LevelShift[l] + 9 .. 63)
TableOf(a, l) == [level |-> l, frame |-> At(a, l)[1], base |-> High(a, l)]
TableLevels(a) == OnPath(a) \ {"P4D"}

\* The addresses are those of pages in the lower half.
Aligned == Huge \in SUBSET (21..46) /\ \A a \in Vas : a \in SUBSET (12..46)

\* The kernel unlinks tables and links them again, but does not move them,
\* and a 2 MB page stays one.  It enters no page in a table that it unlinks.
Settled ==
  /\ \A x \in Changes : x[2] \in Word
  /\ \A a \in Vas : \A l \in Dirs(a) : \A v \in Values(At(a, l)) :
       Present(v) => ~Bad(v) /\ FrameOf(v) = FrameOf(InitMem[At(a, l)])
  /\ \A v \in Values(LeafSlot(Huge)) : Present(v) => PSE \in v
  /\ (\E v \in Values(LeafSlot(PmapVa)) : Present(v)) =>
       \A l \in Dirs(PmapVa) : \A v \in Values(At(PmapVa, l)) : Present(v)

\* An entry of a table that is ever present leads to one of the addresses.
Complete ==
  \A a \in Vas : \A l \in TableLevels(a) : \A s \in DOMAIN InitMem :
    /\ s[1] = At(a, l)[1] /\ (l = "PGD" => 8 \notin s[2])
    /\ \E v \in Values(s) : Present(v)
    => \E b \in Vas : l \in TableLevels(b) /\ At(b, l) = s /\ High(b, l) = High(a, l)

LowerHalf == Aligned /\ Settled /\ Complete

Under(t) == {a \in Vas : t.level \in TableLevels(a) /\ TableOf(a, t.level) = t}

Size(p) == 4 * Cardinality(p \ {Huge}) + 2048 * Cardinality(p \cap {Huge})

Steady(m) ==
  /\ m \in [DOMAIN InitMem -> Word]
  /\ \A s \in DOMAIN InitMem : m[s] \in Values(s)

\* The tables to be read hold every address not yet listed that has been
\* mapped all the time, and each address once.
Pending(w, p) ==
  /\ \A t \in w : Under(t) # {} /\ Under(t) \cap p = {}
  /\ \A t, u \in w : Under(t) \cap Under(u) # {} => t = u

Covers(w, p, all) == \A a \in all : a \in p \/ \E t \in w : a \in Under(t)

MapInv ==
  /\ Steady(mem) /\ pc \in {1, 2}
  /\ pages \subseteq Vas /\ pages \subseteq ever
  /\ always \subseteq MappedPages(mem)
  /\ MappedPages(mem) \subseteq ever /\ MappedPages(InitMem) \subseteq ever
  /\ Pending(work, pages)
  /\ pc = 1 /\ work = {} => pages = {}
  /\ pc = 2 => work = {}
  /\ pc = 2 \/ work # {} => Covers(work, pages, always)
  /\ mem_usage = Size(pages)

MemmapInv == ProgramsInv /\ (prog = "memmap" => MapInv)

\* Bits of an index and of its shift back.
LEMMA IndexBits ==
  ASSUME NEW a, NEW l \in CpuLevels
  PROVE  /\ \A x : x \in Index(a, l) <=> x \in 0..8 /\ x + LevelShift[l] \in a
         /\ \A x : x \in Shl(Index(a, l), LevelShift[l]) <=>
                     x \in LevelShift[l] .. LevelShift[l] + 8 /\ x \in a
<1>1. LevelShift[l] \in {39, 30, 21, 12}
  BY DEF CpuLevels, Levels, LevelShift
<1> DEFINE n == LevelShift[l]
<1> HIDE DEF n
<1>2. ASSUME n \in {39, 30, 21, 12}
      PROVE  /\ \A x : x \in Field(a, n, 9) <=> x \in 0..8 /\ x + n \in a
             /\ \A x : x \in Shl(Field(a, n, 9), n) <=> x \in n .. n + 8 /\ x \in a
  <2>1. \A x : x \in Field(a, n, 9) <=> x \in 0..8 /\ x + n \in a
    BY <1>2 DEF Field, Shr, Mask, Bits
  <2> DEFINE w == Field(a, n, 9)
  <2> HIDE DEF w
  <2>2. ASSUME NEW x PROVE x \in Shl(w, n) <=> x \in n .. n + 8 /\ x \in a
    <3>1. ASSUME x \in Shl(w, n) PROVE x \in n .. n + 8 /\ x \in a
      BY <1>2, <2>1, <3>1 DEF Shl, w
    <3>2. ASSUME x \in n .. n + 8, x \in a PROVE x \in Shl(w, n)
      <4>1. x - n \in w /\ x - n \in Int /\ (x - n) + n = x /\ x \in Bits
        BY <1>2, <2>1, <3>2 DEF w, Bits
      <4> QED BY <4>1 DEF Shl
    <3> QED BY <3>1, <3>2
  <2> QED BY <2>1, <2>2 DEF w
<1> QED BY <1>1, <1>2 DEF n, Index

\* The tables on the way to an address.
LEMMA LevelsShape ==
  ASSUME NEW a
  PROVE  /\ a = Huge => TableLevels(a) = {"PGD", "PUD", "PMD"}
         /\ a # Huge => TableLevels(a) = {"PGD", "PUD", "PMD", "PTE"}
         /\ TableLevels(a) \subseteq CpuLevels /\ TableLevels(a) \subseteq OnPath(a)
         /\ Dirs(a) \subseteq OnPath(a) /\ LeafAt(a) \in TableLevels(a)
         /\ \A l \in TableLevels(a) : l # LeafAt(a) => l \in Dirs(a) /\ Below[l] \in TableLevels(a)
BY PathShape DEF TableLevels, CpuLevels, Levels, Below

\* Where memmap goes from an entry: to the page, or to the next table.
LEMMA BaseIs ==
  ASSUME Layout, LowerHalf, NEW a \in Vas, NEW l \in TableLevels(a)
  PROVE  High(a, l) \cup Shl(Index(a, l), LevelShift[l]) =
           IF l = LeafAt(a) THEN a ELSE High(a, Below[l])
<1>1. \A x : x \in Shl(Index(a, l), LevelShift[l]) <=>
               x \in LevelShift[l] .. LevelShift[l] + 8 /\ x \in a
  BY IndexBits, LevelsShape
<1>2. a \in SUBSET (12..46) /\ (a = Huge => a \in SUBSET (21..46))
  BY DEF LowerHalf, Aligned
<1>3. LevelShift["PGD"] = 39 /\ LevelShift["PUD"] = 30 /\ LevelShift["PMD"] = 21 /\ LevelShift["PTE"] = 12
  BY DEF LevelShift
<1>4. Below["PGD"] = "PUD" /\ Below["PUD"] = "PMD" /\ Below["PMD"] = "PTE"
  BY DEF Below
<1>5. CASE l = LeafAt(a)
  <2>1. LevelShift[l] \in {12, 21} /\ \A x \in a : x \in LevelShift[l] .. 63
    BY <1>2, <1>3, <1>5, PathShape
  <2>2. \A x : x \in High(a, l) <=> x \in LevelShift[l] + 9 .. 63 /\ x \in a
    BY DEF High
  <2>3. \A x : x \in High(a, l) \/ x \in Shl(Index(a, l), LevelShift[l]) <=> x \in a
    BY <1>1, <2>1, <2>2
  <2> QED BY <1>5, <2>3
<1>6. CASE l # LeafAt(a)
  <2>1. l \in {"PGD", "PUD", "PMD"}
    BY <1>6, PathShape, LevelsShape
  <2>2. LevelShift[Below[l]] + 9 = LevelShift[l] /\ LevelShift[l] \in {39, 30, 21}
    BY <1>3, <1>4, <2>1
  <2>3. \A x : /\ x \in High(a, l) <=> x \in LevelShift[l] + 9 .. 63 /\ x \in a
               /\ x \in High(a, Below[l]) <=> x \in LevelShift[l] .. 63 /\ x \in a
    BY <2>2 DEF High
  <2>4. \A x : x \in High(a, l) \/ x \in Shl(Index(a, l), LevelShift[l]) <=> x \in High(a, Below[l])
    BY <1>1, <2>2, <2>3
  <2> QED BY <1>6, <2>4
<1> QED BY <1>5, <1>6

\* The way down from the root, as the process was at the start.
LEMMA Way ==
  ASSUME Layout, NEW a \in Vas
  PROVE  /\ At(a, "PGD") = <<Root, Index(a, "PGD")>> /\ At(a, "P4D") = At(a, "PGD")
         /\ At(a, "PUD") = <<FrameOf(InitMem[At(a, "PGD")]), Index(a, "PUD")>>
         /\ At(a, "PMD") = <<FrameOf(InitMem[At(a, "PUD")]), Index(a, "PMD")>>
         /\ a # Huge => At(a, "PTE") = <<FrameOf(InitMem[At(a, "PMD")]), Index(a, "PTE")>>
         /\ \A l \in OnPath(a) : At(a, l) \in DOMAIN InitMem
<1>1. InitMem \in [DOMAIN InitMem -> Word]
  BY DEF Layout, TablesThere
<1>2. \A l \in Dirs(a) : At(a, l) \in DOMAIN InitMem
  BY DEF Layout, TablesThere
<1>3. LeafSlot(a) \in DOMAIN InitMem
  BY LeafEntry
<1>4. \A l \in Dirs(a) : Deref(InitMem, At(a, l)) = InitMem[At(a, l)]
  BY <1>1, <1>2, DerefValue
<1>5. /\ At(a, "PGD") = Slot(Root, a, "PGD") /\ At(a, "P4D") = At(a, "PGD")
      /\ At(a, "PUD") = Slot(FrameOf(Deref(InitMem, At(a, "PGD"))), a, "PUD")
      /\ At(a, "PMD") = Slot(FrameOf(Deref(InitMem, At(a, "PUD"))), a, "PMD")
      /\ At(a, "PTE") = Slot(FrameOf(Deref(InitMem, At(a, "PMD"))), a, "PTE")
  BY PathLevels DEF At
<1>6. "PGD" \in Dirs(a) /\ "PUD" \in Dirs(a) /\ (a # Huge => "PMD" \in Dirs(a))
  BY PathShape
<1>7. \A l \in OnPath(a) : At(a, l) \in DOMAIN InitMem
  BY <1>2, <1>3 DEF OnPath, LeafSlot
<1> QED BY <1>4, <1>5, <1>6, <1>7 DEF Slot

\* Addresses under a table are under the tables that lead to it.
LEMMA Prefix ==
  ASSUME Layout, NEW a \in Vas, NEW b \in Vas, NEW l \in {"PGD", "PUD", "PMD"},
         High(a, Below[l]) = High(b, Below[l])
  PROVE  TableOf(a, l) = TableOf(b, l)
<1>1. LevelShift["PGD"] = 39 /\ LevelShift["PUD"] = 30 /\ LevelShift["PMD"] = 21 /\ LevelShift["PTE"] = 12
  BY DEF LevelShift
<1>2. Below["PGD"] = "PUD" /\ Below["PUD"] = "PMD" /\ Below["PMD"] = "PTE"
  BY DEF Below
<1>3. LevelShift[l] \in {39, 30, 21} /\ LevelShift[Below[l]] + 9 = LevelShift[l]
  BY <1>1, <1>2
<1>4. \A x \in LevelShift[l] .. 63 : x \in a <=> x \in b
  BY <1>3 DEF High
<1>5. ASSUME NEW k \in CpuLevels, LevelShift[k] >= LevelShift[l]
      PROVE  Index(a, k) = Index(b, k)
  <2>1. LevelShift[k] \in {39, 30, 21, 12}
    BY <1>1 DEF CpuLevels, Levels
  <2>2. \A x \in 0..8 : x + LevelShift[k] \in LevelShift[l] .. 63
    BY <1>3, <1>5, <2>1
  <2>3. \A x : x \in Index(a, k) <=> x \in Index(b, k)
    BY <1>4, <2>2, IndexBits
  <2> QED BY <2>3
<1>6. High(a, l) = High(b, l)
  <2>1. \A x \in LevelShift[l] + 9 .. 63 : x \in LevelShift[l] .. 63
    BY <1>3
  <2> QED BY <1>4, <2>1 DEF High
<1>7. "PGD" \in CpuLevels /\ "PUD" \in CpuLevels /\ "PMD" \in CpuLevels
  BY DEF CpuLevels, Levels
<1>8. CASE l = "PGD"
  <2>1. At(a, "PGD") = At(b, "PGD")
    BY <1>1, <1>5, <1>7, <1>8, Way
  <2> QED BY <1>6, <1>8, <2>1 DEF TableOf
<1>9. CASE l = "PUD"
  <2>1. At(a, "PGD") = At(b, "PGD")
    BY <1>1, <1>5, <1>7, <1>9, Way
  <2>2. At(a, "PUD") = At(b, "PUD")
    BY <1>1, <1>5, <1>7, <1>9, <2>1, Way
  <2> QED BY <1>6, <1>9, <2>2 DEF TableOf
<1>10. CASE l = "PMD"
  <2>1. At(a, "PGD") = At(b, "PGD")
    BY <1>1, <1>5, <1>7, <1>10, Way
  <2>2. At(a, "PUD") = At(b, "PUD")
    BY <1>1, <1>5, <1>7, <1>10, <2>1, Way
  <2>3. At(a, "PMD") = At(b, "PMD")
    BY <1>1, <1>5, <1>7, <1>10, <2>2, Way
  <2> QED BY <1>6, <1>10, <2>3 DEF TableOf
<1> QED BY <1>8, <1>9, <1>10

\* While the kernel changes the tables, a directory that is present leads
\* where it led, and only the entry of the 2 MB page ends a walk early.
LEMMA SteadyEntry ==
  ASSUME Layout, LowerHalf, NEW m, Steady(m), NEW a \in Vas, NEW l \in OnPath(a), Present(m[At(a, l)])
  PROVE  /\ l = LeafAt(a) => (PSE \in m[At(a, l)] \/ a # Huge)
         /\ l # LeafAt(a) => /\ FrameOf(m[At(a, l)]) = FrameOf(InitMem[At(a, l)])
                             /\ PSE \notin m[At(a, l)]
<1>1. m[At(a, l)] \in Values(At(a, l))
  BY Way DEF Steady
<1>2. CASE l = LeafAt(a)
  <2>1. a = Huge => PSE \in m[At(a, l)]
    BY <1>1, <1>2 DEF LowerHalf, Settled, LeafSlot
  <2> QED BY <1>2, <2>1
<1>3. CASE l # LeafAt(a)
  <2>1. l \in Dirs(a)
    BY <1>3 DEF OnPath
  <2>2. ~Bad(m[At(a, l)]) /\ FrameOf(m[At(a, l)]) = FrameOf(InitMem[At(a, l)])
    BY <1>1, <2>1 DEF LowerHalf, Settled
  <2>3. PSE \notin m[At(a, l)]
    BY <2>2, X86 DEF Bad, Mask
  <2> QED BY <1>3, <2>2, <2>3
<1> QED BY <1>2, <1>3

\* An address is mapped when all entries on its way are present.
LEMMA MappedIs ==
  ASSUME Layout, LowerHalf, NEW m, Steady(m), NEW a \in Vas
  PROVE  a \in MappedPages(m) <=> \A l \in TableLevels(a) : Present(m[At(a, l)])
<1> DEFINE P == Path(m, Root, a)
           E(l) == Deref(m, P[l])
           w == CpuWalk(m, Root, a)
           Read(l) == \A k \in Above[l] : NamesTable(k, E(k))
           T == Translation(m, Root, a)
<1>1. \A l \in OnPath(a) : Deref(m, At(a, l)) = m[At(a, l)]
  BY Way, DerefValue DEF Steady
<1>2. DOMAIN w = {l \in CpuLevels : Read(l)} /\ \A l \in DOMAIN w : w[l] = P[l]
  <2>1. w = Restrict(P, {l \in CpuLevels : Read(l)})
    BY DEF CpuWalk
  <2> HIDE DEF w, P, Read
  <2> QED BY <2>1 DEF Restrict
<1>3. /\ P["PGD"] = <<Root, Index(a, "PGD")>> /\ P["P4D"] = P["PGD"]
      /\ P["PUD"] = <<FrameOf(E("PGD")), Index(a, "PUD")>>
      /\ P["PMD"] = <<FrameOf(E("PUD")), Index(a, "PMD")>>
      /\ P["PTE"] = <<FrameOf(E("PMD")), Index(a, "PTE")>>
  BY PathLevels DEF Slot
<1>4. /\ T # <<>> => Mapped(m, Root, a) /\ \A l \in DOMAIN w : Present(E(l))
      /\ Mapped(m, Root, a) /\ (\A l \in DOMAIN w : Present(E(l))) =>
           T = [l \in DOMAIN w |-> E(l) \ {ACCESSED, DIRTY}]
  <2>1. T = IF Mapped(m, Root, a) /\ \A l \in DOMAIN w : Present(Deref(m, w[l]))
              THEN [l \in DOMAIN w |-> Deref(m, w[l]) \ {ACCESSED, DIRTY}] ELSE <<>>
    BY DEF Translation
  <2>2. \A l \in DOMAIN w : Deref(m, w[l]) = E(l)
    BY <1>2
  <2> HIDE DEF T, w, P, E
  <2> QED BY <2>1, <2>2
<1>5. Mapped(m, Root, a) <=> "PTE" \in DOMAIN w \/ ("PMD" \in DOMAIN w /\ PSE \in E("PMD"))
  <2>1. Mapped(m, Root, a) <=> "PTE" \in DOMAIN w \/ ("PMD" \in DOMAIN w /\ PSE \in Deref(m, w["PMD"]))
    BY DEF Mapped
  <2> HIDE DEF w, P, E
  <2>2. "PMD" \in DOMAIN w => Deref(m, w["PMD"]) = E("PMD")
    BY <1>2 DEF E
  <2> QED BY <2>1, <2>2
<1>6. a \in MappedPages(m) <=> T # <<>>
  BY DEF MappedPages
<1> HIDE DEF P, w, T
<1>7. P["PGD"] = At(a, "PGD") /\ E("PGD") = m[At(a, "PGD")] /\ E("P4D") = E("PGD")
  <2>1. P["PGD"] = At(a, "PGD") /\ P["P4D"] = P["PGD"]
    BY <1>3, Way
  <2>2. "PGD" \in OnPath(a)
    BY PathShape
  <2> QED BY <1>1, <2>1, <2>2
<1>8. Present(E("PGD")) => P["PUD"] = At(a, "PUD") /\ E("PUD") = m[At(a, "PUD")]
  <2>1. "PGD" \in OnPath(a) /\ "PUD" \in OnPath(a) /\ "PGD" # LeafAt(a)
    BY PathShape
  <2>2. Present(E("PGD")) => FrameOf(E("PGD")) = FrameOf(InitMem[At(a, "PGD")])
    BY <1>7, <2>1, SteadyEntry
  <2>3. Present(E("PGD")) => P["PUD"] = At(a, "PUD")
    BY <1>3, <2>2, Way
  <2> QED BY <1>1, <2>1, <2>3
<1>9. Present(E("PGD")) /\ Present(E("PUD")) =>
        /\ P["PMD"] = At(a, "PMD") /\ E("PMD") = m[At(a, "PMD")] /\ PSE \notin E("PUD")
  <2>1. "PUD" \in OnPath(a) /\ "PMD" \in OnPath(a) /\ "PUD" # LeafAt(a)
    BY PathShape
  <2>2. Present(E("PGD")) /\ Present(E("PUD")) =>
          FrameOf(E("PUD")) = FrameOf(InitMem[At(a, "PUD")]) /\ PSE \notin E("PUD")
    BY <1>8, <2>1, SteadyEntry
  <2>3. Present(E("PGD")) /\ Present(E("PUD")) => P["PMD"] = At(a, "PMD")
    BY <1>3, <2>2, Way
  <2> QED BY <1>1, <2>1, <2>2, <2>3
<1>10. Present(E("PGD")) /\ Present(E("PUD")) /\ Present(E("PMD")) =>
         IF a = Huge THEN PSE \in E("PMD")
         ELSE P["PTE"] = At(a, "PTE") /\ E("PTE") = m[At(a, "PTE")] /\ PSE \notin E("PMD")
  <2>1. CASE a = Huge
    <3>1. "PMD" \in OnPath(a) /\ "PMD" = LeafAt(a)
      BY <2>1, PathShape
    <3> QED BY <1>9, <2>1, <3>1, SteadyEntry
  <2>2. CASE a # Huge
    <3>1. "PMD" \in OnPath(a) /\ "PTE" \in OnPath(a) /\ "PMD" # LeafAt(a)
      BY <2>2, PathShape
    <3>2. Present(E("PGD")) /\ Present(E("PUD")) /\ Present(E("PMD")) =>
            FrameOf(E("PMD")) = FrameOf(InitMem[At(a, "PMD")]) /\ PSE \notin E("PMD")
      BY <1>9, <3>1, SteadyEntry
    <3>3. Present(E("PGD")) /\ Present(E("PUD")) /\ Present(E("PMD")) => P["PTE"] = At(a, "PTE")
      BY <1>3, <2>2, <3>2, Way
    <3> QED BY <1>1, <2>2, <3>1, <3>2, <3>3
  <2> QED BY <2>1, <2>2
<1> HIDE DEF E
<1>11. /\ "PGD" \in DOMAIN w
       /\ "PUD" \in DOMAIN w <=> Present(E("PGD"))
       /\ "PMD" \in DOMAIN w <=> Present(E("PGD")) /\ Present(E("PUD")) /\ PSE \notin E("PUD")
       /\ "PTE" \in DOMAIN w <=> /\ Present(E("PGD")) /\ Present(E("PUD")) /\ PSE \notin E("PUD")
                                 /\ Present(E("PMD")) /\ PSE \notin E("PMD")
       /\ \A l \in DOMAIN w : l \in {"PGD", "PUD", "PMD", "PTE"}
  BY <1>2, <1>7 DEF Above, CpuLevels, Levels, NamesTable
<1> HIDE DEF Read
<1>12. ASSUME T # <<>> PROVE \A l \in TableLevels(a) : Present(m[At(a, l)])
  <2>1. Present(E("PGD")) /\ Present(E("PUD")) /\ Present(E("PMD"))
    BY <1>4, <1>9, <1>11, <1>12
  <2>2. a # Huge => Present(E("PTE"))
    BY <1>4, <1>9, <1>10, <1>11, <1>12, <2>1
  <2> QED BY <1>7, <1>8, <1>9, <1>10, <2>1, <2>2, LevelsShape
<1>13. ASSUME \A l \in TableLevels(a) : Present(m[At(a, l)]) PROVE T # <<>>
  <2>1. Present(E("PGD")) /\ Present(E("PUD")) /\ Present(E("PMD"))
    BY <1>7, <1>8, <1>9, <1>13, LevelsShape
  <2>2. a # Huge => Present(E("PTE")) /\ PSE \notin E("PMD")
    BY <1>10, <1>13, <2>1, LevelsShape
  <2>3. a = Huge => PSE \in E("PMD")
    BY <1>10, <2>1
  <2>4. Mapped(m, Root, a) /\ \A l \in DOMAIN w : Present(E(l))
    BY <1>5, <1>9, <1>11, <2>1, <2>2, <2>3
  <2>5. T = [l \in DOMAIN w |-> E(l) \ {ACCESSED, DIRTY}]
    BY <1>4, <2>4
  <2>6. "PGD" \in DOMAIN T
    BY <1>11, <2>5
  <2>7. "PGD" \notin DOMAIN <<>>
    OBVIOUS
  <2> QED BY <2>6, <2>7
<1> QED BY <1>6, <1>12, <1>13

\* What memmap finds in a table: the present entries of the addresses under it.
LEMMA EntriesAre ==
  ASSUME Layout, LowerHalf, Steady(mem), NEW t, Under(t) # {}
  PROVE  /\ \A s \in Entries(t) : \E b \in Under(t) : s = At(b, t.level) /\ Present(mem[s])
         /\ \A b \in Under(t) : Present(mem[At(b, t.level)]) => At(b, t.level) \in Entries(t)
<1>1. DOMAIN mem = DOMAIN InitMem
  BY DEF Steady
<1>2. ASSUME NEW s \in Entries(t)
      PROVE  \E b \in Under(t) : s = At(b, t.level) /\ Present(mem[s])
  <2>1. PICK a \in Under(t) : TRUE
    OBVIOUS
  <2>2. /\ a \in Vas /\ t.level \in TableLevels(a) /\ t = TableOf(a, t.level)
        /\ t.frame = At(a, t.level)[1] /\ t.base = High(a, t.level)
    <3>1. a \in Vas /\ t.level \in TableLevels(a) /\ t = TableOf(a, t.level)
      BY <2>1 DEF Under
    <3>2. TableOf(a, t.level).frame = At(a, t.level)[1] /\ TableOf(a, t.level).base = High(a, t.level)
      BY DEF TableOf
    <3> QED BY <3>1, <3>2
  <2>3. /\ s \in DOMAIN InitMem /\ s[1] = At(a, t.level)[1]
        /\ Present(mem[s]) /\ (t.level = "PGD" => 8 \notin s[2])
    BY <1>1, <1>2, <2>2 DEF Entries
  <2>4. \E v \in Values(s) : Present(v)
    BY <2>3 DEF Steady
  <2>5. PICK b \in Vas : /\ t.level \in TableLevels(b) /\ At(b, t.level) = s
                         /\ High(b, t.level) = High(a, t.level)
    BY <2>2, <2>3, <2>4 DEF LowerHalf, Complete
  <2>6. TableOf(b, t.level) = TableOf(a, t.level)
    BY <2>3, <2>5 DEF TableOf
  <2>7. b \in Under(t)
    BY <2>2, <2>5, <2>6 DEF Under
  <2> QED BY <2>3, <2>5, <2>7
<1>3. ASSUME NEW b \in Under(t), Present(mem[At(b, t.level)])
      PROVE  At(b, t.level) \in Entries(t)
  <2>1. b \in Vas /\ t.level \in TableLevels(b) /\ t = TableOf(b, t.level)
    BY DEF Under
  <2>2. At(b, t.level)[1] = t.frame
    <3>1. TableOf(b, t.level).frame = At(b, t.level)[1]
      BY DEF TableOf
    <3> QED BY <2>1, <3>1
  <2>3. At(b, t.level) \in DOMAIN mem
    BY <1>1, <2>1, Way, LevelsShape
  <2>4. t.level = "PGD" => 8 \notin At(b, t.level)[2]
    <3>1. SUFFICES ASSUME t.level = "PGD" PROVE 8 \notin At(b, "PGD")[2]
      OBVIOUS
    <3>2. At(b, "PGD")[2] = Index(b, "PGD") /\ "PGD" \in CpuLevels /\ LevelShift["PGD"] = 39
      BY <2>1, Way DEF CpuLevels, Levels, LevelShift
    <3>3. 8 \in Index(b, "PGD") => 47 \in b
      BY <3>2, IndexBits
    <3>4. 47 \notin b
      BY <2>1 DEF LowerHalf, Aligned
    <3> QED BY <3>2, <3>3, <3>4
  <2> QED BY <1>3, <2>2, <2>3, <2>4 DEF Entries
<1> QED BY <1>2, <1>3

\* It lists those that map a page, and goes on to the tables others name.
LEMMA EntryMeans ==
  ASSUME Layout, LowerHalf, Steady(mem), NEW t, NEW b \in Under(t), Present(mem[At(b, t.level)])
  PROVE  LET s == At(b, t.level)
             base == t.base \cup Shl(s[2], LevelShift[t.level])
         IN  /\ Lists(t, s) <=> t.level = LeafAt(b)
             /\ t.level = LeafAt(b) => base = b
             /\ t.level # LeafAt(b) =>
                  [level |-> Below[t.level], frame |-> ptedit_get_pfn(mem[s]), base |-> base]
                    = TableOf(b, Below[t.level])
<1> DEFINE l == t.level
           s == At(b, l)
<1>1. b \in Vas /\ l \in TableLevels(b) /\ t = TableOf(b, l)
  BY DEF Under
<1>2. t.base = High(b, l) /\ s[2] = Index(b, l)
  <2>1. TableOf(b, l).base = High(b, l)
    BY DEF TableOf
  <2>2. s[2] = Index(b, l)
    BY <1>1, Way, LevelsShape
  <2> QED BY <1>1, <2>1, <2>2
<1>3. t.base \cup Shl(s[2], LevelShift[l]) = IF l = LeafAt(b) THEN b ELSE High(b, Below[l])
  BY <1>1, <1>2, BaseIs
<1>4. l \in OnPath(b)
  BY <1>1, LevelsShape
<1>5. Lists(t, s) <=> l = LeafAt(b)
  <2>1. CASE l = "PTE"
    <3>1. LeafAt(b) = "PTE"
      BY <1>1, <2>1, LevelsShape, PathShape
    <3> QED BY <2>1, <3>1 DEF Lists
  <2>2. CASE l = "PMD"
    <3>1. PSE \in mem[s] <=> b = Huge
      BY <1>1, <1>4, <2>2, SteadyEntry, PathShape
    <3>2. LeafAt(b) = "PMD" <=> b = Huge
      BY DEF LeafAt
    <3> QED BY <2>2, <3>1, <3>2 DEF Lists, is_normal_page
  <2>3. CASE l \in {"PGD", "PUD"}
    BY <2>3 DEF Lists, LeafAt
  <2> QED BY <1>1, <2>1, <2>2, <2>3, LevelsShape
<1>6. ASSUME l # LeafAt(b)
      PROVE  ptedit_get_pfn(mem[s]) = At(b, Below[l])[1]
  <2>1. ptedit_get_pfn(mem[s]) = FrameOf(InitMem[s])
    BY <1>1, <1>4, <1>6, SteadyEntry, PfnIsFrame
  <2>2. l \in {"PGD", "PUD", "PMD"} /\ (l = "PMD" => b # Huge)
    BY <1>1, <1>6, LevelsShape, PathShape
  <2>3. At(b, Below[l])[1] = FrameOf(InitMem[s])
    BY <1>1, <2>2, Way DEF Below
  <2> QED BY <2>1, <2>3
<1> QED BY <1>3, <1>5, <1>6 DEF TableOf

\* The pages a table adds, and the tables it leads to.
NewPages(t) == {b \in Under(t) : t.level = LeafAt(b) /\ Present(mem[LeafSlot(b)])}
NewTables(t) ==
  {TableOf(b, Below[t.level]) :
     b \in {c \in Under(t) : t.level # LeafAt(c) /\ Present(mem[At(c, t.level)])}}
Listed(t) == {s \in Entries(t) : Lists(t, s)}

\* What reading a table does.
LEMMA ReadIs ==
  ASSUME Layout, LowerHalf, Steady(mem), NEW t, Under(t) # {}, ReadTable(t)
  PROVE  /\ work' = (work \ {t}) \cup NewTables(t)
         /\ pages' = pages \cup NewPages(t)
         /\ mem_usage' = mem_usage + Cardinality(Listed(t)) * (IF t.level = "PTE" THEN 4 ELSE 2048)
         /\ Listed(t) = {LeafSlot(b) : b \in NewPages(t)}
         /\ pc' = (IF work' = {} THEN End ELSE pc)
         /\ UNCHANGED <<mem, ever, always>>
<1> DEFINE Base(s) == t.base \cup Shl(s[2], LevelShift[t.level])
           tables == {[level |-> Below[t.level], frame |-> ptedit_get_pfn(mem[s]), base |-> Base(s)] :
                        s \in Entries(t) \ Listed(t)}
<1>1. /\ work' = (work \ {t}) \cup tables
      /\ pages' = pages \cup {Base(s) : s \in Listed(t)}
      /\ mem_usage' = mem_usage + Cardinality(Listed(t)) * (IF t.level = "PTE" THEN 4 ELSE 2048)
      /\ pc' = (IF work' = {} THEN End ELSE pc)
      /\ UNCHANGED <<mem, ever, always>>
  BY DEF ReadTable, Listed
<1>2. ASSUME NEW s \in Entries(t)
      PROVE  \E b \in Under(t) : /\ s = At(b, t.level) /\ Present(mem[s])
                                 /\ Lists(t, s) <=> t.level = LeafAt(b)
                                 /\ t.level = LeafAt(b) => Base(s) = b
                                 /\ t.level # LeafAt(b) =>
                                      [level |-> Below[t.level], frame |-> ptedit_get_pfn(mem[s]),
                                       base |-> Base(s)] = TableOf(b, Below[t.level])
  <2>1. PICK b \in Under(t) : s = At(b, t.level) /\ Present(mem[s])
    BY EntriesAre
  <2> QED BY <2>1, EntryMeans
<1>3. ASSUME NEW b \in Under(t), Present(mem[At(b, t.level)])
      PROVE  LET s == At(b, t.level)
             IN  /\ s \in Entries(t)
                 /\ Lists(t, s) <=> t.level = LeafAt(b)
                 /\ t.level = LeafAt(b) => Base(s) = b
                 /\ t.level # LeafAt(b) =>
                      [level |-> Below[t.level], frame |-> ptedit_get_pfn(mem[s]),
                       base |-> Base(s)] = TableOf(b, Below[t.level])
  BY <1>3, EntriesAre, EntryMeans
<1> HIDE DEF Base
<1>4. tables = NewTables(t)
  <2>1. ASSUME NEW u \in tables PROVE u \in NewTables(t)
    BY <1>2, <2>1 DEF Listed, NewTables
  <2>2. ASSUME NEW u \in NewTables(t) PROVE u \in tables
    BY <1>3, <2>2 DEF Listed, NewTables
  <2> QED BY <2>1, <2>2
<1>5. Listed(t) = {LeafSlot(b) : b \in NewPages(t)}
  <2>1. ASSUME NEW s \in Listed(t) PROVE s \in {LeafSlot(b) : b \in NewPages(t)}
    BY <1>2, <2>1 DEF Listed, NewPages, LeafSlot
  <2>2. ASSUME NEW b \in NewPages(t) PROVE LeafSlot(b) \in Listed(t)
    BY <1>3, <2>2 DEF Listed, NewPages, LeafSlot
  <2> QED BY <2>1, <2>2
<1>6. {Base(s) : s \in Listed(t)} = NewPages(t)
  <2>1. ASSUME NEW s \in Listed(t) PROVE Base(s) \in NewPages(t)
    BY <1>2, <2>1 DEF Listed, NewPages, LeafSlot
  <2>2. ASSUME NEW b \in NewPages(t) PROVE \E s \in Listed(t) : b = Base(s)
    BY <1>3, <2>2 DEF Listed, NewPages, LeafSlot
  <2> QED BY <2>1, <2>2
<1> QED BY <1>1, <1>4, <1>5, <1>6

\* Pages can be counted.
LEMMA FinitelyMany ==
  ASSUME NEW p \in SUBSET Vas
  PROVE  IsFiniteSet(p) /\ Cardinality(p) \in Nat
<1> DEFINE V1 == {} \cup {PageA}
           V2 == V1 \cup {PageB}
           V3 == V2 \cup {PageP}
           V4 == V3 \cup {Huge}
           V5 == V4 \cup {PmapVa}
           V6 == V5 \cup {Target}
<1>1. V6 = Vas
  BY DEF Vas
<1> HIDE DEF V1, V2, V3, V4, V5, V6
<1>2. IsFiniteSet(V1)
  BY FS_EmptySet, FS_AddElement DEF V1
<1>3. IsFiniteSet(V2)
  BY <1>2, FS_AddElement DEF V2
<1>4. IsFiniteSet(V3)
  BY <1>3, FS_AddElement DEF V3
<1>5. IsFiniteSet(V4)
  BY <1>4, FS_AddElement DEF V4
<1>6. IsFiniteSet(V5)
  BY <1>5, FS_AddElement DEF V5
<1>7. IsFiniteSet(V6)
  BY <1>6, FS_AddElement DEF V6
<1>8. IsFiniteSet(p)
  BY <1>1, <1>7, FS_Subset
<1> QED BY <1>8, FS_CardinalityType

\* An entry is counted once for the page it maps.
LEMMA OneEntryEach ==
  ASSUME Layout, NEW p \in SUBSET Vas
  PROVE  Cardinality({LeafSlot(b) : b \in p}) = Cardinality(p)
<1> DEFINE T == {LeafSlot(b) : b \in p}
           f == [b \in p |-> LeafSlot(b)]
<1>1. f \in [p -> T]
  OBVIOUS
<1>2. \A b, c \in p : f[b] = f[c] => b = c
  BY DEF Layout, PagesApart
<1>3. \A s \in T : \E b \in p : f[b] = s
  OBVIOUS
<1> HIDE DEF f, T
<1>4. f \in Bijection(p, T)
  BY <1>1, <1>2, <1>3 DEF Bijection, Injection, Surjection, IsInjective
<1>5. ExistsBijection(p, T)
  BY <1>4 DEF ExistsBijection
<1> QED BY <1>5, FinitelyMany, FS_Bijection DEF T

\* The sum grows by the size of what is listed.
LEMMA SizeGrows ==
  ASSUME NEW p \in SUBSET Vas, NEW n \in SUBSET Vas, p \cap n = {},
         NEW k \in {4, 2048}, k = 4 => Huge \notin n, k = 2048 => n \subseteq {Huge}
  PROVE  Size(p \cup n) = Size(p) + Cardinality(n) * k
<1> DEFINE small == p \ {Huge}
           large == p \cap {Huge}
<1>1. /\ small \in SUBSET Vas /\ large \in SUBSET Vas
      /\ IsFiniteSet(small) /\ IsFiniteSet(large) /\ IsFiniteSet(n)
      /\ Cardinality(small) \in Nat /\ Cardinality(large) \in Nat /\ Cardinality(n) \in Nat
  <2>1. small \in SUBSET Vas /\ large \in SUBSET Vas
    OBVIOUS
  <2> HIDE DEF small, large
  <2> QED BY <2>1, FinitelyMany
<1>2. CASE k = 4
  <2>1. (p \cup n) \ {Huge} = small \cup n /\ (p \cup n) \cap {Huge} = large /\ small \cap n = {}
    BY <1>2
  <2> HIDE DEF small, large
  <2>2. Cardinality(small \cup n) = Cardinality(small) + Cardinality(n) - Cardinality(small \cap n)
    BY <1>1, FS_Union
  <2>3. Cardinality(small \cup n) = Cardinality(small) + Cardinality(n)
    <3> DEFINE both == small \cap n
    <3>1. both = {}
      BY <2>1
    <3> HIDE DEF both
    <3>2. Cardinality(both) = 0
      BY <3>1, FS_EmptySet
    <3> QED BY <1>1, <2>2, <3>2 DEF both
  <2>4. Size(p \cup n) = 4 * Cardinality(small \cup n) + 2048 * Cardinality(large)
    BY <2>1 DEF Size
  <2>5. Size(p) = 4 * Cardinality(small) + 2048 * Cardinality(large)
    BY DEF Size, small, large
  <2> QED BY <1>1, <1>2, <2>3, <2>4, <2>5
<1>3. CASE k = 2048
  <2>1. (p \cup n) \ {Huge} = small /\ (p \cup n) \cap {Huge} = large \cup n /\ large \cap n = {}
    BY <1>3
  <2> HIDE DEF small, large
  <2>2. Cardinality(large \cup n) = Cardinality(large) + Cardinality(n) - Cardinality(large \cap n)
    BY <1>1, FS_Union
  <2>3. Cardinality(large \cup n) = Cardinality(large) + Cardinality(n)
    <3> DEFINE both == large \cap n
    <3>1. both = {}
      BY <2>1
    <3> HIDE DEF both
    <3>2. Cardinality(both) = 0
      BY <3>1, FS_EmptySet
    <3> QED BY <1>1, <2>2, <3>2 DEF both
  <2>4. Size(p \cup n) = 4 * Cardinality(small) + 2048 * Cardinality(large \cup n)
    BY <2>1 DEF Size
  <2>5. Size(p) = 4 * Cardinality(small) + 2048 * Cardinality(large)
    BY DEF Size, small, large
  <2> QED BY <1>1, <1>3, <2>3, <2>4, <2>5
<1> QED BY <1>2, <1>3

\* What is listed was mapped at some time: a page that came lies in tables
\* that stay, the others were there from the start.
LEMMA ListedWasMapped ==
  ASSUME Layout, LowerHalf, Steady(mem), NEW a \in Vas, Present(mem[LeafSlot(a)])
  PROVE  a \in MappedPages(mem) \/ a \in MappedPages(InitMem)
<1>1. \A l \in TableLevels(a) : l = LeafAt(a) \/ l \in Dirs(a)
  BY DEF TableLevels, OnPath
<1>2. CASE a = PmapVa
  <2>1. \A s \in DOMAIN InitMem : mem[s] \in Values(s)
    BY DEF Steady
  <2>2. \E v \in Values(LeafSlot(a)) : Present(v)
    BY <2>1, LeafEntry
  <2>3. \A l \in Dirs(a) : Present(mem[At(a, l)])
    BY <1>2, <2>1, <2>2, Way, PathShape DEF LowerHalf, Settled
  <2>4. \A l \in TableLevels(a) : Present(mem[At(a, l)])
    BY <1>1, <2>3 DEF LeafSlot
  <2> QED BY <2>4, MappedIs
<1>3. CASE a # PmapVa
  <2>1. Steady(InitMem)
    BY DEF Steady, Values, Layout, TablesThere
  <2>2. \A l \in Dirs(a) : Present(InitMem[At(a, l)])
    BY DEF Layout, TablesThere
  <2>3. Present(InitMem[LeafSlot(a)])
    BY <1>3 DEF Layout, TablesThere
  <2>4. \A l \in TableLevels(a) : Present(InitMem[At(a, l)])
    BY <1>1, <2>2, <2>3 DEF LeafSlot
  <2> QED BY <2>1, <2>4, MappedIs
<1> QED BY <1>2, <1>3

\* Reading a table replaces it by what is under it.
LEMMA PendingStep ==
  ASSUME Layout, LowerHalf, Steady(mem), Pending(work, pages), pages \subseteq Vas, NEW t \in work
  PROVE  /\ Pending((work \ {t}) \cup NewTables(t), pages \cup NewPages(t))
         /\ NewPages(t) \in SUBSET Vas /\ pages \cap NewPages(t) = {}
<1>1. NewPages(t) \in SUBSET Under(t) /\ Under(t) \in SUBSET Vas
  BY DEF NewPages, Under
<1>2. \A u \in work : Under(u) # {} /\ Under(u) \cap pages = {}
  BY DEF Pending
<1>3. \A u, v \in work : Under(u) \cap Under(v) # {} => u = v
  BY DEF Pending
<1>4. ASSUME NEW u \in NewTables(t)
      PROVE  /\ Under(u) # {} /\ Under(u) \subseteq Under(t)
             /\ \A c \in Under(u) : c \notin NewPages(t) /\ u = TableOf(c, Below[t.level])
  <2>1. PICK b \in Under(t) : t.level # LeafAt(b) /\ u = TableOf(b, Below[t.level])
    BY DEF NewTables
  <2>2. b \in Vas /\ t.level \in TableLevels(b) /\ TableOf(b, t.level) = t
    BY <2>1 DEF Under
  <2>3. Below[t.level] \in TableLevels(b) /\ t.level \in {"PGD", "PUD", "PMD"}
    BY <2>1, <2>2, LevelsShape, PathShape
  <2>4. u.level = Below[t.level] /\ u.base = High(b, Below[t.level])
    BY <2>1 DEF TableOf
  <2>5. b \in Under(u)
    BY <2>1, <2>2, <2>3, <2>4 DEF Under
  <2>6. ASSUME NEW c \in Under(u)
        PROVE  c \in Under(t) /\ c \notin NewPages(t) /\ u = TableOf(c, Below[t.level])
    <3>1. c \in Vas /\ Below[t.level] \in TableLevels(c) /\ u = TableOf(c, Below[t.level])
      BY <2>4 DEF Under
    <3>2. High(c, Below[t.level]) = High(b, Below[t.level])
      BY <2>4, <3>1 DEF TableOf
    <3>3. TableOf(c, t.level) = t
      BY <2>2, <2>3, <3>1, <3>2, Prefix
    <3>4. t.level \in TableLevels(c) /\ t.level # LeafAt(c)
      BY <2>3, <3>1, LevelsShape, PathShape DEF Below
    <3> QED BY <3>1, <3>3, <3>4 DEF Under, NewPages
  <2> QED BY <2>5, <2>6
<1> DEFINE w == (work \ {t}) \cup NewTables(t)
           p == pages \cup NewPages(t)
<1>5. ASSUME NEW u \in w PROVE Under(u) # {} /\ Under(u) \cap p = {}
  <2>1. CASE u \in work \ {t}
    <3>1. Under(u) \cap Under(t) = {}
      BY <1>3, <2>1
    <3> QED BY <1>1, <1>2, <2>1, <3>1
  <2>2. CASE u \in NewTables(t)
    <3>1. Under(u) \cap pages = {}
      BY <1>2, <1>4, <2>2
    <3> QED BY <1>4, <2>2, <3>1
  <2> QED BY <2>1, <2>2
<1>6. ASSUME NEW u \in w, NEW v \in w, Under(u) \cap Under(v) # {} PROVE u = v
  <2>1. PICK c : c \in Under(u) /\ c \in Under(v)
    BY <1>6
  <2>2. CASE u \in work \ {t} /\ v \in work \ {t}
    BY <1>3, <1>6, <2>2
  <2>3. CASE u \in work \ {t} /\ v \in NewTables(t)
    BY <1>3, <1>4, <2>1, <2>3
  <2>4. CASE u \in NewTables(t) /\ v \in work \ {t}
    BY <1>3, <1>4, <2>1, <2>4
  <2>5. CASE u \in NewTables(t) /\ v \in NewTables(t)
    BY <1>4, <2>1, <2>5
  <2> QED BY <2>2, <2>3, <2>4, <2>5
<1>7. pages \cap NewPages(t) = {}
  BY <1>1, <1>2
<1> QED BY <1>1, <1>5, <1>6, <1>7 DEF Pending

\* No address that is mapped all the time gets lost on the way.
LEMMA CoversStep ==
  ASSUME Layout, LowerHalf, Steady(mem), NEW all \in SUBSET MappedPages(mem),
         Covers(work, pages, all), NEW t \in work
  PROVE  Covers((work \ {t}) \cup NewTables(t), pages \cup NewPages(t), all)
<1>1. SUFFICES ASSUME NEW a \in all, a \notin pages, a \notin NewPages(t)
               PROVE  \E u \in (work \ {t}) \cup NewTables(t) : a \in Under(u)
  BY DEF Covers
<1>2. PICK u \in work : a \in Under(u)
  BY <1>1 DEF Covers
<1>3. CASE u = t
  <2>1. a \in Vas /\ t.level \in TableLevels(a) /\ TableOf(a, t.level) = t
    BY <1>2, <1>3 DEF Under
  <2>2. \A l \in TableLevels(a) : Present(mem[At(a, l)])
    BY <1>1, <2>1, MappedIs
  <2>3. t.level # LeafAt(a)
    BY <1>1, <1>2, <1>3, <2>1, <2>2 DEF NewPages, LeafSlot
  <2>4. TableOf(a, Below[t.level]) \in NewTables(t)
    BY <1>2, <1>3, <2>1, <2>2, <2>3 DEF NewTables
  <2>5. a \in Under(TableOf(a, Below[t.level]))
    <3>1. TableOf(a, Below[t.level]).level = Below[t.level]
      BY DEF TableOf
    <3> QED BY <2>1, <2>3, <3>1, LevelsShape DEF Under
  <2> QED BY <2>4, <2>5
<1>4. CASE u # t
  BY <1>2, <1>4
<1> QED BY <1>3, <1>4

\* A table is read.
LEMMA ReadTableInv ==
  ASSUME Layout, LowerHalf, MapInv, End = 2, NEW t \in work, ReadTable(t)
  PROVE  MapInv'
<1>1. /\ Steady(mem) /\ pc \in {1, 2} /\ pages \subseteq Vas /\ pages \subseteq ever
      /\ always \subseteq MappedPages(mem)
      /\ MappedPages(mem) \subseteq ever /\ MappedPages(InitMem) \subseteq ever
      /\ Pending(work, pages) /\ pc # 2
      /\ Covers(work, pages, always) /\ mem_usage = Size(pages)
  BY DEF MapInv
<1>2. Under(t) # {}
  BY <1>1 DEF Pending
<1>3. /\ work' = (work \ {t}) \cup NewTables(t)
      /\ pages' = pages \cup NewPages(t)
      /\ mem_usage' = mem_usage + Cardinality(Listed(t)) * (IF t.level = "PTE" THEN 4 ELSE 2048)
      /\ Listed(t) = {LeafSlot(b) : b \in NewPages(t)}
      /\ pc' = (IF work' = {} THEN End ELSE pc)
      /\ UNCHANGED <<mem, ever, always>>
  BY <1>1, <1>2, ReadIs
<1>4. /\ Pending(work', pages')
      /\ NewPages(t) \in SUBSET Vas /\ pages \cap NewPages(t) = {}
  BY <1>1, <1>3, PendingStep
<1>5. Covers(work', pages', always)
  BY <1>1, <1>3, CoversStep
<1>6. NewPages(t) \subseteq ever
  <2>1. SUFFICES ASSUME NEW a \in NewPages(t) PROVE a \in ever
    OBVIOUS
  <2>2. a \in Vas /\ Present(mem[LeafSlot(a)])
    BY <1>4 DEF NewPages
  <2> QED BY <1>1, <2>2, ListedWasMapped
<1>7. mem_usage' = Size(pages')
  <2> DEFINE k == IF t.level = "PTE" THEN 4 ELSE 2048
  <2>1. \A b \in NewPages(t) : t.level = LeafAt(b)
    BY DEF NewPages
  <2>2. k \in {4, 2048} /\ (k = 4 => Huge \notin NewPages(t)) /\ (k = 2048 => NewPages(t) \subseteq {Huge})
    BY <2>1 DEF LeafAt
  <2>3. mem_usage' = Size(pages) + Cardinality(NewPages(t)) * k
    BY <1>1, <1>3, <1>4, OneEntryEach
  <2> HIDE DEF k
  <2> QED BY <1>1, <1>3, <1>4, <2>2, <2>3, SizeGrows
<1>8. /\ Steady(mem') /\ MappedPages(mem') = MappedPages(mem)
      /\ pages' \subseteq Vas /\ pages' \subseteq ever'
  BY <1>1, <1>3, <1>4, <1>6
<1>9. /\ pc' \in {1, 2} /\ (pc' = 2 => work' = {}) /\ (pc' = 1 => work' # {})
  BY <1>1, <1>3
<1> QED BY <1>1, <1>3, <1>4, <1>5, <1>7, <1>8, <1>9 DEF MapInv, MappedPages

\* memmap starts at the root, above all addresses.
LEMMA MemmapStarts ==
  ASSUME Layout, LowerHalf, MapInv, pc = 1, Memmap
  PROVE  MapInv'
<1> DEFINE r == [level |-> "PGD", frame |-> Root, base |-> {}]
<1>1. work' = {r} /\ UNCHANGED <<mem, pc, pages, mem_usage, ever, always>> /\ pages = {}
  BY DEF Memmap
<1>2. ASSUME NEW a \in Vas PROVE a \in Under(r)
  <2>1. a \in SUBSET (12..46)
    BY DEF LowerHalf, Aligned
  <2>2. High(a, "PGD") = {}
    BY <2>1 DEF High, LevelShift
  <2>3. At(a, "PGD")[1] = Root
    BY Way
  <2> QED BY <2>2, <2>3, LevelsShape DEF Under, TableOf
<1>3. Huge \in Vas /\ always \subseteq Vas
  BY DEF Vas, MapInv, MappedPages
<1> HIDE DEF r
<1>4. Pending({r}, {}) /\ Covers({r}, {}, always)
  BY <1>2, <1>3 DEF Pending, Covers
<1> QED BY <1>1, <1>4 DEF MapInv, MappedPages, Steady

\* The kernel changes an entry.
LEMMA KernelChangeInv ==
  ASSUME Layout, LowerHalf, MapInv, NEW x \in Changes, KernelChange(x)
  PROVE  MapInv'
<1>1. /\ mem' = [mem EXCEPT ![x[1]] = x[2]]
      /\ ever' = ever \cup MappedPages(mem')
      /\ always' = always \cap MappedPages(mem')
      /\ UNCHANGED <<pc, work, pages, mem_usage>>
  BY DEF KernelChange
<1>2. Steady(mem')
  <2>1. x[1] \in DOMAIN InitMem /\ x[2] \in Word
    BY ProgramsAssumption DEF LowerHalf, Settled
  <2>2. x[2] \in Values(x[1])
    BY DEF Values
  <2> QED BY <1>1, <2>1, <2>2 DEF Steady, MapInv
<1>3. \A a \in always' : a \in always
  BY <1>1
<1> QED BY <1>1, <1>2, <1>3 DEF MapInv, Covers

\* The invariant of memmap holds at the start.
LEMMA MapInit == ASSUME Layout, LowerHalf, Init PROVE MapInv
<1>1. Steady(InitMem)
  BY DEF Steady, Values, Layout, TablesThere
<1>2. Size({}) = 0
  <2>1. {} \ {Huge} = {} /\ {} \cap {Huge} = {}
    OBVIOUS
  <2>2. Size({}) = 4 * Cardinality({}) + 2048 * Cardinality({})
    BY <2>1 DEF Size
  <2> QED BY <2>2, FS_EmptySet
<1> QED BY <1>1, <1>2 DEF Init, MapInv, Pending, MappedPages

\* Every step keeps it.
LEMMA MapNext ==
  ASSUME Layout, LowerHalf, ProgramsInv, prog = "memmap", MapInv, [Next]_vars
  PROVE  MapInv'
<1>1. BaseInv /\ IdleInv
  BY DEF ProgramsInv
<1>2. DOMAIN code = {1} /\ Len(code) = 1 /\ code[1] = [op |-> "memmap"]
  BY <1>1, MemmapText DEF BaseInv, memmap
<1>3. (Running => Op.op = "memmap" /\ pc = 1) /\ End = 2
  BY <1>2 DEF Running, Op, End
<1>4. Touched = {}
  BY <1>2 DEF Touched
<1>5. \A c \in Cpus, a \in Vas : tlb[c][a] = <<>>
  BY <1>1 DEF IdleInv
<1>6. CASE UNCHANGED vars
  BY <1>6 DEF vars, mapVars, MapInv, MappedPages, Steady
<1>7. CASE Instruction
  <2>1. Memmap
    BY <1>3, <1>7 DEF Instruction, Execute, Memset, Expect, ExpectType, ExpectEntry, Crash, Store, StorePfn,
       Resolve, ResolveUser, Copy, Update, Redirect, PteSetPfn, Retype, GiveUp, MmapHuge, Invalidate,
       Barrier, Pmap, ReadPage, WritePage, Same, Virt2Phys
  <2>2. pc = 1
    BY <1>3, <2>1 DEF Memmap
  <2> QED BY <2>1, <2>2, MemmapStarts
<1>8. CASE \E t \in work : ReadTable(t)
  BY <1>3, <1>8, ReadTableInv
<1>9. CASE \E x \in Changes : KernelChange(x)
  BY <1>9, KernelChangeInv
<1>10. CASE \E c \in Cpus : Migrate(c) \/ \E va \in Vas : TlbFill(c, va) \/ TlbEvict(c, va)
  BY <1>4, <1>5, <1>10 DEF Migrate, TlbFill, TlbEvict
<1> QED BY <1>6, <1>7, <1>8, <1>9, <1>10 DEF Next

\* demos/memmap.c reads a table at a time while the kernel changes them: it
\* lists every page that was mapped all the time, none that never was, each
\* once, and prints their size.
THEOREM MemmapListsWhatIsMapped == ASSUME Layout, LowerHalf PROVE Spec => []MemmapSandwich
<1>1. Init => MemmapInv
  BY InitInv, MapInit DEF MemmapInv
<1>2. MemmapInv /\ [Next]_vars => MemmapInv'
  <2>1. SUFFICES ASSUME MemmapInv, [Next]_vars PROVE MemmapInv'
    OBVIOUS
  <2>2. ProgramsInv /\ ProgramsInv'
    BY <2>1, NextInv DEF MemmapInv
  <2>3. prog' = prog
    BY <2>1, ProgKept
  <2>4. prog = "memmap" => MapInv'
    BY <2>1, <2>2, MapNext DEF MemmapInv
  <2> QED BY <2>2, <2>3, <2>4 DEF MemmapInv
<1>3. MemmapInv => MemmapSandwich
  <2>1. SUFFICES ASSUME MemmapInv, prog = "memmap", pc = End
                 PROVE  /\ always \subseteq pages /\ pages \subseteq ever
                        /\ mem_usage = 4 * Cardinality(pages \ {Huge}) + 2048 * Cardinality(pages \cap {Huge})
    BY DEF MemmapSandwich
  <2>2. End = 2
    <3>1. code = Code["memmap"] /\ Len(Code["memmap"]) = 1
      BY <2>1, MemmapText DEF MemmapInv, ProgramsInv, BaseInv
    <3> QED BY <3>1 DEF End
  <2>3. MapInv /\ work = {} /\ Covers(work, pages, always)
    BY <2>1, <2>2 DEF MemmapInv, MapInv
  <2> QED BY <2>3 DEF MapInv, Covers, Size
<1> QED BY <1>1, <1>2, <1>3, PTL DEF Spec
=============================================================================
