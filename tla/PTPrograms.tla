----------------------------- MODULE PTPrograms -----------------------------
(***************************************************************************)
(* The programs that come with the library (example.c and demos/), run     *)
(* with the default implementation on a machine of several CPUs, each with *)
(* a TLB of its own.  Page tables are reached in three ways: through the   *)
(* ioctls, through physical pages that are read, written or mapped, and    *)
(* through an address whose own entry was redirected to a page table.      *)
(*                                                                         *)
(* A program is a sequence of instructions, one for each call or access    *)
(* whose outcome matters; an action executes one.  The programs check      *)
(* their own results ("OK!", "Fail!"): these checks are instructions too.  *)
(***************************************************************************)
EXTENDS PTWalk, PTMemType, Sequences, TLC

CONSTANTS
  Cpus,
  Programs,             \* names of the programs to run
  Root, InitMem,        \* the process's tables and pages
  PageA, PageB, PageP,  \* 4 KB pages of the programs
  Huge,                 \* a 2 MB page
  PmapVa,               \* where the kernel maps what ptedit_pmap asks for
  Target,               \* the page of a global variable
  Pats,                 \* values the PAT register may have
  Changes,              \* <<slot, entry>> the kernel may store while memmap runs
  MaxChanges

ASSUME ProgramsAssumption ==
  /\ Arch = "x86_64" /\ Cpus # {} /\ MaxChanges \in Nat
  /\ {PageA, PageB, PageP, Huge, PmapVa, Target} \subseteq Word
  /\ \A x \in Changes : x[1] \in DOMAIN InitMem

Vas == {PageA, PageB, PageP, Huge, PmapVa, Target}

\* Contents of pages: one word stands for the byte a page is filled with.
CharA == {0, 6}
CharB == {1, 6}
CharC == {0, 1, 6}
CharS == {0, 1, 4, 6}
CharX == {3, 4, 6}

-----------------------------------------------------------------------------
(* The programs.  x, y: variables of type ptedit_entry_t, which keep what   *)
(* was resolved; va, at: addresses.                                         *)

memset(va, char) == [op |-> "memset", va |-> va, word |-> char]
resolve(x, va) == [op |-> "resolve", x |-> x, va |-> va]
resolve_user(x, va) == [op |-> "resolve_user", x |-> x, va |-> va]
copy(y, x) == [op |-> "copy", x |-> x, y |-> y]
\* ptedit_update(va, 0, x) for one level, as it is or after ptedit_set_pfn.
update(va, x, l) == [op |-> "update", va |-> va, x |-> x, level |-> l]
redirect(va, x, y, l) == [op |-> "redirect", va |-> va, x |-> x, y |-> y, level |-> l]
pte_set_pfn(va, x) == [op |-> "pte_set_pfn", va |-> va, x |-> x]
\* ptedit_find_first_mt, ptedit_apply_mt[_huge] and ptedit_update.
retype(va, x, l, type) == [op |-> "retype", va |-> va, x |-> x, level |-> l, word |-> type]
invalidate(va) == [op |-> "invalidate", va |-> va]
barrier == [op |-> "barrier"]
pmap(x, l, cast) == [op |-> "pmap", x |-> x, level |-> l, cast |-> cast]
read_page(x, char) == [op |-> "read_page", x |-> x, word |-> char]
write_page(x, char) == [op |-> "write_page", x |-> x, word |-> char]
\* *mapped_entry, the entry of va seen through the page at `at`.
store(at, va, x) == [op |-> "store", at |-> at, va |-> va, x |-> x]
store_pfn(at, va, y) == [op |-> "store_pfn", at |-> at, va |-> va, y |-> y]
expect_entry(at, va, x) == [op |-> "expect_entry", at |-> at, va |-> va, x |-> x]
expect(va, char) == [op |-> "expect", va |-> va, word |-> char]
expect_type(va, type) == [op |-> "expect_type", va |-> va, word |-> type]
same(x, y) == [op |-> "same", x |-> x, y |-> y]
mmap_huge == [op |-> "mmap_huge"]
virt2phys(x, va, offset) == [op |-> "virt2phys", x |-> x, va |-> va, offset |-> offset]
memmap == [op |-> "memmap"]

example_main ==
  << memset(PageA, CharA), memset(PageB, CharB), resolve("vm", PageA),
     expect(PageA, CharA), resolve("target", PageB),
     redirect(PageA, "vm", "target", "PTE"), expect(PageA, CharB),
     read_page("vm", CharA), pmap("vm", "PTE", FALSE), expect(PmapVa, CharA),
     write_page("target", CharC), barrier, expect(PageA, CharC),
     pte_set_pfn(PageA, "vm") >>

map_pt_main ==
  << memset(PageA, CharB), memset(PageB, CharS),
     resolve("secret", PageB), resolve("target", PageA),
     pmap("target", "PMD", TRUE), expect_entry(PmapVa, PageA, "target"),
     store_pfn(PmapVa, PageA, "secret"), invalidate(PageA), expect(PageA, CharS),
     store(PmapVa, PageA, "target") >>

MapPtManualSwapped ==      \* erroneous: the mapping is reset before the entry
  << memset(PageP, CharA), memset(PageA, CharB), memset(PageB, CharS),
     resolve("secret", PageB), resolve("target", PageA), resolve("pt", PageP),
     redirect(PageP, "pt", "target", "PMD"), expect_entry(PageP, PageA, "target"),
     store_pfn(PageP, PageA, "secret"), invalidate(PageA), expect(PageA, CharS),
     update(PageP, "pt", "PTE"), store(PageP, PageA, "target") >>

map_pt_manual_main ==
  << memset(PageP, CharA), memset(PageA, CharB), memset(PageB, CharS),
     resolve("secret", PageB), resolve("target", PageA), resolve("pt", PageP),
     redirect(PageP, "pt", "target", "PMD"), expect_entry(PageP, PageA, "target"),
     store_pfn(PageP, PageA, "secret"), invalidate(PageA), expect(PageA, CharS),
     store(PageP, PageA, "target"), update(PageP, "pt", "PTE") >>

uncachable_main ==
  << memset(PageP, CharA), resolve("entry", PageP),
     retype(PageP, "entry", "PTE", MT_UC), expect_type(PageP, MT_UC),
     retype(PageP, "entry", "PTE", MT_WB), expect_type(PageP, MT_WB),
     mmap_huge, resolve("huge", Huge), copy("original", "huge"),
     retype(Huge, "huge", "PMD", MT_UC), expect_type(Huge, MT_UC),
     update(Huge, "original", "PMD"), expect_type(Huge, MT_WB) >>

virt2phys_main ==
  << memset(Target, CharX), resolve("entry", Target), virt2phys("entry", Target, {3}) >>

performance_main ==
  << memset(Target, CharX), resolve("entry", Target),
     resolve_user("entry_us", Target), same("entry", "entry_us"),
     resolve_user("entry_us", Target), same("entry", "entry_us") >>

memmap_main == << memmap >>

Code ==
  [example |-> example_main, map_pt |-> map_pt_main, map_pt_manual |-> map_pt_manual_main,
   uncachable |-> uncachable_main, virt2phys |-> virt2phys_main,
   performance |-> performance_main, memmap |-> memmap_main]

-----------------------------------------------------------------------------

VARIABLES
  mem,                  \* slot |-> word: page tables and pages
  tlb,                  \* cpu |-> address |-> cached translation, <<>> for none
  cpu,                  \* where the program runs
  umem,                 \* /proc/umem exists
  pat,                  \* the PAT register
  prog, code,           \* the program and its instructions
  pc,                   \* the next instruction; 0: crashed
  env,                  \* its ptedit_entry_t variables: level |-> entry
  failed,               \* the checks that failed
  unflushed,            \* history: addresses whose entries the program stored
                        \* to without a flush since
  work,                 \* memmap: tables left to read, [level, frame, base]
  pages, mem_usage,     \* memmap: the pages listed and their size in KB
  ever, always,         \* history: pages mapped at some time, all the time
  changes               \* number of changes made by the kernel

mapVars == <<work, pages, mem_usage, ever, always, changes>>
fixed == <<umem, pat, prog, code>>
vars == <<mem, tlb, cpu, fixed, pc, env, failed, unflushed, mapVars>>

\* The pages a process has, as the CPU sees them.
MappedPages(m) == {a \in Vas : Translation(m, Root, a) # <<>>}

Init ==
  /\ mem = InitMem
  /\ tlb = [c \in Cpus |-> [a \in Vas |-> <<>>]]
  /\ cpu \in Cpus
  /\ umem \in BOOLEAN /\ pat \in Pats
  /\ prog \in Programs /\ code = Code[prog] /\ pc = 1
  /\ env = <<>>
  /\ failed = {} /\ unflushed = {}
  /\ work = {} /\ pages = {} /\ mem_usage = 0
  /\ ever = MappedPages(InitMem) /\ always = MappedPages(InitMem)
  /\ changes = 0

Running == pc \in DOMAIN code
Op == code[pc]
Execute(name) == Running /\ Op.op = name /\ pc' = pc + 1
End == Len(code) + 1

-----------------------------------------------------------------------------
(* Memory as the program sees it (external: the CPU) *)

\* An access uses the cached translation; a missing one is filled in first
\* (TlbFill below), unless the address is not mapped.
Accessible(va) == tlb[cpu][va] # <<>>
NotMapped(va) == ~Accessible(va) /\ Translation(mem, Root, va) = <<>>
LeafLevel(tr) == IF "PTE" \in DOMAIN tr THEN "PTE" ELSE "PMD"
PageFrame(tr) ==
  IF "PTE" \in DOMAIN tr THEN FrameOf(tr["PTE"]) ELSE Shl(Field(tr["PMD"], 21, 31), 9)
FrameAt(va) == PageFrame(tlb[cpu][va])
Fill(m, frame, word) == [s \in DOMAIN m |-> IF s[1] = frame THEN word ELSE m[s]]
WordAt(va, index) == Deref(mem, <<FrameAt(va), index>>)
TypeAt(va) ==
  LET tr == tlb[cpu][va]
      id == IF "PTE" \in DOMAIN tr THEN ptedit_extract_mt(tr["PTE"])
                                   ELSE ptedit_extract_mt_huge(tr["PMD"])
  IN  MtValue(pat, IdOf(id))

\* Writing marks the page accessed and dirty.
Memset ==
  /\ Execute("memset") /\ Accessible(Op.va)
  /\ LET leaf == Path(mem, Root, Op.va)[LeafLevel(tlb[cpu][Op.va])]
     IN mem' = [Fill(mem, FrameAt(Op.va), Op.word) EXCEPT ![leaf] = @ \cup {ACCESSED, DIRTY}]
  /\ UNCHANGED <<tlb, cpu, fixed, env, failed, unflushed, mapVars>>

Check(ok) ==
  /\ failed' = IF ok THEN failed ELSE failed \cup {pc}
  /\ UNCHANGED <<mem, tlb, cpu, fixed, env, unflushed, mapVars>>

Expect == Execute("expect") /\ Accessible(Op.va) /\ Check(WordAt(Op.va, {}) = Op.word)
ExpectType == Execute("expect_type") /\ Accessible(Op.va) /\ Check(TypeAt(Op.va) = Op.word)

\* The index of an address in its page table: bits 12 to 20.
ExpectEntry ==
  /\ Execute("expect_entry") /\ Accessible(Op.at)
  /\ Check(WordAt(Op.at, Index(Op.va, "PTE")) = env[Op.x]["PTE"])

\* Without /proc/umem what ptedit_pmap returns, and the mapping that
\* ptedit_use_implementation keeps, is MAP_FAILED; the programs use both
\* without a test.
Crash ==
  /\ Running
  /\ \/ Op.op = "expect" /\ NotMapped(Op.va)
     \/ Op.op = "expect_entry" /\ NotMapped(Op.at)
     \/ Op.op = "resolve_user" /\ ~umem
  /\ pc' = 0
  /\ UNCHANGED <<mem, tlb, cpu, fixed, env, failed, unflushed, mapVars>>

StoreEntry(e) ==
  LET s == <<FrameAt(Op.at), Index(Op.va, "PTE")>> IN
  /\ mem' = [mem EXCEPT ![s] = e]
  /\ unflushed' = unflushed \cup {a \in Vas : Path(mem, Root, a)["PTE"] = s}
  /\ UNCHANGED <<tlb, cpu, fixed, env, failed, mapVars>>

Store == Execute("store") /\ Accessible(Op.at) /\ StoreEntry(env[Op.x]["PTE"])
StorePfn ==
  /\ Execute("store_pfn") /\ Accessible(Op.at)
  /\ StoreEntry(ptedit_set_pfn(WordAt(Op.at, Index(Op.va, "PTE")),
                               ptedit_get_pfn(env[Op.y]["PTE"])))

-----------------------------------------------------------------------------
(* The library.  Only this process edits these tables, so a call is a step. *)

Assign(x, found) ==
  /\ env' = [y \in DOMAIN env \cup {x} |-> IF y = x THEN found ELSE env[y]]
  /\ UNCHANGED <<mem, tlb, cpu, fixed, failed, unflushed, mapVars>>

ptedit_resolve(va) ==
  LET w == KernelWalk(mem, Root, va) IN [l \in DOMAIN w |-> Deref(mem, w[l])]

\* ptedit_resolve_user_ext, all of its reads at once.
ptedit_resolve_user(va) ==
  LET Visit(walk, l) ==
        LET e == Deref(mem, Slot(walk.frame, va, l)) IN
        IF walk.next # l THEN walk
        ELSE [vm |-> UserReport(walk.vm, l, e), frame |-> ptedit_cast_pfn(e),
              next |-> UserNextLevel(l, e)]
      start == [vm |-> <<>>, frame |-> Root, next |-> "PGD"]
  IN  Visit(Visit(Visit(Visit(start, "PGD"), "PUD"), "PMD"), "PTE").vm

Resolve == Execute("resolve") /\ Assign(Op.x, ptedit_resolve(Op.va))
ResolveUser == Execute("resolve_user") /\ umem /\ Assign(Op.x, ptedit_resolve_user(Op.va))
Copy == Execute("copy") /\ Assign(Op.y, env[Op.x])

FlushHere(va) == [tlb EXCEPT ![cpu][va] = <<>>]   \* erroneous: on this CPU only
\* Both invalidations reach every CPU.
Flush(va) == [c \in Cpus |-> [tlb[c] EXCEPT ![va] = <<>>]]

UpdateNoFlush(va, l, e) == \* erroneous: the TLB is not flushed
  LET w == KernelWalk(mem, Root, va) IN
  /\ mem' = IF l \in DOMAIN w THEN [mem EXCEPT ![w[l]] = e] ELSE mem
  /\ UNCHANGED <<tlb, unflushed, cpu, fixed, failed, mapVars>>

\* ptedit_update with one valid level, which is written if it exists.
ptedit_update(va, l, e) ==
  LET w == KernelWalk(mem, Root, va) IN
  /\ mem' = IF l \in DOMAIN w THEN [mem EXCEPT ![w[l]] = e] ELSE mem
  /\ tlb' = Flush(va)
  /\ unflushed' = unflushed \ {va}
  /\ UNCHANGED <<cpu, fixed, failed, mapVars>>

Update ==
  /\ Execute("update")
  /\ ptedit_update(Op.va, Op.level, env[Op.x][Op.level])
  /\ UNCHANGED env

Redirect ==
  /\ Execute("redirect")
  /\ ptedit_update(Op.va, "PTE",
       ptedit_set_pfn(env[Op.x]["PTE"], ptedit_get_pfn(env[Op.y][Op.level])))
  /\ UNCHANGED env

PteSetPfn ==
  /\ Execute("pte_set_pfn")
  /\ LET found == ptedit_resolve(Op.va) IN
       IF "PTE" \in DOMAIN found
         THEN ptedit_update(Op.va, "PTE",
                ptedit_set_pfn(found["PTE"], ptedit_get_pfn(env[Op.x]["PTE"])))
         ELSE UNCHANGED <<mem, tlb, unflushed, cpu, fixed, failed, mapVars>>
  /\ UNCHANGED env

Retype ==
  LET id == ptedit_find_first_mt(pat, Op.word)
      e == env[Op.x][Op.level]
      new == IF Op.level = "PTE" THEN ptedit_apply_mt(e, IdBits(id))
                                 ELSE ptedit_apply_mt_huge(e, IdBits(id))
  IN  /\ Execute("retype") /\ id # -1
      /\ ptedit_update(Op.va, Op.level, new)
      /\ env' = [env EXCEPT ![Op.x][Op.level] = new]

\* Without an attribute of the type, or without a huge page, uncachable ends.
GiveUp ==
  /\ Running
  /\ \/ Op.op = "retype" /\ ptedit_find_first_mt(pat, Op.word) = -1
     \/ Op.op = "mmap_huge"
  /\ pc' = End
  /\ UNCHANGED <<mem, tlb, cpu, fixed, env, failed, unflushed, mapVars>>
MmapHuge ==
  /\ Execute("mmap_huge")
  /\ UNCHANGED <<mem, tlb, cpu, fixed, env, failed, unflushed, mapVars>>

Invalidate ==
  /\ Execute("invalidate")
  /\ tlb' = Flush(Op.va)
  /\ unflushed' = unflushed \ {Op.va}
  /\ UNCHANGED <<mem, cpu, fixed, env, failed, mapVars>>

\* ptedit_set_paging_root(0, ptedit_get_paging_root(0)) between fences: the
\* root is written back as it was read.
Barrier ==
  /\ Execute("barrier")
  /\ UNCHANGED <<mem, tlb, cpu, fixed, env, failed, unflushed, mapVars>>

\* ptedit_pmap maps the page through /proc/umem; without that file mmap fails.
\* The frame number comes from ptedit_get_pfn or from the bit field.
Pmap ==
  LET e == env[Op.x][Op.level]
      frame == IF Op.cast THEN ptedit_cast_pfn(e) ELSE ptedit_get_pfn(e)
      s == Path(mem, Root, PmapVa)["PTE"]
  IN  /\ Execute("pmap")
      /\ mem' = IF umem THEN [mem EXCEPT ![s] = ptedit_set_pfn({PRESENT, RW, USER}, frame)]
                        ELSE mem
      /\ UNCHANGED <<tlb, cpu, fixed, env, failed, unflushed, mapVars>>

\* Through /proc/umem, or READ_PAGE and WRITE_PAGE if it is missing: the same
\* page either way.
ReadPage ==
  /\ Execute("read_page")
  /\ Check(Deref(mem, <<ptedit_get_pfn(env[Op.x]["PTE"]), {}>>) = Op.word)

WritePage ==
  /\ Execute("write_page")
  /\ mem' = Fill(mem, ptedit_get_pfn(env[Op.x]["PTE"]), Op.word)
  /\ UNCHANGED <<tlb, cpu, fixed, env, failed, unflushed, mapVars>>

-----------------------------------------------------------------------------
(* demos/performance.c and demos/virt2phys.c *)

\* The differences are collected in an int.
is_same(e1, e2) ==
  \A l \in DOMAIN e1 \cap DOMAIN e2 : e1[l] \cap IntBits = e2[l] \cap IntBits

Same == Execute("same") /\ Check(is_same(env[Op.x], env[Op.y]))

is_normal_page(entry) == PSE \notin entry

Virt2Phys ==
  LET e == env[Op.x]
      va == Op.va \cup Op.offset
      phys == IF is_normal_page(e["PMD"])
                THEN Shl(ptedit_get_pfn(e["PTE"]), 12) \cup (va \cap Mask(0, 12))
                ELSE Shl(ptedit_get_pfn(e["PMD"]), 21) \cup (va \cap Mask(0, 21))
      tr == Translation(mem, Root, Op.va)
      size == IF LeafLevel(tr) = "PTE" THEN 12 ELSE 21
  IN  /\ Execute("virt2phys")
      /\ Check(phys = Shl(PageFrame(tr), 12) \cup (va \cap Mask(0, size)))

-----------------------------------------------------------------------------
(* demos/memmap.c: a table is copied as a page; the tables its entries name *)
(* are read later, here in any order.                                       *)

Below == [PGD |-> "PUD", PUD |-> "PMD", PMD |-> "PTE"]

Memmap ==
  /\ Running /\ Op.op = "memmap" /\ pages = {} /\ work = {}
  /\ work' = {[level |-> "PGD", frame |-> Root, base |-> {}]}
  /\ UNCHANGED <<mem, tlb, cpu, fixed, pc, env, failed, unflushed,
                 pages, mem_usage, ever, always, changes>>

\* The present entries of a page; of the first level only the lower half.
Entries(t) ==
  {s \in DOMAIN mem : /\ s[1] = t.frame /\ Present(mem[s])
                      /\ t.level = "PGD" => 8 \notin s[2]}

NoLargePages(t, s) == t.level = "PTE"   \* erroneous: every PMD taken for a table
\* A PMD entry of a 2 MB page ends the walk, like every PTE.
Lists(t, s) ==
  \/ t.level = "PTE"
  \/ t.level = "PMD" /\ ~is_normal_page(mem[s])

ReadTable(t) ==
  LET Base(s) == t.base \cup Shl(s[2], LevelShift[t.level])
      listed == {s \in Entries(t) : Lists(t, s)}
      tables == {[level |-> Below[t.level], frame |-> ptedit_get_pfn(mem[s]), base |-> Base(s)] :
                   s \in Entries(t) \ listed}
  IN  /\ t \in work
      /\ work' = (work \ {t}) \cup tables
      /\ pages' = pages \cup {Base(s) : s \in listed}
      /\ mem_usage' = mem_usage + Cardinality(listed) * (IF t.level = "PTE" THEN 4 ELSE 2048)
      /\ pc' = IF work' = {} THEN End ELSE pc
      /\ UNCHANGED <<mem, tlb, cpu, fixed, env, failed, unflushed, ever, always, changes>>

\* Meanwhile the kernel maps and unmaps pages and tables (external).
KernelChange(x) ==
  /\ work # {} /\ changes < MaxChanges
  /\ mem[x[1]] # x[2]
  /\ mem' = [mem EXCEPT ![x[1]] = x[2]]
  /\ changes' = changes + 1
  /\ ever' = ever \cup MappedPages(mem')
  /\ always' = always \cap MappedPages(mem')
  /\ UNCHANGED <<tlb, cpu, fixed, pc, env, failed, unflushed, work, pages, mem_usage>>

-----------------------------------------------------------------------------
(* The machine (external) *)

\* Addresses the program uses, of which CPUs may cache translations.
Touched ==
  UNION {{code[i][f] : f \in {"va", "at"} \cap DOMAIN code[i]} : i \in DOMAIN code}

TlbFill(c, va) ==
  LET w == CpuWalk(mem, Root, va) IN
  /\ Running /\ va \in Touched
  /\ tlb[c][va] = <<>> /\ Translation(mem, Root, va) # <<>>
  /\ tlb' = [tlb EXCEPT ![c][va] = Translation(mem, Root, va)]
  /\ mem' = [s \in DOMAIN mem |->
               IF \E l \in DOMAIN w : w[l] = s THEN mem[s] \cup {ACCESSED} ELSE mem[s]]
  /\ UNCHANGED <<cpu, fixed, pc, env, failed, unflushed, mapVars>>

TlbEvict(c, va) ==
  /\ Running /\ tlb[c][va] # <<>>
  /\ tlb' = [tlb EXCEPT ![c][va] = <<>>]
  /\ UNCHANGED <<mem, cpu, fixed, pc, env, failed, unflushed, mapVars>>

Migrate(c) ==
  /\ Running /\ prog # "memmap" /\ c # cpu
  /\ cpu' = c
  /\ UNCHANGED <<mem, tlb, fixed, pc, env, failed, unflushed, mapVars>>

Instruction ==
  \/ Memset \/ Expect \/ ExpectType \/ ExpectEntry \/ Crash \/ Store \/ StorePfn
  \/ Resolve \/ ResolveUser \/ Copy \/ Update \/ Redirect \/ PteSetPfn \/ Retype
  \/ GiveUp \/ MmapHuge \/ Invalidate \/ Barrier \/ Pmap \/ ReadPage \/ WritePage
  \/ Same \/ Virt2Phys \/ Memmap

Next ==
  \/ Instruction
  \/ \E t \in work : ReadTable(t)
  \/ \E x \in Changes : KernelChange(x)
  \/ \E c \in Cpus : Migrate(c) \/ \E va \in Vas : TlbFill(c, va) \/ TlbEvict(c, va)

Spec == Init /\ [][Next]_vars

-----------------------------------------------------------------------------
(* Properties *)

\* The programs never print "Fail!", "Something went wrong..." or "Kernel and
\* user-space resolver do not agree!", whatever the TLBs hold and wherever the
\* program is moved between an edit and the access that shows it; the mappings
\* of uncachable are what it says they should now be; and a program dies only
\* where /proc/umem is missing.
ChecksOk == failed = {} /\ (pc = 0 => ~umem)

\* A program leaves the address space as it found it: after "Resetting PFN of
\* address" (example.c:114), "reset mapping" (demos/map_pt_manual.c:73) and
\* "Mapping should now be cachable again" (demos/uncachable.c:190) every page
\* is where it was.
ProgramsUndo ==
  pc = End /\ prog # "memmap" =>
    \A a \in Vas \ {PmapVa} : Translation(mem, Root, a) = Translation(InitMem, Root, a)

\* A cached translation differs from the tables only where the program wrote
\* an entry through a mapping of its page table and has not flushed since.
StaleOnlyOwnStores ==
  \A c \in Cpus, a \in Vas :
    tlb[c][a] \notin {<<>>, Translation(mem, Root, a)} => a \in unflushed

\* memmap "iterates through all page tables of all levels" (README.md:94):
\* while the kernel maps and unmaps pages and tables, it lists every page that
\* was mapped all the time and none that never was; the sum it prints is the
\* size of the pages it listed.
MemmapSandwich ==
  prog = "memmap" /\ pc = End =>
    /\ always \subseteq pages /\ pages \subseteq ever
    /\ mem_usage = 4 * Cardinality(pages \ {Huge}) + 2048 * Cardinality(pages \cap {Huge})
=============================================================================
