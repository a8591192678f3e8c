---------------------------- MODULE PTEditProofs ----------------------------
(***************************************************************************)
(* Proofs about concurrent edits of page tables, for any number of threads *)
(* and processes, any page tables and any calls that change what tables    *)
(* point to nowhere but in the last level.                                 *)
(*                                                                         *)
(* The argument: such calls never change, in an entry above the last       *)
(* level, the bits K of which the path of an address is made up.  So the   *)
(* path stays what it was at the start, whatever the threads read and      *)
(* write in whatever order and with whatever implementation.  The second   *)
(* part, about the calls of PTCalls, follows both walks along that path.   *)
(***************************************************************************)
EXTENDS PTCalls, PTEntryLemmas, SequenceTheorems, TLAPS

UpperLevels == Levels \ {"PTE"}

\* The bits of an entry that hold a frame number, and the bits that a TLB
\* entry keeps.
FrameBits == 12..51
CachedBits == Bits \ {ACCESSED, DIRTY}

\* The root and the path of a call's address at the start.
R(c) == InitRoot[Target(c)]
InitPath(c) == Path(InitMem, R(c), c.va)

\* The roots a process can have.
RootsOf(p) == {InitRoot[p]} \cup {x[2] : x \in {y \in RootSwitches : y[1] = p}}

\* The calls for a process that exists.
MmCalls == {c \in Calls : R(c) # {}}

\* The roots and addresses of the walks that calls and CPUs make, and the
\* slots above the last level on their paths.
Walks == {<<R(c), c.va>> : c \in MmCalls}
         \cup UNION {RootsOf(x[1]) \X {x[2]} : x \in Touched}
Upper == UNION {{Path(InitMem, w[1], w[2])[l] : l \in UpperLevels} : w \in Walks}

\* An entry that may be written to a level of a call's address: above the
\* last level it has the bits in K that were there at the start.
Keeps(K, c, l, e) ==
  /\ e \in Word
  /\ l \in UpperLevels => e \cap K = Deref(InitMem, InitPath(c)[l]) \cap K

\* Entries found so far or to be written.
Good(K, c, f) ==
  \A l \in DOMAIN f : l \in Levels /\ c \in MmCalls /\ Keeps(K, c, l, f[l])

-----------------------------------------------------------------------------
(* Hypotheses *)

\* A page table is no directory on another path.
TablesNested ==
  \A c \in MmCalls : InitPath(c)["PTE"] \in DOMAIN InitMem => InitPath(c)["PTE"] \notin Upper

\* Tables lie below 1 TiB where the library walks them itself (the pfn field
\* of its structures has 28 bits).
TablesLow ==
  "USER" \in Impls =>
    \A c \in MmCalls, l \in UpperLevels : FrameOf(Deref(InitMem, InitPath(c)[l])) \subseteq 0..27

\* Above the last level, calls change none of the bits in K.
CallsKeep(K) ==
  \A c \in Calls :
    /\ c.fn = "update" /\ c \in MmCalls => Good(K, c, c.arg)
    /\ c.fn \in LevelFns => c.levels \cap UpperLevels \subseteq {"P4D"} \/ c.arg \notin K

\* No process that is edited is given another root.
RootsFixed == \A x \in RootSwitches, c \in Calls : x[1] # Target(c)

Editing(K) == TablesNested /\ TablesLow /\ CallsKeep(K) /\ RootsFixed

\* No two addresses that are used share their last entry.
NoAliases ==
  \A c \in MmCalls, x \in Touched :
    x # <<Target(c), c.va>> /\ InitPath(c)["PTE"] \in DOMAIN InitMem =>
      \A r \in RootsOf(x[1]) : InitPath(c)["PTE"] # Path(InitMem, r, x[2])["PTE"]

\* The flush reaches the process that is edited.
FlushReaches == \A c \in MmCalls : Target(c) = Self \/ TlbModes = {"CUSTOM"}

-----------------------------------------------------------------------------
(* The inductive invariant *)

Places == {"idle", "resolve", "copy", "walk", "update", "slots", "write", "flush", "return"}

TypeOK ==
  /\ mem \in [DOMAIN InitMem -> Word]
  /\ root \in [Procs -> Word] /\ cr3 \in [Procs -> Word]
  /\ tlb = [p \in Procs |-> [a \in Vas |-> tlb[p][a]]]
  /\ impl \in Impls /\ invalidate_tlb \in TlbModes
  /\ pc \in [Threads -> Places]
  /\ call = [t \in Threads |-> call[t]]
  /\ cur = [t \in Threads |-> cur[t]]
  /\ vm = [t \in Threads |-> vm[t]]
  /\ nested \in [Threads -> BOOLEAN]
  /\ slots = [t \in Threads |-> slots[t]]
  /\ level = [t \in Threads |-> level[t]]
  /\ frame = [t \in Threads |-> frame[t]]
  /\ todo = [t \in Threads |-> todo[t]]

RootInv ==
  /\ \A c \in Calls : root[Target(c)] = R(c)
  /\ \A p \in Procs : root[p] \in RootsOf(p) /\ cr3[p] \in RootsOf(p)
  /\ impl = "USER" => \A c \in Calls : c.pid = Own => ptedit_paging_root = R(c)

\* Above the last level entries keep the bits in K.
MemInv(K) == \A s \in Upper : Deref(mem, s) \cap K = Deref(InitMem, s) \cap K

\* The levels the library's walk has reported are those of the tables it came
\* through.
Chain(f) ==
  /\ DOMAIN f \subseteq CpuLevels
  /\ "PUD" \in DOMAIN f => "PGD" \in DOMAIN f
  /\ "PMD" \in DOMAIN f => "PUD" \in DOMAIN f
  /\ "PTE" \in DOMAIN f => "PMD" \in DOMAIN f

\* What that walk has reported when it gets to level l.
Reported(f, l) == DOMAIN f = Above[l] \ {"P4D"}

GoodWrites(K, c) ==
  {w \in [slot : {InitPath(c)[l] : l \in Levels}, val : Word, level : Levels] :
     w.slot = InitPath(c)[w.level] /\ Keeps(K, c, w.level, w.val)}

\* What holds of the call and the locals of a thread at each place.
ThreadInv(K, t) ==
  LET c == call[t] IN
  /\ pc[t] # "idle" => c \in Calls
  /\ nested[t] => pc[t] \in {"resolve", "walk", "slots"} /\ impl = "USER"
  /\ pc[t] \in {"resolve", "walk", "copy"} /\ ~nested[t] => c.fn # "update"
  /\ pc[t] = "copy" => \A l \in DOMAIN slots[t] :
                         l \in Levels /\ c \in MmCalls /\ slots[t][l] = InitPath(c)[l]
  /\ pc[t] = "walk" => /\ impl = "USER" /\ c \in MmCalls
                       /\ level[t] \in CpuLevels
                       /\ Slot(frame[t], c.va, level[t]) = InitPath(c)[level[t]]
                       /\ Reported(cur[t], level[t])
                       /\ Good(K, c, cur[t])
  /\ pc[t] = "slots" => /\ impl = "USER" /\ nested[t]
                        /\ Chain(cur[t]) /\ Good(K, c, cur[t])
  /\ (pc[t] = "update" \/ nested[t]) /\ c \in MmCalls => Good(K, c, vm[t])
  /\ pc[t] = "write" => c \in MmCalls /\ todo[t] \in Seq(GoodWrites(K, c))
  /\ pc[t] # "write" => todo[t] = <<>>

EditInv(K) == TypeOK /\ RootInv /\ MemInv(K) /\ \A t \in Threads : ThreadInv(K, t)

\* Besides, what the TLBs hold.
TlbInv ==
  \A p \in Procs, a \in Vas :
    tlb[p][a] # <<>> =>
      /\ <<p, a>> \in Touched
      /\ tlb[p][a] = Translation(mem, cr3[p], a) \/ Updating(p, a)

-----------------------------------------------------------------------------
(* Entries and paths *)

\* Bits that determine the path of an address and that no CPU raises.
PathBits(K) == FrameBits \subseteq K /\ ACCESSED \notin K

\* The frame number depends on the bits of its field only.
LEMMA FrameOfKept ==
  ASSUME NEW K, PathBits(K), NEW e, NEW f, e \cap K = f \cap K
  PROVE  FrameOf(e) = FrameOf(f)
<1>1. ASSUME NEW x PROVE x \in FrameOf(e) <=> x \in FrameOf(f)
  <2>1. x \in 0..39 => x + 12 \in K
    BY DEF PathBits, FrameBits
  <2>2. x \in 0..39 => (x + 12 \in e <=> x + 12 \in f)
    BY <2>1
  <2> QED BY <2>2, FieldBits DEF FrameOf
<1> QED BY <1>1

LEMMA UpperSlots ==
  ASSUME NEW w \in Walks, NEW l \in UpperLevels
  PROVE  Path(InitMem, w[1], w[2])[l] \in Upper
BY DEF Upper

LEMMA CallSlots ==
  ASSUME NEW c \in MmCalls
  PROVE  /\ <<R(c), c.va>> \in Walks
         /\ \A l \in UpperLevels : InitPath(c)[l] \in Upper
<1>1. <<R(c), c.va>> \in Walks
  BY DEF Walks
<1> QED BY <1>1, UpperSlots DEF InitPath

\* Memory that agrees with the initial one above the last level has the same
\* paths.
LEMMA PathFixed ==
  ASSUME NEW K, PathBits(K), NEW m, NEW r, NEW va, <<r, va>> \in Walks,
         \A s \in Upper : Deref(m, s) \cap K = Deref(InitMem, s) \cap K
  PROVE  Path(m, r, va) = Path(InitMem, r, va)
<1> DEFINE P == Path(m, r, va)
           Q == Path(InitMem, r, va)
<1>1. \A l \in UpperLevels : Q[l] \in Upper
  BY UpperSlots
<1>2. \A l \in UpperLevels : FrameOf(Deref(m, Q[l])) = FrameOf(Deref(InitMem, Q[l]))
  BY <1>1, FrameOfKept
<1>3. /\ "PGD" \in UpperLevels /\ "PUD" \in UpperLevels /\ "PMD" \in UpperLevels
      /\ Levels = {"PGD", "P4D", "PUD", "PMD", "PTE"}
  BY DEF UpperLevels, Levels
<1>4. /\ DOMAIN P = Levels
      /\ P["PGD"] = Slot(r, va, "PGD") /\ P["P4D"] = P["PGD"]
      /\ P["PUD"] = Slot(FrameOf(Deref(m, P["PGD"])), va, "PUD")
      /\ P["PMD"] = Slot(FrameOf(Deref(m, P["PUD"])), va, "PMD")
      /\ P["PTE"] = Slot(FrameOf(Deref(m, P["PMD"])), va, "PTE")
  BY PathLevels
<1>5. /\ DOMAIN Q = Levels
      /\ Q["PGD"] = Slot(r, va, "PGD") /\ Q["P4D"] = Q["PGD"]
      /\ Q["PUD"] = Slot(FrameOf(Deref(InitMem, Q["PGD"])), va, "PUD")
      /\ Q["PMD"] = Slot(FrameOf(Deref(InitMem, Q["PUD"])), va, "PMD")
      /\ Q["PTE"] = Slot(FrameOf(Deref(InitMem, Q["PMD"])), va, "PTE")
  BY PathLevels
<1> HIDE DEF P, Q
<1>6. P["PGD"] = Q["PGD"] /\ P["P4D"] = Q["P4D"]
  BY <1>4, <1>5
<1>7. P["PUD"] = Q["PUD"]
  BY <1>2, <1>3, <1>4, <1>5, <1>6
<1>8. P["PMD"] = Q["PMD"]
  BY <1>2, <1>3, <1>4, <1>5, <1>7
<1>9. P["PTE"] = Q["PTE"]
  BY <1>2, <1>3, <1>4, <1>5, <1>8
<1>10. P = [l \in Levels |-> P[l]] /\ Q = [l \in Levels |-> Q[l]]
  <2>1. Path(m, r, va) = [l \in Levels |-> Path(m, r, va)[l]]
    BY DEF Path, Levels
  <2>2. Path(InitMem, r, va) = [l \in Levels |-> Path(InitMem, r, va)[l]]
    BY DEF Path, Levels
  <2> QED BY <2>1, <2>2 DEF P, Q
<1>11. \A l \in Levels : P[l] = Q[l]
  BY <1>3, <1>6, <1>7, <1>8, <1>9
<1>12. P = Q
  BY <1>10, <1>11
<1> QED BY <1>12 DEF P, Q

-----------------------------------------------------------------------------
(* What calls read, modify and write *)

\* An entry read from the path of a call may be written back there.
LEMMA FoundKeeps ==
  ASSUME NEW K, TypeOK, MemInv(K), NEW c \in MmCalls, NEW l \in Levels
  PROVE  Keeps(K, c, l, Deref(mem, InitPath(c)[l]))
<1>1. Deref(mem, InitPath(c)[l]) \in Word
  BY DerefValue DEF TypeOK
<1> QED BY <1>1, CallSlots DEF MemInv, Keeps

\* A modified entry may be written where the unmodified one came from.
LEMMA EditKeeps ==
  ASSUME NEW K, CallsKeep(K), NEW c \in MmCalls, NEW l \in Levels, NEW e, Keeps(K, c, l, e),
         \/ c.fn \in PteFns /\ l = "PTE"
         \/ c.fn \in LevelFns /\ l \in c.levels \ {"P4D"}
  PROVE  Keeps(K, c, l, Edit(c, e))
<1>1. c \in Calls /\ e \in Word
  BY DEF MmCalls, Keeps
<1>2. c.fn \in {"pte_set_bit", "pte_clear_bit"} \cup LevelFns => c.arg \in Bits
  BY <1>1, EditAssumption
<1>3. CASE c.fn = "pte_set_pfn"
  <2>1. Edit(c, e) = ptedit_set_pfn(e, c.arg)
    BY <1>3 DEF Edit
  <2>2. ptedit_set_pfn(e, c.arg) \in Word
    BY <1>1 DEF ptedit_set_pfn, Shl, Word
  <2>3. l = "PTE"
    BY <1>3 DEF LevelFns
  <2> QED BY <2>1, <2>2, <2>3 DEF Keeps, UpperLevels
<1>4. CASE c.fn \in {"pte_set_bit", "set_bit", "pte_clear_bit", "clear_bit"}
  <2>1. Edit(c, e) \in {e \cup {c.arg}, e \ {c.arg}}
    BY <1>4 DEF Edit
  <2>2. Edit(c, e) \in Word
    BY <1>1, <1>2, <1>4, <2>1 DEF Word, LevelFns
  <2>3. l \in UpperLevels => c.arg \notin K
    BY <1>1, <1>4 DEF CallsKeep, UpperLevels, PteFns, LevelFns
  <2> QED BY <2>1, <2>2, <2>3 DEF Keeps
<1> QED BY <1>3, <1>4 DEF PteFns, LevelFns

LEMMA ModifiedGood ==
  ASSUME NEW K, CallsKeep(K), NEW c \in MmCalls, NEW f, Good(K, c, f),
         c.fn \in PteFns \cup LevelFns, c.fn \in PteFns => "PTE" \in DOMAIN f
  PROVE  Good(K, c, Modified(c, f))
<1>1. CASE c.fn \in PteFns
  <2>1. Modified(c, f) = [l \in {"PTE"} |-> Edit(c, f[l])]
    BY <1>1 DEF Modified
  <2>2. Keeps(K, c, "PTE", Edit(c, f["PTE"]))
    BY <1>1, EditKeeps DEF Good, Levels
  <2> QED BY <2>1, <2>2 DEF Good, Levels
<1>2. CASE c.fn \in LevelFns
  <2>1. Modified(c, f) = [l \in DOMAIN f |-> IF l \in c.levels \ {"P4D"}
                                               THEN Edit(c, f[l]) ELSE f[l]]
    BY <1>2 DEF Modified, PteFns, LevelFns
  <2>2. ASSUME NEW l \in DOMAIN f
        PROVE  Keeps(K, c, l, Modified(c, f)[l]) /\ l \in Levels
    BY <1>2, <2>1, <2>2, EditKeeps DEF Good
  <2>3. DOMAIN Modified(c, f) = DOMAIN f
    BY <2>1
  <2> QED BY <2>2, <2>3 DEF Good
<1> QED BY <1>1, <1>2

\* The writes that follow from entries found on the path of a call.
LEMMA WriteAtGood ==
  ASSUME NEW K, NEW c \in MmCalls, NEW old, NEW new, Good(K, c, new),
         \A l \in DOMAIN old : old[l] = InitPath(c)[l], NEW l \in Levels
  PROVE  WriteAt(l, old, new) \in Seq(GoodWrites(K, c))
<1>1. CASE l \in DOMAIN old \cap DOMAIN new
  <2>1. Keeps(K, c, l, new[l]) /\ new[l] \in Word
    BY <1>1 DEF Good, Keeps
  <2>2. [slot |-> old[l], val |-> new[l], level |-> l] \in GoodWrites(K, c)
    BY <1>1, <2>1 DEF GoodWrites
  <2> QED BY <1>1, <2>2 DEF WriteAt
<1>2. CASE l \notin DOMAIN old \cap DOMAIN new
  BY <1>2 DEF WriteAt
<1> QED BY <1>1, <1>2

LEMMA WritesGood ==
  ASSUME NEW K, NEW c \in MmCalls, NEW old, NEW new, Good(K, c, new),
         \A l \in DOMAIN old : old[l] = InitPath(c)[l]
  PROVE  /\ WritesDown(old, new) \in Seq(GoodWrites(K, c))
         /\ WritesUp(old, new) \in Seq(GoodWrites(K, c))
<1>1. \A l \in Levels : WriteAt(l, old, new) \in Seq(GoodWrites(K, c))
  BY WriteAtGood
<1>2. \A x, y \in Seq(GoodWrites(K, c)) : x \o y \in Seq(GoodWrites(K, c))
  OBVIOUS
<1>3. Levels = {"PGD", "P4D", "PUD", "PMD", "PTE"}
  BY DEF Levels
<1> DEFINE S == Seq(GoodWrites(K, c))
           W(l) == WriteAt(l, old, new)
<1>4. /\ W("PGD") \in S /\ W("P4D") \in S /\ W("PUD") \in S /\ W("PMD") \in S /\ W("PTE") \in S
  BY <1>1, <1>3
<1> HIDE DEF S, W
<1>5. /\ W("PGD") \o W("P4D") \o W("PUD") \o W("PMD") \o W("PTE") \in S
      /\ W("PTE") \o W("PMD") \o W("PUD") \o W("PGD") \in S
  <2>1. \A x, y \in S : x \o y \in S
    BY <1>2 DEF S
  <2> QED BY <1>4, <2>1
<1> QED BY <1>5 DEF WritesDown, WritesUp, S, W

\* The slots ptedit_update_user_ext computes from what it resolved lie on the
\* path of the call.
LEMMA UserSlotOnPath ==
  ASSUME NEW K, PathBits(K), TablesLow, "USER" \in Impls, NEW c \in MmCalls,
         NEW f, Good(K, c, f), Chain(f), NEW l \in DOMAIN f
  PROVE  UserSlot(f, R(c), c.va, l) = InitPath(c)[l]
<1>1. ASSUME NEW k \in DOMAIN f \cap UpperLevels
      PROVE  ptedit_cast_pfn(f[k]) = FrameOf(Deref(InitMem, InitPath(c)[k]))
  <2>1. FrameOf(f[k]) = FrameOf(Deref(InitMem, InitPath(c)[k]))
    BY FrameOfKept DEF Good, Keeps
  <2>2. FrameOf(f[k]) \subseteq 0..27
    BY <2>1 DEF TablesLow
  <2> QED BY <2>1, <2>2, CastIsFrame, EditAssumption
<1>2. /\ InitPath(c)["PGD"] = Slot(R(c), c.va, "PGD")
      /\ InitPath(c)["PUD"] = Slot(FrameOf(Deref(InitMem, InitPath(c)["PGD"])), c.va, "PUD")
      /\ InitPath(c)["PMD"] = Slot(FrameOf(Deref(InitMem, InitPath(c)["PUD"])), c.va, "PMD")
      /\ InitPath(c)["PTE"] = Slot(FrameOf(Deref(InitMem, InitPath(c)["PMD"])), c.va, "PTE")
  BY PathLevels DEF InitPath
<1>3. l \in {"PGD", "PUD", "PMD", "PTE"}
  BY DEF Chain, CpuLevels, Levels
<1>4. CASE l = "PGD"
  BY <1>2, <1>4 DEF UserSlot
<1>5. CASE l = "PUD"
  BY <1>1, <1>2, <1>5 DEF UserSlot, Chain, UpperLevels, Levels
<1>6. CASE l = "PMD"
  BY <1>1, <1>2, <1>6 DEF UserSlot, Chain, UpperLevels, Levels
<1>7. CASE l = "PTE"
  BY <1>1, <1>2, <1>7 DEF UserSlot, Chain, UpperLevels, Levels
<1> QED BY <1>3, <1>4, <1>5, <1>6, <1>7

-----------------------------------------------------------------------------
(* Steps of a thread *)

SameLocals(u) ==
  /\ pc'[u] = pc[u] /\ call'[u] = call[u] /\ cur'[u] = cur[u] /\ vm'[u] = vm[u]
  /\ nested'[u] = nested[u] /\ slots'[u] = slots[u] /\ level'[u] = level[u]
  /\ frame'[u] = frame[u] /\ todo'[u] = todo[u]

LEMMA SameThread ==
  ASSUME NEW K, NEW u, ThreadInv(K, u), SameLocals(u), impl' = impl
  PROVE  ThreadInv(K, u)'
BY DEF ThreadInv, SameLocals, Good, Keeps, Chain, Reported, GoodWrites

LEMMA RootsUnchanged ==
  ASSUME RootInv, UNCHANGED shared
  PROVE  RootInv'
BY DEF RootInv, shared

\* A step that changes neither tables nor roots, and no other thread's locals.
LEMMA LocalStep ==
  ASSUME NEW K, EditInv(K), NEW t \in Threads, UNCHANGED <<mem, shared>>,
         TypeOK', \A u \in Threads \ {t} : SameLocals(u), ThreadInv(K, t)'
  PROVE  EditInv(K)'
<1>1. RootInv'
  BY RootsUnchanged DEF EditInv
<1>2. MemInv(K)'
  BY DEF EditInv, MemInv
<1>3. ASSUME NEW u \in Threads PROVE ThreadInv(K, u)'
  <2>1. impl' = impl
    BY DEF shared
  <2> QED BY <2>1, SameThread DEF EditInv
<1> QED BY <1>1, <1>2, <1>3 DEF EditInv

\* The root the library works with is the root of the process.
LEMMA RootOfCall ==
  ASSUME NEW c \in Calls, RootInv
  PROVE  /\ root[Target(c)] = R(c)
         /\ HasMm(Target(c)) <=> c \in MmCalls
         /\ impl = "USER" => PagingRoot(c) = R(c)
BY DEF RootInv, HasMm, MmCalls, PagingRoot, Target

\* The path of a call is still what it was at the start.
LEMMA CallPath ==
  ASSUME NEW K, PathBits(K), MemInv(K), NEW c \in MmCalls
  PROVE  Path(mem, R(c), c.va) = InitPath(c)
<1>1. <<R(c), c.va>> \in Walks
  BY CallSlots
<1>2. \A s \in Upper : Deref(mem, s) \cap K = Deref(InitMem, s) \cap K
  BY DEF MemInv
<1>3. Path(mem, R(c), c.va) = Path(InitMem, R(c), c.va)
  BY <1>1, <1>2, PathFixed
<1> QED BY <1>3 DEF InitPath

\* The end of a resolve hands on entries that may be written back.
LEMMA ResolvedInv ==
  ASSUME NEW K, CallsKeep(K), TypeOK, NEW t \in Threads, NEW found, Resolved(t, found),
         ThreadInv(K, t), pc[t] \in {"resolve", "walk", "copy"}, Good(K, call[t], found),
         nested[t] => Chain(found),
         UNCHANGED <<call, nested, todo, impl>>
  PROVE  /\ ThreadInv(K, t)'
         /\ pc' \in [Threads -> Places]
         /\ cur' = [u \in Threads |-> cur'[u]] /\ vm' = [u \in Threads |-> vm'[u]]
         /\ \A u \in Threads \ {t} : pc'[u] = pc[u] /\ cur'[u] = cur[u] /\ vm'[u] = vm[u]
<1> DEFINE c == call[t]
           done == c.fn = "resolve" \/ (c.fn \in PteFns /\ "PTE" \notin DOMAIN found)
<1>1. c \in Calls /\ todo[t] = <<>> /\ c.fn \in Fns
  BY EditAssumption DEF ThreadInv
<1>2. CASE nested[t]
  <2>1. /\ pc' = [pc EXCEPT ![t] = "slots"] /\ cur' = [cur EXCEPT ![t] = found] /\ vm' = vm
    BY <1>2 DEF Resolved, Goto
  <2>2. pc'[t] = "slots" /\ cur'[t] = found
    BY <2>1 DEF TypeOK
  <2>3. ThreadInv(K, t)'
    BY <1>1, <1>2, <2>1, <2>2 DEF ThreadInv, Good, Keeps, Chain, TypeOK
  <2> QED BY <2>1, <2>3 DEF TypeOK, Places
<1>3. CASE ~nested[t] /\ done
  <2>1. /\ pc' = [pc EXCEPT ![t] = "return"] /\ cur' = [cur EXCEPT ![t] = found] /\ vm' = vm
    BY <1>3 DEF Resolved, Goto
  <2>2. pc'[t] = "return"
    BY <2>1 DEF TypeOK
  <2>3. ThreadInv(K, t)'
    BY <1>1, <1>3, <2>1, <2>2 DEF ThreadInv
  <2> QED BY <2>1, <2>3 DEF TypeOK, Places
<1>4. CASE ~nested[t] /\ ~done
  <2>1. /\ pc' = [pc EXCEPT ![t] = "update"] /\ cur' = [cur EXCEPT ![t] = <<>>]
        /\ vm' = [vm EXCEPT ![t] = Modified(c, found)]
    BY <1>4 DEF Resolved, Goto
  <2>2. pc'[t] = "update" /\ vm'[t] = Modified(c, found)
    BY <2>1 DEF TypeOK
  <2>3. c.fn \in PteFns \cup LevelFns
    BY <1>1, <1>4 DEF ThreadInv, Fns
  <2>4. c \in MmCalls => Good(K, c, Modified(c, found))
    BY <1>4, <2>3, ModifiedGood
  <2>5. ThreadInv(K, t)'
    BY <1>1, <1>4, <2>2, <2>4 DEF ThreadInv, Good, Keeps
  <2> QED BY <2>1, <2>5 DEF TypeOK, Places
<1> QED BY <1>2, <1>3, <1>4

LEMMA BeginInv ==
  ASSUME NEW K, CallsKeep(K), EditInv(K), NEW t \in Threads, NEW c \in Calls, Begin(t, c)
  PROVE  EditInv(K)'
<1>1. TypeOK /\ ThreadInv(K, t) /\ pc[t] = "idle" /\ todo[t] = <<>> /\ ~nested[t]
  BY DEF EditInv, Begin, ThreadInv
<1>2. call'[t] = c /\ pc'[t] \in {"resolve", "update"} /\ UNCHANGED <<mem, shared>>
  BY <1>1 DEF Begin, TypeOK, Goto
<1>3. TypeOK'
  BY <1>1 DEF Begin, TypeOK, Goto, Places, shared, walkVars
<1>4. \A u \in Threads \ {t} : SameLocals(u)
  BY <1>1 DEF Begin, TypeOK, Goto, SameLocals, walkVars
<1>5. ThreadInv(K, t)'
  <2>1. nested'[t] = nested[t] /\ todo'[t] = todo[t]
    BY DEF Begin, walkVars
  <2>2. CASE c.fn = "update"
    <3>1. pc'[t] = "update" /\ vm'[t] = c.arg
      BY <1>1, <2>2 DEF Begin, TypeOK, Goto
    <3>2. c \in MmCalls => Good(K, c, c.arg)
      BY <2>2 DEF CallsKeep
    <3> QED BY <1>1, <1>2, <2>1, <3>1, <3>2 DEF ThreadInv, Good, Keeps
  <2>3. CASE c.fn # "update"
    <3>1. pc'[t] = "resolve"
      BY <1>1, <2>3 DEF Begin, TypeOK, Goto
    <3> QED BY <1>1, <1>2, <2>1, <2>3, <3>1 DEF ThreadInv
  <2> QED BY <2>2, <2>3
<1> QED BY <1>2, <1>3, <1>4, <1>5, LocalStep

LEMMA ReturnInv ==
  ASSUME NEW K, EditInv(K), NEW t \in Threads, Return(t)
  PROVE  EditInv(K)'
<1>1. TypeOK /\ ThreadInv(K, t) /\ pc[t] = "return" /\ todo[t] = <<>> /\ ~nested[t]
  BY DEF EditInv, Return, ThreadInv
<1>2. TypeOK'
  BY <1>1 DEF Return, TypeOK, Goto, Places, shared, walkVars
<1>3. \A u \in Threads \ {t} : SameLocals(u)
  BY <1>1 DEF Return, TypeOK, Goto, SameLocals, walkVars
<1>4. pc'[t] = "idle" /\ nested'[t] = nested[t] /\ todo'[t] = todo[t]
  BY <1>1 DEF Return, TypeOK, Goto, walkVars
<1>5. ThreadInv(K, t)'
  BY <1>1, <1>4 DEF ThreadInv
<1> QED BY <1>2, <1>3, <1>5, LocalStep DEF Return

LEMMA ResolveKernelInv ==
  ASSUME NEW K, PathBits(K), EditInv(K), NEW t \in Threads, ResolveKernel(t)
  PROVE  EditInv(K)'
<1> DEFINE c == call[t]
<1>1. /\ TypeOK /\ RootInv /\ MemInv(K) /\ ThreadInv(K, t)
      /\ pc[t] = "resolve" /\ impl = "KERNEL" /\ c \in Calls /\ ~nested[t] /\ todo[t] = <<>>
  BY DEF EditInv, ResolveKernel, ThreadInv
<1>2. TypeOK'
  BY <1>1 DEF ResolveKernel, TypeOK, Goto, Places, shared
<1>3. \A u \in Threads \ {t} : SameLocals(u)
  BY <1>1 DEF ResolveKernel, TypeOK, Goto, SameLocals
<1>4. /\ pc'[t] = "copy" /\ nested'[t] = nested[t] /\ todo'[t] = todo[t] /\ call'[t] = c
      /\ slots'[t] = IF HasMm(Target(c)) THEN KernelWalk(mem, root[Target(c)], c.va) ELSE <<>>
  BY <1>1 DEF ResolveKernel, TypeOK, Goto
<1>5. \A l \in DOMAIN slots'[t] :
        l \in Levels /\ c \in MmCalls /\ slots'[t][l] = InitPath(c)[l]
  <2>1. CASE c \in MmCalls
    <3>1. slots'[t] = KernelWalk(mem, R(c), c.va)
      BY <1>1, <1>4, <2>1, RootOfCall
    <3> QED BY <1>1, <2>1, <3>1, KernelWalkSlots, CallPath
  <2>2. CASE c \notin MmCalls
    BY <1>1, <1>4, <2>2, RootOfCall
  <2> QED BY <2>1, <2>2
<1>6. ThreadInv(K, t)'
  BY <1>1, <1>4, <1>5 DEF ThreadInv
<1> QED BY <1>2, <1>3, <1>6, LocalStep DEF ResolveKernel

LEMMA CopyOutInv ==
  ASSUME NEW K, CallsKeep(K), EditInv(K), NEW t \in Threads, CopyOut(t)
  PROVE  EditInv(K)'
<1> DEFINE c == call[t]
           found == [l \in DOMAIN slots[t] |-> Deref(mem, slots[t][l])]
<1>1. TypeOK /\ MemInv(K) /\ ThreadInv(K, t) /\ pc[t] = "copy" /\ ~nested[t]
  BY DEF EditInv, CopyOut, ThreadInv
<1>2. ASSUME NEW l \in DOMAIN found
      PROVE  l \in Levels /\ c \in MmCalls /\ Keeps(K, c, l, found[l])
  BY <1>1, FoundKeeps DEF ThreadInv
<1>3. Good(K, c, found)
  BY <1>2 DEF Good
<1>4. Resolved(t, found) /\ UNCHANGED <<mem, shared, call, nested, level, frame, todo>>
  BY DEF CopyOut
<1>5. impl' = impl
  BY <1>4 DEF shared
<1> HIDE DEF found
<1>6. /\ ThreadInv(K, t)'
      /\ pc' \in [Threads -> Places]
      /\ cur' = [u \in Threads |-> cur'[u]] /\ vm' = [u \in Threads |-> vm'[u]]
      /\ \A u \in Threads \ {t} : pc'[u] = pc[u] /\ cur'[u] = cur[u] /\ vm'[u] = vm[u]
  BY <1>1, <1>3, <1>4, <1>5, ResolvedInv
<1>7. slots' = [slots EXCEPT ![t] = <<>>] /\ tlb' = tlb
  BY DEF CopyOut
<1>8. TypeOK'
  BY <1>1, <1>4, <1>6, <1>7 DEF TypeOK, shared
<1>9. \A u \in Threads \ {t} : SameLocals(u)
  BY <1>1, <1>4, <1>6, <1>7 DEF TypeOK, SameLocals
<1> QED BY <1>4, <1>6, <1>8, <1>9, LocalStep

LEMMA ResolveUserInv ==
  ASSUME NEW K, CallsKeep(K), EditInv(K), NEW t \in Threads, ResolveUser(t)
  PROVE  EditInv(K)'
<1> DEFINE c == call[t]
<1>1. /\ TypeOK /\ RootInv /\ ThreadInv(K, t) /\ pc[t] = "resolve" /\ impl = "USER"
      /\ c \in Calls /\ todo[t] = <<>>
  BY DEF EditInv, ResolveUser, ThreadInv
<1>2. UNCHANGED <<mem, tlb, shared, call, nested, slots, todo>> /\ impl' = impl
  BY DEF ResolveUser, shared
<1>3. PagingRoot(c) = R(c)
  BY <1>1, RootOfCall
<1>4. CASE R(c) = {}
  <2>1. Resolved(t, <<>>) /\ UNCHANGED <<frame, level>>
    BY <1>3, <1>4 DEF ResolveUser
  <2>2. Good(K, c, <<>>) /\ Chain(<<>>)
    BY DEF Good, Chain
  <2>3. /\ ThreadInv(K, t)'
        /\ pc' \in [Threads -> Places]
        /\ cur' = [u \in Threads |-> cur'[u]] /\ vm' = [u \in Threads |-> vm'[u]]
        /\ \A u \in Threads \ {t} : pc'[u] = pc[u] /\ cur'[u] = cur[u] /\ vm'[u] = vm[u]
    BY <1>1, <1>2, <2>1, <2>2, ResolvedInv
  <2>4. TypeOK'
    BY <1>1, <1>2, <2>1, <2>3 DEF TypeOK, shared
  <2>5. \A u \in Threads \ {t} : SameLocals(u)
    BY <1>2, <2>1, <2>3 DEF SameLocals
  <2> QED BY <1>2, <2>3, <2>4, <2>5, LocalStep
<1>5. CASE R(c) # {}
  <2>1. /\ frame' = [frame EXCEPT ![t] = R(c)] /\ level' = [level EXCEPT ![t] = "PGD"]
        /\ cur' = [cur EXCEPT ![t] = <<>>] /\ pc' = [pc EXCEPT ![t] = "walk"] /\ vm' = vm
    BY <1>3, <1>5 DEF ResolveUser, Goto
  <2>2. TypeOK'
    BY <1>1, <1>2, <2>1 DEF TypeOK, shared, Places
  <2>3. \A u \in Threads \ {t} : SameLocals(u)
    BY <1>1, <1>2, <2>1 DEF TypeOK, SameLocals
  <2>4. frame'[t] = R(c) /\ level'[t] = "PGD" /\ cur'[t] = <<>> /\ pc'[t] = "walk"
    BY <1>1, <2>1 DEF TypeOK
  <2>5. InitPath(c)["PGD"] = Slot(R(c), c.va, "PGD") /\ c \in MmCalls
    BY <1>1, <1>5, PathLevels DEF InitPath, MmCalls
  <2>6. Reported(cur'[t], "PGD") /\ Good(K, c, cur'[t]) /\ "PGD" \in CpuLevels
    BY <2>4 DEF Reported, Above, Good, CpuLevels, Levels
  <2>7. ThreadInv(K, t)'
    <3>1. call'[t] = c /\ nested'[t] = nested[t] /\ todo'[t] = <<>> /\ vm'[t] = vm[t]
      BY <1>1, <1>2, <2>1
    <3> HIDE DEF c
    <3> QED BY <1>1, <1>2, <2>4, <2>5, <2>6, <3>1 DEF ThreadInv, Good, Keeps, Reported, c
  <2> QED BY <1>2, <2>2, <2>3, <2>7, LocalStep
<1> QED BY <1>4, <1>5

\* What one step of the library's walk reports.
LEMMA ReportGood ==
  ASSUME NEW K, NEW c \in MmCalls, NEW f, Good(K, c, f), NEW l \in CpuLevels,
         Reported(f, l), NEW e, Keeps(K, c, l, e)
  PROVE  LET found == UserReport(f, l, e)
             next == UserNextLevel(l, e)
         IN  /\ Good(K, c, found) /\ Chain(found)
             /\ next # "end" => /\ next \in CpuLevels /\ l \in UpperLevels
                                /\ Reported(found, next)
                                /\ InitPath(c)[next]
                                     = Slot(FrameOf(Deref(InitMem, InitPath(c)[l])), c.va, next)
<1> DEFINE found == UserReport(f, l, e)
           next == UserNextLevel(l, e)
<1>1. found = f \/ found = [k \in DOMAIN f \cup {l} |-> IF k = l THEN e ELSE f[k]]
  BY DEF UserReport
<1>2. l \in Levels
  BY DEF CpuLevels
<1>3. Good(K, c, found)
  BY <1>1, <1>2 DEF Good
<1>4. DOMAIN found = DOMAIN f \/ DOMAIN found = DOMAIN f \cup {l}
  BY <1>1
<1>5. next # "end" => DOMAIN found = DOMAIN f \cup {l}
  BY DEF UserNextLevel, UserReport, Present
<1> HIDE DEF found
<1>6. /\ InitPath(c)["PUD"] = Slot(FrameOf(Deref(InitMem, InitPath(c)["PGD"])), c.va, "PUD")
      /\ InitPath(c)["PMD"] = Slot(FrameOf(Deref(InitMem, InitPath(c)["PUD"])), c.va, "PMD")
      /\ InitPath(c)["PTE"] = Slot(FrameOf(Deref(InitMem, InitPath(c)["PMD"])), c.va, "PTE")
  BY PathLevels DEF InitPath
<1>7. /\ {"PUD", "PMD", "PTE"} \subseteq CpuLevels
      /\ {"PGD", "PUD", "PMD"} \subseteq UpperLevels
  BY DEF CpuLevels, UpperLevels, Levels
<1>8. CASE l = "PGD"
  <2>1. DOMAIN f = {}
    BY <1>8 DEF Reported, Above
  <2>2. next \in {"PUD", "end"}
    BY <1>8 DEF UserNextLevel
  <2>3. Chain(found)
    BY <1>4, <1>8, <2>1 DEF Chain, CpuLevels, Levels
  <2>4. next = "PUD" => Reported(found, "PUD")
    <3>1. next = "PUD" => DOMAIN found = {"PGD"}
      BY <1>5, <1>8, <2>1
    <3>2. Above["PUD"] \ {"P4D"} = {"PGD"}
      BY DEF Above
    <3> QED BY <3>1, <3>2 DEF Reported
  <2> HIDE DEF next
  <2>5. next # "end" => /\ next = "PUD" /\ next \in CpuLevels /\ l \in UpperLevels
                        /\ Reported(found, next)
                        /\ InitPath(c)[next]
                             = Slot(FrameOf(Deref(InitMem, InitPath(c)[l])), c.va, next)
    BY <1>6, <1>7, <1>8, <2>2, <2>4
  <2> QED BY <1>3, <2>3, <2>5 DEF found, next
<1>9. CASE l = "PUD"
  <2>1. DOMAIN f = {"PGD"}
    BY <1>9 DEF Reported, Above
  <2>2. next \in {"PMD", "end"}
    BY <1>9 DEF UserNextLevel
  <2>3. Chain(found)
    BY <1>4, <1>9, <2>1 DEF Chain, CpuLevels, Levels
  <2>4. next = "PMD" => Reported(found, "PMD")
    <3>1. next = "PMD" => DOMAIN found = {"PGD", "PUD"}
      BY <1>5, <1>9, <2>1
    <3>2. Above["PMD"] \ {"P4D"} = {"PGD", "PUD"}
      BY DEF Above
    <3> QED BY <3>1, <3>2 DEF Reported
  <2> HIDE DEF next
  <2>5. next # "end" => /\ next = "PMD" /\ next \in CpuLevels /\ l \in UpperLevels
                        /\ Reported(found, next)
                        /\ InitPath(c)[next]
                             = Slot(FrameOf(Deref(InitMem, InitPath(c)[l])), c.va, next)
    BY <1>6, <1>7, <1>9, <2>2, <2>4
  <2> QED BY <1>3, <2>3, <2>5 DEF found, next
<1>10. CASE l = "PMD"
  <2>1. DOMAIN f = {"PGD", "PUD"}
    BY <1>10 DEF Reported, Above
  <2>2. next \in {"PTE", "end"}
    BY <1>10 DEF UserNextLevel
  <2>3. Chain(found)
    BY <1>4, <1>10, <2>1 DEF Chain, CpuLevels, Levels
  <2>4. next = "PTE" => Reported(found, "PTE")
    <3>1. next = "PTE" => DOMAIN found = {"PGD", "PUD", "PMD"}
      BY <1>5, <1>10, <2>1
    <3>2. Above["PTE"] \ {"P4D"} = {"PGD", "PUD", "PMD"}
      BY DEF Above
    <3> QED BY <3>1, <3>2 DEF Reported
  <2> HIDE DEF next
  <2>5. next # "end" => /\ next = "PTE" /\ next \in CpuLevels /\ l \in UpperLevels
                        /\ Reported(found, next)
                        /\ InitPath(c)[next]
                             = Slot(FrameOf(Deref(InitMem, InitPath(c)[l])), c.va, next)
    BY <1>6, <1>7, <1>10, <2>2, <2>4
  <2> QED BY <1>3, <2>3, <2>5 DEF found, next
<1>11. CASE l = "PTE"
  <2>1. DOMAIN f = {"PGD", "PUD", "PMD"}
    BY <1>11 DEF Reported, Above
  <2>2. next = "end"
    BY <1>11 DEF UserNextLevel
  <2>3. Chain(found)
    BY <1>4, <1>11, <2>1 DEF Chain, CpuLevels, Levels
  <2> QED BY <1>3, <2>2, <2>3 DEF found
<1> QED BY <1>8, <1>9, <1>10, <1>11 DEF CpuLevels, Levels

LEMMA WalkUserInv ==
  ASSUME NEW K, PathBits(K), CallsKeep(K), TablesLow, EditInv(K), NEW t \in Threads, WalkUser(t)
  PROVE  EditInv(K)'
<1> DEFINE c == call[t]
           l == level[t]
           e == Deref(mem, Slot(frame[t], c.va, l))
           next == UserNextLevel(l, e)
           found == UserReport(cur[t], l, e)
<1>1. /\ TypeOK /\ MemInv(K) /\ ThreadInv(K, t) /\ pc[t] = "walk" /\ impl = "USER"
      /\ c \in MmCalls /\ c \in Calls /\ todo[t] = <<>> /\ l \in CpuLevels /\ l \in Levels
      /\ Slot(frame[t], c.va, l) = InitPath(c)[l]
      /\ Reported(cur[t], l) /\ Good(K, c, cur[t])
  BY DEF EditInv, WalkUser, ThreadInv, MmCalls, CpuLevels
<1>2. UNCHANGED <<mem, tlb, shared, call, nested, slots, todo>> /\ impl' = impl
  BY DEF WalkUser, shared
<1>3. Keeps(K, c, l, e)
  BY <1>1, FoundKeeps
<1>4. /\ Good(K, c, found) /\ Chain(found)
      /\ next # "end" => /\ next \in CpuLevels /\ l \in UpperLevels
                         /\ Reported(found, next)
                         /\ InitPath(c)[next]
                              = Slot(FrameOf(Deref(InitMem, InitPath(c)[l])), c.va, next)
  <2> HIDE DEF c, l, e
  <2> QED BY <1>1, <1>3, ReportGood
<1>5. /\ level' = [level EXCEPT ![t] = next]
      /\ frame' = [frame EXCEPT ![t] = IF next = "end" THEN {} ELSE ptedit_cast_pfn(e)]
      /\ IF next = "end"
           THEN Resolved(t, found)
           ELSE cur' = [cur EXCEPT ![t] = found] /\ UNCHANGED <<vm, pc>>
  BY DEF WalkUser
<1> HIDE DEF next, found, e
<1>6. CASE next = "end"
  <2>1. Resolved(t, found)
    BY <1>5, <1>6
  <2>2. /\ ThreadInv(K, t)'
        /\ pc' \in [Threads -> Places]
        /\ cur' = [u \in Threads |-> cur'[u]] /\ vm' = [u \in Threads |-> vm'[u]]
        /\ \A u \in Threads \ {t} : pc'[u] = pc[u] /\ cur'[u] = cur[u] /\ vm'[u] = vm[u]
    BY <1>1, <1>2, <1>4, <2>1, ResolvedInv
  <2>3. level' = [u \in Threads |-> level'[u]] /\ frame' = [u \in Threads |-> frame'[u]]
    BY <1>1, <1>5 DEF TypeOK
  <2>4. TypeOK'
    BY <1>1, <1>2, <2>2, <2>3 DEF TypeOK, shared
  <2>5. \A u \in Threads \ {t} : SameLocals(u)
    BY <1>1, <1>2, <1>5, <2>2 DEF SameLocals, TypeOK
  <2> QED BY <1>2, <2>2, <2>4, <2>5, LocalStep
<1>7. CASE next # "end"
  <2>1. cur' = [cur EXCEPT ![t] = found] /\ UNCHANGED <<vm, pc>>
    BY <1>5, <1>7
  <2>2. TypeOK'
    BY <1>1, <1>2, <1>5, <2>1 DEF TypeOK, shared
  <2>3. \A u \in Threads \ {t} : SameLocals(u)
    BY <1>1, <1>2, <1>5, <2>1 DEF SameLocals, TypeOK
  <2>4. frame'[t] = ptedit_cast_pfn(e) /\ level'[t] = next /\ cur'[t] = found
    BY <1>1, <1>5, <1>7, <2>1 DEF TypeOK
  <2>5. FrameOf(e) = FrameOf(Deref(InitMem, InitPath(c)[l]))
    BY <1>3, <1>4, <1>7, FrameOfKept DEF Keeps
  <2>6. FrameOf(e) \subseteq 0..27
    BY <1>1, <1>4, <1>7, <2>5 DEF TablesLow, TypeOK
  <2>7. Slot(frame'[t], c.va, next) = InitPath(c)[next]
    BY <1>4, <1>7, <2>4, <2>5, <2>6, CastIsFrame, EditAssumption
  <2>8. ThreadInv(K, t)'
    <3>1. /\ call'[t] = c /\ nested'[t] = nested[t] /\ todo'[t] = <<>> /\ vm'[t] = vm[t]
          /\ pc'[t] = "walk"
      BY <1>1, <1>2, <2>1
    <3> HIDE DEF c
    <3> QED BY <1>1, <1>2, <1>4, <1>7, <2>4, <2>7, <3>1 DEF ThreadInv, Good, Keeps, Reported, c
  <2> QED BY <1>2, <2>2, <2>3, <2>8, LocalStep
<1> QED BY <1>6, <1>7

LEMMA UpdateNoMmInv ==
  ASSUME NEW K, EditInv(K), NEW t \in Threads, UpdateNoMm(t)
  PROVE  EditInv(K)'
<1>1. /\ TypeOK /\ ThreadInv(K, t) /\ pc[t] = "update" /\ todo[t] = <<>> /\ ~nested[t]
      /\ call[t] \in Calls
  BY DEF EditInv, UpdateNoMm, ThreadInv
<1>2. TypeOK'
  BY <1>1 DEF UpdateNoMm, TypeOK, Goto, Places, shared, walkVars
<1>3. \A u \in Threads \ {t} : SameLocals(u)
  BY <1>1 DEF UpdateNoMm, TypeOK, Goto, SameLocals, walkVars
<1>4. /\ pc'[t] = "return" /\ nested'[t] = nested[t] /\ todo'[t] = todo[t]
      /\ call'[t] = call[t]
  BY <1>1 DEF UpdateNoMm, TypeOK, Goto, walkVars
<1>5. ThreadInv(K, t)'
  BY <1>1, <1>4 DEF ThreadInv
<1> QED BY <1>2, <1>3, <1>5, LocalStep DEF UpdateNoMm

LEMMA UpdateKernelInv ==
  ASSUME NEW K, PathBits(K), EditInv(K), NEW t \in Threads, UpdateKernel(t)
  PROVE  EditInv(K)'
<1> DEFINE c == call[t]
           old == KernelWalk(mem, root[Target(c)], c.va)
<1>1. /\ TypeOK /\ RootInv /\ MemInv(K) /\ ThreadInv(K, t) /\ pc[t] = "update"
      /\ ~nested[t] /\ c \in Calls
  BY DEF EditInv, UpdateKernel, ThreadInv
<1>2. /\ HasMm(Target(c)) /\ UNCHANGED <<mem, tlb, shared, call, cur, walkVars>>
      /\ todo' = [todo EXCEPT ![t] = WritesDown(old, vm[t])]
      /\ vm' = [vm EXCEPT ![t] = <<>>] /\ pc' = [pc EXCEPT ![t] = "write"]
  BY DEF UpdateKernel, Goto
<1>3. c \in MmCalls /\ old = KernelWalk(mem, R(c), c.va)
  BY <1>1, <1>2, RootOfCall
<1>4. \A l \in DOMAIN old : old[l] = InitPath(c)[l]
  BY <1>1, <1>3, KernelWalkSlots, CallPath
<1>5. Good(K, c, vm[t])
  BY <1>1, <1>3 DEF ThreadInv
<1> HIDE DEF old
<1>6. WritesDown(old, vm[t]) \in Seq(GoodWrites(K, c))
  BY <1>3, <1>4, <1>5, WritesGood
<1>7. TypeOK'
  BY <1>1, <1>2 DEF TypeOK, Places, shared, walkVars
<1>8. \A u \in Threads \ {t} : SameLocals(u)
  BY <1>1, <1>2 DEF TypeOK, SameLocals, walkVars
<1>9. /\ pc'[t] = "write" /\ nested'[t] = nested[t] /\ todo'[t] = WritesDown(old, vm[t])
      /\ call'[t] = c
  BY <1>1, <1>2 DEF TypeOK, walkVars
<1>10. ThreadInv(K, t)'
  BY <1>1, <1>3, <1>6, <1>9 DEF ThreadInv, GoodWrites, Keeps
<1> QED BY <1>2, <1>7, <1>8, <1>10, LocalStep

LEMMA UpdateUserInv ==
  ASSUME NEW K, EditInv(K), NEW t \in Threads, UpdateUser(t)
  PROVE  EditInv(K)'
<1>1. /\ TypeOK /\ ThreadInv(K, t) /\ pc[t] = "update" /\ impl = "USER" /\ todo[t] = <<>>
      /\ call[t] \in Calls
  BY DEF EditInv, UpdateUser, ThreadInv
<1>2. TypeOK'
  BY <1>1 DEF UpdateUser, TypeOK, Goto, Places, shared
<1>3. \A u \in Threads \ {t} : SameLocals(u)
  BY <1>1 DEF UpdateUser, TypeOK, Goto, SameLocals
<1>4. /\ pc'[t] = "resolve" /\ nested'[t] = TRUE /\ todo'[t] = todo[t] /\ call'[t] = call[t]
      /\ vm'[t] = vm[t] /\ impl' = impl
  BY <1>1 DEF UpdateUser, TypeOK, Goto, shared
<1>5. ThreadInv(K, t)'
  BY <1>1, <1>4 DEF ThreadInv, Good, Keeps
<1> QED BY <1>2, <1>3, <1>5, LocalStep DEF UpdateUser

LEMMA UserSlotsInv ==
  ASSUME NEW K, PathBits(K), TablesLow, EditInv(K), NEW t \in Threads, UserSlots(t)
  PROVE  EditInv(K)'
<1> DEFINE c == call[t]
           old == [l \in DOMAIN cur[t] |-> UserSlot(cur[t], R(c), c.va, l)]
           p == IF R(c) = {} THEN "flush" ELSE "write"
<1>1. /\ TypeOK /\ RootInv /\ ThreadInv(K, t) /\ pc[t] = "slots" /\ impl = "USER"
      /\ nested[t] /\ c \in Calls /\ Chain(cur[t]) /\ Good(K, c, cur[t])
  BY DEF EditInv, UserSlots, ThreadInv
<1>2. PagingRoot(c) = R(c)
  BY <1>1, RootOfCall
<1>3. /\ UNCHANGED <<mem, tlb, shared, call, slots, level, frame>>
      /\ todo' = [todo EXCEPT ![t] = WritesUp(old, vm[t])]
      /\ cur' = [cur EXCEPT ![t] = <<>>] /\ vm' = [vm EXCEPT ![t] = <<>>]
      /\ nested' = [nested EXCEPT ![t] = FALSE] /\ pc' = [pc EXCEPT ![t] = p]
  BY <1>2 DEF UserSlots, Goto
<1>4. c \in MmCalls => WritesUp(old, vm[t]) \in Seq(GoodWrites(K, c))
  <2>1. SUFFICES ASSUME c \in MmCalls PROVE WritesUp(old, vm[t]) \in Seq(GoodWrites(K, c))
    OBVIOUS
  <2>2. Good(K, c, vm[t])
    BY <1>1, <2>1 DEF ThreadInv
  <2>3. "USER" \in Impls
    BY <1>1 DEF TypeOK
  <2>4. \A l \in DOMAIN old : old[l] = InitPath(c)[l]
    BY <1>1, <2>1, <2>3, UserSlotOnPath
  <2> HIDE DEF old
  <2> QED BY <2>1, <2>2, <2>4, WritesGood
<1>5. c \notin MmCalls => WritesUp(old, vm[t]) = <<>>
  <2>1. c \notin MmCalls => DOMAIN old = {}
    BY <1>1 DEF Good
  <2> HIDE DEF old
  <2>2. c \notin MmCalls => \A l \in Levels : WriteAt(l, old, vm[t]) = <<>>
    BY <2>1 DEF WriteAt
  <2> QED BY <2>2 DEF WritesUp, Levels
<1>6. p = "write" <=> c \in MmCalls
  BY <1>1 DEF MmCalls
<1>7. p \in {"flush", "write"}
  OBVIOUS
<1> HIDE DEF old, p
<1>8. TypeOK'
  BY <1>1, <1>3, <1>7 DEF TypeOK, Places, shared
<1>9. \A u \in Threads \ {t} : SameLocals(u)
  BY <1>1, <1>3 DEF TypeOK, SameLocals
<1>10. /\ pc'[t] = p /\ nested'[t] = FALSE /\ todo'[t] = WritesUp(old, vm[t])
       /\ call'[t] = c
  BY <1>1, <1>3 DEF TypeOK
<1>11. ThreadInv(K, t)'
  BY <1>1, <1>4, <1>5, <1>6, <1>7, <1>10 DEF ThreadInv, GoodWrites, Keeps
<1> QED BY <1>3, <1>8, <1>9, <1>11, LocalStep

\* A step that stores to one slot.
LEMMA StoredValue ==
  ASSUME TypeOK, NEW a, NEW v \in Word,
         mem' = IF a \in DOMAIN mem THEN [mem EXCEPT ![a] = v] ELSE mem
  PROVE  /\ mem' \in [DOMAIN InitMem -> Word]
         /\ \A s : Deref(mem', s) = IF s = a /\ s \in DOMAIN InitMem THEN v ELSE Deref(mem, s)
<1>1. mem \in [DOMAIN InitMem -> Word] /\ mem' \in [DOMAIN InitMem -> Word]
  BY DEF TypeOK
<1>2. ASSUME NEW s
      PROVE  Deref(mem', s) = IF s = a /\ s \in DOMAIN InitMem THEN v ELSE Deref(mem, s)
  <2>1. CASE s \in DOMAIN InitMem
    <3>1. Deref(mem', s) = mem'[s] /\ Deref(mem, s) = mem[s]
      BY ONLY <1>1, <2>1, DerefValue
    <3>2. mem'[s] = IF s = a THEN v ELSE mem[s]
      BY <1>1, <2>1
    <3> QED BY <2>1, <3>1, <3>2
  <2>2. CASE s \notin DOMAIN InitMem
    <3>1. Deref(mem', s) = {} /\ Deref(mem, s) = {}
      BY ONLY <1>1, <2>2, DerefValue
    <3> QED BY <2>2, <3>1
  <2> QED BY <2>1, <2>2
<1> QED BY <1>1, <1>2

LEMMA WriteKeeps ==
  ASSUME NEW K, TablesNested, TypeOK, MemInv(K), NEW c \in MmCalls, NEW w \in GoodWrites(K, c),
         mem' = IF w.slot \in DOMAIN mem THEN [mem EXCEPT ![w.slot] = w.val] ELSE mem
  PROVE  mem' \in [DOMAIN InitMem -> Word] /\ MemInv(K)'
<1>1. /\ w.level \in Levels /\ w.val \in Word /\ w.slot = InitPath(c)[w.level]
      /\ Keeps(K, c, w.level, w.val)
  BY DEF GoodWrites
<1>2. /\ mem' \in [DOMAIN InitMem -> Word]
      /\ \A s : Deref(mem', s) = IF s = w.slot /\ s \in DOMAIN InitMem
                                   THEN w.val ELSE Deref(mem, s)
  BY <1>1, StoredValue
<1>3. ASSUME NEW s \in Upper
      PROVE  Deref(mem', s) \cap K = Deref(InitMem, s) \cap K
  <2>1. CASE s = w.slot /\ s \in DOMAIN InitMem
    <3>1. w.level \in UpperLevels
      BY <1>1, <2>1 DEF TablesNested, UpperLevels
    <3> QED BY <1>1, <1>2, <2>1, <3>1 DEF Keeps
  <2>2. CASE ~(s = w.slot /\ s \in DOMAIN InitMem)
    <3>1. Deref(mem', s) = Deref(mem, s)
      BY <1>2, <2>2
    <3> QED BY <3>1 DEF MemInv
  <2> QED BY <2>1, <2>2
<1> QED BY <1>2, <1>3 DEF MemInv

\* A step that stores to memory but changes no roots, and no locals but those
\* of one thread.
LEMMA StoreStep ==
  ASSUME NEW K, EditInv(K), UNCHANGED shared, TypeOK', MemInv(K)',
         \A u \in Threads : SameLocals(u) \/ ThreadInv(K, u)'
  PROVE  EditInv(K)'
<1>1. RootInv'
  BY RootsUnchanged DEF EditInv
<1>2. ASSUME NEW u \in Threads PROVE ThreadInv(K, u)'
  <2>1. impl' = impl
    BY DEF shared
  <2> QED BY <2>1, SameThread DEF EditInv
<1> QED BY <1>1, <1>2 DEF EditInv

\* The write that comes next, and what is left after it.
LEMMA NextWrite ==
  ASSUME NEW K, EditInv(K), NEW t \in Threads, Write(t)
  PROVE  LET c == call[t] IN
         /\ c \in MmCalls /\ c \in Calls /\ pc[t] = "write"
         /\ Head(todo[t]) \in GoodWrites(K, c)
         /\ Tail(todo[t]) \in Seq(GoodWrites(K, c))
         /\ mem' = IF Head(todo[t]).slot \in DOMAIN mem
                     THEN [mem EXCEPT ![Head(todo[t]).slot] = Head(todo[t]).val] ELSE mem
<1> DEFINE c == call[t]
           G == GoodWrites(K, c)
<1>1. pc[t] = "write" /\ todo[t] # <<>> /\ ThreadInv(K, t)
  BY DEF EditInv, Write
<1>2. c \in MmCalls /\ c \in Calls /\ todo[t] \in Seq(G)
  BY <1>1 DEF ThreadInv, MmCalls
<1> HIDE DEF G
<1>3. Head(todo[t]) \in G /\ Tail(todo[t]) \in Seq(G)
  BY <1>1, <1>2
<1> QED BY <1>1, <1>2, <1>3 DEF Write, G

LEMMA WriteInv ==
  ASSUME NEW K, TablesNested, EditInv(K), NEW t \in Threads, Write(t)
  PROVE  EditInv(K)'
<1> DEFINE c == call[t]
<1>1. /\ c \in MmCalls /\ c \in Calls /\ pc[t] = "write"
      /\ Head(todo[t]) \in GoodWrites(K, c)
      /\ Tail(todo[t]) \in Seq(GoodWrites(K, c))
      /\ mem' = IF Head(todo[t]).slot \in DOMAIN mem
                  THEN [mem EXCEPT ![Head(todo[t]).slot] = Head(todo[t]).val] ELSE mem
  BY NextWrite
<1>2. TypeOK /\ MemInv(K) /\ ThreadInv(K, t)
  BY DEF EditInv
<1>3. mem' \in [DOMAIN InitMem -> Word] /\ MemInv(K)'
  BY <1>1, <1>2, WriteKeeps
<1>4. /\ UNCHANGED <<tlb, shared, pc, call, cur, vm, walkVars>>
      /\ todo' = [todo EXCEPT ![t] = Tail(todo[t])]
  BY DEF Write
<1>5. TypeOK'
  BY <1>2, <1>3, <1>4 DEF TypeOK, shared, walkVars
<1>6. \A u \in Threads \ {t} : SameLocals(u)
  BY <1>2, <1>4 DEF TypeOK, SameLocals, walkVars
<1>7. /\ pc'[t] = "write" /\ nested'[t] = nested[t] /\ call'[t] = c
      /\ todo'[t] = Tail(todo[t])
  BY <1>1, <1>2, <1>4 DEF TypeOK, walkVars
<1>8. ThreadInv(K, t)'
  BY <1>1, <1>2, <1>7 DEF ThreadInv, GoodWrites, Keeps
<1> QED BY <1>3, <1>4, <1>5, <1>6, <1>8, StoreStep

LEMMA FlushTlb ==
  ASSUME TypeOK, NEW va, FlushAddress(va)
  PROVE  tlb' = [p \in Procs |-> [a \in Vas |-> tlb'[p][a]]]
<1>1. \A p \in Procs : tlb[p] = [a \in Vas |-> tlb[p][a]]
  BY DEF TypeOK
<1>2. ASSUME NEW p \in Procs PROVE tlb'[p] = [a \in Vas |-> tlb'[p][a]]
  <2>1. tlb'[p] = [tlb[p] EXCEPT ![va] = <<>>] \/ tlb'[p] = tlb[p]
    BY DEF FlushAddress
  <2> QED BY <1>1, <2>1
<1> QED BY <1>2 DEF FlushAddress

LEMMA FlushInv ==
  ASSUME NEW K, EditInv(K), NEW t \in Threads, Flush(t) \/ FlushAgain(t)
  PROVE  EditInv(K)'
<1>1. /\ TypeOK /\ ThreadInv(K, t) /\ pc[t] \in {"write", "flush"} /\ todo[t] = <<>>
      /\ ~nested[t] /\ call[t] \in Calls
  BY DEF EditInv, Flush, FlushAgain, ThreadInv
<1>2. /\ UNCHANGED <<mem, shared, call, cur, vm, walkVars, todo>>
      /\ \E l \in {"return", "flush"} : pc' = [pc EXCEPT ![t] = l]
      /\ FlushAddress(call[t].va)
  BY DEF Flush, FlushAgain, Goto
<1>3. tlb' = [p \in Procs |-> [a \in Vas |-> tlb'[p][a]]]
  BY <1>1, <1>2, FlushTlb
<1>4. TypeOK'
  BY <1>1, <1>2, <1>3 DEF TypeOK, shared, walkVars, Places
<1>5. \A u \in Threads \ {t} : SameLocals(u)
  BY <1>1, <1>2 DEF TypeOK, SameLocals, walkVars
<1>6. /\ pc'[t] \in {"return", "flush"} /\ nested'[t] = nested[t] /\ call'[t] = call[t]
      /\ todo'[t] = <<>>
  BY <1>1, <1>2 DEF TypeOK, walkVars
<1>7. ThreadInv(K, t)'
  BY <1>1, <1>6 DEF ThreadInv
<1> QED BY <1>2, <1>4, <1>5, <1>7, LocalStep

-----------------------------------------------------------------------------
(* The other steps *)

LEMMA UseImplementationInv ==
  ASSUME NEW K, EditInv(K), NEW i \in Impls, ptedit_use_implementation(i)
  PROVE  EditInv(K)'
<1>1. TypeOK /\ RootInv /\ MemInv(K)
  BY DEF EditInv
<1>2. TypeOK'
  BY <1>1 DEF ptedit_use_implementation, TypeOK, walkVars
<1>3. MemInv(K)'
  BY <1>1 DEF ptedit_use_implementation, MemInv
<1>4. RootInv'
  <2>1. \A c \in Calls : c.pid = Own => root[Self] = R(c)
    BY <1>1 DEF RootInv, Target
  <2> QED BY <1>1, <2>1 DEF ptedit_use_implementation, RootInv
<1>5. ASSUME NEW u \in Threads PROVE ThreadInv(K, u)'
  <2>1. /\ pc'[u] = "idle" /\ todo'[u] = todo[u] /\ nested'[u] = nested[u] /\ pc[u] = "idle"
    BY DEF ptedit_use_implementation, walkVars
  <2> QED BY <2>1 DEF ThreadInv, EditInv
<1> QED BY <1>2, <1>3, <1>4, <1>5 DEF EditInv

\* Steps that leave the tables, the library's roots and all locals alone.
LEMMA OutsideStep ==
  ASSUME NEW K, EditInv(K), TypeOK', RootInv', MemInv(K)',
         UNCHANGED <<impl, pc, call, cur, vm, walkVars, todo>>
  PROVE  EditInv(K)'
<1>1. ASSUME NEW u \in Threads PROVE ThreadInv(K, u)'
  <2>1. SameLocals(u)
    BY DEF SameLocals, walkVars
  <2> QED BY <2>1, SameThread DEF EditInv
<1> QED BY <1>1 DEF EditInv

LEMMA SwitchTlbInv ==
  ASSUME NEW K, EditInv(K), NEW i \in TlbModes, ptedit_switch_tlb_invalidation(i)
  PROVE  EditInv(K)'
<1>1. TypeOK /\ RootInv /\ MemInv(K)
  BY DEF EditInv
<1>2. TypeOK'
  BY <1>1 DEF ptedit_switch_tlb_invalidation, TypeOK, walkVars
<1>3. MemInv(K)'
  BY <1>1 DEF ptedit_switch_tlb_invalidation, MemInv
<1>4. RootInv'
  BY <1>1 DEF ptedit_switch_tlb_invalidation, RootInv
<1> QED BY <1>2, <1>3, <1>4, OutsideStep DEF ptedit_switch_tlb_invalidation

LEMMA SetRootInv ==
  ASSUME NEW K, RootsFixed, EditInv(K), NEW x \in RootSwitches,
         ptedit_set_paging_root(x[1], x[2])
  PROVE  EditInv(K)'
<1>1. TypeOK /\ RootInv /\ MemInv(K)
  BY DEF EditInv
<1>2. x[1] \in Procs /\ x[2] \in Word /\ root' = [root EXCEPT ![x[1]] = x[2]]
  BY EditAssumption DEF ptedit_set_paging_root
<1>3. TypeOK'
  BY <1>1, <1>2 DEF ptedit_set_paging_root, TypeOK, walkVars
<1>4. MemInv(K)'
  BY <1>1 DEF ptedit_set_paging_root, MemInv
<1>5. RootInv'
  <2>1. \A c \in Calls : root'[Target(c)] = R(c)
    BY <1>1, <1>2 DEF RootInv, RootsFixed, TypeOK
  <2>2. x[2] \in RootsOf(x[1])
    BY DEF RootsOf
  <2>3. \A p \in Procs : root'[p] \in RootsOf(p)
    BY <1>1, <1>2, <2>2 DEF RootInv, TypeOK
  <2> QED BY <1>1, <2>1, <2>3 DEF RootInv, ptedit_set_paging_root
<1> QED BY <1>3, <1>4, <1>5, OutsideStep DEF ptedit_set_paging_root

\* The CPU raises bits that paths do not depend on.
LEMMA RaisedAccessed ==
  ASSUME TypeOK, NEW W,
         mem' = [s \in DOMAIN mem |-> IF s \in W THEN mem[s] \cup {ACCESSED} ELSE mem[s]]
  PROVE  /\ mem' \in [DOMAIN InitMem -> Word]
         /\ \A s : Deref(mem', s) \ {ACCESSED} = Deref(mem, s) \ {ACCESSED}
<1>1. mem \in [DOMAIN InitMem -> Word] /\ ACCESSED \in Bits
  BY DEF TypeOK, ACCESSED, Bits
<1>2. mem' \in [DOMAIN InitMem -> Word]
  BY <1>1 DEF Word
<1>3. ASSUME NEW s PROVE Deref(mem', s) \ {ACCESSED} = Deref(mem, s) \ {ACCESSED}
  <2>1. CASE s \in DOMAIN InitMem
    <3>1. Deref(mem, s) = mem[s]
      BY <1>1, <2>1, DerefValue
    <3>2. Deref(mem', s) = mem'[s]
      BY ONLY <1>2, <2>1, DerefValue
    <3> QED BY <1>1, <2>1, <3>1, <3>2
  <2>2. CASE s \notin DOMAIN InitMem
    <3>1. Deref(mem, s) = {}
      BY <1>1, <2>2, DerefValue
    <3>2. Deref(mem', s) = {}
      BY ONLY <1>2, <2>2, DerefValue
    <3> QED BY <3>1, <3>2
  <2> QED BY <2>1, <2>2
<1> QED BY <1>2, <1>3

LEMMA TlbFillMem ==
  ASSUME TypeOK, NEW p, NEW va, TlbFill(p, va)
  PROVE  /\ mem' \in [DOMAIN InitMem -> Word]
         /\ \A s : Deref(mem', s) \ {ACCESSED} = Deref(mem, s) \ {ACCESSED}
<1> DEFINE w == CpuWalk(mem, cr3[p], va)
           W == {w[l] : l \in DOMAIN w}
<1>1. mem' = [s \in DOMAIN mem |->
                IF \E l \in DOMAIN w : w[l] = s THEN mem[s] \cup {ACCESSED} ELSE mem[s]]
  BY DEF TlbFill
<1> HIDE DEF w
<1>2. \A s : s \in W <=> \E l \in DOMAIN w : w[l] = s
  OBVIOUS
<1> HIDE DEF W
<1>3. mem' = [s \in DOMAIN mem |-> IF s \in W THEN mem[s] \cup {ACCESSED} ELSE mem[s]]
  BY <1>1, <1>2
<1> QED BY <1>3, RaisedAccessed

LEMMA TlbEntrySet ==
  ASSUME TypeOK, NEW p \in Procs, NEW va, NEW v, tlb' = [tlb EXCEPT ![p][va] = v]
  PROVE  tlb' = [q \in Procs |-> [a \in Vas |-> tlb'[q][a]]]
<1>1. tlb' = [q \in Procs |-> tlb'[q]] /\ tlb'[p] = [tlb[p] EXCEPT ![va] = v]
  BY DEF TypeOK
<1>2. ASSUME NEW q \in Procs PROVE tlb'[q] = [a \in Vas |-> tlb'[q][a]]
  <2>1. tlb[q] = [a \in Vas |-> tlb[q][a]]
    BY DEF TypeOK
  <2>2. CASE q = p
    BY <1>1, <2>1, <2>2
  <2>3. CASE q # p
    BY <2>1, <2>3 DEF TypeOK
  <2> QED BY <2>2, <2>3
<1> QED BY <1>1, <1>2

LEMMA TlbFillInv ==
  ASSUME NEW K, PathBits(K), EditInv(K), NEW x \in Touched, TlbFill(x[1], x[2])
  PROVE  EditInv(K)'
<1>1. TypeOK /\ RootInv /\ MemInv(K)
  BY DEF EditInv
<1>2. /\ mem' \in [DOMAIN InitMem -> Word]
      /\ \A s : Deref(mem', s) \ {ACCESSED} = Deref(mem, s) \ {ACCESSED}
  BY <1>1, TlbFillMem
<1>3. /\ tlb' = [tlb EXCEPT ![x[1]][x[2]] = Translation(mem, cr3[x[1]], x[2])]
      /\ UNCHANGED <<shared, pc, call, cur, vm, walkVars, todo>>
  BY DEF TlbFill
<1>4. TypeOK'
  <2>1. x[1] \in Procs
    BY EditAssumption
  <2>2. tlb' = [q \in Procs |-> [a \in Vas |-> tlb'[q][a]]]
    BY <1>1, <1>3, <2>1, TlbEntrySet
  <2> QED BY <1>1, <1>2, <1>3, <2>2 DEF TypeOK, shared, walkVars
<1>5. MemInv(K)'
  <2>1. ASSUME NEW s \in Upper PROVE Deref(mem', s) \cap K = Deref(InitMem, s) \cap K
    <3>1. Deref(mem', s) \cap K = Deref(mem, s) \cap K
      BY <1>2 DEF PathBits
    <3> QED BY <1>1, <3>1 DEF MemInv
  <2> QED BY <2>1 DEF MemInv
<1>6. RootInv'
  BY <1>1, <1>3, RootsUnchanged
<1> QED BY <1>3, <1>4, <1>5, <1>6, OutsideStep DEF shared

LEMMA TlbEvictInv ==
  ASSUME NEW K, EditInv(K), NEW x \in Touched, TlbEvict(x[1], x[2])
  PROVE  EditInv(K)'
<1>1. TypeOK /\ RootInv /\ MemInv(K)
  BY DEF EditInv
<1>2. /\ tlb' = [tlb EXCEPT ![x[1]][x[2]] = <<>>]
      /\ UNCHANGED <<mem, shared, pc, call, cur, vm, walkVars, todo>>
  BY DEF TlbEvict
<1>3. TypeOK'
  <2>1. x[1] \in Procs
    BY EditAssumption
  <2>2. tlb' = [q \in Procs |-> [a \in Vas |-> tlb'[q][a]]]
    BY <1>1, <1>2, <2>1, TlbEntrySet
  <2> QED BY <1>1, <1>2, <2>2 DEF TypeOK, shared, walkVars
<1>4. MemInv(K)'
  BY <1>1, <1>2 DEF MemInv
<1>5. RootInv'
  BY <1>1, <1>2, RootsUnchanged
<1> QED BY <1>2, <1>3, <1>4, <1>5, OutsideStep DEF shared

LEMMA LoadRootInv ==
  ASSUME NEW K, EditInv(K), NEW p \in Procs, LoadRoot(p)
  PROVE  EditInv(K)'
<1>1. TypeOK /\ RootInv /\ MemInv(K)
  BY DEF EditInv
<1>2. /\ cr3' = [cr3 EXCEPT ![p] = root[p]]
      /\ tlb' = [tlb EXCEPT ![p] = [a \in Vas |-> <<>>]]
      /\ UNCHANGED <<mem, root, impl, ptedit_paging_root, invalidate_tlb, pc, call, cur, vm,
                     walkVars, todo>>
  BY DEF LoadRoot
<1>3. TypeOK'
  BY <1>1, <1>2 DEF TypeOK, walkVars
<1>4. MemInv(K)'
  BY <1>1, <1>2 DEF MemInv
<1>5. RootInv'
  BY <1>1, <1>2 DEF RootInv, TypeOK
<1> QED BY <1>2, <1>3, <1>4, <1>5, OutsideStep

-----------------------------------------------------------------------------
(* The invariant *)

LEMMA InitInv ==
  ASSUME NEW K, Init
  PROVE  EditInv(K)
<1>1. TypeOK
  BY EditAssumption DEF Init, TypeOK, Places
<1>2. RootInv
  BY EditAssumption DEF Init, RootInv, R, RootsOf, Target
<1>3. MemInv(K)
  BY DEF Init, MemInv
<1>4. \A t \in Threads : ThreadInv(K, t)
  BY DEF Init, ThreadInv
<1> QED BY <1>1, <1>2, <1>3, <1>4 DEF EditInv

LEMMA NextInv ==
  ASSUME NEW K, PathBits(K), Editing(K), EditInv(K), [Next]_vars
  PROVE  EditInv(K)'
<1> USE DEF Editing
<1>1. ASSUME NEW t \in Threads, Step(t) PROVE EditInv(K)'
  BY <1>1, ResolveKernelInv, CopyOutInv, ResolveUserInv, WalkUserInv, UpdateNoMmInv,
     UpdateKernelInv, UpdateUserInv, UserSlotsInv, WriteInv, FlushInv, ReturnInv DEF Step
<1>2. ASSUME NEW t \in Threads, NEW c \in Calls, Begin(t, c) PROVE EditInv(K)'
  BY <1>2, BeginInv
<1>3. ASSUME NEW i \in Impls, ptedit_use_implementation(i) PROVE EditInv(K)'
  BY <1>3, UseImplementationInv
<1>4. ASSUME NEW i \in TlbModes, ptedit_switch_tlb_invalidation(i) PROVE EditInv(K)'
  BY <1>4, SwitchTlbInv
<1>5. ASSUME NEW x \in RootSwitches, ptedit_set_paging_root(x[1], x[2]) PROVE EditInv(K)'
  BY <1>5, SetRootInv
<1>6. ASSUME NEW x \in Touched, TlbFill(x[1], x[2]) \/ TlbEvict(x[1], x[2])
      PROVE  EditInv(K)'
  BY <1>6, TlbFillInv, TlbEvictInv
<1>7. ASSUME NEW p \in Procs, LoadRoot(p) PROVE EditInv(K)'
  BY <1>7, LoadRootInv
<1>8. CASE UNCHANGED vars
  <2>1. UNCHANGED <<mem, tlb, shared, impl, pc, call, cur, vm, walkVars, todo>>
    BY <1>8 DEF vars, shared, walkVars
  <2>2. TypeOK' /\ MemInv(K)'
    BY <2>1 DEF EditInv, TypeOK, MemInv, shared, walkVars
  <2>3. RootInv'
    BY <2>1, RootsUnchanged DEF EditInv
  <2> QED BY <2>1, <2>2, <2>3, OutsideStep
<1> QED BY <1>1, <1>2, <1>3, <1>4, <1>5, <1>6, <1>7, <1>8 DEF Next

\* Every write of an update goes to the entry of its own address in its own
\* process, whatever other threads do and whichever implementation is used
\* (update_vm, ptedit_update_user_ext), when no call changes which table a
\* directory entry names.
THEOREM UpdatesWriteOnPath ==
  Editing(FrameBits) => (Spec => []WritesOnPath)
<1> SUFFICES ASSUME Editing(FrameBits) PROVE Spec => []WritesOnPath
  OBVIOUS
<1>1. PathBits(FrameBits)
  BY DEF PathBits, FrameBits, ACCESSED
<1>2. Init => EditInv(FrameBits)
  BY InitInv
<1>3. EditInv(FrameBits) /\ [Next]_vars => EditInv(FrameBits)'
  BY <1>1, NextInv
<1>4. EditInv(FrameBits) => WritesOnPath
  <2> SUFFICES ASSUME EditInv(FrameBits), NEW t \in Threads, NEW i \in DOMAIN todo[t]
               PROVE  todo[t][i].slot
                        = Path(mem, root[Target(call[t])], call[t].va)[todo[t][i].level]
    BY DEF WritesOnPath
  <2> DEFINE c == call[t]
             G == GoodWrites(FrameBits, c)
  <2>1. /\ RootInv /\ MemInv(FrameBits) /\ pc[t] = "write" /\ c \in Calls /\ c \in MmCalls
        /\ todo[t] \in Seq(G)
    BY DEF EditInv, ThreadInv
  <2> HIDE DEF G
  <2>2. todo[t][i] \in G
    BY <2>1
  <2>3. root[Target(c)] = R(c)
    BY <2>1, RootOfCall
  <2>4. Path(mem, R(c), c.va) = InitPath(c)
    BY <1>1, <2>1, CallPath
  <2> QED BY <2>2, <2>3, <2>4 DEF G, GoodWrites
<1> QED BY <1>2, <1>3, <1>4, PTL DEF Spec

-----------------------------------------------------------------------------
(* What the TLBs hold *)

LEMMA CachedPathBits == PathBits(CachedBits)
BY DEF PathBits, CachedBits, FrameBits, ACCESSED, DIRTY, Bits

\* A CPU's walk for a touched address.
LEMMA CpuWalks ==
  ASSUME RootInv, NEW p \in Procs, NEW a, <<p, a>> \in Touched
  PROVE  cr3[p] \in RootsOf(p) /\ <<cr3[p], a>> \in Walks
<1>1. cr3[p] \in RootsOf(p)
  BY DEF RootInv
<1> DEFINE x == <<p, a>>
<1>2. <<cr3[p], a>> \in RootsOf(x[1]) \X {x[2]}
  BY <1>1
<1> QED BY <1>1, <1>2 DEF Walks

\* Entries that differ in bits that the CPU raises give the same translation.
LEMMA TranslationFrom ==
  ASSUME NEW m, NEW n, NEW r, NEW a, Path(m, r, a) = Path(n, r, a),
         \A l \in Levels : Deref(m, Path(m, r, a)[l]) \ {ACCESSED, DIRTY}
                             = Deref(n, Path(m, r, a)[l]) \ {ACCESSED, DIRTY}
  PROVE  Translation(m, r, a) = Translation(n, r, a)
<1> DEFINE P == Path(m, r, a)
           M(l) == Deref(m, P[l])
           N(l) == Deref(n, P[l])
           Same(l) == M(l) \ {ACCESSED, DIRTY} = N(l) \ {ACCESSED, DIRTY}
<1>1. \A l \in Levels : /\ PRESENT \in M(l) <=> PRESENT \in N(l)
                        /\ PSE \in M(l) <=> PSE \in N(l)
  BY DEF PRESENT, PSE, ACCESSED, DIRTY
<1>2. \A l \in CpuLevels : l \in Levels /\ \A k \in Above[l] : k \in Levels
  BY DEF CpuLevels, Above, Levels
<1>3. \A l \in Levels : NamesTable(l, M(l)) <=> NamesTable(l, N(l))
  BY <1>1 DEF NamesTable, Present
<1> DEFINE S == {l \in CpuLevels : \A k \in Above[l] : NamesTable(k, M(k))}
           T == {l \in CpuLevels : \A k \in Above[l] : NamesTable(k, N(k))}
<1>4. S = T
  <2> HIDE DEF M, N
  <2> QED BY <1>2, <1>3
<1>5. CpuWalk(m, r, a) = Restrict(P, S) /\ CpuWalk(n, r, a) = Restrict(P, T)
  BY DEF CpuWalk
<1> DEFINE w == Restrict(P, S)
<1>6. DOMAIN w \subseteq Levels /\ \A l \in DOMAIN w : w[l] = P[l]
  <2>1. DOMAIN P = Levels
    BY PathLevels
  <2> QED BY <2>1 DEF Restrict, CpuLevels
<1>7. CpuWalk(m, r, a) = w /\ CpuWalk(n, r, a) = w
  BY <1>4, <1>5
<1> HIDE DEF w, S, T
<1>8. \A l \in DOMAIN w : Deref(m, w[l]) = M(l) /\ Deref(n, w[l]) = N(l)
  BY <1>6
<1>9. \A l \in DOMAIN w : Same(l) /\ l \in Levels
  BY <1>6
<1> HIDE DEF M, N
<1>10. Mapped(m, r, a) <=> Mapped(n, r, a)
  BY <1>1, <1>7, <1>8, <1>9 DEF Mapped
<1>11. (\A l \in DOMAIN w : Present(Deref(m, w[l]))) <=> \A l \in DOMAIN w : Present(Deref(n, w[l]))
  BY <1>1, <1>8, <1>9 DEF Present
<1>12. [l \in DOMAIN w |-> Deref(m, w[l]) \ {ACCESSED, DIRTY}]
         = [l \in DOMAIN w |-> Deref(n, w[l]) \ {ACCESSED, DIRTY}]
  BY <1>8, <1>9
<1> QED BY <1>7, <1>10, <1>11, <1>12 DEF Translation

\* A step that keeps the directories, and of the last entry of an address all
\* but the bits that the CPU raises, keeps the translation of the address.
LEMMA TranslationKept ==
  ASSUME TypeOK, TypeOK', MemInv(CachedBits), MemInv(CachedBits)', NEW r, NEW a, <<r, a>> \in Walks,
         Path(InitMem, r, a)["PTE"] \in Upper
           \/ Deref(mem', Path(InitMem, r, a)["PTE"]) \ {ACCESSED, DIRTY}
                = Deref(mem, Path(InitMem, r, a)["PTE"]) \ {ACCESSED, DIRTY}
  PROVE  Translation(mem', r, a) = Translation(mem, r, a)
<1> DEFINE P == Path(InitMem, r, a)
<1>1. /\ \A s \in Upper : Deref(mem, s) \cap CachedBits = Deref(InitMem, s) \cap CachedBits
      /\ \A s \in Upper : Deref(mem', s) \cap CachedBits = Deref(InitMem, s) \cap CachedBits
  BY DEF MemInv
<1>2. Path(mem, r, a) = P
  BY <1>1, PathFixed, CachedPathBits
<1>3. Path(mem', r, a) = P
  BY <1>1, PathFixed, CachedPathBits
<1>4. \A s : Deref(mem, s) \in Word /\ Deref(mem', s) \in Word
  BY DerefValue DEF TypeOK
<1>5. ASSUME NEW s \in Upper
      PROVE  Deref(mem', s) \ {ACCESSED, DIRTY} = Deref(mem, s) \ {ACCESSED, DIRTY}
  <2>1. Deref(mem', s) \cap CachedBits = Deref(mem, s) \cap CachedBits
    BY <1>1
  <2>2. \A e \in Word : e \ {ACCESSED, DIRTY} = e \cap CachedBits
    BY DEF CachedBits, Word
  <2> QED BY <1>4, <2>1, <2>2
<1>6. \A l \in UpperLevels : P[l] \in Upper
  BY UpperSlots
<1>7. \A l \in Levels : Deref(mem', P[l]) \ {ACCESSED, DIRTY} = Deref(mem, P[l]) \ {ACCESSED, DIRTY}
  BY <1>5, <1>6 DEF UpperLevels
<1> QED BY <1>2, <1>3, <1>7, TranslationFrom

\* A step that stores nothing, empties TLB entries at most, and ends no update.
LEMMA QuietStep ==
  ASSUME TlbInv, mem' = mem,
         \A p \in Procs, a \in Vas :
           tlb'[p][a] # <<>> => tlb'[p][a] = tlb[p][a] /\ cr3'[p] = cr3[p],
         \A u \in Threads : pc[u] = "write" => pc'[u] = "write" /\ call'[u] = call[u]
  PROVE  TlbInv'
<1>1. \A p, a : Updating(p, a) => Updating(p, a)'
  BY DEF Updating, Target
<1> QED BY <1>1 DEF TlbInv

LEMMA FlushCoherent ==
  ASSUME FlushReaches, EditInv(CachedBits), TlbInv, NEW t \in Threads, Flush(t)
  PROVE  TlbInv'
<1> DEFINE c == call[t]
<1>1. /\ TypeOK /\ pc[t] = "write" /\ c \in MmCalls
      /\ c.pid \in Procs \cup {Own} /\ Target(c) \in Procs
  BY EditAssumption DEF EditInv, ThreadInv, Flush, MmCalls, Target
<1>2. /\ mem' = mem /\ cr3' = cr3 /\ call' = call /\ FlushAddress(c.va)
      /\ \A u \in Threads \ {t} : pc'[u] = pc[u]
  BY <1>1 DEF Flush, Goto, shared, TypeOK
<1>3. ASSUME NEW p \in Procs, NEW a \in Vas
      PROVE  /\ tlb'[p][a] = tlb[p][a] \/ tlb'[p][a] = <<>>
             /\ p = Target(c) /\ a = c.va => tlb'[p][a] = <<>>
  <2>1. tlb[p] = [b \in Vas |-> tlb[p][b]]
    BY <1>1 DEF TypeOK
  <2>2. p = Target(c) => invalidate_tlb = "CUSTOM" \/ p = Self
    BY <1>1 DEF FlushReaches, TypeOK
  <2>3. tlb'[p] = IF invalidate_tlb = "CUSTOM" \/ p = Self
                    THEN [tlb[p] EXCEPT ![c.va] = <<>>] ELSE tlb[p]
    BY <1>2 DEF FlushAddress
  <2> QED BY <2>1, <2>2, <2>3
<1>4. ASSUME NEW p, NEW a, Updating(p, a), ~(p = Target(c) /\ a = c.va)
      PROVE  Updating(p, a)'
  BY <1>2, <1>4 DEF Updating, Target
<1> QED BY <1>2, <1>3, <1>4 DEF TlbInv

LEMMA WriteCoherent ==
  ASSUME TablesNested, NoAliases, EditInv(CachedBits), EditInv(CachedBits)', TlbInv,
         NEW t \in Threads, Write(t)
  PROVE  TlbInv'
<1> DEFINE c == call[t]
           w == Head(todo[t])
<1>1. /\ c \in MmCalls /\ pc[t] = "write" /\ w \in GoodWrites(CachedBits, c)
      /\ mem' = IF w.slot \in DOMAIN mem THEN [mem EXCEPT ![w.slot] = w.val] ELSE mem
  BY NextWrite
<1>2. UNCHANGED <<tlb, cr3, pc, call>>
  BY DEF Write, shared
<1>3. /\ TypeOK /\ RootInv /\ MemInv(CachedBits) /\ TypeOK' /\ MemInv(CachedBits)'
  BY DEF EditInv
<1>4. /\ w.level \in Levels /\ w.val \in Word /\ w.slot = InitPath(c)[w.level]
  BY <1>1 DEF GoodWrites
<1> HIDE DEF w
<1>5. \A s : s # w.slot \/ s \notin DOMAIN InitMem => Deref(mem', s) = Deref(mem, s)
  BY <1>1, <1>3, <1>4, StoredValue
<1>6. \A p, a : Updating(p, a) => Updating(p, a)'
  BY <1>2 DEF Updating, Target
<1>7. ASSUME NEW p \in Procs, NEW a \in Vas, <<p, a>> \in Touched, ~Updating(p, a)
      PROVE  Translation(mem', cr3[p], a) = Translation(mem, cr3[p], a)
  <2> DEFINE s == Path(InitMem, cr3[p], a)["PTE"]
  <2>1. cr3[p] \in RootsOf(p) /\ <<cr3[p], a>> \in Walks
    BY <1>3, <1>7, CpuWalks
  <2>2. <<p, a>> # <<Target(c), c.va>>
    BY <1>1, <1>7 DEF Updating
  <2>3. InitPath(c)["PTE"] \in DOMAIN InitMem => s # InitPath(c)["PTE"]
    <3> DEFINE x == <<p, a>>
    <3>1. x \in Touched /\ x # <<Target(c), c.va>> /\ x[1] = p /\ x[2] = a
      BY <1>7, <2>2
    <3> HIDE DEF x
    <3> QED BY <1>1, <2>1, <3>1 DEF NoAliases
  <2>4. CASE s = w.slot /\ s \in DOMAIN InitMem
    <3>1. w.level \in UpperLevels
      BY <1>4, <2>3, <2>4 DEF UpperLevels
    <3>2. s \in Upper
      BY <1>1, <1>4, <2>4, <3>1, CallSlots
    <3> QED BY <1>3, <2>1, <3>2, TranslationKept
  <2>5. CASE s # w.slot \/ s \notin DOMAIN InitMem
    <3>1. Deref(mem', s) = Deref(mem, s)
      BY <1>5, <2>5
    <3> QED BY <1>3, <2>1, <3>1, TranslationKept
  <2> QED BY <2>4, <2>5
<1>8. ASSUME NEW p \in Procs, NEW a \in Vas, tlb'[p][a] # <<>>
      PROVE  /\ <<p, a>> \in Touched
             /\ tlb'[p][a] = Translation(mem', cr3'[p], a) \/ Updating(p, a)'
  <2>1. /\ <<p, a>> \in Touched
        /\ tlb[p][a] = Translation(mem, cr3[p], a) \/ Updating(p, a)
    BY <1>2, <1>8 DEF TlbInv
  <2> QED BY <1>2, <1>6, <1>7, <2>1
<1> QED BY <1>8 DEF TlbInv

LEMMA TlbFillCoherent ==
  ASSUME EditInv(CachedBits), EditInv(CachedBits)', TlbInv, NEW x \in Touched,
         TlbFill(x[1], x[2])
  PROVE  TlbInv'
<1>1. /\ TypeOK /\ RootInv /\ MemInv(CachedBits) /\ TypeOK' /\ MemInv(CachedBits)'
  BY DEF EditInv
<1>2. \A s : Deref(mem', s) \ {ACCESSED} = Deref(mem, s) \ {ACCESSED}
  BY <1>1, TlbFillMem
<1>3. /\ UNCHANGED <<cr3, pc, call>>
      /\ tlb' = [tlb EXCEPT ![x[1]][x[2]] = Translation(mem, cr3[x[1]], x[2])]
  BY DEF TlbFill, shared
<1>4. \A p, a : Updating(p, a) => Updating(p, a)'
  BY <1>3 DEF Updating, Target
<1>5. ASSUME NEW p \in Procs, NEW a, <<p, a>> \in Touched
      PROVE  Translation(mem', cr3[p], a) = Translation(mem, cr3[p], a)
  <2> DEFINE s == Path(InitMem, cr3[p], a)["PTE"]
  <2>1. Deref(mem', s) \ {ACCESSED, DIRTY} = Deref(mem, s) \ {ACCESSED, DIRTY}
    <3>1. Deref(mem', s) \ {ACCESSED} = Deref(mem, s) \ {ACCESSED}
      BY <1>2
    <3> HIDE DEF s
    <3> QED BY <3>1
  <2>2. <<cr3[p], a>> \in Walks
    BY <1>1, <1>5, CpuWalks
  <2> QED BY <1>1, <2>1, <2>2, TranslationKept
<1>6. x[1] \in Procs /\ x = <<x[1], x[2]>>
  BY EditAssumption
<1>7. ASSUME NEW p \in Procs, NEW a \in Vas, tlb'[p][a] # <<>>
      PROVE  /\ <<p, a>> \in Touched
             /\ tlb'[p][a] = Translation(mem', cr3'[p], a) \/ Updating(p, a)'
  <2>1. CASE p = x[1] /\ a = x[2]
    <3>1. tlb'[p][a] = Translation(mem, cr3[p], a)
      BY <1>1, <1>3, <1>6, <2>1 DEF TypeOK
    <3>2. <<p, a>> \in Touched
      BY <1>6, <2>1
    <3> QED BY <1>3, <1>5, <3>1, <3>2
  <2>2. CASE ~(p = x[1] /\ a = x[2])
    <3>1. tlb'[p][a] = tlb[p][a]
      BY <1>1, <1>3, <1>6, <2>2 DEF TypeOK
    <3>2. /\ <<p, a>> \in Touched
          /\ tlb[p][a] = Translation(mem, cr3[p], a) \/ Updating(p, a)
      BY <1>7, <3>1 DEF TlbInv
    <3> QED BY <1>3, <1>4, <1>5, <3>1, <3>2
  <2> QED BY <2>1, <2>2
<1> QED BY <1>7 DEF TlbInv

\* The other steps of a thread leave memory and the TLBs alone, or flush.
LEMMA StepCoherent ==
  ASSUME FlushReaches, TablesNested, NoAliases, EditInv(CachedBits), EditInv(CachedBits)',
         TlbInv, NEW t \in Threads, Step(t) \/ \E c \in Calls : Begin(t, c)
  PROVE  TlbInv'
<1>1. TypeOK
  BY DEF EditInv
<1>2. CASE Write(t)
  BY <1>2, WriteCoherent
<1>3. CASE Flush(t)
  BY <1>3, FlushCoherent
<1>4. CASE FlushAgain(t)
  <2>1. /\ mem' = mem /\ cr3' = cr3 /\ call' = call /\ FlushAddress(call[t].va)
        /\ \A u \in Threads : pc[u] = "write" => pc'[u] = "write"
    BY <1>1, <1>4 DEF FlushAgain, Goto, shared, TypeOK
  <2>2. ASSUME NEW p \in Procs, NEW a \in Vas, tlb'[p][a] # <<>>
        PROVE  tlb'[p][a] = tlb[p][a]
    <3>1. tlb[p] = [b \in Vas |-> tlb[p][b]]
      BY <1>1 DEF TypeOK
    <3>2. tlb'[p] = [tlb[p] EXCEPT ![call[t].va] = <<>>] \/ tlb'[p] = tlb[p]
      BY <2>1 DEF FlushAddress
    <3> QED BY <2>2, <3>1, <3>2
  <2> QED BY <2>1, <2>2, QuietStep
<1>5. CASE \/ ResolveKernel(t) \/ CopyOut(t) \/ ResolveUser(t) \/ WalkUser(t)
           \/ UpdateNoMm(t) \/ UpdateKernel(t) \/ UpdateUser(t) \/ UserSlots(t)
           \/ Return(t) \/ \E c \in Calls : Begin(t, c)
  <2>1. /\ mem' = mem /\ cr3' = cr3 /\ tlb' = tlb
    BY <1>5 DEF ResolveKernel, CopyOut, ResolveUser, WalkUser, UpdateNoMm, UpdateKernel,
                UpdateUser, UserSlots, Return, Begin, shared
  <2>2. pc[t] # "write"
    BY <1>5 DEF ResolveKernel, CopyOut, ResolveUser, WalkUser, UpdateNoMm, UpdateKernel,
                UpdateUser, UserSlots, Return, Begin
  <2>3. \A u \in Threads \ {t} : pc'[u] = pc[u] /\ call'[u] = call[u]
    BY <1>1, <1>5 DEF ResolveKernel, CopyOut, ResolveUser, WalkUser, UpdateNoMm,
                UpdateKernel, UpdateUser, UserSlots, Return, Begin, Resolved, Goto, TypeOK
  <2> QED BY <2>1, <2>2, <2>3, QuietStep
<1> QED BY <1>2, <1>3, <1>4, <1>5 DEF Step

LEMMA NextCoherent ==
  ASSUME Editing(CachedBits), NoAliases, FlushReaches, EditInv(CachedBits),
         EditInv(CachedBits)', TlbInv, [Next]_vars
  PROVE  TlbInv'
<1>1. TypeOK
  BY DEF EditInv
<1>2. ASSUME NEW t \in Threads, Step(t) \/ \E c \in Calls : Begin(t, c) PROVE TlbInv'
  BY <1>2, StepCoherent DEF Editing
<1>3. ASSUME NEW x \in Touched, TlbFill(x[1], x[2]) PROVE TlbInv'
  BY <1>3, TlbFillCoherent
<1>4. ASSUME NEW x \in Touched, TlbEvict(x[1], x[2]) PROVE TlbInv'
  <2>1. /\ UNCHANGED <<mem, cr3, pc, call>> /\ tlb' = [tlb EXCEPT ![x[1]][x[2]] = <<>>]
    BY <1>4 DEF TlbEvict, shared
  <2>2. ASSUME NEW p \in Procs, NEW a \in Vas, tlb'[p][a] # <<>>
        PROVE  tlb'[p][a] = tlb[p][a]
    BY <1>1, <2>1, <2>2 DEF TypeOK
  <2> QED BY <2>1, <2>2, QuietStep
<1>5. ASSUME NEW p \in Procs, LoadRoot(p) PROVE TlbInv'
  <2>1. /\ UNCHANGED <<mem, pc, call>> /\ cr3' = [cr3 EXCEPT ![p] = root[p]]
        /\ tlb' = [tlb EXCEPT ![p] = [a \in Vas |-> <<>>]]
    BY <1>5 DEF LoadRoot
  <2>2. ASSUME NEW q \in Procs, NEW a \in Vas, tlb'[q][a] # <<>>
        PROVE  tlb'[q][a] = tlb[q][a] /\ cr3'[q] = cr3[q]
    BY <1>1, <2>1, <2>2 DEF TypeOK
  <2> QED BY <2>1, <2>2, QuietStep
<1>6. ASSUME \/ \E i \in Impls : ptedit_use_implementation(i)
             \/ \E i \in TlbModes : ptedit_switch_tlb_invalidation(i)
             \/ \E x \in RootSwitches : ptedit_set_paging_root(x[1], x[2])
             \/ UNCHANGED vars
      PROVE  TlbInv'
  <2>1. UNCHANGED <<mem, cr3, tlb, pc, call>>
    BY <1>6 DEF ptedit_use_implementation, ptedit_switch_tlb_invalidation,
                ptedit_set_paging_root, vars
  <2> QED BY <2>1, QuietStep
<1> QED BY <1>2, <1>3, <1>4, <1>5, <1>6 DEF Next

\* No TLB entry disagrees with the page tables but while its address is being
\* updated (update_vm, ptedit_update_user, invalidate_tlb), when no call changes
\* a directory entry in bits that a TLB entry keeps, no other address that is
\* used shares the entry that is written, and the flush reaches the process.
THEOREM FlushedTlbsAgree ==
  Editing(CachedBits) /\ NoAliases /\ FlushReaches => (Spec => []TlbCoherent)
<1> SUFFICES ASSUME Editing(CachedBits), NoAliases, FlushReaches PROVE Spec => []TlbCoherent
  OBVIOUS
<1>1. Init => EditInv(CachedBits) /\ TlbInv
  <2>1. Init => TlbInv
    BY DEF Init, TlbInv
  <2> QED BY <2>1, InitInv
<1>2. EditInv(CachedBits) /\ [Next]_vars => EditInv(CachedBits)'
  BY NextInv, CachedPathBits
<1>3. EditInv(CachedBits) /\ TlbInv /\ [Next]_vars => TlbInv'
  BY <1>2, NextCoherent
<1>4. TlbInv => TlbCoherent
  BY DEF TlbInv, TlbCoherent
<1> QED BY <1>1, <1>2, <1>3, <1>4, PTL DEF Spec

-----------------------------------------------------------------------------
(***************************************************************************)
(* Calls that nobody interferes with have their documented effect.         *)
(*                                                                         *)
(* The argument: paths stay what they were, so what a call finds, what it  *)
(* makes of it and what it has left to write can all be stated about       *)
(* memory when the call began; at each place of the call that is a         *)
(* relation between the thread's locals and that memory.                   *)
(***************************************************************************)

\* The bits of an entry that decide how the kernel, the library and the CPU
\* go on from it.
TableBits == Bits \ {RW, USER, ACCESSED, DIRTY, NX}

\* The entries of a call's address in memory m, the levels the CPU reads and
\* whether it comes to a page.
EntryAt(m, c, l) == Deref(m, InitPath(c)[l])
Reached(m, c) == {l \in CpuLevels : \A k \in Above[l] : NamesTable(k, EntryAt(m, c, k))}
MappedIn(m, c) ==
  /\ c \in MmCalls
  /\ \/ "PTE" \in Reached(m, c)
     \/ "PMD" \in Reached(m, c) /\ PSE \in EntryAt(m, c, "PMD")

-----------------------------------------------------------------------------
(* Hypotheses *)

\* The first page frame holds no table (it is the root of no process).
FrameZeroFree == \A s \in DOMAIN InitMem : s[1] # {}

\* No table occurs twice on the path of an address.
TablesDistinct ==
  \A c \in MmCalls, k, l \in {"PGD", "PUD", "PMD"} :
    k # l /\ InitPath(c)[k] \in DOMAIN InitMem => InitPath(c)[k] # InitPath(c)[l]

\* What the two implementations expect of directories: those that are present
\* pass p4d_bad, no page has 1 GB, and an entry that is not present is zero,
\* and stays so, or that of a 2 MB page.
TablesPlain(K) ==
  \A c \in MmCalls :
    /\ Present(EntryAt(InitMem, c, "PGD")) => ~Bad(EntryAt(InitMem, c, "PGD"))
    /\ PSE \notin EntryAt(InitMem, c, "PUD")
    /\ \A l \in {"PGD", "PUD", "PMD"} :
         \/ Present(EntryAt(InitMem, c, l))
         \/ NoEntry(EntryAt(InitMem, c, l)) /\ CachedBits \subseteq K
         \/ l = "PMD" /\ PSE \in EntryAt(InitMem, c, l)

\* With four levels P4D is PGD, and update_vm writes both.
NotThroughP4d ==
  \A c \in Calls :
    /\ c.fn = "update" => "P4D" \notin DOMAIN c.arg
    /\ c.fn \in LevelFns => "PGD" \notin c.levels \/ "KERNEL" \notin Impls

ExactEditing(K) ==
  /\ TableBits \subseteq K /\ ACCESSED \notin K
  /\ Editing(K) /\ FrameZeroFree /\ TablesDistinct /\ TablesPlain(K) /\ NotThroughP4d

-----------------------------------------------------------------------------
(* The inductive invariant *)

\* Memory that has the directories of the start.
Kept(K, m) ==
  /\ m \in [DOMAIN InitMem -> Word]
  /\ \A s \in Upper : Deref(m, s) \cap K = Deref(InitMem, s) \cap K

\* Entries found in memory m are those the CPU uses.
FoundExact(c, m, f) ==
  /\ \A l \in DOMAIN f : l \in Levels /\ f[l] = EntryAt(m, c, l)
  /\ MappedIn(m, c) => DOMAIN f \ {"P4D"} = Reached(m, c)
  /\ ~MappedIn(m, c) => "PTE" \notin DOMAIN f
  /\ "P4D" \in DOMAIN f => "KERNEL" \in Impls

\* What should become of the entry of a level.
NewEntry(c, m, l) ==
  IF l \in EditedLevels(c) \ {"P4D"} THEN NewValue(c, l, EntryAt(m, c, l)) ELSE EntryAt(m, c, l)

\* Entries to be written have all the changes, and no others.
VmExact(c, m, v) ==
  MappedIn(m, c) =>
    /\ EditedLevels(c) \cap Reached(m, c) \subseteq DOMAIN v
    /\ \A l \in DOMAIN v \cap (Reached(m, c) \cup {"P4D"}) : v[l] = NewEntry(c, m, l)
    /\ "P4D" \in DOMAIN v => "PGD" \notin EditedLevels(c)

\* Memory n is on the way from m to what the call should make of it, and the
\* writes that are left complete it.
Pending(c, m, n, ws) ==
  LET x == Expected(c, m, R(c))
  IN  /\ \A i \in DOMAIN ws : ws[i].slot \in DOMAIN InitMem => ws[i].val = x[ws[i].slot]
      /\ \A s \in DOMAIN InitMem : n[s] = x[s] \/ \E i \in DOMAIN ws : ws[i].slot = s

\* A call that has begun to update.
Changes(c, m) == c.fn # "resolve" /\ (c.fn \in PteFns => MappedIn(m, c))

\* What a call leaves behind.
Effect(c, m, n, f) ==
  /\ MappedIn(m, c) => n = Expected(c, m, R(c))
  /\ c.fn = "resolve" => FoundExact(c, m, f)
  /\ ~MappedIn(m, c) /\ c.fn \in PteFns \cup {"resolve"} => "PTE" \notin DOMAIN f /\ n = m

SnapInv(K, t) ==
  pc[t] # "idle" => Kept(K, snap[t].mem) /\ snap[t].root[Target(call[t])] = R(call[t])

\* What a thread that was alone since its call began has done so far.
AloneInv(t) ==
  LET c == call[t]
      m == snap[t].mem
  IN  /\ pc[t] \in {"resolve", "copy", "walk", "update", "slots"} => mem = m
      /\ pc[t] = "copy" =>
           FoundExact(c, m, [l \in DOMAIN slots[t] |-> Deref(m, slots[t][l])])
      /\ pc[t] = "walk" => /\ \A l \in DOMAIN cur[t] : cur[t][l] = EntryAt(m, c, l)
                           /\ \A k \in Above[level[t]] : NamesTable(k, EntryAt(m, c, k))
      /\ pc[t] = "slots" => FoundExact(c, m, cur[t])
      /\ pc[t] = "update" \/ nested[t] => VmExact(c, m, vm[t]) /\ Changes(c, m)
      /\ pc[t] = "write" => /\ Changes(c, m)
                            /\ MappedIn(m, c) => Pending(c, m, mem, todo[t])
      /\ pc[t] = "flush" => /\ Changes(c, m)
                            /\ MappedIn(m, c) => mem = Expected(c, m, R(c))
      /\ pc[t] = "return" => Effect(c, m, mem, cur[t])

CallsInv(K) ==
  /\ EditInv(K)
  /\ \A t \in Threads : SnapInv(K, t)
  /\ \A t \in Threads : alone[t] /\ pc[t] # "idle" => AloneInv(t)

-----------------------------------------------------------------------------
(* Directories and walks *)

LEMMA TablePathBits ==
  ASSUME NEW K, TableBits \subseteq K, ACCESSED \notin K
  PROVE  PathBits(K)
BY EditAssumption
DEF PathBits, FrameBits, TableBits, Bits, RW, USER, ACCESSED, DIRTY, NX

LEMMA KeptPath ==
  ASSUME NEW K, PathBits(K), NEW m, Kept(K, m), NEW c \in MmCalls
  PROVE  Path(m, R(c), c.va) = InitPath(c)
<1>1. <<R(c), c.va>> \in Walks
  BY CallSlots
<1>2. \A s \in Upper : Deref(m, s) \cap K = Deref(InitMem, s) \cap K
  BY DEF Kept
<1>3. Path(m, R(c), c.va) = Path(InitMem, R(c), c.va)
  BY <1>1, <1>2, PathFixed
<1> QED BY <1>3 DEF InitPath

\* P4D is PGD.
LEMMA P4dIsPgd ==
  ASSUME NEW m, NEW c
  PROVE  InitPath(c)["P4D"] = InitPath(c)["PGD"] /\ EntryAt(m, c, "P4D") = EntryAt(m, c, "PGD")
BY PathLevels DEF InitPath, EntryAt

\* A directory keeps what the walks depend on.
LEMMA KeptEntry ==
  ASSUME NEW K, TableBits \subseteq K, NEW d, NEW e \in Word, d \in Word, e \cap K = d \cap K
  PROVE  /\ Present(e) <=> Present(d)
         /\ PSE \in e <=> PSE \in d
         /\ Bad(e) => Bad(d)
         /\ CachedBits \subseteq K /\ NoEntry(d) => NoEntry(e)
<1>1. PRESENT \in K /\ PSE \in K
  BY EditAssumption DEF TableBits, Bits, PRESENT, PSE, RW, USER, ACCESSED, DIRTY, NX
<1>2. Bad(e) => Bad(d)
  <2>1. SUFFICES ASSUME NEW x \in e, x \notin Mask(12, 40),
                        x \notin {PRESENT, RW, USER, ACCESSED, DIRTY, NX}
                 PROVE  Bad(d)
    BY DEF Bad
  <2>2. x \in Bits
    BY DEF Word
  <2>3. x \in K
    BY <2>1, <2>2 DEF TableBits
  <2>4. x \in d
    BY <2>3
  <2> QED BY <2>1, <2>4 DEF Bad
<1>3. CachedBits \subseteq K /\ NoEntry(d) => NoEntry(e)
  <2>1. SUFFICES ASSUME CachedBits \subseteq K, NoEntry(d), NEW x \in e, x \notin {ACCESSED, DIRTY}
                 PROVE  FALSE
    BY DEF NoEntry
  <2>2. x \in K
    BY <2>1 DEF CachedBits, Word
  <2>3. x \in d
    BY <2>2
  <2> QED BY <2>1, <2>3 DEF NoEntry
<1> QED BY <1>1, <1>2, <1>3 DEF Present

LEMMA InitEntries ==
  ASSUME NEW s
  PROVE  Deref(InitMem, s) \in Word
BY EditAssumption, DerefValue

\* So directories stay such that both implementations understand them.
LEMMA PlainEntries ==
  ASSUME NEW K, TableBits \subseteq K, TablesPlain(K), NEW m, Kept(K, m), NEW c \in MmCalls
  PROVE  /\ Present(EntryAt(m, c, "PGD")) => ~Bad(EntryAt(m, c, "PGD"))
         /\ PSE \notin EntryAt(m, c, "PUD")
         /\ Present(EntryAt(m, c, "PGD")) \/ NoEntry(EntryAt(m, c, "PGD"))
         /\ Present(EntryAt(m, c, "PUD")) \/ NoEntry(EntryAt(m, c, "PUD"))
         /\ Present(EntryAt(m, c, "PMD")) \/ NoEntry(EntryAt(m, c, "PMD"))
              \/ PSE \in EntryAt(m, c, "PMD")
<1>1. ASSUME NEW l \in UpperLevels
      PROVE  LET e == EntryAt(m, c, l)
                 d == EntryAt(InitMem, c, l)
             IN  /\ Present(e) <=> Present(d)
                 /\ PSE \in e <=> PSE \in d
                 /\ Bad(e) => Bad(d)
                 /\ CachedBits \subseteq K /\ NoEntry(d) => NoEntry(e)
  <2>1. EntryAt(m, c, l) \cap K = EntryAt(InitMem, c, l) \cap K
    BY CallSlots DEF Kept, EntryAt
  <2>2. EntryAt(m, c, l) \in Word
    BY DerefValue DEF Kept, EntryAt
  <2>3. EntryAt(InitMem, c, l) \in Word
    BY InitEntries DEF EntryAt
  <2> HIDE DEF EntryAt
  <2> QED BY <2>1, <2>2, <2>3, KeptEntry
<1>2. "PGD" \in UpperLevels /\ "PUD" \in UpperLevels /\ "PMD" \in UpperLevels
  BY DEF UpperLevels, Levels
<1> QED BY <1>1, <1>2 DEF TablesPlain

\* The levels the CPU reads, one by one.
LEMMA ReachedLevels ==
  ASSUME NEW m, NEW c
  PROVE  LET E(l) == EntryAt(m, c, l) IN
         /\ Reached(m, c) \subseteq {"PGD", "PUD", "PMD", "PTE"}
         /\ "PGD" \in Reached(m, c)
         /\ "PUD" \in Reached(m, c) <=> Present(E("PGD"))
         /\ "PMD" \in Reached(m, c) <=>
              "PUD" \in Reached(m, c) /\ Present(E("PUD")) /\ PSE \notin E("PUD")
         /\ "PTE" \in Reached(m, c) <=>
              "PMD" \in Reached(m, c) /\ Present(E("PMD")) /\ PSE \notin E("PMD")
<1>1. EntryAt(m, c, "P4D") = EntryAt(m, c, "PGD")
  BY P4dIsPgd
<1> QED BY <1>1 DEF Reached, CpuLevels, Levels, Above, NamesTable

LEMMA CpuReached ==
  ASSUME NEW K, PathBits(K), NEW m, Kept(K, m), NEW c \in MmCalls
  PROVE  /\ DOMAIN CpuWalk(m, R(c), c.va) = Reached(m, c)
         /\ \A l \in Reached(m, c) : CpuWalk(m, R(c), c.va)[l] = InitPath(c)[l]
<1>1. Path(m, R(c), c.va) = InitPath(c)
  BY KeptPath
<1>2. DOMAIN InitPath(c) = Levels
  BY PathLevels DEF InitPath
<1>3. CpuWalk(m, R(c), c.va) = Restrict(InitPath(c), Reached(m, c))
  BY <1>1 DEF CpuWalk, Reached, EntryAt
<1>4. Restrict(InitPath(c), Reached(m, c)) = [l \in Reached(m, c) |-> InitPath(c)[l]]
  BY DEF Restrict
<1> QED BY <1>3, <1>4

\* A process that does not exist has no page.
LEMMA NothingMapped ==
  ASSUME NEW K, FrameZeroFree, NEW m, Kept(K, m), NEW c, R(c) = {}
  PROVE  ~Mapped(m, R(c), c.va)
<1> DEFINE s == Path(m, R(c), c.va)
<1>1. s["PGD"] = <<{}, Index(c.va, "PGD")>>
  BY PathLevels DEF Slot
<1>2. s["PGD"] \notin DOMAIN InitMem
  BY <1>1 DEF FrameZeroFree
<1>3. Deref(m, s["PGD"]) = {}
  BY <1>2, DerefValue DEF Kept
<1>4. ~NamesTable("PGD", Deref(m, s["PGD"]))
  BY <1>3 DEF NamesTable, Present
<1> HIDE DEF s
<1>5. "PGD" \in Above["PMD"] /\ "PGD" \in Above["PTE"]
  BY DEF Above
<1>6. "PMD" \notin DOMAIN CpuWalk(m, R(c), c.va) /\ "PTE" \notin DOMAIN CpuWalk(m, R(c), c.va)
  BY <1>4, <1>5 DEF CpuWalk, Restrict, s
<1> QED BY <1>6 DEF Mapped

LEMMA MappedMeans ==
  ASSUME NEW K, PathBits(K), FrameZeroFree, NEW m, Kept(K, m), NEW c \in Calls
  PROVE  Mapped(m, R(c), c.va) <=> MappedIn(m, c)
<1>1. CASE c \in MmCalls
  <2>1. /\ DOMAIN CpuWalk(m, R(c), c.va) = Reached(m, c)
        /\ \A l \in Reached(m, c) : CpuWalk(m, R(c), c.va)[l] = InitPath(c)[l]
    BY <1>1, CpuReached
  <2> QED BY <1>1, <2>1 DEF Mapped, MappedIn, EntryAt
<1>2. CASE c \notin MmCalls
  <2>1. R(c) = {}
    BY <1>2 DEF MmCalls
  <2> QED BY <1>2, <2>1, NothingMapped DEF MappedIn
<1> QED BY <1>1, <1>2

-----------------------------------------------------------------------------
(* What the walks find *)

\* The levels the kernel's walk finds, one by one.
LEMMA KernelLevels ==
  ASSUME NEW K, PathBits(K), NEW m, Kept(K, m), NEW c \in MmCalls
  PROVE  LET E(l) == EntryAt(m, c, l)
             D == DOMAIN KernelWalk(m, R(c), c.va)
         IN  /\ D \subseteq Levels /\ "PGD" \in D
             /\ "P4D" \in D <=> ~NoEntry(E("PGD")) /\ ~Bad(E("PGD"))
             /\ "PUD" \in D <=> "P4D" \in D /\ ~NoEntry(E("PUD"))
             /\ "PMD" \in D <=> "PUD" \in D /\ ~PudLarge(E("PUD")) /\ ~NoEntry(E("PMD"))
             /\ "PTE" \in D <=> "PMD" \in D /\ ~PmdLarge(E("PMD"))
<1> DEFINE V == {l \in Levels : \A k \in Above[l] \cup {l} :
                   /\ KernelFinds(k, EntryAt(m, c, k))
                   /\ k # l => KernelGoesOn(k, EntryAt(m, c, k))}
<1>1. Path(m, R(c), c.va) = InitPath(c)
  BY KeptPath
<1>2. DOMAIN InitPath(c) = Levels
  BY PathLevels DEF InitPath
<1>3. KernelWalk(m, R(c), c.va) = Restrict(InitPath(c), V)
  BY <1>1 DEF KernelWalk, EntryAt
<1>4. DOMAIN KernelWalk(m, R(c), c.va) = V
  BY <1>3 DEF Restrict
<1>5. EntryAt(m, c, "P4D") = EntryAt(m, c, "PGD")
  BY P4dIsPgd
<1>6. LET E(l) == EntryAt(m, c, l)
      IN  /\ V \subseteq Levels /\ "PGD" \in V
          /\ "P4D" \in V <=> ~NoEntry(E("PGD")) /\ ~Bad(E("PGD"))
          /\ "PUD" \in V <=> "P4D" \in V /\ ~NoEntry(E("PUD"))
          /\ "PMD" \in V <=> "PUD" \in V /\ ~PudLarge(E("PUD")) /\ ~NoEntry(E("PMD"))
          /\ "PTE" \in V <=> "PMD" \in V /\ ~PmdLarge(E("PMD"))
  BY <1>5 DEF Above, Levels, KernelFinds, KernelGoesOn
<1> HIDE DEF V
<1> QED BY <1>4, <1>6

LEMMA PresentEntry ==
  ASSUME NEW e, Present(e) \/ PSE \in e
  PROVE  ~NoEntry(e)
BY EditAssumption DEF Present, NoEntry, PRESENT, PSE, ACCESSED, DIRTY

\* The kernel's walk finds what the CPU uses.
LEMMA KernelFindsExact ==
  ASSUME NEW K, TableBits \subseteq K, PathBits(K), TablesPlain(K), "KERNEL" \in Impls,
         NEW m, Kept(K, m), NEW c \in MmCalls, NEW w, w = KernelWalk(m, R(c), c.va)
  PROVE  FoundExact(c, m, [l \in DOMAIN w |-> Deref(m, w[l])])
<1> DEFINE E(l) == EntryAt(m, c, l)
           D == DOMAIN w
           f == [l \in D |-> Deref(m, w[l])]
<1>1. /\ D \subseteq Levels /\ "PGD" \in D
      /\ "P4D" \in D <=> ~NoEntry(E("PGD")) /\ ~Bad(E("PGD"))
      /\ "PUD" \in D <=> "P4D" \in D /\ ~NoEntry(E("PUD"))
      /\ "PMD" \in D <=> "PUD" \in D /\ ~PudLarge(E("PUD")) /\ ~NoEntry(E("PMD"))
      /\ "PTE" \in D <=> "PMD" \in D /\ ~PmdLarge(E("PMD"))
  BY KernelLevels
<1>2. \A l \in D : w[l] = InitPath(c)[l]
  BY KernelWalkSlots, KeptPath
<1>3. \A l \in D : f[l] = E(l)
  BY <1>2 DEF EntryAt
<1>4. /\ Present(E("PGD")) => ~Bad(E("PGD"))
      /\ PSE \notin E("PUD")
      /\ Present(E("PGD")) \/ NoEntry(E("PGD"))
      /\ Present(E("PUD")) \/ NoEntry(E("PUD"))
      /\ Present(E("PMD")) \/ NoEntry(E("PMD")) \/ PSE \in E("PMD")
  BY PlainEntries
<1>5. \A l : Present(E(l)) \/ PSE \in E(l) => ~NoEntry(E(l))
  BY PresentEntry
<1>6. /\ Reached(m, c) \subseteq {"PGD", "PUD", "PMD", "PTE"}
      /\ "PGD" \in Reached(m, c)
      /\ "PUD" \in Reached(m, c) <=> Present(E("PGD"))
      /\ "PMD" \in Reached(m, c) <=>
           "PUD" \in Reached(m, c) /\ Present(E("PUD")) /\ PSE \notin E("PUD")
      /\ "PTE" \in Reached(m, c) <=>
           "PMD" \in Reached(m, c) /\ Present(E("PMD")) /\ PSE \notin E("PMD")
  BY ReachedLevels
<1> HIDE DEF E, D
<1>7. MappedIn(m, c) <=> \/ "PTE" \in Reached(m, c)
                         \/ "PMD" \in Reached(m, c) /\ PSE \in E("PMD")
  BY DEF MappedIn, E
<1>8. MappedIn(m, c) => D \ {"P4D"} = Reached(m, c)
  <2>1. SUFFICES ASSUME MappedIn(m, c) PROVE D \ {"P4D"} = Reached(m, c)
    OBVIOUS
  <2>2. {"PGD", "P4D", "PUD", "PMD"} \subseteq D
    BY <1>1, <1>4, <1>5, <1>6, <1>7, <2>1 DEF PudLarge
  <2>3. {"PGD", "PUD", "PMD"} \subseteq Reached(m, c)
    BY <1>6, <1>7, <2>1
  <2>4. "PTE" \in D <=> "PTE" \in Reached(m, c)
    BY <1>1, <1>6, <1>7, <2>1, <2>2 DEF PmdLarge
  <2> QED BY <1>1, <1>6, <2>2, <2>3, <2>4 DEF Levels
<1>9. ~MappedIn(m, c) => "PTE" \notin D
  BY <1>1, <1>4, <1>6, <1>7 DEF PudLarge, PmdLarge
<1>10. FoundExact(c, m, f)
  BY <1>1, <1>3, <1>8, <1>9 DEF FoundExact, E
<1> QED BY <1>10 DEF D

\* So does the library's own walk, one table after the other.
LEMMA WalkExact ==
  ASSUME NEW K, TableBits \subseteq K, TablesPlain(K), NEW m, Kept(K, m), NEW c \in MmCalls,
         NEW f, NEW l \in CpuLevels, Reported(f, l),
         \A k \in DOMAIN f : f[k] = EntryAt(m, c, k),
         \A k \in Above[l] : NamesTable(k, EntryAt(m, c, k))
  PROVE  LET found == UserReport(f, l, EntryAt(m, c, l))
             next == UserNextLevel(l, EntryAt(m, c, l))
         IN  /\ next = "end" => FoundExact(c, m, found)
             /\ next # "end" => /\ \A k \in DOMAIN found : found[k] = EntryAt(m, c, k)
                                /\ \A k \in Above[next] : NamesTable(k, EntryAt(m, c, k))
<1> DEFINE E(k) == EntryAt(m, c, k)
           found == UserReport(f, l, E(l))
           next == UserNextLevel(l, E(l))
           D == DOMAIN found
<1>1. \A k \in D : found[k] = E(k)
  BY DEF UserReport
<1>2. D = IF l = "PGD" /\ ~Present(E("PGD")) THEN DOMAIN f ELSE DOMAIN f \cup {l}
  BY DEF UserReport
<1>3. PSE \notin E("PUD")
  BY PlainEntries
<1>4. E("P4D") = E("PGD")
  BY P4dIsPgd
<1>5. /\ Reached(m, c) \subseteq {"PGD", "PUD", "PMD", "PTE"}
      /\ "PGD" \in Reached(m, c)
      /\ "PUD" \in Reached(m, c) <=> Present(E("PGD"))
      /\ "PMD" \in Reached(m, c) <=>
           "PUD" \in Reached(m, c) /\ Present(E("PUD")) /\ PSE \notin E("PUD")
      /\ "PTE" \in Reached(m, c) <=>
           "PMD" \in Reached(m, c) /\ Present(E("PMD")) /\ PSE \notin E("PMD")
  BY ReachedLevels
<1>6. MappedIn(m, c) <=> \/ "PTE" \in Reached(m, c)
                         \/ "PMD" \in Reached(m, c) /\ PSE \in E("PMD")
  BY DEF MappedIn
<1>7. \A k \in Above[l] : NamesTable(k, E(k))
  OBVIOUS
<1> HIDE DEF E, found, D
<1>8. ASSUME D \subseteq Levels, "P4D" \notin D,
             MappedIn(m, c) => D = Reached(m, c), ~MappedIn(m, c) => "PTE" \notin D
      PROVE  FoundExact(c, m, found)
  <2>1. D \ {"P4D"} = D
    BY <1>8
  <2> QED BY <1>1, <1>8, <2>1 DEF FoundExact, D, E
<1>9. CASE l = "PGD"
  <2>1. DOMAIN f = {}
    BY <1>9 DEF Reported, Above
  <2>2. next = IF Present(E("PGD")) THEN "PUD" ELSE "end"
    BY <1>9 DEF UserNextLevel
  <2>3. next = "end" => FoundExact(c, m, found)
    BY <1>2, <1>5, <1>6, <1>8, <1>9, <2>1, <2>2 DEF Levels
  <2>4. next # "end" => \A k \in Above[next] : NamesTable(k, E(k))
    BY <1>4, <2>2 DEF Above, NamesTable
  <2> QED BY <1>1, <2>3, <2>4 DEF D, found, E
<1>10. CASE l = "PUD"
  <2>1. DOMAIN f = {"PGD"} /\ Present(E("PGD"))
    BY <1>7, <1>10 DEF Reported, Above, NamesTable
  <2>2. next = IF Present(E("PUD")) THEN "PMD" ELSE "end"
    BY <1>10 DEF UserNextLevel
  <2>3. next = "end" => FoundExact(c, m, found)
    BY <1>2, <1>5, <1>6, <1>8, <1>10, <2>1, <2>2 DEF Levels
  <2>4. next # "end" => \A k \in Above[next] : NamesTable(k, E(k))
    BY <1>3, <1>4, <2>1, <2>2 DEF Above, NamesTable
  <2> QED BY <1>1, <2>3, <2>4 DEF D, found, E
<1>11. CASE l = "PMD"
  <2>1. DOMAIN f = {"PGD", "PUD"} /\ Present(E("PGD")) /\ Present(E("PUD"))
    BY <1>7, <1>11 DEF Reported, Above, NamesTable
  <2>2. next = IF Present(E("PMD")) /\ PSE \notin E("PMD") THEN "PTE" ELSE "end"
    BY <1>11 DEF UserNextLevel
  <2>3. next = "end" => FoundExact(c, m, found)
    <3>1. SUFFICES ASSUME next = "end" PROVE FoundExact(c, m, found)
      OBVIOUS
    <3>2. "PTE" \notin Reached(m, c) /\ {"PGD", "PUD", "PMD"} \subseteq Reached(m, c)
      BY <1>3, <1>5, <2>1, <2>2, <3>1
    <3>3. D = {"PGD", "PUD", "PMD"} /\ Reached(m, c) = {"PGD", "PUD", "PMD"}
      BY <1>2, <1>5, <1>11, <2>1, <3>2
    <3> QED BY <1>8, <3>3 DEF Levels
  <2>4. next # "end" => \A k \in Above[next] : NamesTable(k, E(k))
    BY <1>3, <1>4, <2>1, <2>2 DEF Above, NamesTable
  <2> QED BY <1>1, <2>3, <2>4 DEF D, found, E
<1>12. CASE l = "PTE"
  <2>1. /\ DOMAIN f = {"PGD", "PUD", "PMD"} /\ Present(E("PGD")) /\ Present(E("PUD"))
        /\ Present(E("PMD")) /\ PSE \notin E("PMD")
    BY <1>7, <1>12 DEF Reported, Above, NamesTable
  <2>2. next = "end"
    BY <1>12 DEF UserNextLevel
  <2>3. D = {"PGD", "PUD", "PMD", "PTE"} /\ Reached(m, c) = {"PGD", "PUD", "PMD", "PTE"}
    BY <1>2, <1>3, <1>5, <1>12, <2>1
  <2>4. FoundExact(c, m, found)
    BY <1>6, <1>8, <2>3 DEF Levels
  <2> QED BY <2>2, <2>4 DEF found, E
<1> QED BY <1>9, <1>10, <1>11, <1>12 DEF CpuLevels, Levels

LEMMA NothingFound ==
  ASSUME NEW c, c \notin MmCalls, NEW m
  PROVE  FoundExact(c, m, <<>>)
BY DEF FoundExact, MappedIn

-----------------------------------------------------------------------------
(* What a call makes of the entries it found *)

LEMMA EditedLevelsOf ==
  ASSUME NEW c \in Calls
  PROVE  /\ c.fn \in PteFns => EditedLevels(c) = {"PTE"}
         /\ c.fn \in LevelFns => EditedLevels(c) = c.levels
         /\ c.fn = "update" => EditedLevels(c) = DOMAIN c.arg
         /\ c.fn = "resolve" => EditedLevels(c) = {}
         /\ c.fn \in PteFns \cup LevelFns => \A l, e : NewValue(c, l, e) = Edit(c, e)
         /\ c.fn = "update" => \A l, e : NewValue(c, l, e) = c.arg[l]
BY DEF EditedLevels, NewValue, PteFns, LevelFns

LEMMA ModifiedExact ==
  ASSUME NotThroughP4d, NEW c \in Calls, c.fn \in PteFns \cup LevelFns,
         NEW m, NEW f, FoundExact(c, m, f), c.fn \in PteFns => "PTE" \in DOMAIN f
  PROVE  VmExact(c, m, Modified(c, f)) /\ Changes(c, m)
<1>1. c.fn # "resolve" /\ c.fn # "update" /\ (c.fn \in PteFns => c.fn \notin LevelFns)
  BY DEF PteFns, LevelFns
<1>2. Changes(c, m)
  BY <1>1 DEF Changes, FoundExact
<1>3. CASE c.fn \in PteFns
  <2>1. Modified(c, f) = [l \in {"PTE"} |-> Edit(c, f[l])]
    BY <1>3 DEF Modified
  <2>2. EditedLevels(c) = {"PTE"} /\ NewValue(c, "PTE", f["PTE"]) = Edit(c, f["PTE"])
    BY <1>3, EditedLevelsOf
  <2>3. f["PTE"] = EntryAt(m, c, "PTE")
    BY <1>3 DEF FoundExact
  <2>4. Modified(c, f)["PTE"] = NewEntry(c, m, "PTE")
    BY <2>1, <2>2, <2>3 DEF NewEntry
  <2>5. DOMAIN Modified(c, f) = {"PTE"}
    BY <2>1
  <2>6. VmExact(c, m, Modified(c, f))
    BY <2>2, <2>4, <2>5 DEF VmExact
  <2> QED BY <1>2, <2>6
<1>4. CASE c.fn \in LevelFns
  <2>1. Modified(c, f) = [l \in DOMAIN f |-> IF l \in c.levels \ {"P4D"}
                                               THEN Edit(c, f[l]) ELSE f[l]]
    BY <1>1, <1>4 DEF Modified
  <2>2. EditedLevels(c) = c.levels /\ \A l, e : NewValue(c, l, e) = Edit(c, e)
    BY <1>4, EditedLevelsOf
  <2>3. \A l \in DOMAIN f : Modified(c, f)[l] = NewEntry(c, m, l)
    BY <2>1, <2>2 DEF NewEntry, FoundExact
  <2>4. DOMAIN Modified(c, f) = DOMAIN f
    BY <2>1
  <2>5. "P4D" \in DOMAIN f => "PGD" \notin EditedLevels(c)
    BY <1>4, <2>2 DEF NotThroughP4d, FoundExact
  <2>6. MappedIn(m, c) => Reached(m, c) \subseteq DOMAIN f
    BY DEF FoundExact
  <2> HIDE DEF Modified
  <2>7. VmExact(c, m, Modified(c, f))
    BY <2>3, <2>4, <2>5, <2>6 DEF VmExact
  <2> QED BY <1>2, <2>7
<1> QED BY <1>3, <1>4

LEMMA UpdateExact ==
  ASSUME NotThroughP4d, NEW c \in Calls, c.fn = "update", NEW m
  PROVE  VmExact(c, m, c.arg) /\ Changes(c, m)
<1>1. EditedLevels(c) = DOMAIN c.arg /\ \A l, e : NewValue(c, l, e) = c.arg[l]
  BY EditedLevelsOf
<1>2. "P4D" \notin DOMAIN c.arg
  BY DEF NotThroughP4d
<1>3. VmExact(c, m, c.arg)
  BY <1>1, <1>2 DEF VmExact, NewEntry
<1> QED BY <1>3 DEF Changes, PteFns

-----------------------------------------------------------------------------
(* What a call should do to memory *)

\* The levels of a path that memory has lie in different slots.
LEMMA SlotsDistinct ==
  ASSUME TablesNested, TablesDistinct, NEW c \in MmCalls, NEW k \in CpuLevels, NEW l \in CpuLevels,
         InitPath(c)[k] \in DOMAIN InitMem, InitPath(c)[k] = InitPath(c)[l]
  PROVE  k = l
<1>1. CpuLevels = {"PGD", "PUD", "PMD"} \cup {"PTE"} /\ "PTE" \notin {"PGD", "PUD", "PMD"}
  BY DEF CpuLevels, Levels
<1>2. {"PGD", "PUD", "PMD"} \subseteq UpperLevels
  BY DEF UpperLevels, Levels
<1>3. \A j \in {"PGD", "PUD", "PMD"} : InitPath(c)[j] \in Upper
  BY <1>2, CallSlots
<1>4. InitPath(c)["PTE"] \in DOMAIN InitMem => InitPath(c)["PTE"] \notin Upper
  BY DEF TablesNested
<1>5. k \in {"PGD", "PUD", "PMD"} /\ l \in {"PGD", "PUD", "PMD"} => k = l
  BY DEF TablesDistinct
<1>6. k = "PTE" \/ l = "PTE" => k = l
  BY <1>1, <1>3, <1>4
<1> QED BY <1>1, <1>5, <1>6

LEMMA ExpectedAt ==
  ASSUME NEW K, PathBits(K), TablesNested, TablesDistinct,
         NEW m, Kept(K, m), NEW c \in MmCalls
  PROVE  LET x == Expected(c, m, R(c))
             ls == EditedLevels(c) \cap Reached(m, c)
         IN  /\ x = [s \in DOMAIN InitMem |-> x[s]]
             /\ \A s \in DOMAIN InitMem :
                  /\ (\A l \in ls : InitPath(c)[l] # s) => x[s] = m[s]
                  /\ \A l \in Reached(m, c) : InitPath(c)[l] = s => x[s] = NewEntry(c, m, l)
<1> DEFINE x == Expected(c, m, R(c))
           w == CpuWalk(m, R(c), c.va)
           ls == EditedLevels(c) \cap Reached(m, c)
<1>1. DOMAIN w = Reached(m, c) /\ \A l \in Reached(m, c) : w[l] = InitPath(c)[l]
  BY CpuReached
<1>2. DOMAIN m = DOMAIN InitMem
  BY DEF Kept
<1> HIDE DEF w
<1>3. x = [s \in DOMAIN InitMem |->
             IF \E l \in ls : w[l] = s THEN NewValue(c, CHOOSE l \in ls : w[l] = s, m[s])
                                       ELSE m[s]]
  BY <1>1, <1>2 DEF Expected, w
<1> HIDE DEF x
<1>4. x = [s \in DOMAIN InitMem |-> x[s]]
  BY <1>3
<1>5. ASSUME NEW s \in DOMAIN InitMem, \A l \in ls : InitPath(c)[l] # s PROVE x[s] = m[s]
  BY <1>1, <1>3, <1>5
<1>6. ASSUME NEW s \in DOMAIN InitMem, NEW l \in Reached(m, c), InitPath(c)[l] = s
      PROVE  x[s] = NewEntry(c, m, l)
  <2>1. EntryAt(m, c, l) = m[s]
    BY <1>6, DerefValue DEF EntryAt, Kept
  <2>2. Reached(m, c) \subseteq CpuLevels
    BY DEF Reached
  <2>3. \A k \in ls : InitPath(c)[k] = s => k = l
    BY <1>6, <2>2, SlotsDistinct
  <2>4. l # "P4D"
    BY <2>2 DEF CpuLevels
  <2>5. CASE l \in ls
    <3>1. (CHOOSE k \in ls : w[k] = s) = l
      BY <1>1, <1>6, <2>3, <2>5
    <3>2. \E k \in ls : w[k] = s
      BY <1>1, <1>6, <2>5
    <3>3. x[s] = NewValue(c, l, m[s])
      BY <1>3, <3>1, <3>2
    <3> QED BY <2>1, <2>4, <2>5, <3>3 DEF NewEntry
  <2>6. CASE l \notin ls
    <3>1. x[s] = m[s]
      BY <1>5, <2>3, <2>6
    <3> QED BY <2>1, <2>6, <3>1 DEF NewEntry
  <2> QED BY <2>5, <2>6
<1> QED BY <1>4, <1>5, <1>6 DEF x

\* A call that is done when it has resolved leaves memory as it should be.
LEMMA ResolveEffect ==
  ASSUME NEW K, PathBits(K), TablesNested, TablesDistinct,
         NEW m, Kept(K, m), NEW c \in Calls, NEW f, FoundExact(c, m, f),
         c.fn = "resolve" \/ (c.fn \in PteFns /\ "PTE" \notin DOMAIN f)
  PROVE  Effect(c, m, m, f)
<1>1. MappedIn(m, c) => m = Expected(c, m, R(c))
  <2>1. SUFFICES ASSUME MappedIn(m, c) PROVE m = Expected(c, m, R(c))
    OBVIOUS
  <2> DEFINE x == Expected(c, m, R(c))
  <2>2. EditedLevels(c) \cap Reached(m, c) = {}
    BY <2>1, EditedLevelsOf DEF FoundExact
  <2>3. c \in MmCalls
    BY <2>1 DEF MappedIn
  <2>4. x = [s \in DOMAIN InitMem |-> x[s]] /\ \A s \in DOMAIN InitMem : x[s] = m[s]
    BY <2>2, <2>3, ExpectedAt
  <2> HIDE DEF x
  <2>5. m = x
    BY <2>4 DEF Kept
  <2> QED BY <2>5 DEF x
<1>2. ~MappedIn(m, c) => "PTE" \notin DOMAIN f
  BY DEF FoundExact
<1> QED BY <1>1, <1>2 DEF Effect, PteFns

-----------------------------------------------------------------------------
(* Writes *)

HasWrite(ws, w) == \E i \in DOMAIN ws : ws[i] = w

\* The elements of a concatenation.
LEMMA HasWriteConcat ==
  ASSUME NEW S, NEW x \in Seq(S), NEW y \in Seq(S), NEW w
  PROVE  HasWrite(x \o y, w) <=> HasWrite(x, w) \/ HasWrite(y, w)
<1>1. ASSUME NEW i \in DOMAIN (x \o y)
      PROVE  \/ i \in DOMAIN x /\ (x \o y)[i] = x[i]
             \/ i - Len(x) \in DOMAIN y /\ (x \o y)[i] = y[i - Len(x)]
  OBVIOUS
<1>2. ASSUME NEW i \in DOMAIN x PROVE i \in DOMAIN (x \o y) /\ (x \o y)[i] = x[i]
  OBVIOUS
<1>3. ASSUME NEW i \in DOMAIN y
      PROVE  i + Len(x) \in DOMAIN (x \o y) /\ (x \o y)[i + Len(x)] = y[i]
  OBVIOUS
<1> DEFINE z == x \o y
<1> HIDE DEF z
<1>4. HasWrite(z, w) => HasWrite(x, w) \/ HasWrite(y, w)
  BY <1>1 DEF HasWrite, z
<1>5. HasWrite(x, w) => HasWrite(z, w)
  BY <1>2 DEF HasWrite, z
<1>6. HasWrite(y, w) => HasWrite(z, w)
  BY <1>3 DEF HasWrite, z
<1> QED BY <1>4, <1>5, <1>6 DEF z

\* The writes of an update are those of the levels that are valid in what it
\* is given and in what it finds.
LEMMA UpdateWrites ==
  ASSUME NEW old, NEW new, NEW w
  PROVE  LET Both(l) == /\ l \in DOMAIN old \cap DOMAIN new
                        /\ w = [slot |-> old[l], val |-> new[l], level |-> l]
         IN  /\ HasWrite(WritesDown(old, new), w) <=> \E l \in Levels : Both(l)
             /\ HasWrite(WritesUp(old, new), w) <=> \E l \in CpuLevels : Both(l)
<1> DEFINE Both(l) == /\ l \in DOMAIN old \cap DOMAIN new
                      /\ w = [slot |-> old[l], val |-> new[l], level |-> l]
           S == {[slot |-> old[l], val |-> new[l], level |-> l] : l \in Levels}
           W(l) == WriteAt(l, old, new)
           H(l) == HasWrite(W(l), w)
<1>1. ASSUME NEW l \in Levels PROVE W(l) \in Seq(S)
  <2>1. [slot |-> old[l], val |-> new[l], level |-> l] \in S
    OBVIOUS
  <2> HIDE DEF S
  <2>2. CASE l \in DOMAIN old \cap DOMAIN new
    BY <2>1, <2>2 DEF WriteAt
  <2>3. CASE l \notin DOMAIN old \cap DOMAIN new
    BY <2>3 DEF WriteAt
  <2> QED BY <2>2, <2>3
<1>2. ASSUME NEW l \in Levels PROVE H(l) <=> Both(l)
  <2>1. CASE l \in DOMAIN old \cap DOMAIN new
    <3>1. W(l) = <<[slot |-> old[l], val |-> new[l], level |-> l]>>
      BY <2>1 DEF WriteAt
    <3> QED BY <2>1, <3>1 DEF HasWrite
  <2>2. CASE l \notin DOMAIN old \cap DOMAIN new
    <3>1. W(l) = <<>>
      BY <2>2 DEF WriteAt
    <3> QED BY <2>2, <3>1 DEF HasWrite
  <2> QED BY <2>1, <2>2
<1>3. "PGD" \in Levels /\ "P4D" \in Levels /\ "PUD" \in Levels /\ "PMD" \in Levels /\ "PTE" \in Levels
  BY DEF Levels
<1> HIDE DEF S, W
<1>4. \A x, y \in Seq(S) : x \o y \in Seq(S)
  OBVIOUS
<1>5. \A x, y \in Seq(S) : HasWrite(x \o y, w) <=> HasWrite(x, w) \/ HasWrite(y, w)
  BY HasWriteConcat
<1>6. HasWrite(WritesDown(old, new), w)
        <=> H("PGD") \/ H("P4D") \/ H("PUD") \/ H("PMD") \/ H("PTE")
  <2> DEFINE x2 == W("PGD") \o W("P4D")
             x3 == x2 \o W("PUD")
             x4 == x3 \o W("PMD")
  <2>1. WritesDown(old, new) = x4 \o W("PTE")
    BY DEF WritesDown, W
  <2>2. x2 \in Seq(S) /\ (HasWrite(x2, w) <=> H("PGD") \/ H("P4D"))
    BY <1>1, <1>3, <1>4, <1>5
  <2> HIDE DEF x2
  <2>3. x3 \in Seq(S) /\ (HasWrite(x3, w) <=> HasWrite(x2, w) \/ H("PUD"))
    BY <1>1, <1>3, <1>4, <1>5, <2>2
  <2> HIDE DEF x3
  <2>4. x4 \in Seq(S) /\ (HasWrite(x4, w) <=> HasWrite(x3, w) \/ H("PMD"))
    BY <1>1, <1>3, <1>4, <1>5, <2>3
  <2> HIDE DEF x4
  <2>5. HasWrite(x4 \o W("PTE"), w) <=> HasWrite(x4, w) \/ H("PTE")
    BY <1>1, <1>3, <1>5, <2>4
  <2> QED BY <2>1, <2>2, <2>3, <2>4, <2>5
<1>7. HasWrite(WritesUp(old, new), w) <=> H("PTE") \/ H("PMD") \/ H("PUD") \/ H("PGD")
  <2> DEFINE x2 == W("PTE") \o W("PMD")
             x3 == x2 \o W("PUD")
  <2>1. WritesUp(old, new) = x3 \o W("PGD")
    BY DEF WritesUp, W
  <2>2. x2 \in Seq(S) /\ (HasWrite(x2, w) <=> H("PTE") \/ H("PMD"))
    BY <1>1, <1>3, <1>4, <1>5
  <2> HIDE DEF x2
  <2>3. x3 \in Seq(S) /\ (HasWrite(x3, w) <=> HasWrite(x2, w) \/ H("PUD"))
    BY <1>1, <1>3, <1>4, <1>5, <2>2
  <2> HIDE DEF x3
  <2>4. HasWrite(x3 \o W("PGD"), w) <=> HasWrite(x3, w) \/ H("PGD")
    BY <1>1, <1>3, <1>5, <2>3
  <2> QED BY <2>1, <2>2, <2>3, <2>4
<1> HIDE DEF H
<1>8. CpuLevels \subseteq Levels /\ CpuLevels = {"PTE", "PMD", "PUD", "PGD"}
  BY DEF CpuLevels, Levels
<1> HIDE DEF Both
<1>9. (\E l \in Levels : Both(l))
        <=> H("PGD") \/ H("P4D") \/ H("PUD") \/ H("PMD") \/ H("PTE")
  BY <1>2 DEF Levels
<1>10. (\E l \in CpuLevels : Both(l)) <=> H("PTE") \/ H("PMD") \/ H("PUD") \/ H("PGD")
  BY <1>2, <1>8
<1> QED BY <1>6, <1>7, <1>9, <1>10 DEF Both

\* Found entries that have all the changes make writes that complete the call.
LEMMA WritesPending ==
  ASSUME NEW K, PathBits(K), TablesNested, TablesDistinct,
         NEW m, Kept(K, m), NEW c \in Calls, MappedIn(m, c), NEW v, VmExact(c, m, v),
         NEW old, DOMAIN old \ {"P4D"} = Reached(m, c),
         \A l \in DOMAIN old : old[l] = InitPath(c)[l], NEW ws,
         \A w : HasWrite(ws, w) =>
                  \E l \in DOMAIN old \cap DOMAIN v : w.slot = old[l] /\ w.val = v[l],
         \A l \in Reached(m, c) \cap DOMAIN v : \E w : HasWrite(ws, w) /\ w.slot = old[l]
  PROVE  Pending(c, m, m, ws)
<1> DEFINE x == Expected(c, m, R(c))
           ls == EditedLevels(c) \cap Reached(m, c)
<1>1. c \in MmCalls
  BY DEF MappedIn
<1>2. \A s \in DOMAIN InitMem :
        /\ (\A l \in ls : InitPath(c)[l] # s) => x[s] = m[s]
        /\ \A l \in Reached(m, c) : InitPath(c)[l] = s => x[s] = NewEntry(c, m, l)
  BY <1>1, ExpectedAt
<1> HIDE DEF x
<1>3. /\ EditedLevels(c) \cap Reached(m, c) \subseteq DOMAIN v
      /\ \A l \in DOMAIN v \cap (Reached(m, c) \cup {"P4D"}) : v[l] = NewEntry(c, m, l)
      /\ "P4D" \in DOMAIN v => "PGD" \notin EditedLevels(c)
  BY DEF VmExact
<1>4. ASSUME NEW i \in DOMAIN ws, ws[i].slot \in DOMAIN InitMem
      PROVE  ws[i].val = x[ws[i].slot]
  <2>1. PICK l \in DOMAIN old \cap DOMAIN v : ws[i].slot = InitPath(c)[l] /\ ws[i].val = v[l]
    BY DEF HasWrite
  <2>2. CASE l # "P4D"
    <3>1. l \in Reached(m, c)
      BY <2>2
    <3>2. v[l] = NewEntry(c, m, l)
      BY <1>3, <3>1
    <3> QED BY <1>2, <1>4, <2>1, <3>1, <3>2
  <2>3. CASE l = "P4D"
    <3>1. "PGD" \notin EditedLevels(c) /\ v[l] = NewEntry(c, m, "P4D")
      BY <1>3, <2>3
    <3>2. InitPath(c)["P4D"] = InitPath(c)["PGD"] /\ EntryAt(m, c, "P4D") = EntryAt(m, c, "PGD")
      BY P4dIsPgd
    <3>3. NewEntry(c, m, "P4D") = NewEntry(c, m, "PGD")
      BY <3>1, <3>2 DEF NewEntry
    <3>4. "PGD" \in Reached(m, c)
      BY ReachedLevels
    <3> QED BY <1>2, <1>4, <2>1, <2>3, <3>1, <3>2, <3>3, <3>4
  <2> QED BY <2>2, <2>3
<1>5. ASSUME NEW s \in DOMAIN InitMem, m[s] # x[s]
      PROVE  \E i \in DOMAIN ws : ws[i].slot = s
  <2>1. PICK l \in ls : InitPath(c)[l] = s
    BY <1>2, <1>5
  <2>2. l \in Reached(m, c) \cap DOMAIN v /\ l \in DOMAIN old
    BY <1>3
  <2>3. PICK w : HasWrite(ws, w) /\ w.slot = old[l]
    BY <2>2
  <2> QED BY <2>1, <2>2, <2>3 DEF HasWrite
<1>6. Pending(c, m, m, ws)
  BY <1>4, <1>5 DEF Pending, x
<1> QED BY <1>6

\* A write brings the call nearer to its end.
LEMMA WriteOne ==
  ASSUME NEW S, NEW ws \in Seq(S), ws # <<>>, NEW c, NEW m, NEW n \in [DOMAIN InitMem -> Word],
         Pending(c, m, n, ws), NEW o,
         o = IF Head(ws).slot \in DOMAIN n THEN [n EXCEPT ![Head(ws).slot] = Head(ws).val] ELSE n
  PROVE  Pending(c, m, o, Tail(ws))
<1> DEFINE x == Expected(c, m, R(c))
<1>1. /\ \A i \in DOMAIN ws : ws[i].slot \in DOMAIN InitMem => ws[i].val = x[ws[i].slot]
      /\ \A s \in DOMAIN InitMem : n[s] = x[s] \/ \E i \in DOMAIN ws : ws[i].slot = s
  BY DEF Pending
<1> HIDE DEF x
<1>2. Head(ws) = ws[1] /\ 1 \in DOMAIN ws
  OBVIOUS
<1>3. \A i \in DOMAIN Tail(ws) : i + 1 \in DOMAIN ws /\ Tail(ws)[i] = ws[i + 1]
  OBVIOUS
<1>4. \A i \in DOMAIN ws : i # 1 => i - 1 \in DOMAIN Tail(ws) /\ Tail(ws)[i - 1] = ws[i]
  OBVIOUS
<1>5. \A i \in DOMAIN Tail(ws) :
        Tail(ws)[i].slot \in DOMAIN InitMem => Tail(ws)[i].val = x[Tail(ws)[i].slot]
  BY <1>1, <1>3
<1>6. ASSUME NEW s \in DOMAIN InitMem
      PROVE  o[s] = x[s] \/ \E i \in DOMAIN Tail(ws) : Tail(ws)[i].slot = s
  <2>1. CASE s = Head(ws).slot
    <3>1. o[s] = Head(ws).val
      BY <2>1
    <3>2. Head(ws).val = x[s]
      BY <1>1, <1>2, <2>1
    <3> QED BY <3>1, <3>2
  <2>2. CASE s # Head(ws).slot
    <3>1. o[s] = n[s]
      BY <2>2
    <3>2. CASE n[s] = x[s]
      BY <3>1, <3>2
    <3>3. CASE n[s] # x[s]
      <4>1. PICK i \in DOMAIN ws : ws[i].slot = s
        BY <1>1, <3>3
      <4>2. i # 1
        BY <1>2, <2>2, <4>1
      <4> QED BY <1>4, <4>1, <4>2
    <3> QED BY <3>2, <3>3
  <2> QED BY <2>1, <2>2
<1> QED BY <1>5, <1>6 DEF Pending, x

LEMMA WritesDone ==
  ASSUME NEW K, PathBits(K), TablesNested, TablesDistinct, NEW m, Kept(K, m),
         NEW c \in MmCalls, NEW n \in [DOMAIN InitMem -> Word], Pending(c, m, n, <<>>)
  PROVE  n = Expected(c, m, R(c))
<1> DEFINE x == Expected(c, m, R(c))
<1>1. x = [s \in DOMAIN InitMem |-> x[s]]
  BY ExpectedAt
<1>2. \A s \in DOMAIN InitMem : n[s] = x[s]
  BY DEF Pending
<1> HIDE DEF x
<1>3. n = x
  BY <1>1, <1>2
<1> QED BY <1>3 DEF x

-----------------------------------------------------------------------------
(* Steps of a call nobody interferes with *)

LEMMA ResolvedExact ==
  ASSUME NEW K, ExactEditing(K), TypeOK, NEW t \in Threads, ThreadInv(K, t), SnapInv(K, t),
         AloneInv(t), pc[t] \in {"resolve", "walk", "copy"}, NEW found, Resolved(t, found),
         FoundExact(call[t], snap[t].mem, found),
         UNCHANGED <<mem, call, nested>>, snap'[t] = snap[t]
  PROVE  AloneInv(t)'
<1> DEFINE c == call[t]
           m == snap[t].mem
           done == c.fn = "resolve" \/ (c.fn \in PteFns /\ "PTE" \notin DOMAIN found)
<1>1. c \in Calls /\ c.fn \in Fns /\ (~nested[t] => c.fn # "update")
  BY EditAssumption DEF ThreadInv
<1>2. Kept(K, m) /\ mem = m /\ (nested[t] => VmExact(c, m, vm[t]) /\ Changes(c, m))
  BY DEF SnapInv, AloneInv
<1>3. PathBits(K) /\ TablesNested /\ TablesDistinct /\ NotThroughP4d
  BY TablePathBits DEF ExactEditing, Editing
<1>4. call'[t] = c /\ snap'[t].mem = m /\ mem' = m /\ nested'[t] = nested[t]
  BY <1>2
<1>5. CASE nested[t]
  <2>1. pc'[t] = "slots" /\ cur'[t] = found /\ vm'[t] = vm[t]
    BY <1>5 DEF Resolved, Goto, TypeOK
  <2> HIDE DEF c, m
  <2> QED BY <1>2, <1>4, <1>5, <2>1 DEF AloneInv, c, m
<1>6. CASE ~nested[t] /\ done
  <2>1. pc'[t] = "return" /\ cur'[t] = found
    BY <1>6 DEF Resolved, Goto, TypeOK
  <2>2. Effect(c, m, m, found)
    BY <1>1, <1>2, <1>3, <1>6, ResolveEffect
  <2> QED BY <1>4, <1>6, <2>1, <2>2 DEF AloneInv
<1>7. CASE ~nested[t] /\ ~done
  <2>1. pc'[t] = "update" /\ vm'[t] = Modified(c, found)
    BY <1>7 DEF Resolved, Goto, TypeOK
  <2>2. c.fn \in PteFns \cup LevelFns
    BY <1>1, <1>7 DEF Fns
  <2>3. VmExact(c, m, Modified(c, found)) /\ Changes(c, m)
    BY <1>1, <1>3, <1>7, <2>2, ModifiedExact
  <2> QED BY <1>4, <2>1, <2>3 DEF AloneInv
<1> QED BY <1>5, <1>6, <1>7

\* What every step of a call starts from.
LEMMA AloneFacts ==
  ASSUME NEW K, ExactEditing(K), EditInv(K), NEW t \in Threads, SnapInv(K, t), AloneInv(t),
         pc[t] # "idle"
  PROVE  /\ PathBits(K) /\ TableBits \subseteq K /\ TablesNested /\ TablesDistinct
         /\ TablesPlain(K) /\ TablesLow /\ NotThroughP4d
         /\ TypeOK /\ RootInv /\ MemInv(K) /\ ThreadInv(K, t)
         /\ call[t] \in Calls /\ Kept(K, snap[t].mem)
BY TablePathBits DEF ExactEditing, Editing, EditInv, SnapInv, ThreadInv

LEMMA ResolveKernelExact ==
  ASSUME NEW K, ExactEditing(K), EditInv(K), NEW t \in Threads, SnapInv(K, t), AloneInv(t),
         ResolveKernel(t), snap'[t] = snap[t]
  PROVE  AloneInv(t)'
<1> DEFINE c == call[t]
           m == snap[t].mem
<1>1. pc[t] = "resolve" /\ impl = "KERNEL" /\ UNCHANGED <<mem, call, nested>>
  BY DEF ResolveKernel
<1>2. /\ PathBits(K) /\ TableBits \subseteq K /\ TablesPlain(K) /\ TypeOK /\ RootInv
      /\ ThreadInv(K, t) /\ c \in Calls /\ Kept(K, m)
  BY <1>1, AloneFacts
<1>3. mem = m /\ ~nested[t] /\ "KERNEL" \in Impls
  BY <1>1, <1>2 DEF AloneInv, ThreadInv, TypeOK
<1>4. /\ pc'[t] = "copy"
      /\ slots'[t] = IF HasMm(Target(c)) THEN KernelWalk(m, root[Target(c)], c.va) ELSE <<>>
  BY <1>2, <1>3 DEF ResolveKernel, TypeOK, Goto
<1>5. FoundExact(c, m, [l \in DOMAIN slots'[t] |-> Deref(m, slots'[t][l])])
  <2>1. CASE c \in MmCalls
    <3>1. slots'[t] = KernelWalk(m, R(c), c.va)
      BY <1>2, <1>4, <2>1, RootOfCall
    <3> QED BY <1>2, <1>3, <2>1, <3>1, KernelFindsExact
  <2>2. CASE c \notin MmCalls
    <3>1. slots'[t] = <<>>
      BY <1>2, <1>4, <2>2, RootOfCall
    <3>2. [l \in DOMAIN slots'[t] |-> Deref(m, slots'[t][l])] = <<>>
      BY <3>1
    <3>3. FoundExact(c, m, <<>>)
      BY <2>2, NothingFound
    <3> QED BY <3>2, <3>3
  <2> QED BY <2>1, <2>2
<1>6. call'[t] = c /\ snap'[t].mem = m /\ mem' = m /\ ~nested'[t]
  BY <1>1, <1>3
<1> HIDE DEF c, m
<1> QED BY <1>4, <1>5, <1>6 DEF AloneInv

LEMMA CopyOutExact ==
  ASSUME NEW K, ExactEditing(K), EditInv(K), NEW t \in Threads, SnapInv(K, t), AloneInv(t),
         CopyOut(t), snap'[t] = snap[t]
  PROVE  AloneInv(t)'
<1> DEFINE found == [l \in DOMAIN slots[t] |-> Deref(mem, slots[t][l])]
<1>1. pc[t] = "copy" /\ UNCHANGED <<mem, call, nested>> /\ Resolved(t, found)
  BY DEF CopyOut
<1>2. mem = snap[t].mem /\ FoundExact(call[t], snap[t].mem, found)
  BY <1>1 DEF AloneInv
<1>3. TypeOK /\ ThreadInv(K, t)
  BY <1>1, AloneFacts
<1> HIDE DEF found
<1> QED BY <1>1, <1>2, <1>3, ResolvedExact

LEMMA ResolveUserExact ==
  ASSUME NEW K, ExactEditing(K), EditInv(K), NEW t \in Threads, SnapInv(K, t), AloneInv(t),
         ResolveUser(t), snap'[t] = snap[t]
  PROVE  AloneInv(t)'
<1> DEFINE c == call[t]
           m == snap[t].mem
<1>1. pc[t] = "resolve" /\ impl = "USER" /\ UNCHANGED <<mem, call, nested>>
  BY DEF ResolveUser
<1>2. TypeOK /\ RootInv /\ ThreadInv(K, t) /\ c \in Calls
  BY <1>1, AloneFacts
<1>3. PagingRoot(c) = R(c)
  BY <1>1, <1>2, RootOfCall
<1>4. CASE R(c) = {}
  <2>1. Resolved(t, <<>>)
    BY <1>3, <1>4 DEF ResolveUser
  <2>2. FoundExact(c, m, <<>>)
    BY <1>4, NothingFound DEF MmCalls
  <2> QED BY <1>1, <1>2, <2>1, <2>2, ResolvedExact
<1>5. CASE R(c) # {}
  <2>1. pc'[t] = "walk" /\ level'[t] = "PGD" /\ cur'[t] = <<>> /\ vm'[t] = vm[t]
    BY <1>2, <1>3, <1>5 DEF ResolveUser, Goto, TypeOK
  <2>2. mem = m /\ (nested[t] => VmExact(c, m, vm[t]) /\ Changes(c, m))
    BY <1>1 DEF AloneInv
  <2>3. call'[t] = c /\ snap'[t].mem = m /\ mem' = m /\ nested'[t] = nested[t]
    BY <1>1, <2>2
  <2>4. Above["PGD"] = {} /\ DOMAIN <<>> = {}
    BY DEF Above
  <2> HIDE DEF c, m
  <2> QED BY <2>1, <2>2, <2>3, <2>4 DEF AloneInv
<1> QED BY <1>4, <1>5

LEMMA WalkUserExact ==
  ASSUME NEW K, ExactEditing(K), EditInv(K), NEW t \in Threads, SnapInv(K, t), AloneInv(t),
         WalkUser(t), snap'[t] = snap[t]
  PROVE  AloneInv(t)'
<1> DEFINE c == call[t]
           m == snap[t].mem
           l == level[t]
           e == EntryAt(m, c, l)
           next == UserNextLevel(l, e)
           found == UserReport(cur[t], l, e)
<1>1. pc[t] = "walk" /\ UNCHANGED <<mem, call, nested>>
  BY DEF WalkUser
<1>2. /\ TableBits \subseteq K /\ TablesPlain(K) /\ TypeOK /\ ThreadInv(K, t) /\ Kept(K, m)
  BY <1>1, AloneFacts
<1>3. /\ c \in MmCalls /\ l \in CpuLevels /\ Reported(cur[t], l)
      /\ Slot(frame[t], c.va, l) = InitPath(c)[l]
  BY <1>1, <1>2 DEF ThreadInv
<1>4. /\ mem = m /\ (nested[t] => VmExact(c, m, vm[t]) /\ Changes(c, m))
      /\ \A k \in DOMAIN cur[t] : cur[t][k] = EntryAt(m, c, k)
      /\ \A k \in Above[l] : NamesTable(k, EntryAt(m, c, k))
  BY <1>1 DEF AloneInv
<1>5. Deref(mem, Slot(frame[t], c.va, l)) = e
  BY <1>3, <1>4 DEF EntryAt
<1>6. /\ level' = [level EXCEPT ![t] = next]
      /\ IF next = "end"
           THEN Resolved(t, found)
           ELSE cur' = [cur EXCEPT ![t] = found] /\ UNCHANGED <<vm, pc>>
  BY <1>5 DEF WalkUser
<1>7. /\ next = "end" => FoundExact(c, m, found)
      /\ next # "end" => /\ \A k \in DOMAIN found : found[k] = EntryAt(m, c, k)
                         /\ \A k \in Above[next] : NamesTable(k, EntryAt(m, c, k))
  <2> HIDE DEF c, m, l
  <2> QED BY <1>2, <1>3, <1>4, WalkExact
<1> HIDE DEF next, found, e
<1>8. CASE next = "end"
  <2>1. Resolved(t, found) /\ FoundExact(c, m, found)
    BY <1>6, <1>7, <1>8
  <2> QED BY <1>1, <1>2, <2>1, ResolvedExact
<1>9. CASE next # "end"
  <2>1. pc'[t] = "walk" /\ level'[t] = next /\ cur'[t] = found /\ vm'[t] = vm[t]
    BY <1>1, <1>2, <1>6, <1>9 DEF TypeOK
  <2>2. call'[t] = c /\ snap'[t].mem = m /\ mem' = m /\ nested'[t] = nested[t]
    BY <1>1, <1>4
  <2> HIDE DEF c, m
  <2> QED BY <1>4, <1>7, <1>9, <2>1, <2>2 DEF AloneInv
<1> QED BY <1>8, <1>9

LEMMA UpdateEffect ==
  ASSUME NEW c, NEW m, NEW n, NEW f, Changes(c, m), MappedIn(m, c) => n = Expected(c, m, R(c))
  PROVE  Effect(c, m, n, f)
BY DEF Effect, Changes

LEMMA UpdateNoMmExact ==
  ASSUME NEW K, ExactEditing(K), EditInv(K), NEW t \in Threads, SnapInv(K, t), AloneInv(t),
         UpdateNoMm(t), snap'[t] = snap[t]
  PROVE  AloneInv(t)'
<1> DEFINE c == call[t]
           m == snap[t].mem
<1>1. /\ pc[t] = "update" /\ ~HasMm(Target(c)) /\ UNCHANGED <<mem, call, cur, nested>>
      /\ pc' = [pc EXCEPT ![t] = "return"]
  BY DEF UpdateNoMm, walkVars, Goto
<1>2. TypeOK /\ RootInv /\ ThreadInv(K, t) /\ c \in Calls
  BY <1>1, AloneFacts
<1>3. Changes(c, m) /\ ~nested[t]
  BY <1>1, <1>2 DEF AloneInv, ThreadInv
<1>4. ~MappedIn(m, c)
  BY <1>1, <1>2, RootOfCall DEF MappedIn
<1>5. Effect(c, m, mem, cur[t])
  BY <1>3, <1>4, UpdateEffect
<1>6. pc'[t] = "return" /\ call'[t] = c /\ snap'[t].mem = m /\ ~nested'[t]
  BY <1>1, <1>2, <1>3 DEF TypeOK
<1> QED BY <1>1, <1>5, <1>6 DEF AloneInv

LEMMA UpdateKernelExact ==
  ASSUME NEW K, ExactEditing(K), EditInv(K), NEW t \in Threads, SnapInv(K, t), AloneInv(t),
         UpdateKernel(t), snap'[t] = snap[t]
  PROVE  AloneInv(t)'
<1> DEFINE c == call[t]
           m == snap[t].mem
           old == KernelWalk(mem, root[Target(c)], c.va)
           ws == WritesDown(old, vm[t])
<1>1. /\ pc[t] = "update" /\ impl = "KERNEL" /\ UNCHANGED <<mem, call, nested>>
      /\ todo' = [todo EXCEPT ![t] = ws] /\ pc' = [pc EXCEPT ![t] = "write"]
  BY DEF UpdateKernel, walkVars, Goto
<1>2. /\ PathBits(K) /\ TableBits \subseteq K /\ TablesNested /\ TablesDistinct /\ TablesPlain(K)
      /\ TypeOK /\ RootInv /\ MemInv(K) /\ ThreadInv(K, t) /\ c \in Calls /\ Kept(K, m)
  BY <1>1, AloneFacts
<1>3. mem = m /\ VmExact(c, m, vm[t]) /\ Changes(c, m) /\ ~nested[t] /\ "KERNEL" \in Impls
  BY <1>1, <1>2 DEF AloneInv, ThreadInv, TypeOK
<1>4. MappedIn(m, c) => Pending(c, m, m, ws)
  <2>1. SUFFICES ASSUME MappedIn(m, c) PROVE Pending(c, m, m, ws)
    OBVIOUS
  <2>2. c \in MmCalls
    BY <2>1 DEF MappedIn
  <2>3. old = KernelWalk(m, R(c), c.va)
    BY <1>2, <1>3, RootOfCall
  <2>4. FoundExact(c, m, [l \in DOMAIN old |-> Deref(m, old[l])])
    <3> HIDE DEF old
    <3> QED BY <1>2, <1>3, <2>2, <2>3, KernelFindsExact
  <2>5. DOMAIN old \ {"P4D"} = Reached(m, c) /\ DOMAIN old \subseteq Levels
    <3> HIDE DEF old
    <3> QED BY <2>1, <2>4 DEF FoundExact
  <2>6. \A l \in DOMAIN old : old[l] = InitPath(c)[l]
    BY <1>2, <2>2, <2>3, KernelWalkSlots, KeptPath
  <2> HIDE DEF old
  <2>7. ASSUME NEW w
        PROVE  HasWrite(ws, w) <=>
                 \E l \in Levels : /\ l \in DOMAIN old \cap DOMAIN vm[t]
                                   /\ w = [slot |-> old[l], val |-> vm[t][l], level |-> l]
    BY UpdateWrites
  <2> HIDE DEF ws
  <2>8. \A w : HasWrite(ws, w) =>
                 \E l \in DOMAIN old \cap DOMAIN vm[t] : w.slot = old[l] /\ w.val = vm[t][l]
    BY <2>7
  <2>9. ASSUME NEW l \in Reached(m, c) \cap DOMAIN vm[t]
        PROVE  \E w : HasWrite(ws, w) /\ w.slot = old[l]
    <3>1. HasWrite(ws, [slot |-> old[l], val |-> vm[t][l], level |-> l])
      BY <2>5, <2>7
    <3> QED BY <3>1
  <2> HIDE DEF c, m
  <2> QED BY <1>2, <1>3, <2>1, <2>5, <2>6, <2>8, <2>9, WritesPending
<1> HIDE DEF ws
<1>5. /\ pc'[t] = "write" /\ todo'[t] = ws /\ call'[t] = c /\ snap'[t].mem = m /\ mem' = m
      /\ ~nested'[t]
  BY <1>1, <1>2, <1>3 DEF TypeOK
<1> HIDE DEF c, m
<1> QED BY <1>3, <1>4, <1>5 DEF AloneInv

LEMMA UpdateUserExact ==
  ASSUME NEW K, ExactEditing(K), EditInv(K), NEW t \in Threads, SnapInv(K, t), AloneInv(t),
         UpdateUser(t), snap'[t] = snap[t]
  PROVE  AloneInv(t)'
<1> DEFINE c == call[t]
           m == snap[t].mem
<1>1. /\ pc[t] = "update" /\ UNCHANGED <<mem, call, vm>> /\ pc' = [pc EXCEPT ![t] = "resolve"]
  BY DEF UpdateUser, Goto
<1>2. TypeOK
  BY DEF EditInv
<1>3. mem = m /\ VmExact(c, m, vm[t]) /\ Changes(c, m)
  BY <1>1 DEF AloneInv
<1>4. pc'[t] = "resolve" /\ call'[t] = c /\ snap'[t].mem = m /\ mem' = m /\ vm'[t] = vm[t]
  BY <1>1, <1>2, <1>3 DEF TypeOK
<1> HIDE DEF c, m
<1> QED BY <1>3, <1>4 DEF AloneInv

LEMMA UserSlotsExact ==
  ASSUME NEW K, ExactEditing(K), EditInv(K), NEW t \in Threads, SnapInv(K, t), AloneInv(t),
         UserSlots(t), snap'[t] = snap[t]
  PROVE  AloneInv(t)'
<1> DEFINE c == call[t]
           m == snap[t].mem
           old == [l \in DOMAIN cur[t] |-> UserSlot(cur[t], R(c), c.va, l)]
           ws == WritesUp(old, vm[t])
           p == IF R(c) = {} THEN "flush" ELSE "write"
<1>1. pc[t] = "slots" /\ UNCHANGED <<mem, call>>
  BY DEF UserSlots
<1>2. /\ PathBits(K) /\ TablesNested /\ TablesDistinct /\ TablesLow
      /\ TypeOK /\ RootInv /\ ThreadInv(K, t) /\ c \in Calls /\ Kept(K, m)
  BY <1>1, AloneFacts
<1>3. /\ impl = "USER" /\ "USER" \in Impls /\ nested[t] /\ Chain(cur[t]) /\ Good(K, c, cur[t])
      /\ mem = m /\ VmExact(c, m, vm[t]) /\ Changes(c, m) /\ FoundExact(c, m, cur[t])
  BY <1>1, <1>2 DEF AloneInv, ThreadInv, TypeOK
<1>4. PagingRoot(c) = R(c)
  BY <1>2, <1>3, RootOfCall
<1>5. /\ todo' = [todo EXCEPT ![t] = ws] /\ nested' = [nested EXCEPT ![t] = FALSE]
      /\ pc' = [pc EXCEPT ![t] = p]
  BY <1>4 DEF UserSlots, Goto
<1>6. MappedIn(m, c) => Pending(c, m, m, ws)
  <2>1. SUFFICES ASSUME MappedIn(m, c) PROVE Pending(c, m, m, ws)
    OBVIOUS
  <2>2. c \in MmCalls
    BY <2>1 DEF MappedIn
  <2>3. \A l \in DOMAIN old : old[l] = InitPath(c)[l]
    BY <1>2, <1>3, <2>2, UserSlotOnPath
  <2>4. DOMAIN old = DOMAIN cur[t]
    OBVIOUS
  <2> HIDE DEF old
  <2>5. DOMAIN old \ {"P4D"} = Reached(m, c)
    BY <1>3, <2>1, <2>4 DEF FoundExact
  <2>6. Reached(m, c) \subseteq CpuLevels
    BY DEF Reached
  <2>7. ASSUME NEW w
        PROVE  HasWrite(ws, w) <=>
                 \E l \in CpuLevels : /\ l \in DOMAIN old \cap DOMAIN vm[t]
                                      /\ w = [slot |-> old[l], val |-> vm[t][l], level |-> l]
    BY UpdateWrites
  <2> HIDE DEF ws
  <2>8. \A w : HasWrite(ws, w) =>
                 \E l \in DOMAIN old \cap DOMAIN vm[t] : w.slot = old[l] /\ w.val = vm[t][l]
    BY <2>7
  <2>9. ASSUME NEW l \in Reached(m, c) \cap DOMAIN vm[t]
        PROVE  \E w : HasWrite(ws, w) /\ w.slot = old[l]
    <3>1. HasWrite(ws, [slot |-> old[l], val |-> vm[t][l], level |-> l])
      BY <2>5, <2>6, <2>7
    <3> QED BY <3>1
  <2> HIDE DEF c, m
  <2> QED BY <1>2, <1>3, <2>1, <2>3, <2>5, <2>8, <2>9, WritesPending
<1>7. p = "flush" => ~MappedIn(m, c)
  BY DEF MappedIn, MmCalls
<1>8. p \in {"flush", "write"}
  OBVIOUS
<1> HIDE DEF ws, p
<1>9. /\ pc'[t] = p /\ todo'[t] = ws /\ call'[t] = c /\ snap'[t].mem = m /\ mem' = m
      /\ ~nested'[t]
  BY <1>1, <1>2, <1>3, <1>5 DEF TypeOK
<1> HIDE DEF c, m
<1> QED BY <1>3, <1>6, <1>7, <1>8, <1>9 DEF AloneInv

LEMMA WriteExact ==
  ASSUME NEW K, ExactEditing(K), EditInv(K), NEW t \in Threads, SnapInv(K, t), AloneInv(t),
         Write(t), snap'[t] = snap[t]
  PROVE  AloneInv(t)'
<1> DEFINE c == call[t]
           m == snap[t].mem
<1>1. /\ pc[t] = "write" /\ todo[t] # <<>> /\ UNCHANGED <<pc, call, nested>>
      /\ todo' = [todo EXCEPT ![t] = Tail(todo[t])]
      /\ mem' = IF Head(todo[t]).slot \in DOMAIN mem
                  THEN [mem EXCEPT ![Head(todo[t]).slot] = Head(todo[t]).val] ELSE mem
  BY DEF Write, walkVars
<1>2. TypeOK /\ ThreadInv(K, t)
  BY <1>1, AloneFacts
<1>3. todo[t] \in Seq(GoodWrites(K, c)) /\ ~nested[t] /\ mem \in [DOMAIN InitMem -> Word]
  BY <1>1, <1>2 DEF ThreadInv, TypeOK
<1>4. Changes(c, m) /\ (MappedIn(m, c) => Pending(c, m, mem, todo[t]))
  BY <1>1 DEF AloneInv
<1>5. MappedIn(m, c) => Pending(c, m, mem', Tail(todo[t]))
  BY <1>1, <1>3, <1>4, WriteOne
<1>6. /\ pc'[t] = "write" /\ todo'[t] = Tail(todo[t]) /\ call'[t] = c /\ snap'[t].mem = m
      /\ ~nested'[t]
  BY <1>1, <1>2, <1>3 DEF TypeOK
<1> HIDE DEF c, m
<1> QED BY <1>4, <1>5, <1>6 DEF AloneInv

LEMMA FlushExact ==
  ASSUME NEW K, ExactEditing(K), EditInv(K), NEW t \in Threads, SnapInv(K, t), AloneInv(t),
         Flush(t) \/ FlushAgain(t), snap'[t] = snap[t]
  PROVE  AloneInv(t)'
<1> DEFINE c == call[t]
           m == snap[t].mem
<1>1. /\ pc[t] \in {"write", "flush"} /\ UNCHANGED <<mem, call, cur, nested>>
      /\ \E l \in {"return", "flush"} : pc' = [pc EXCEPT ![t] = l]
      /\ pc[t] = "write" => todo[t] = <<>>
  BY DEF Flush, FlushAgain, Goto, walkVars
<1>2. /\ PathBits(K) /\ TablesNested /\ TablesDistinct
      /\ TypeOK /\ ThreadInv(K, t) /\ c \in Calls /\ Kept(K, m)
  BY <1>1, AloneFacts
<1>3. ~nested[t] /\ mem \in [DOMAIN InitMem -> Word]
  BY <1>1, <1>2 DEF ThreadInv, TypeOK
<1>4. Changes(c, m) /\ (MappedIn(m, c) => mem = Expected(c, m, R(c)))
  <2>1. CASE pc[t] = "write"
    <3>1. Changes(c, m) /\ (MappedIn(m, c) => Pending(c, m, mem, <<>>))
      BY <1>1, <2>1 DEF AloneInv
    <3>2. MappedIn(m, c) => c \in MmCalls
      BY DEF MappedIn
    <3> QED BY <1>2, <1>3, <3>1, <3>2, WritesDone
  <2>2. CASE pc[t] = "flush"
    BY <2>2 DEF AloneInv
  <2> QED BY <1>1, <2>1, <2>2
<1>5. Effect(c, m, mem, cur[t])
  BY <1>4, UpdateEffect
<1>6. /\ pc'[t] \in {"return", "flush"} /\ call'[t] = c /\ snap'[t].mem = m /\ mem' = mem
      /\ cur'[t] = cur[t] /\ ~nested'[t]
  BY <1>1, <1>2, <1>3 DEF TypeOK
<1> HIDE DEF c, m
<1> QED BY <1>4, <1>5, <1>6 DEF AloneInv

LEMMA BeginExact ==
  ASSUME NEW K, ExactEditing(K), EditInv(K), NEW t \in Threads, NEW c \in Calls, Begin(t, c),
         snap'[t] = [mem |-> mem, root |-> root]
  PROVE  SnapInv(K, t)' /\ AloneInv(t)'
<1>1. TypeOK /\ RootInv /\ MemInv(K) /\ ThreadInv(K, t) /\ pc[t] = "idle" /\ ~nested[t]
  BY DEF EditInv, Begin, ThreadInv
<1>2. /\ call'[t] = c /\ mem' = mem /\ ~nested'[t]
      /\ snap'[t].mem = mem /\ snap'[t].root = root
  BY <1>1 DEF Begin, TypeOK, walkVars
<1>3. Kept(K, mem)
  BY <1>1 DEF TypeOK, MemInv, Kept
<1>4. root[Target(c)] = R(c)
  BY <1>1 DEF RootInv
<1>5. SnapInv(K, t)'
  BY <1>2, <1>3, <1>4 DEF SnapInv
<1>6. AloneInv(t)'
  <2>1. CASE c.fn = "update"
    <3>1. pc'[t] = "update" /\ vm'[t] = c.arg
      BY <1>1, <2>1 DEF Begin, TypeOK, Goto
    <3>2. VmExact(c, mem, c.arg) /\ Changes(c, mem)
      BY <2>1, UpdateExact DEF ExactEditing
    <3> QED BY <1>2, <3>1, <3>2 DEF AloneInv
  <2>2. CASE c.fn # "update"
    <3>1. pc'[t] = "resolve"
      BY <1>1, <2>2 DEF Begin, TypeOK, Goto
    <3> QED BY <1>2, <3>1 DEF AloneInv
  <2> QED BY <2>1, <2>2
<1> QED BY <1>5, <1>6

\* Each step of a call.
LEMMA StepExact ==
  ASSUME NEW K, ExactEditing(K), EditInv(K), NEW t \in Threads, SnapInv(K, t), AloneInv(t),
         Step(t), pc'[t] # "idle", snap'[t] = snap[t]
  PROVE  AloneInv(t)'
<1>1. ~Return(t)
  BY DEF Return, Goto, EditInv, TypeOK
<1>2. \/ ResolveKernel(t) \/ CopyOut(t) \/ ResolveUser(t) \/ WalkUser(t)
      \/ UpdateNoMm(t) \/ UpdateKernel(t) \/ UpdateUser(t) \/ UserSlots(t)
      \/ Write(t) \/ Flush(t) \/ FlushAgain(t)
  BY <1>1 DEF Step
<1> QED BY <1>2, ResolveKernelExact, CopyOutExact, ResolveUserExact, WalkUserExact,
           UpdateNoMmExact, UpdateKernelExact, UpdateUserExact, UserSlotsExact,
           WriteExact, FlushExact

-----------------------------------------------------------------------------
(* Steps of others *)

\* A step changes the locals of one thread only.
LEMMA StepLocals ==
  ASSUME TypeOK, NEW u \in Threads, Step(u) \/ \E c \in Calls : Begin(u, c),
         NEW t \in Threads, t # u
  PROVE  SameLocals(t)
<1>1. ASSUME NEW found, Resolved(u, found)
      PROVE  pc'[t] = pc[t] /\ cur'[t] = cur[t] /\ vm'[t] = vm[t]
  BY <1>1 DEF Resolved, Goto, TypeOK
<1>2. CASE \E c \in Calls : Begin(u, c)
  BY <1>2 DEF Begin, TypeOK, Goto, SameLocals, walkVars
<1>3. CASE ResolveKernel(u)
  BY <1>3 DEF ResolveKernel, TypeOK, Goto, SameLocals
<1>4. CASE CopyOut(u)
  <2>1. /\ Resolved(u, [l \in DOMAIN slots[u] |-> Deref(mem, slots[u][l])])
        /\ slots' = [slots EXCEPT ![u] = <<>>] /\ UNCHANGED <<call, nested, level, frame, todo>>
    BY <1>4 DEF CopyOut
  <2>2. slots'[t] = slots[t]
    BY <2>1 DEF TypeOK
  <2> QED BY <1>1, <2>1, <2>2 DEF SameLocals
<1>5. CASE ResolveUser(u)
  <2>1. UNCHANGED <<call, nested, slots, todo>>
    BY <1>5 DEF ResolveUser
  <2>2. CASE PagingRoot(call[u]) = {}
    <3>1. Resolved(u, <<>>) /\ UNCHANGED <<frame, level>>
      BY <1>5, <2>2 DEF ResolveUser
    <3> QED BY <1>1, <2>1, <3>1 DEF SameLocals
  <2>3. CASE PagingRoot(call[u]) # {}
    BY <1>5, <2>3 DEF ResolveUser, TypeOK, Goto, SameLocals
  <2> QED BY <2>2, <2>3
<1>6. CASE WalkUser(u)
  <2> DEFINE e == Deref(mem, Slot(frame[u], call[u].va, level[u]))
             next == UserNextLevel(level[u], e)
             found == UserReport(cur[u], level[u], e)
  <2>1. /\ UNCHANGED <<call, nested, slots, todo>>
        /\ level' = [level EXCEPT ![u] = next]
        /\ frame' = [frame EXCEPT ![u] = IF next = "end" THEN {} ELSE ptedit_cast_pfn(e)]
        /\ \/ Resolved(u, found)
           \/ cur' = [cur EXCEPT ![u] = found] /\ UNCHANGED <<vm, pc>>
    BY <1>6 DEF WalkUser
  <2> HIDE DEF e, next, found
  <2>2. level'[t] = level[t] /\ frame'[t] = frame[t]
    BY <2>1 DEF TypeOK
  <2>3. pc'[t] = pc[t] /\ cur'[t] = cur[t] /\ vm'[t] = vm[t]
    BY <1>1, <2>1 DEF TypeOK
  <2> QED BY <2>1, <2>2, <2>3 DEF SameLocals
<1>7. CASE UpdateNoMm(u)
  BY <1>7 DEF UpdateNoMm, TypeOK, Goto, SameLocals, walkVars
<1>8. CASE UpdateKernel(u)
  BY <1>8 DEF UpdateKernel, TypeOK, Goto, SameLocals, walkVars
<1>9. CASE UpdateUser(u)
  BY <1>9 DEF UpdateUser, TypeOK, Goto, SameLocals
<1>10. CASE UserSlots(u)
  BY <1>10 DEF UserSlots, TypeOK, Goto, SameLocals
<1>11. CASE Write(u)
  BY <1>11 DEF Write, TypeOK, SameLocals, walkVars
<1>12. CASE Flush(u) \/ FlushAgain(u)
  BY <1>12 DEF Flush, FlushAgain, TypeOK, Goto, SameLocals, walkVars
<1>13. CASE Return(u)
  BY <1>13 DEF Return, TypeOK, Goto, SameLocals, walkVars
<1> QED BY <1>2, <1>3, <1>4, <1>5, <1>6, <1>7, <1>8, <1>9, <1>10, <1>11, <1>12, <1>13
        DEF Step

\* A step of the system is one of the thread or leaves its locals alone.
LEMMA NextLocals ==
  ASSUME TypeOK, Next, NEW t \in Threads
  PROVE  Step(t) \/ (\E c \in Calls : Begin(t, c)) \/ SameLocals(t)
<1>1. CASE \E u \in Threads : Step(u) \/ \E c \in Calls : Begin(u, c)
  <2>1. PICK u \in Threads : Step(u) \/ \E c \in Calls : Begin(u, c)
    BY <1>1
  <2> QED BY <2>1, StepLocals
<1>2. CASE \E i \in Impls : ptedit_use_implementation(i)
  BY <1>2 DEF ptedit_use_implementation, SameLocals, walkVars
<1>3. CASE \E i \in TlbModes : ptedit_switch_tlb_invalidation(i)
  BY <1>3 DEF ptedit_switch_tlb_invalidation, SameLocals, walkVars
<1>4. CASE \E x \in RootSwitches : ptedit_set_paging_root(x[1], x[2])
  BY <1>4 DEF ptedit_set_paging_root, SameLocals, walkVars
<1>5. CASE \E x \in Touched : TlbFill(x[1], x[2]) \/ TlbEvict(x[1], x[2])
  <2>1. UNCHANGED <<pc, call, cur, vm, walkVars, todo>>
    BY <1>5 DEF TlbFill, TlbEvict
  <2> QED BY <2>1 DEF SameLocals, walkVars
<1>6. CASE \E p \in Procs : LoadRoot(p)
  BY <1>6 DEF LoadRoot, SameLocals, walkVars
<1> QED BY <1>1, <1>2, <1>3, <1>4, <1>5, <1>6 DEF Next

\* A step of another thread that leaves memory alone.
LEMMA SameAlone ==
  ASSUME NEW t, AloneInv(t), SameLocals(t), mem' = mem, snap'[t] = snap[t]
  PROVE  AloneInv(t)'
BY DEF AloneInv, SameLocals

LEMMA StepKeepsCall ==
  ASSUME TypeOK, NEW t \in Threads, Step(t), pc'[t] # "idle"
  PROVE  call'[t] = call[t] /\ pc[t] # "idle"
BY DEF Step, ResolveKernel, CopyOut, ResolveUser, WalkUser, UpdateNoMm, UpdateKernel, UpdateUser,
       UserSlots, Write, Flush, FlushAgain, Return, Goto, TypeOK

-----------------------------------------------------------------------------
(* The theorem *)

LEMMA ThreadCallsInv ==
  ASSUME NEW K, ExactEditing(K), CallsInv(K), CallsNext, NEW t \in Threads, pc'[t] # "idle"
  PROVE  SnapInv(K, t)' /\ (alone'[t] => AloneInv(t)')
<1>1. /\ EditInv(K) /\ TypeOK /\ SnapInv(K, t) /\ Next
      /\ alone[t] /\ pc[t] # "idle" => AloneInv(t)
  BY DEF CallsInv, EditInv, CallsNext
<1>2. /\ pc[t] = "idle" => snap'[t] = [mem |-> mem, root |-> root]
      /\ pc[t] # "idle" => snap'[t] = snap[t]
      /\ pc[t] # "idle" /\ alone'[t] => alone[t] /\ (mem' = mem \/ todo'[t] # todo[t])
  BY DEF CallsNext
<1>3. CASE \E c \in Calls : Begin(t, c)
  BY <1>1, <1>2, <1>3, BeginExact DEF Begin
<1>4. CASE Step(t)
  <2>1. call'[t] = call[t] /\ pc[t] # "idle" /\ snap'[t] = snap[t]
    BY <1>1, <1>2, <1>4, StepKeepsCall
  <2>2. SnapInv(K, t)'
    BY <1>1, <2>1 DEF SnapInv
  <2>3. alone'[t] => AloneInv(t)'
    BY <1>1, <1>2, <1>4, <2>1, StepExact
  <2> QED BY <2>2, <2>3
<1>5. CASE SameLocals(t)
  <2>1. call'[t] = call[t] /\ pc[t] # "idle" /\ snap'[t] = snap[t] /\ todo'[t] = todo[t]
    BY <1>2, <1>5 DEF SameLocals
  <2>2. SnapInv(K, t)'
    BY <1>1, <2>1 DEF SnapInv
  <2>3. alone'[t] => AloneInv(t)'
    BY <1>1, <1>2, <1>5, <2>1, SameAlone
  <2> QED BY <2>2, <2>3
<1> QED BY <1>1, <1>3, <1>4, <1>5, NextLocals

LEMMA CallsInvInit ==
  ASSUME NEW K, CallsInit
  PROVE  CallsInv(K)
<1>1. EditInv(K)
  BY InitInv DEF CallsInit
<1>2. \A t \in Threads : pc[t] = "idle"
  BY DEF CallsInit, Init
<1> QED BY <1>1, <1>2 DEF CallsInv, SnapInv

LEMMA CallsInvNext ==
  ASSUME NEW K, ExactEditing(K), CallsInv(K), [CallsNext]_<<vars, snap, alone>>
  PROVE  CallsInv(K)'
<1>1. CASE CallsNext
  <2>1. EditInv(K)'
    BY <1>1, NextInv, TablePathBits DEF CallsInv, CallsNext, ExactEditing
  <2>2. ASSUME NEW t \in Threads
        PROVE  SnapInv(K, t)' /\ (alone'[t] /\ pc'[t] # "idle" => AloneInv(t)')
    <3>1. CASE pc'[t] = "idle"
      BY <3>1 DEF SnapInv
    <3>2. CASE pc'[t] # "idle"
      BY <1>1, <3>2, ThreadCallsInv
    <3> QED BY <3>1, <3>2
  <2> QED BY <2>1, <2>2 DEF CallsInv
<1>2. CASE UNCHANGED <<vars, snap, alone>>
  <2>1. EditInv(K)'
    BY <1>2, NextInv, TablePathBits DEF CallsInv, ExactEditing
  <2>2. ASSUME NEW t \in Threads
        PROVE  SnapInv(K, t)' /\ (alone'[t] /\ pc'[t] # "idle" => AloneInv(t)')
    <3>1. SameLocals(t) /\ mem' = mem /\ snap'[t] = snap[t] /\ alone'[t] = alone[t]
      BY <1>2 DEF vars, SameLocals
    <3>2. SnapInv(K, t)'
      BY <3>1 DEF CallsInv, SnapInv, SameLocals
    <3>3. alone'[t] /\ pc'[t] # "idle" => AloneInv(t)'
      BY <3>1, SameAlone DEF CallsInv, SameLocals
    <3> QED BY <3>2, <3>3
  <2> QED BY <2>1, <2>2 DEF CallsInv
<1> QED BY <1>1, <1>2

LEMMA CallsInvExact ==
  ASSUME NEW K, ExactEditing(K), CallsInv(K)
  PROVE  CallsExact
<1>1. SUFFICES ASSUME NEW t \in Threads, pc[t] = "return", alone[t]
               PROVE  LET c == call[t]
                          m == snap[t].mem
                          r == snap[t].root[Target(c)]
                          w == CpuWalk(m, r, c.va)
                      IN IF Mapped(m, r, c.va)
                           THEN /\ mem = Expected(c, m, r)
                                /\ c.fn = "resolve" =>
                                     /\ DOMAIN cur[t] \ {"P4D"} = DOMAIN w
                                     /\ \A l \in DOMAIN w : cur[t][l] = Deref(m, w[l])
                           ELSE c.fn \in PteFns \cup {"resolve"} =>
                                  "PTE" \notin DOMAIN cur[t] /\ mem = m
  BY DEF CallsExact
<1> DEFINE c == call[t]
           m == snap[t].mem
           w == CpuWalk(m, R(c), c.va)
<1>2. EditInv(K) /\ SnapInv(K, t) /\ AloneInv(t)
  BY <1>1 DEF CallsInv
<1>3. PathBits(K) /\ c \in Calls /\ Kept(K, m) /\ FrameZeroFree
  BY <1>1, <1>2, AloneFacts DEF ExactEditing
<1>4. snap[t].root[Target(c)] = R(c)
  BY <1>1, <1>2 DEF SnapInv
<1>5. Effect(c, m, mem, cur[t])
  BY <1>1, <1>2 DEF AloneInv
<1>6. Mapped(m, R(c), c.va) <=> MappedIn(m, c)
  BY <1>3, MappedMeans
<1>7. ASSUME MappedIn(m, c), c.fn = "resolve"
      PROVE  /\ DOMAIN cur[t] \ {"P4D"} = DOMAIN w
             /\ \A l \in DOMAIN w : cur[t][l] = Deref(m, w[l])
  <2>1. FoundExact(c, m, cur[t])
    BY <1>5, <1>7 DEF Effect
  <2>2. c \in MmCalls
    BY <1>7 DEF MappedIn
  <2>3. DOMAIN w = Reached(m, c) /\ \A l \in Reached(m, c) : w[l] = InitPath(c)[l]
    BY <1>3, <2>2, CpuReached
  <2> HIDE DEF w
  <2>4. DOMAIN cur[t] \ {"P4D"} = Reached(m, c)
    BY <1>7, <2>1 DEF FoundExact
  <2> QED BY <2>1, <2>3, <2>4 DEF FoundExact, EntryAt
<1> HIDE DEF c, m, w
<1>8. IF Mapped(m, R(c), c.va)
        THEN /\ mem = Expected(c, m, R(c))
             /\ c.fn = "resolve" =>
                  /\ DOMAIN cur[t] \ {"P4D"} = DOMAIN w
                  /\ \A l \in DOMAIN w : cur[t][l] = Deref(m, w[l])
        ELSE c.fn \in PteFns \cup {"resolve"} => "PTE" \notin DOMAIN cur[t] /\ mem = m
  BY <1>5, <1>6, <1>7 DEF Effect
<1> QED BY <1>4, <1>8 DEF c, m, w

\* A call nobody interferes with has exactly its documented effect, with
\* either implementation: an update changes the entries the CPU uses for the
\* address at the levels it names and nothing else, and resolve returns these
\* entries.  It holds for page tables as ExactEditing describes them, whatever
\* the other threads, programs and CPUs do before and afterwards.
THEOREM CallsHaveTheirEffect ==
  ASSUME NEW K
  PROVE  ExactEditing(K) => (CallsSpec => []CallsExact)
<1>1. SUFFICES ASSUME ExactEditing(K) PROVE CallsSpec => []CallsExact
  OBVIOUS
<1>2. CallsInit => CallsInv(K)
  BY CallsInvInit
<1>3. CallsInv(K) /\ [CallsNext]_<<vars, snap, alone>> => CallsInv(K)'
  BY <1>1, CallsInvNext
<1>4. CallsInv(K) => CallsExact
  BY <1>1, CallsInvExact
<1> QED BY <1>2, <1>3, <1>4, PTL DEF CallsSpec
=============================================================================
