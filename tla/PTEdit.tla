------------------------------- MODULE PTEdit -------------------------------
(***************************************************************************)
(* Editing page tables: the library (ptedit.c) in one process, several     *)
(* threads of which call it at once; the VM_RESOLVE, VM_UPDATE, GET_ROOT,  *)
(* SET_ROOT and INVALIDATE_TLB ioctls of the kernel module; and the CPU,   *)
(* which walks the same tables, raises Accessed bits and fills its TLB.    *)
(*                                                                         *)
(* A call is resolve - modify - update.  Each read of a table by the       *)
(* user-space walk, each write of an entry and each TLB flush is a step.   *)
(* The kernel's walk is one step (it runs under mmap_lock), the copy of    *)
(* the entries it found, made after the unlock, another.  A thread's       *)
(* locals are reset when they are last used.                               *)
(***************************************************************************)
EXTENDS PTWalk, Sequences, TLC

CONSTANTS
  Procs, Self,          \* processes; Self is the library's
  Own,                  \* the pid argument 0
  Threads,              \* threads of Self
  Calls,                \* the calls they make
  Impls,                \* implementations they switch between
  TlbModes,             \* TLB invalidations they switch between
  RootSwitches,         \* <<process, root frame>> arguments of set_paging_root
  Touched,              \* <<process, address>> that programs access
  InitMem, InitRoot,    \* page tables and root frames at the start; the
                        \* root of a process that does not exist is zero
  None

Vas == {x[2] : x \in Touched} \cup {c.va : c \in Calls}
Target(c) == IF c.pid = Own THEN Self ELSE c.pid

PteFns == {"pte_set_bit", "pte_clear_bit", "pte_set_pfn"}
LevelFns == {"set_bit", "clear_bit"}
Fns == {"resolve", "update"} \cup PteFns \cup LevelFns

ASSUME EditAssumption ==
  /\ Arch = "x86_64"
  /\ Self \in Procs /\ Own \notin Procs
  /\ Impls \subseteq {"KERNEL", "USER"} /\ Impls # {}
  /\ TlbModes \subseteq {"KERNEL", "CUSTOM"} /\ TlbModes # {}
  /\ InitMem \in [DOMAIN InitMem -> Word] /\ InitRoot \in [Procs -> Word]
  /\ Touched \subseteq Procs \X Word /\ RootSwitches \subseteq Procs \X Word
  /\ \A c \in Calls :
       /\ c.fn \in Fns /\ c.pid \in Procs \cup {Own} /\ c.va \in Word
       /\ c.fn \in {"pte_set_bit", "pte_clear_bit"} \cup LevelFns => c.arg \in Bits
       /\ c.fn = "update" => c.arg \in [DOMAIN c.arg -> Word]

VARIABLES
  mem,                  \* slot |-> entry
  root,                 \* process |-> frame of mm->pgd
  cr3,                  \* process |-> frame of the root its CPUs use
  tlb,                  \* process |-> address |-> cached translation, <<>> for none
  writer,               \* process |-> thread that has its mmap_lock as a writer
  impl,                 \* ptedit_resolve and ptedit_update
  ptedit_paging_root,   \* the library's copy of the root of Self
  invalidate_tlb,       \* the module's choice of flush
  pc, call,             \* thread |-> place, and the call it executes
  cur,                  \* the entries its last resolve found: level |-> entry
  vm,                   \* the entries to update: level |-> entry
  nested,               \* it resolves inside ptedit_update_user_ext
  slots,                \* vm_t: level |-> slot, found by resolve_vm
  level, frame,         \* where its user-space walk is
  todo                  \* writes left: sequence of [slot, val, level]

shared == <<root, cr3, impl, ptedit_paging_root, invalidate_tlb>>
walkVars == <<nested, slots, level, frame>>
vars == <<mem, root, cr3, tlb, writer, impl, ptedit_paging_root, invalidate_tlb,
          pc, call, cur, vm, nested, slots, level, frame, todo>>

Init ==
  /\ mem = InitMem
  /\ root = InitRoot /\ cr3 = InitRoot
  /\ tlb = [p \in Procs |-> [a \in Vas |-> <<>>]]
  /\ writer = [p \in Procs |-> None]
  /\ impl \in Impls
  /\ ptedit_paging_root = IF impl = "USER" THEN InitRoot[Self] ELSE {}
  /\ invalidate_tlb \in TlbModes
  /\ pc = [t \in Threads |-> "idle"]
  /\ call = [t \in Threads |-> None]
  /\ cur = [t \in Threads |-> <<>>]
  /\ vm = [t \in Threads |-> <<>>]
  /\ nested = [t \in Threads |-> FALSE]
  /\ slots = [t \in Threads |-> <<>>]
  /\ level = [t \in Threads |-> "end"]
  /\ frame = [t \in Threads |-> {}]
  /\ todo = [t \in Threads |-> <<>>]

Goto(t, l) == pc' = [pc EXCEPT ![t] = l]

-----------------------------------------------------------------------------
(* Calls *)

\* ptedit_update is given its entries, the other functions resolve first.
Begin(t, c) ==
  /\ pc[t] = "idle"
  /\ call' = [call EXCEPT ![t] = c]
  /\ IF c.fn = "update"
       THEN vm' = [vm EXCEPT ![t] = c.arg] /\ Goto(t, "update")
       ELSE Goto(t, "resolve") /\ UNCHANGED vm
  /\ UNCHANGED <<mem, tlb, writer, shared, cur, walkVars, todo>>

Return(t) ==
  /\ pc[t] = "return"
  /\ Goto(t, "idle")
  /\ call' = [call EXCEPT ![t] = None]
  /\ cur' = [cur EXCEPT ![t] = <<>>]
  /\ vm' = [vm EXCEPT ![t] = <<>>]
  /\ UNCHANGED <<mem, tlb, writer, shared, walkVars, todo>>

\* The new value of an entry.
Edit(c, e) ==
  CASE c.fn \in {"pte_set_bit", "set_bit"} -> e \cup {c.arg}
    [] c.fn \in {"pte_clear_bit", "clear_bit"} -> e \ {c.arg}
    [] c.fn = "pte_set_pfn" -> ptedit_set_pfn(e, c.arg)

\* erroneous: the PTE functions also pass on the other levels, edited
EditAllLevels(c, found) == [l \in DOMAIN found |-> Edit(c, found[l])]

\* The entries handed to ptedit_update: the PTE functions pass on only the
\* PTE, the level functions everything they resolved.
Modified(c, found) ==
  IF c.fn \in PteFns
    THEN [l \in {"PTE"} |-> Edit(c, found[l])]
    ELSE [l \in DOMAIN found |->
            IF l \in c.levels \ {"P4D"} THEN Edit(c, found[l]) ELSE found[l]]

\* The end of ptedit_resolve.  The resolve inside ptedit_update_user_ext goes
\* on to the writes; otherwise the call modifies what it found and updates it,
\* or returns because it is done or there is no PTE.
Resolved(t, found) ==
  LET done == call[t].fn = "resolve" \/ (call[t].fn \in PteFns /\ "PTE" \notin DOMAIN found)
  IN IF nested[t] \/ done
       THEN /\ cur' = [cur EXCEPT ![t] = found]
            /\ Goto(t, IF nested[t] THEN "slots" ELSE "return")
            /\ UNCHANGED vm
       ELSE /\ cur' = [cur EXCEPT ![t] = <<>>]
            /\ vm' = [vm EXCEPT ![t] = Modified(call[t], found)]
            /\ Goto(t, "update")

\* GET_ROOT, and the library's copy of it for pid 0.
HasMm(p) == root[p] # {}
PagingRoot(c) == IF c.pid = Own THEN ptedit_paging_root ELSE root[c.pid]
RootReadable(c) == IF c.pid = Own THEN TRUE ELSE writer[c.pid] = None

-----------------------------------------------------------------------------
(* ptedit_resolve *)

\* resolve_vm under the mmap_lock; without an mm it reports nothing.
ResolveKernel(t) ==
  /\ pc[t] = "resolve" /\ impl = "KERNEL"
  /\ LET p == Target(call[t]) IN
       /\ writer[p] = None
       /\ slots' = [slots EXCEPT ![t] =
                      IF HasMm(p) THEN KernelWalk(mem, root[p], call[t].va) ELSE <<>>]
  /\ Goto(t, "copy")
  /\ UNCHANGED <<mem, tlb, writer, shared, call, cur, vm, nested, level, frame, todo>>

\* vm_to_user, after the lock was released.
CopyOut(t) ==
  /\ pc[t] = "copy"
  /\ Resolved(t, [l \in DOMAIN slots[t] |-> Deref(mem, slots[t][l])])
  /\ slots' = [slots EXCEPT ![t] = <<>>]
  /\ UNCHANGED <<mem, tlb, writer, shared, call, nested, level, frame, todo>>

ResolveUser(t) ==
  /\ pc[t] = "resolve" /\ impl = "USER"
  /\ RootReadable(call[t])
  /\ IF PagingRoot(call[t]) = {}
       THEN Resolved(t, <<>>) /\ UNCHANGED <<frame, level>>
       ELSE /\ frame' = [frame EXCEPT ![t] = PagingRoot(call[t])]
            /\ level' = [level EXCEPT ![t] = "PGD"]
            /\ cur' = [cur EXCEPT ![t] = <<>>]
            /\ Goto(t, "walk")
            /\ UNCHANGED vm
  /\ UNCHANGED <<mem, tlb, writer, shared, call, nested, slots, todo>>

WalkUser(t) ==
  /\ pc[t] = "walk"
  /\ LET e == Deref(mem, Slot(frame[t], call[t].va, level[t]))
         next == UserNextLevel(level[t], e)
         found == UserReport(cur[t], level[t], e)
     IN /\ level' = [level EXCEPT ![t] = next]
        /\ frame' = [frame EXCEPT ![t] = IF next = "end" THEN {} ELSE ptedit_cast_pfn(e)]
        /\ IF next = "end"
             THEN Resolved(t, found)
             ELSE cur' = [cur EXCEPT ![t] = found] /\ UNCHANGED <<vm, pc>>
  /\ UNCHANGED <<mem, tlb, writer, shared, call, nested, slots, todo>>

-----------------------------------------------------------------------------
(* ptedit_update *)

\* The write of one level, if both the old and the new entry are valid.
WriteAt(l, old, new) ==
  IF l \in DOMAIN old \cap DOMAIN new
    THEN <<[slot |-> old[l], val |-> new[l], level |-> l]>> ELSE <<>>

\* update_vm writes from PGD down, ptedit_update_user_ext from PTE up.
WritesDown(old, new) ==
  WriteAt("PGD", old, new) \o WriteAt("P4D", old, new) \o WriteAt("PUD", old, new)
    \o WriteAt("PMD", old, new) \o WriteAt("PTE", old, new)
WritesUp(old, new) ==
  WriteAt("PTE", old, new) \o WriteAt("PMD", old, new) \o WriteAt("PUD", old, new)
    \o WriteAt("PGD", old, new)

\* update_vm without an mm.
UpdateNoMm(t) ==
  /\ pc[t] = "update" /\ impl = "KERNEL"
  /\ ~HasMm(Target(call[t]))
  /\ Goto(t, "return")
  /\ UNCHANGED <<mem, tlb, writer, shared, call, cur, vm, walkVars, todo>>

\* update_vm: take the lock as a writer, resolve, write from PGD down.
UpdateKernel(t) ==
  LET c == call[t]
      p == Target(c)
      old == KernelWalk(mem, root[p], c.va)
  IN  /\ pc[t] = "update" /\ impl = "KERNEL"
      /\ HasMm(p)
      /\ writer[p] = None
      /\ writer' = [writer EXCEPT ![p] = t]
      /\ todo' = [todo EXCEPT ![t] = WritesDown(old, vm[t])]
      /\ vm' = [vm EXCEPT ![t] = <<>>]
      /\ Goto(t, "write")
      /\ UNCHANGED <<mem, tlb, shared, call, cur, walkVars>>

\* ptedit_update_user_ext: resolve again, then write from PTE up.
UpdateUser(t) ==
  /\ pc[t] = "update" /\ impl = "USER"
  /\ nested' = [nested EXCEPT ![t] = TRUE]
  /\ Goto(t, "resolve")
  /\ UNCHANGED <<mem, tlb, writer, shared, call, cur, vm, slots, level, frame, todo>>

UserSlots(t) ==
  /\ pc[t] = "slots"
  /\ RootReadable(call[t])
  /\ LET old == [l \in DOMAIN cur[t] |->
                   UserSlot(cur[t], PagingRoot(call[t]), call[t].va, l)]
     IN todo' = [todo EXCEPT ![t] = WritesUp(old, vm[t])]
  /\ cur' = [cur EXCEPT ![t] = <<>>]
  /\ vm' = [vm EXCEPT ![t] = <<>>]
  /\ nested' = [nested EXCEPT ![t] = FALSE]
  /\ Goto(t, IF PagingRoot(call[t]) = {} THEN "flush" ELSE "write")
  /\ UNCHANGED <<mem, tlb, writer, shared, call, slots, level, frame>>

Write(t) ==
  /\ pc[t] = "write" /\ todo[t] # <<>>
  /\ LET w == Head(todo[t]) IN
       mem' = IF w.slot \in DOMAIN mem THEN [mem EXCEPT ![w.slot] = w.val] ELSE mem
  /\ todo' = [todo EXCEPT ![t] = Tail(@)]
  /\ UNCHANGED <<tlb, writer, shared, pc, call, cur, vm, walkVars>>

\* invalidate_tlb_kernel flushes the address for the calling process,
\* invalidate_tlb_custom for every process (all PCIDs).
FlushAddress(va) ==
  tlb' = [p \in Procs |-> IF invalidate_tlb = "CUSTOM" \/ p = Self
                            THEN [tlb[p] EXCEPT ![va] = <<>>] ELSE tlb[p]]

InUpdateVm(t) == \E p \in Procs : writer[p] = t

NoFlush(t) ==              \* erroneous: update_vm does not invalidate the TLB
  /\ pc[t] = "write" /\ todo[t] = <<>>
  /\ writer' = [p \in Procs |-> IF writer[p] = t THEN None ELSE writer[p]]
  /\ Goto(t, IF InUpdateVm(t) THEN "return" ELSE "flush")
  /\ UNCHANGED <<mem, tlb, shared, call, cur, vm, walkVars, todo>>

\* The end of update_vm, which also unlocks, and of ptedit_update_user_ext.
Flush(t) ==
  /\ pc[t] = "write" /\ todo[t] = <<>>
  /\ FlushAddress(call[t].va)
  /\ writer' = [p \in Procs |-> IF writer[p] = t THEN None ELSE writer[p]]
  /\ Goto(t, IF InUpdateVm(t) THEN "return" ELSE "flush")
  /\ UNCHANGED <<mem, shared, call, cur, vm, walkVars, todo>>

\* ptedit_update_user flushes once more.
FlushAgain(t) ==
  /\ pc[t] = "flush"
  /\ FlushAddress(call[t].va)
  /\ Goto(t, "return")
  /\ UNCHANGED <<mem, writer, shared, call, cur, vm, walkVars, todo>>

-----------------------------------------------------------------------------
(* The library's other calls, each made by a thread that is not in a call  *)

SomeoneIdle == \E t \in Threads : pc[t] = "idle"

\* The two function pointers and the root are assigned without any lock, so
\* it is assumed that no call is under way.
ptedit_use_implementation(i) ==
  /\ \A t \in Threads : pc[t] = "idle"
  /\ i # impl
  /\ impl' = i
  /\ ptedit_paging_root' = IF i = "USER" THEN root[Self] ELSE ptedit_paging_root
  /\ UNCHANGED <<mem, root, cr3, tlb, writer, invalidate_tlb, pc, call, cur, vm,
                 walkVars, todo>>

ptedit_switch_tlb_invalidation(i) ==
  /\ SomeoneIdle /\ i # invalidate_tlb
  /\ invalidate_tlb' = i
  /\ UNCHANGED <<mem, root, cr3, tlb, writer, impl, ptedit_paging_root, pc, call, cur,
                 vm, walkVars, todo>>

\* SET_ROOT changes mm->pgd under the lock; the library's copy and the CPU's
\* register stay as they are.
ptedit_set_paging_root(p, f) ==
  /\ SomeoneIdle /\ writer[p] = None /\ HasMm(p) /\ root[p] # f
  /\ root' = [root EXCEPT ![p] = f]
  /\ UNCHANGED <<mem, cr3, tlb, writer, impl, ptedit_paging_root, invalidate_tlb, pc,
                 call, cur, vm, walkVars, todo>>

-----------------------------------------------------------------------------
(* The CPU (external) *)

\* An access walks the tables, raises Accessed in every entry it used and
\* caches the translation.
TlbFill(p, va) ==
  LET w == CpuWalk(mem, cr3[p], va) IN
  /\ tlb[p][va] = <<>>
  /\ Translation(mem, cr3[p], va) # <<>>
  /\ tlb' = [tlb EXCEPT ![p][va] = Translation(mem, cr3[p], va)]
  /\ mem' = [s \in DOMAIN mem |->
               IF \E l \in DOMAIN w : w[l] = s THEN mem[s] \cup {ACCESSED} ELSE mem[s]]
  /\ UNCHANGED <<writer, shared, pc, call, cur, vm, walkVars, todo>>

TlbEvict(p, va) ==
  /\ tlb[p][va] # <<>>
  /\ tlb' = [tlb EXCEPT ![p][va] = <<>>]
  /\ UNCHANGED <<mem, writer, shared, pc, call, cur, vm, walkVars, todo>>

\* A context switch loads the root of the process and flushes its TLB.
LoadRoot(p) ==
  /\ cr3[p] # root[p]
  /\ cr3' = [cr3 EXCEPT ![p] = root[p]]
  /\ tlb' = [tlb EXCEPT ![p] = [a \in Vas |-> <<>>]]
  /\ UNCHANGED <<mem, root, writer, impl, ptedit_paging_root, invalidate_tlb, pc, call,
                 cur, vm, walkVars, todo>>

-----------------------------------------------------------------------------

Step(t) ==
  \/ ResolveKernel(t) \/ CopyOut(t) \/ ResolveUser(t) \/ WalkUser(t)
  \/ UpdateNoMm(t) \/ UpdateKernel(t) \/ UpdateUser(t) \/ UserSlots(t)
  \/ Write(t) \/ Flush(t) \/ FlushAgain(t) \/ Return(t)

Next ==
  \/ \E t \in Threads : Step(t) \/ \E c \in Calls : Begin(t, c)
  \/ \E i \in Impls : ptedit_use_implementation(i)
  \/ \E i \in TlbModes : ptedit_switch_tlb_invalidation(i)
  \/ \E x \in RootSwitches : ptedit_set_paging_root(x[1], x[2])
  \/ \E x \in Touched : TlbFill(x[1], x[2]) \/ TlbEvict(x[1], x[2])
  \/ \E p \in Procs : LoadRoot(p)

Spec == Init /\ [][Next]_vars

-----------------------------------------------------------------------------
(* Properties *)

\* An update writes only to the entries of its own address in its own
\* process, also while other threads update other addresses.
WritesOnPath ==
  \A t \in Threads : \A i \in DOMAIN todo[t] :
    todo[t][i].slot = Path(mem, root[Target(call[t])], call[t].va)[todo[t][i].level]

\* Some update of the address is between its first write and its flush.
Updating(p, a) ==
  \E t \in Threads : pc[t] = "write" /\ Target(call[t]) = p /\ call[t].va = a

\* No TLB entry disagrees with the page tables except while the address is
\* being updated: "The TLB for the given address is flushed after updating the
\* entries" (ptedit.h:230).
TlbCoherent ==
  \A p \in Procs, a \in Vas :
    tlb[p][a] # <<>> =>
      tlb[p][a] = Translation(mem, cr3[p], a) \/ Updating(p, a)

\* ptedit_set_bit and ptedit_clear_bit change only the levels in
\* paging_affected_levels, "Bitfield of affected page levels" (ptedit.h:265).
OnlyAffectedLevels ==
  [][\A t \in Threads :
       (/\ todo[t] # <<>> /\ todo'[t] = Tail(todo[t])
        /\ call[t].fn \in LevelFns
        /\ Head(todo[t]).level \notin call[t].levels)
       => mem' = mem]_vars
=============================================================================
