----------------------------- MODULE WinDriver ------------------------------
(***************************************************************************)
(* Requests to the Windows driver: DispatchDeviceCtl of Driver.c and the   *)
(* library functions that use it.  Any number of processes may have the    *)
(* device open, no lock is taken, and a request can be preempted and go on *)
(* on another CPU.  Every process uses one address; its leaf entry stands  *)
(* for its page tables (PTEdit has the walk of the user-space              *)
(* implementation, which is the same code).                                *)
(*                                                                         *)
(* CPUs without PCIDs: loading CR3 empties the TLB.                        *)
(***************************************************************************)
EXTENDS WinLoad, FiniteSets

CONSTANTS Procs, Cpus, Values,
          Pats, BootPat,        \* values to program IA32_PAT with, at boot
          NoProc, OtherRoot, None

ASSUME WinDriverAssumption ==
  /\ NoProc \notin Procs /\ OtherRoot \notin Procs
  /\ None \notin Procs \cup Values \cup Cpus
  /\ IsFiniteSet(Procs)

VARIABLES
  handles,              \* processes that have the device open
  pte,                  \* process |-> the entry of its address
  cr3, tlb,             \* cpu |-> root in use, cached entry or None
  cpu,                  \* process |-> the CPU it runs on, None
  attached,             \* process |-> whose address space it has
  moved,                \* history: processes that run on the root they have
                        \* set for themselves
  pc, call,             \* next step and arguments of a library call
  answer,               \* what GET_CR3 will answer, None for zero
  pat                   \* cpu |-> IA32_PAT

callVars == <<handles, pc, call, answer>>
machine == <<cr3, tlb, cpu, attached, moved>>
vars == <<loadVars, callVars, machine, pte, pat>>

NoCall == [op |-> "none", pid |-> NoProc, value |-> None]

Init ==
  /\ LoadInit
  /\ handles = {}
  /\ pte \in [Procs -> Values]
  /\ cr3 \in [Cpus -> Procs]
  /\ cpu = [p \in Procs |-> None]
  /\ tlb = [c \in Cpus |-> None]
  /\ attached = [p \in Procs |-> p] /\ moved = {}
  /\ pc = [p \in Procs |-> "user"] /\ call = [p \in Procs |-> NoCall]
  /\ answer = [p \in Procs |-> None]
  /\ pat = [c \in Cpus |-> BootPat]

-----------------------------------------------------------------------------
(* The machine (external) *)

\* Address space root is loaded on CPU c, or stays.
Load(c, root) ==
  /\ cr3' = [cr3 EXCEPT ![c] = root]
  /\ tlb' = [tlb EXCEPT ![c] = IF cr3[c] = root THEN @ ELSE None]

\* CPU c runs p instead of what it ran, with the address space p has: what p
\* had written to CR3 is gone.
Switch(c, p) ==
  /\ cpu[p] = None
  /\ cpu' = [q \in Procs |-> IF q = p THEN c ELSE IF cpu[q] = c THEN None ELSE cpu[q]]
  /\ Load(c, attached[p])
  /\ moved' = {q \in moved : cpu[q] # c}
  /\ UNCHANGED <<loadVars, callVars, attached, pte, pat>>

\* An idle CPU keeps the address space.
Preempt(p) ==
  /\ cpu[p] # None
  /\ cpu' = [cpu EXCEPT ![p] = None] /\ moved' = moved \ {p}
  /\ UNCHANGED <<loadVars, callVars, cr3, tlb, attached, pte, pat>>

\* KeStackAttachProcess and KeUnstackDetachProcess: the caller gets the
\* address space of q.  If it has that already, CR3 is left alone.
MoveTo(p, q) ==
  /\ attached' = [attached EXCEPT ![p] = q]
  /\ IF attached[p] = q THEN UNCHANGED <<cr3, tlb, moved>>
                        ELSE Load(cpu[p], q) /\ moved' = moved \ {p}
  /\ UNCHANGED cpu

\* What there is under the other root does not matter here.
TlbFill(c) ==
  /\ tlb[c] = None /\ cr3[c] \in Procs
  /\ tlb' = [tlb EXCEPT ![c] = pte[cr3[c]]]
  /\ UNCHANGED <<loadVars, callVars, cr3, cpu, attached, moved, pte, pat>>

-----------------------------------------------------------------------------
(* The library *)

Goto(p, label) == pc' = [pc EXCEPT ![p] = label]
At(p, label) == cpu[p] # None /\ pc[p] = label
Return(p) ==
  /\ pc' = [pc EXCEPT ![p] = "user"] /\ call' = [call EXCEPT ![p] = NoCall]
  /\ answer' = [answer EXCEPT ![p] = None]

\* The handle; then the own root is asked for.
ptedit_init(p) ==
  /\ At(p, "user") /\ p \notin handles /\ Openable
  /\ handles' = handles \cup {p}
  /\ Goto(p, "lookup") /\ call' = [call EXCEPT ![p] = [op |-> "get", pid |-> p, value |-> None]]
  /\ UNCHANGED <<loadVars, answer, machine, pte, pat>>

ptedit_cleanup(p) ==
  /\ At(p, "user") /\ p \in handles
  /\ handles' = handles \ {p}
  /\ UNCHANGED <<loadVars, pc, call, answer, machine, pte, pat>>

Call(p, op, pid, value, label) ==
  /\ At(p, "user") /\ p \in handles
  /\ Goto(p, label) /\ call' = [call EXCEPT ![p] = [op |-> op, pid |-> pid, value |-> value]]
  /\ UNCHANGED <<handles, answer, loadVars, machine, pte, pat>>

ptedit_get_paging_root(p, pid) == Call(p, "get", pid, None, "lookup")
ptedit_set_paging_root(p, pid) == Call(p, "set", pid, OtherRoot, "lookup")
\* An update of one entry in user space: WRITE_PHYS_VAL and FLUSH_TLB.
ptedit_update(p, pid, value) == pid # NoProc /\ Call(p, "update", pid, value, "write")
ptedit_set_mts(p, value) == Call(p, "set_mts", NoProc, value, "pat")

-----------------------------------------------------------------------------
(* DispatchDeviceCtl *)

\* GET_CR3 and SET_CR3: PsLookupProcessByProcessId.  SET_CR3 falls through to
\* FLUSH_TLB in either case, with the process ID for an address.
Lookup(p) ==
  /\ At(p, "lookup")
  /\ \/ call[p].pid \in Procs /\ Goto(p, "attach") /\ UNCHANGED <<call, answer>>
     \/ call[p].pid = NoProc /\ Return(p)
  /\ UNCHANGED <<handles, loadVars, machine, pte, pat>>

Attach(p) ==
  /\ At(p, "attach")
  /\ MoveTo(p, call[p].pid)
  /\ Goto(p, call[p].op)
  /\ UNCHANGED <<handles, call, answer, loadVars, pte, pat>>

ReadOwnCr3(p) ==           \* erroneous: the caller's root
  /\ At(p, "get")
  /\ answer' = [answer EXCEPT ![p] = p]
  /\ Goto(p, "detach")
  /\ UNCHANGED <<handles, call, loadVars, machine, pte, pat>>

ReadCr3(p) ==
  /\ At(p, "get")
  /\ answer' = [answer EXCEPT ![p] = cr3[cpu[p]]]
  /\ Goto(p, "detach")
  /\ UNCHANGED <<handles, call, loadVars, machine, pte, pat>>

\* __writecr3 changes the register, not what the process is scheduled with.
\* Of another process's address space nothing is left after Detach.
WriteCr3(p) ==
  /\ At(p, "set")
  /\ Load(cpu[p], call[p].value)
  /\ moved' = IF call[p].pid = p THEN moved \cup {p} ELSE moved
  /\ Goto(p, "detach")
  /\ UNCHANGED <<handles, call, answer, loadVars, cpu, attached, pte, pat>>

NoDetach(p) ==             \* erroneous: KeUnstackDetachProcess is missing
  /\ At(p, "detach") /\ Return(p)
  /\ UNCHANGED <<machine, handles, loadVars, pte, pat>>

Detach(p) ==
  /\ At(p, "detach")
  /\ MoveTo(p, p)
  /\ Return(p)
  /\ UNCHANGED <<handles, loadVars, pte, pat>>

\* Where MmGetVirtualForPhysical finds no address nothing is written.
WritePhysVal(p) ==
  /\ At(p, "write")
  /\ pte' \in {pte, [pte EXCEPT ![call[p].pid] = call[p].value]}
  /\ Goto(p, "flush")
  /\ UNCHANGED <<handles, call, answer, loadVars, machine, pat>>

FlushThisCpu(p) ==         \* erroneous: without KeIpiGenericCall
  /\ At(p, "flush")
  /\ tlb' = [tlb EXCEPT ![cpu[p]] = None]
  /\ Return(p)
  /\ UNCHANGED <<handles, loadVars, cr3, cpu, attached, moved, pte, pat>>

\* KeIpiGenericCall runs invalidate_tlb on every CPU at once.
FlushTlb(p) ==
  /\ At(p, "flush")
  /\ tlb' = [c \in Cpus |-> None]
  /\ Return(p)
  /\ UNCHANGED <<handles, loadVars, cr3, cpu, attached, moved, pte, pat>>

\* ptedit_set_mts asks for GET_PAT.
Pat(p) ==
  /\ At(p, "pat") /\ Return(p)
  /\ UNCHANGED <<handles, loadVars, machine, pte, pat>>

-----------------------------------------------------------------------------

Client(p) ==
  \/ ptedit_init(p) \/ ptedit_cleanup(p)
  \/ \E pid \in Procs \cup {NoProc} :
       \/ ptedit_get_paging_root(p, pid) \/ ptedit_set_paging_root(p, pid)
       \/ \E v \in Values : ptedit_update(p, pid, v)
  \/ \E v \in Pats : ptedit_set_mts(p, v)
  \/ Lookup(p) \/ Attach(p) \/ ReadCr3(p) \/ WriteCr3(p) \/ Detach(p)
  \/ WritePhysVal(p) \/ FlushTlb(p) \/ Pat(p)

LoadStep ==
  /\ Loader \/ DriverEntry \/ Unload(Cardinality(handles)) \/ Delete
  /\ UNCHANGED <<callVars, machine, pte, pat>>

\* Everybody starts again.
Restart ==
  /\ Reboot
  /\ handles' = {} /\ pc' = [p \in Procs |-> "user"] /\ call' = [p \in Procs |-> NoCall]
  /\ answer' = [p \in Procs |-> None]
  /\ attached' = [p \in Procs |-> p] /\ tlb' = [c \in Cpus |-> None]
  /\ cpu' = [p \in Procs |-> None] /\ cr3' \in [Cpus -> Procs] /\ moved' = {}
  /\ UNCHANGED <<pte, pat>>

Next ==
  \/ \E p \in Procs : Client(p)
  \/ \E c \in Cpus : TlbFill(c) \/ \E p \in Procs : Switch(c, p)
  \/ \E p \in Procs : Preempt(p)
  \/ LoadStep \/ Restart

Spec == Init /\ [][Next]_vars

-----------------------------------------------------------------------------
(* Properties *)

\* Once ptedit_update has returned no CPU uses the old entry, whichever
\* process was edited, from wherever and while whoever else edits: a cached
\* entry differs from the tables only during an update of them.
WinTlbCoherent ==
  \A c \in Cpus :
    tlb[c] # None /\ tlb[c] # pte[cr3[c]] =>
      \E p \in Procs : pc[p] = "flush" /\ call[p].pid = cr3[c]

\* In user mode a process runs on its own tables or on the root that it has
\* set for itself ("Sets the root of the paging structure", ptedit.h:632).  That
\* one lasts until the process is switched out or attaches to another, and
\* nothing else moves a process to other tables: no request of anybody about
\* another process (SET_CR3 included), wherever it was preempted and on
\* whichever CPU it went on.
UserRoot ==
  \A p \in Procs :
    pc[p] = "user" /\ cpu[p] # None => cr3[cpu[p]] = IF p \in moved THEN OtherRoot ELSE p

\* ptedit_get_paging_root reads the root of the process it was asked about,
\* whatever runs between KeStackAttachProcess and the reading of CR3; for the
\* own process that is the root it has set, as long as that is in use.
RootOfPid ==
  [][\A p \in Procs :
       pc[p] = "get" /\ pc'[p] = "detach" =>
         answer'[p] = IF p \in moved THEN OtherRoot ELSE call[p].pid]_vars

\* DriverEntry and Unload leave nothing half done: a link has a device, a
\* device has a driver, and who has it open has a device.
NoHalfDriver ==
  /\ link => device
  /\ device => Image
  /\ handles # {} => device

\* A run of the loader that meets no failing call and no driver waiting to be
\* unloaded does what it was started for, whatever earlier runs, failures and
\* reboots have left: the driver can be opened, or it is on its way out.
LoaderDelivers ==
  [][loader # "none" /\ loader' = "none" /\ promised' =>
       IF unload THEN service # "running" ELSE Openable]_vars

\* ptedit_set_mts "Programs the value of all memory types", which "is equivalent
\* to writing to the MSR 0x277 (x86) [...] on all CPUs" (ptedit.h:695): when it
\* returns, every CPU has the value.
SetMtsPrograms ==
  [][\A p \in Procs : Pat(p) => \A c \in Cpus : pat'[c] = call[p].value]_vars
=============================================================================
