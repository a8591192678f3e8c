# PTEditor in TLA+

PTEditor lets a program read and change page tables: a Linux kernel module
(`module/pteditor.c`) offers ioctls on `/dev/pteditor`, and a C library
(`ptedit.c`, `ptedit.h`) wraps them or, given access to physical memory, walks
the tables itself; a smaller driver does the same on Windows. This directory
holds a TLA+ model of them and of the programs that come with them, TLC
configurations that check it on small instances, and TLAPS proofs of its main
properties for instances of any size. All paths below are relative to the root
of the repository.

## 1. Inventory

| Component | State | Operations | Talks to |
|---|---|---|---|
| Page-table entries (`ptedit.c`, `ptedit.h`) | one 64-bit word | `ptedit_set_pfn`, `ptedit_get_pfn`, `ptedit_apply_mt[_huge]`, `ptedit_extract_mt[_huge]`, the bit functions, the `ptedit_cast` structures | everything above it |
| Device file and locking (`module/pteditor.c`) | `device_busy`, `mm_is_locked`, one `mmap_lock` per process | `device_open`, `device_release`, `device_ioctl` | processes (fork, exit, close), `mmap`, page faults |
| Kernel walks and updates (`module/pteditor.c`) | the tables of every process, `invalidate_tlb` | `resolve_vm`, `update_vm`, `vm_to_user`, GET_ROOT, SET_ROOT, the TLB invalidations | the library through ioctls; the CPU, which walks the same tables |
| User-space implementation (`ptedit.c`) | `ptedit_paging_root`, the function pointers, `ptedit_vmem` | `ptedit_resolve_user_ext`, `ptedit_update_user_ext` | physical memory through `/proc/umem`; the module for roots and flushes |
| Library calls (`ptedit.c`) | locals only | `ptedit_resolve`, `ptedit_update`, `ptedit_pte_*`, `ptedit_set_bit`, `ptedit_clear_bit` | one of the two implementations |
| Sessions (`ptedit.c`) | `ptedit_fd`, `ptedit_umem`, `ptedit_vmem` | `ptedit_init`, `ptedit_cleanup`, `ptedit_use_implementation` | the process's descriptor table, the device |
| Memory types (`ptedit.c`, `module/pteditor.c`) | the PAT (MAIR) of every CPU | `ptedit_get_mts`, `ptedit_set_mt[s]`, `ptedit_find_mt`, GET_PAT, SET_PAT | all CPUs, the entries of pages |
| Module loading (`module/pteditor.c`) | registered device, probe, `/proc/umem`, looked-up functions | `pteditor_init`, `pteditor_exit` | the kernel |
| Programs (`example.c`, `demos/`) | their pages, tables and resolved entries | `main` of each | the library, mapped page tables, the TLB of the CPU they run on |
| Windows driver (`driver/PTEdit`) | the device and its link, CR3 and PAT of the CPUs | `DriverEntry`, `Unload`, `DispatchDeviceCtl` | any number of processes at once, the scheduler |
| Windows loader (`driver/PTEditorLoader`) | the driver's service, which survives a reboot | `main`, with and without `--unload` | the service manager, the driver |
| Single header, tests, printing | | | |

What is hard here, and hard to test:

* **Locks.** The ioctls take the `mmap_lock` of a process that may be another
  one than the caller's, copy from and to user space (which may fault and
  need the same lock), and skip the lock when `mm_is_locked` says so.
* **Shared tables.** A call is resolve, modify, update, in separate steps.
  Other threads, the kernel and the CPU (Accessed bits, TLB fills) act in
  between, and each step may use a stale root, slot or entry.
* **Two implementations of one promise.** The kernel's walk and the library's
  walk differ in detail: which entries count as valid, in which order levels
  are written, how wide a frame number is.
* **Widths.** 28-bit fields beside 40-bit frame numbers, `int` masks applied to
  a 64-bit register.
* **Several CPUs.** Every CPU has a TLB, a PAT and a root register of its own; a
  program, or a request of the Windows driver, is moved from one to another at
  any moment.
* **Half-finished setups.** Loading the module or the Windows driver is a
  sequence of steps of which each may fail, while the device can already be
  opened.
* **Sequences of legal calls.** Descriptors kept in globals after
  `ptedit_cleanup`, implementations switched back and forth, a device inherited
  by `fork`.

What makes each component correct: the fields of an entry are independent; the
device has one user at a time and every lock is released; both implementations
change exactly the entries the CPU uses for an address; no stale translation
outlives an update; sessions give back what they took and never touch foreign
files; all CPUs agree on the memory types and a page has the type it was given;
a module or driver that is gone, or failed to load, leaves nothing behind and
nobody without it; the programs see what they expect and undo what they did.

## 2. Modules

| Module | Models | Extends |
|---|---|---|
| `PTWord` | 64-bit words as sets of bit positions; shifts and conversions of C | |
| `PTEntry` | the entry functions, for x86_64 and aarch64 | `PTWord` |
| `EntryFields` | **abstract**: an entry as three independent fields | |
| `PTEntrySeq` | any sequence of entry functions on one entry; refines `EntryFields` | `PTEntry` |
| `PTDevice` | the device, its ioctls and the `mmap_lock` | |
| `PTWalk` | the walks of the kernel, of the library and of the CPU | `PTEntry` |
| `PTEdit` | threads that edit page tables through either implementation, and the CPU | `PTWalk` |
| `PTCalls` | `PTEdit` with history: what a call **promises** | `PTEdit` |
| `PTMemType` | the functions on a PAT/MAIR value | `PTEntry` |
| `MemTypes` | PAT/MAIR on several CPUs and the memory type of a page, **composed** with the entry of that page | `PTMemType`, `PTEntrySeq` |
| `PTModule` | `pteditor_init`, `pteditor_exit` and the static variables of the module | |
| `PTSession` | sessions, descriptors and the globals that hold them, **composed** with the module they need | `PTModule` |
| `PTPrograms` | the example and six demos on several CPUs | `PTWalk`, `PTMemType` |
| `WinLoad` | the Windows loader, `DriverEntry` and `Unload` | |
| `WinDriver` | requests to the Windows driver, **composed** with its loading | `WinLoad` |
| `MC...` | constants for TLC | the module of that name (`MCPTPrograms`: its proofs, whose hypotheses it evaluates) |
| `PTEntryLemmas` | lemmas about the entry functions and about walks | `PTWalk`, `PTMemType` |
| `PTEntryProofs`, `PTDeviceProofs`, `PTEditProofs`, `MemTypesProofs`, `PTSessionProofs`, `PTProgramsProofs`, `WinDriverProofs` | theorems and proofs | `PTEntrySeq`, `PTDevice`, `PTCalls` (and so `PTEdit`), `MemTypes` (and `PTEntryProofs`), `PTSession`, `PTPrograms`, `WinDriver` |

`PTDevice` and `PTEdit` look at the same ioctls from two sides. `PTDevice` has
every location where a lock is requested, granted, held or released and leaves
out what is done under it; `PTEdit` has what is done and a lock of one writer
that excludes others, which `WorkExclusive` of `PTDevice` justifies. In
`PTPrograms` a library call is one step, because only one process edits its
tables; `CallsExact` of `PTCalls` says what such a step does.

### Correspondence

**Words.** A word is the set of positions of its one bits. `|`, `&`, `& ~` are
union, intersection and difference; a shift moves positions and drops those
that leave `0..63`. A frame number or an attribute number is a word too.

**`PTDevice`.** `pc[t]` is the place of a thread in a request: `open`, `claim`
(the two halves of `device_open`), `copyin` (`from_user`), `getmm`, `lock` and
`wait` (the `rw_semaphore`), `body`, `unlock`, `copyout` (`to_user`). `op` and
`pid` are the request and its argument, `mm` is what `get_mm` returned, `lock`
the argument of that name. `misc_mtx` is the kernel's mutex around a misc
device's open; `live` and `fds` are files and the descriptors that name them.
The lock is an `rw_semaphore`: a free lock may be taken at once, otherwise a
thread queues and is served in order. A request may fault in its copies, which
takes the caller's own lock as a reader.

**`PTEdit`.** `mem` maps slots (table frame and index) to entries. Each read of
a table by the user-space walk, each write and each flush is a step. The
kernel's walk is one step, since it runs under the lock; `vm_to_user`, which
dereferences what was found after the lock was dropped, is another. `cur` is a
resolved `ptedit_entry_t`, `vm` the one to be written, `todo` the writes that
are left. The CPU caches translations (`TlbFill`, which also raises Accessed),
drops them and loads a new root at a context switch.

**`PTCalls`** adds for each thread a snapshot of memory and roots from the
beginning of its call, and whether anything else changed memory since.

**`MemTypes`.** `ptedit_set_mt` is a read on some CPU, the `int` arithmetic of
`ptedit.c` (with both outcomes a compiler may give to an undefined shift), and
a write on every CPU, one after the other. `retype` is what
`demos/uncachable.c` does to a page; `edit` is any call of `PTEntrySeq` on the
entry of that page.

**`PTSession`.** `table` is the descriptor table of a process: `open` returns
the lowest free number, so a number that the library still has in a global may
come to name a file of the program. `up` says that the program is between
`ptedit_init` and `ptedit_cleanup`; `Openable` is `device_open`'s test together
with the state of the module.

**`PTModule`.** `at` is the next step of `pteditor_init` or `pteditor_exit`, one
for each lookup and each registration, with its error exit; `image` is the
kernel's view of the module. `found` is the set of symbols
`kallsyms_lookup_name` finds on this kernel. `TlbCallSafe` says which function
pointers the TLB invalidation in use dereferences. An error after
`misc_register` leaves the device registered (`failed_late`), as the code does.

**`PTPrograms`.** A program is a sequence of records, one for each call or
access of its `main` whose outcome matters; `Instruction` executes one. `env`
holds its variables of type `ptedit_entry_t`. An access goes through the TLB of
the CPU the program is on (`tlb`, `cpu`); TLBs fill and forget at any time and
the program migrates. The checks the programs print (`OK!`, `Fail!`) are
instructions that collect failures in `failed`. `memmap` reads one table per
step while the kernel changes the tables; `ever` and `always` record which pages
were mapped at some time and all the time. The programs are started with the module loaded.

**`WinLoad`** has one action for each call of the loader and for each step of
`DriverEntry` and `Unload`; `service` is the service manager's record of the
driver. `faults` counts the calls that failed: those of `DriverEntry` and every
one of the loader's, which gives up or, where it does not test the result
(StartService, ControlService, DeleteService), goes on. **`WinDriver`** has a request as
the steps between which it can be preempted: look up the process, attach, read
or write CR3, detach; write an entry, flush. `attached[p]` is the address space
the scheduler gives to `p`. Attaching to the process that is current does
nothing, and so does detaching from it (`MoveTo`): a root that a process sets
for itself is in CR3 when the request returns, and stays until the process is
switched out or attaches to another one. `moved` records which processes run on
such a root. A root set for another process is gone with Detach. The fall-through from SET_CR3 to FLUSH_TLB flushes
the process ID as an address, which is no address of the model.

Operators whose comment says *erroneous* are plausible mistakes
in the definition they precede. No specification uses them; each one, put in
the place of that definition, breaks the property PROJECT.json names, which
shows that the property depends on that code.

## 3. Runs

`tlc -config <run>.cfg <module>` runs one; PROJECT.json lists them.

### Runs that pass

| Run | Question | Bounds |
|---|---|---|
| `device_safety` | One user of the device, no leaked lock, exclusive work; the inductive invariant of section 5 | 3 threads of 2 processes, 2 files, all requests |
| `device_liveness` | Does every request return, and is the device freed? | 2 threads of 2 processes, 2 files, all requests but VM_LOCK |
| `edit_calls` | Does a call have exactly its documented effect (`CallsExact`)? | 1 thread; 26 calls on 4 KB, 2 MB and unmapped addresses of its own, another and no process; both implementations and both TLB modes, switched in between; the other process's root is switched |
| `edit_races` | Two threads edit a page and its neighbour while the CPU walks: no stale translation (`TlbCoherent`), no write off the path (`WritesOnPath`) | 2 threads, 4 calls (one of them on a pid that names no process), both implementations and both TLB modes; the other process gets a new root |
| `mts_x86` | Does a page that is given a memory type have it on every CPU (`RetypeTakesEffect`), and do the entry functions refine independent fields (`FieldsSpec`)? Section 5 proves the latter for 2 MB entries and aarch64 too. | 1 thread, 2 CPUs, 3 types, 3 initial PATs, of which attribute 4 is reprogrammed; entries and arguments that contain the end bits of every field; any number of calls |
| `session_careful` | Sessions never touch foreign files and release the device (`NoForeignFile`, `ProgramFilesStay`, `CleanupReleases`); who has the device open has a module that is set up (`OpenFilesSafe`); a module that is gone leaves nothing (`NothingLeft`) | 2 processes, one of which opens files of its own, 3 descriptors; kernels with all symbols and with each kind missing, CPUs with and without INVPCID; the module is loaded and unloaded any number of times |
| `programs` | Do the programs see what they say they should (`ChecksOk`), undo it (`ProgramsUndo`), and leave no stale translation but their own (`StaleOnlyOwnStores`)? Does `memmap` list what is mapped while it changes (`MemmapSandwich`)? | 7 programs, 2 CPUs, with and without `/proc/umem`, a PAT with and without an uncachable attribute; up to 3 changes by the kernel during `memmap` |
| `windows` | No stale translation after an update (`WinTlbCoherent`), user mode on its own root or the one it has set for itself (`UserRoot`), the right root is reported (`RootOfPid`), no half-loaded driver (`NoHalfDriver`), and the loader does its job after any history (`LoaderDelivers`) | 2 processes, 2 CPUs, 2 values of an entry, 1 failing call, any number of loads, unloads and reboots |

The bounds are enough for the interactions in question. In `PTDevice` three
threads give a holder, a waiter and a late comer on one lock, two processes
give a foreign target and a child that inherits the device. In `PTEdit` two
addresses share a page table, a third differs from them at the PMD (a 2 MB
page), a fourth at the PUD (unmapped); the second thread is needed only for
`edit_races`, where the CPU is the third actor. In `PTSession` three
descriptors are what the program's own first file, the device and `/proc/umem`
need; one open more exhausts them. In `PTPrograms` two CPUs suffice for a
translation to be stale on the one the program moves to; three changes are what
it takes to unlink a table, link it again and change a page under it while
`memmap` is at work. In `WinDriver` two processes can edit each other while
either is preempted. One failing call, of `DriverEntry` or the loader, puts every
state that a single failure leaves (a stopped service, a running one that is
marked for deletion, a driver that did not start) in the way of the fault-free
runs of the loader that follow.

`device_safety` does not check for deadlock: VM_LOCK stops its caller (next
table), and with it everybody who waits for that lock. `programs` does not
either, since programs end.

### Runs that show a disagreement

Each of these states what a comment, a document or a test of the repository
says, and TLC finds a behaviour of the code that does otherwise. The findings
in PROJECT.json quote the lines.

| Run | What happens |
|---|---|
| `device_vm_lock` | VM_LOCK takes the `mmap_lock` as a writer, then as a reader, and waits for itself |
| `edit_pgd_kernel` | with four levels P4D *is* PGD; `update_vm` writes the changed PGD and then the old P4D over it |
| `edit_tlb_other` | `invalidate_tlb_kernel` flushes the caller's address space though another one was edited |
| `mts_upper` | `ptedit_set_mt` takes attributes 0 to 7 but computes its mask in an `int`: from attribute 4 on the shift is undefined, and either the old value stays in or attribute 0 to 3 is cleared |

### Other instances

The modules show more when their constants are given other values:

* `mts_x86` with `Huge = TRUE` or `Arch = "aarch64"`, `mts_upper` with
  `SetIds = {0, 1, 2, 3}` (and, for size, one entry and no calls that change its
  frame number or flags), or `Arch = "aarch64"` and `SetIds = {0, 1, 2}`,
  `edit_pgd_kernel` with `Impls = {"USER"}` and `edit_tlb_other` with
  `TlbModes = {"CUSTOM"}` pass.
* `mts_upper` with `Threads = {t1, t2}` and the invariant `CpusAgree`: two
  `ptedit_set_mts` at once leave the CPUs with different registers.
* `edit_pgd_kernel` with `Impls = {"USER"}` and
  `RootSwitches` with `<<Self, OtherPgd>>`: after `ptedit_set_paging_root` the
  user-space walk for pid 0 still starts at the old root (`CallsExact` fails).
* `PteFrame == {7, 28}` in `MCPTEdit`, a page table above 1 TiB: the user-space
  walk truncates its frame number to 28 bits (`CallsExact` fails).
* `edit_races` with `CallSet = "levels"` and the property `OnlyAffectedLevels`:
  `ptedit_set_bit` writes all levels back and drops an Accessed bit raised since
  it read them.
* `mts_upper` with `Arch = "aarch64"` and `SetIds = {3}`: the `int` mask of
  `ptedit_set_mt`, extended by its sign, clears attributes 4 to 7
  (`SetMtExact` fails).
* `programs` with `Target` in a 2 MB page: `virt2phys` shifts a 4 KB frame number
  by 21 (`ChecksOk` fails). With `PteFrame == {7, 28}` in `MCPTPrograms`, a page
  table above 1 TiB, `map_pt` maps another page (`ChecksOk` fails).
* `windows` with the property `SetMtsPrograms`: `ptedit_set_mts` sends GET_PAT
  (`ptedit.c:741`), so nothing is programmed, though `ptedit.h:695` says it
  "Programs the value of all memory types".
* `session_careful` with `Careful = FALSE`: a second `ptedit_init` in a session
  loses the first descriptor, and `ptedit_cleanup` leaves the device open
  (`CleanupReleases` fails).

### Fairness

Only `PTDevice` has liveness properties. `FairSpec` assumes that a thread inside
the kernel keeps running (WF on its steps), that the semaphore hands the lock to
its first waiter if it becomes available again and again (SF on `LockGrant`; an
`rw_semaphore` keeps its waiters in order and stops others from overtaking one
that waited too long), that a page fault completes on the same grounds (SF on
the copies), and that the last `fput` calls `device_release` (WF). Nothing is
assumed about which requests are made, or that there are any.

## 4. Assumptions

* A process outlives the calls that work on it (guard of `Exit`): `get_mm` takes
  no reference, and without this nothing holds.
* `ptedit_use_implementation` is called while no other call of the library is
  under way: it assigns the function pointers and the root without a lock.
* Frame numbers given to `ptedit_set_pfn` fit into its field; it does not check.
* Tables on the way to a page have been accessed before; the calls of the runs
  do not clear PRESENT above the PTE. What the level functions do on unmapped
  addresses is not claimed by `CallsExact`.
* `RetypeTakesEffect` is claimed for one thread: another one may reprogram the
  attribute that was found before the page uses it.
* `session_careful` pairs `ptedit_init` and `ptedit_cleanup` and switches
  implementations within a session only.
* A device that a failed `pteditor_init` left behind is opened only while a
  module is in memory; what its freed `f_ops` would do is undefined, and the
  properties except it by name (`failed_late`, `image = "coming"`).
* `PTPrograms`: the pages a program asked for are mapped and touched before it
  edits them; a table freed during `memmap` is not reused for something else.
* `WinDriver`: CPUs without PCIDs, so that loading CR3 empties the TLB; a CPU
  that switches to a process loads the root of the address space the process has,
  and an idle CPU keeps the root it had; `KeIpiGenericCall` runs on all CPUs at once; one loader
  runs at a time. A process that `PsLookupProcessByProcessId` found stays
  (the driver holds a reference, and never gives it back).
* External code (the `rw_semaphore`, `misc_open`, `fput`, the page-table
  helpers and predicates of Linux, the CPU's page walk and TLB, `open` and
  `close`) is modelled from how the repository uses it.

## 5. Proofs

`tlapm <module>` checks them.

**`PTEntryProofs`** — for every set of frame numbers, memory types, flag bits
and initial entries that satisfies `SeqAssumption`, on both architectures:

* `TypeCorrect`: the entry stays a 64-bit word.
* `EntryImplementsFields`: `EntrySpec => FieldsSpec`, the refinement that the
  run `mts_x86` checks for a few arguments. Lemmas say where the bits of each
  field are (`PfnMaskBits`, `MtBitPositions`, `FlagBitPositions`), that a setter
  followed by its reader returns the argument (`GetSetPfn`, `ExtractApplyMt`),
  that the reader depends on its own bits only (`GetPfnBits`, `SetPfnFrame`,
  `FieldsDependOnTheirBits`), and `StepImplementsFields` puts them together,
  one step per function.

**`PTDeviceProofs`** — for any number of processes, threads and files:

* `TypeCorrect` (`TypeOK`), `OneUser` (`DeviceExclusive`), `Invariance`
  (`DeviceInv`), `LocksReleased` (`NoLockLeaks`), `WorkIsExclusive`
  (`WorkExclusive`).

None of the safety properties is inductive by itself. `NoLockLeaks`, for
example, says that a thread in user space holds nothing, which a step can only
preserve if one knows where a thread *with* a lock is. The inductive invariant
is `TypeOK /\ DeviceExclusive /\ DeviceInv`, and `DeviceInv` has three parts:

* `OpenInv`: `misc_mtx` is held exactly inside `device_open`, and between its
  two halves the device is free. This is what makes the unprotected test of
  `device_busy` safe.
* `CallInv`: at each place of a request, which of its locals are set, and that
  they fit the request.
* `LockInv`: a thread has the lock of `p` as a writer (reader) *if and only if*
  it is at a place of a writing (reading) request where it must have it, and
  VM_LOCK is stuck with the write lock before it gets to set `mm_is_locked`.

Each part is preserved by every action (`TypeStep`, `ExclusiveStep`, `OpenStep`,
`CallStep`, `LockStep`); the run `device_safety` checks the same invariant.

**`WinDriverProofs`** — for any set of CPUs, entries and attribute values, any
finite set of processes and any number of failing calls:

* `NoStaleTranslations` (`WinTlbCoherent`), `UserRoots` (`UserRoot`),
  `DriverWhole` (`NoHalfDriver`), and the action properties `RootsReported`
  (`RootOfPid`) and `LoaderWorks` (`LoaderDelivers`).

They follow from `WinInvariance`, whose invariant `WinInv` adds to the
properties what makes them inductive: `RequestInv` (which address space a
request has at each of its places), `ScheduleInv` (a CPU runs one process, on
the address space that process has or the root it has set for itself, except
after SET_CR3 has written the register for another process; and a process with
a root of its own setting is running and attached to nobody else), `TlbInv` (nothing is cached of a root that is no process's),
`DriverInv` (device, link and service at each step of `DriverEntry` and
`Unload`) and `LoaderInv` (what an undisturbed run of the loader has achieved at
each of its steps). Each part has a lemma with one step per action. That
`handles` is finite is needed only for the step from "nobody has the device
open" as a count to the empty set.

**`PTSessionProofs`** — for any finite set of processes, any descriptors, any
kernel (set of symbols found) and any history of loads and unloads:

* `SessionTypeCorrect`, `GoneModuleLeavesNothing` (`NothingLeft`),
  `OpenFilesAreSafe` (`OpenFilesSafe`), `NoCallReachesForeignFile`
  (`NoForeignFile`); and, when `Careful` (init and cleanup are paired), the
  action properties `CleanupReleasesAll` (`CleanupReleases`) and
  `CleanupSparesProgramFiles` (`ProgramFilesStay`).

The invariant `Inv` says what each step of `pteditor_init` and `pteditor_exit`
finds registered and looked up, also after an earlier load that failed late
(`ModuleInv`), that files of the device exist only while it is registered and
never while the module goes (`FilesInv`), and that the globals of a process in a
session name its own files in its descriptor table (`UpInv`). `CarefulInv` adds that *only* those globals name the
device and `/proc/umem`; that is what makes `ptedit_cleanup` complete, and what
a second `ptedit_init` in a session destroys.

**`MemTypesProofs`** — for any number of CPUs and threads and any requests:

* `MemTypesTypeCorrect`; `EntryStaysFields` (`FieldsSpec`), for threads that
  interleave in any way; `RetypeHasEffect` (`RetypeTakesEffect`) as long as calls
  do not overlap (`Serialized`).

`EntryStaysFields` needs that `Mts` contains the attribute numbers a page can be
given, since its abstract specification has the same set of arguments; each step
of the composition is a step of `PTEntrySeq` or leaves the entry alone.

`RetypeTakesEffect` is proved for x86_64 and a PAT whose bit 31 nobody sets: that
bit is reserved, and with it set GET_PAT, which puts the register together from
two halves, returns another value. The attributes programmed before are any of 0
to 7, with whatever `ptedit_set_mt` makes of them. Beside what is known of a
request at each place, the invariant says that the CPUs `on_each_cpu` has reached
hold the value that is being written (`ProgramInv`), that all agree when nobody
writes (`CpusAgree`, which needs `OneProgrammer` and so `Serialized`), and that
the attribute found has the type on every CPU until the page uses it
(`RetypeInv`).

**`PTEditProofs`** — for any number of threads and processes, any page tables
and any calls, both implementations and both TLB invalidations, switched as
`PTEdit` allows:

* `UpdatesWriteOnPath`: `Editing(FrameBits) => (Spec => []WritesOnPath)`.
* `FlushedTlbsAgree`:
  `Editing(CachedBits) /\ NoAliases /\ FlushReaches => (Spec => []TlbCoherent)`.

`Editing(K)` is about the constants only: no page table is also a directory on
the path of a used address; where the library walks tables itself they lie below
1 TiB; no process that is edited is given another root; and no call changes a
bit of `K` above the last level. For `WritesOnPath`, `K` is the frame number,
so that PTEs may be edited at will and directories in their flags. For
`TlbCoherent`, `K` is what a TLB entry keeps, because the flush is for one
address; `NoAliases` (no other address that is used shares the entry that is
written) has the same reason, and `FlushReaches` (the caller's own process, or
`invalidate_tlb_custom`) is what `edit_tlb_other` shows to be necessary. The
instance of `edit_races` satisfies all of them.

The invariant `EditInv(K)` says that directories keep their bits in `K`
(`MemInv`), hence every path is what it was at the start (`PathFixed`), that
roots, the library's copy included, are those of the start for every process
that is edited (`RootInv`), and, for each thread and each place
(`ThreadInv`), that what it has read, computed or is about to write lies on the
path of its call and agrees with the directories in `K`. So a stale slot or
entry is harmless: it is stale only in bits that do not direct a walk. There is
one lemma per action. `TlbInv` is `TlbCoherent` for the addresses that are used;
it needs `TranslationKept`: a write to another address's entry, or an
Accessed bit, changes no translation. TLC checked `EditInv` and `TlbInv` on the
instance of `edit_races`.

The second part of `PTEditProofs`, about `PTCalls`, in the same generality:

* `CallsHaveTheirEffect`: `ExactEditing(K) => (CallsSpec => []CallsExact)`.

`ExactEditing(K)` adds to `Editing(K)`, for a `K` with all bits that direct a
walk, what the code takes for granted: frame 0 holds no table
(`FrameZeroFree`: a root of zero stands for a process without one); no table
occurs twice on a path (`TablesDistinct`); present PGD entries pass `p4d_bad`,
there are no 1 GB pages, and a directory entry that is not present is zero and
stays zero, or has the size bit (`TablesPlain`: the kernel's walk follows
others, the library's and the CPU's do not); and no call goes through both PGD
and P4D with the kernel implementation (`NotThroughP4d`, which
`edit_pgd_kernel` shows to be necessary). Two choices of `K` meet this on parts
of the instance of `edit_calls`: `TableBits` for mapped addresses and calls at
any level, and `CachedBits` for all addresses and calls that leave directories
alone. The processes that are edited keep their roots, as in `Editing`; the run
switches one.

The invariant `CallsInv(K)` relates, at each place of a call that has been alone
so far, the locals of its thread to memory when the call began (`AloneInv`): the
slots and entries found are those the CPU uses (`FoundExact`; `KernelFindsExact`
and `WalkExact` compare the two walks with the CPU's, level by level), the
entries to be written have all the changes and no others (`VmExact`), and memory
together with the writes that are left makes up the expected memory (`Pending`).
It needs `EditInv(K)` for the calls of other threads that came before. TLC
searched some 30,000 states under each choice of `K` and found the hypotheses met
and `CallsInv` not violated.

**`PTProgramsProofs`** — for any number of CPUs, any addresses, page tables and
PAT values, and any order in which CPUs fill and drop translations, raise
Accessed and Dirty, and take the program over from each other:

* `ProgramsInvariant`: `Layout |- Spec => []ProgramsInv`, and from it
  `ChecksNeverFail` (`ChecksOk`), `ProgramsUndoTheirEdits` (`ProgramsUndo`) and
  `OnlyOwnStoresGoStale` (`StaleOnlyOwnStores`).
* `MemmapListsWhatIsMapped`:
  `Layout, LowerHalf |- Spec => []MemmapSandwich`.

`Layout` is about the constants: the six addresses differ, their directories are
present and below 1 TiB (`map_pt.c` reads a frame number from a field of 28
bits), every page but the one still to be mapped is present (`TablesThere`); no
two addresses share an entry, no page that is written to holds a page table
(`PagesApart`); the pages whose type is changed were write-back, by the first
attribute of that type, because `uncachable.c` puts back the first one it finds
(`PagesCached`). `MCPTPrograms` states `Layout` and `LowerHalf` as an assumption,
so that the run `programs` evaluates both.

`ProgramsInv` is an annotation of the programs. `ShowsB`, `ShowsTable`,
`Uncached`, `UncachedHuge` and `Pmapped` are the spans of instructions over which
an edit is in force; `Leaf` is the entry that maps an address there, in terms of
the one the program found; `Contents` and `Variables` are what pages are filled
with and which entries variables hold. All of it is up to the bits that the CPU
raises (`Core`), because a program resolves an entry at one moment and writes it
back at another; only where a program compares whole entries (`map_pt.c`,
`map_pt_manual.c`, `performance.c`) does the annotation say that they were
written to before (`Written`, `Used`), after which no CPU raises anything.
`Caches` says that a translation cached anywhere is the one of the annotation,
unless the address was stored to without a flush (`Stored` bounds where that
can be). `Instructions` lists what the annotation gives before each kind of
instruction and needs after it; there is one lemma for each action.

`LowerHalf` is what `memmap` takes for granted of a process whose tables change:
its pages are the six addresses, in the lower half (`Aligned`, `Complete`); the
kernel unlinks tables and links them again but does not move them or reuse them
for others, and it enters no page in a table that it unlinks (`Settled`: such a
page would be listed without ever having been mapped). The invariant `MapInv`
gives each table in `work` the set of addresses under it (`Under`): these sets
are disjoint from each other and from the pages listed (`Pending`), which is why
the sum counts no page twice, and with the pages listed they contain every
address that was mapped all the time (`Covers`). Reading a table replaces it by
tables that share out what was under it (`PendingStep`, `CoversStep`). TLC
checked `ProgramsInv` and `MapInv` on the instance of `programs`.

**Only model-checked.** Liveness (`RequestsReturn`, `DeviceFreed`), since it
needs fairness and ENABLED, which TLAPS does not handle. Every invariant and
action property of a passing run is proved.

## 6. Not modelled

* Five-level paging, the aarch64 tables and 1 GB pages: `PTWalk` has four levels
  with 4 KB and 2 MB pages. The 32 GB limit of the mapped physical memory.
* TLB entries of other addresses under an edited upper-level entry: the code
  flushes one address and says so.
* `demos/nx.c`, which waits for its child by `sleep` (what it relies on, a flush
  in the child, is what `edit_tlb_other` shows missing); `demos/tlb_test.c`,
  which measures time; `demos/clear_bits.c` and `test/tests.c`, whose calls are
  among those of `edit_calls`, `mts_upper`, `mts_x86` and `session_careful`.
* What READ_PAGE, WRITE_PAGE and READ_PHYS_VAL copy in the Windows driver, its
  SET_PAT, which the library never sends, and the references to process objects
  it never releases.
* The `active_mm` that `get_mm` falls back on for a task without an `mm`, that is
  a kernel thread; pids in the model name user processes or nothing.
* The two ioctls of `ptedit_full_serializing_barrier`, GET_ROOT and SET_ROOT of the
  value just read: one step of `PTPrograms` that changes nothing. `PTDevice` and
  `PTEdit` have the ioctls themselves.
* `read_mem`, `write_mem` and `mmap_mem` of Linux behind `/proc/umem`, and
  `devmem_bypass`: the kernel's own code, or one assignment to a register.
* `ptedit_print_entry` and the other printing functions: layout.
* `ptedit_header.h`, which is generated from the files that are modelled.

## 7. Plan

Done, in this order: entries, device, walks and edits, memory types, sessions;
proofs about entries and the device; then module loading, composed with the
sessions; the programs; the Windows driver and its loader, with their proofs;
proofs about sessions and module loading, memory types, concurrent edits and the
effect of a call; proofs about the programs.

Left to model: five levels and the aarch64 tables in `PTWalk`, parameterised by
`ptedit_paging_definition`, and the 32 GB bound of the mapping.

Left to prove: `LowerHalf` fixes the addresses of a process to six; a set of any
size needs `Vas` to be a parameter of `PTPrograms`.
