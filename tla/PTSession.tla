----------------------------- MODULE PTSession ------------------------------
(***************************************************************************)
(* Sessions with the library: ptedit_init, ptedit_use_implementation,      *)
(* ptedit_cleanup and the files behind them, in several processes that     *)
(* compete for the device of a module that is loaded and unloaded.  The    *)
(* library keeps descriptors in globals; the program opens and closes      *)
(* files of its own, so a number may be reused.                            *)
(***************************************************************************)
EXTENDS Integers, FiniteSetsExt, PTModule

CONSTANTS Procs,
          MaxFd,        \* descriptors are 0..MaxFd
          OwnFiles,     \* processes that open and close other files too
          Careful       \* programs pair ptedit_init and ptedit_cleanup

ASSUME SessionAssumption ==
  /\ IsFiniteSet(Procs)
  /\ MaxFd \in Nat
  /\ OwnFiles \subseteq Procs
  /\ Careful \in BOOLEAN

Fds == 0..MaxFd
Impls == {"KERNEL", "USER", "USER_PREAD"}

VARIABLES
  table,                \* process |-> descriptor |-> what it refers to
  ptedit_fd, ptedit_umem, ptedit_vmem,  \* the library's globals, per process
  impl,                 \* its implementation, "none" before ptedit_init
  up                    \* ptedit_init returned 0, no ptedit_cleanup since

globals == <<ptedit_fd, ptedit_umem, ptedit_vmem, impl>>
vars == <<table, globals, up, moduleVars>>
notBusy == <<kernel, image, at, registered, probed, proc_umem,
             has_umem, invalidate_tlb, flush_func, cr4_func, failed_late>>

\* Static variables start at zero; the first descriptor is in use (stdin).
Fresh == [fd \in Fds |-> IF fd = 0 THEN "other" ELSE "free"]

Init ==
  /\ ModuleInit
  /\ table = [p \in Procs |-> Fresh]
  /\ ptedit_fd = [p \in Procs |-> 0]
  /\ ptedit_umem = [p \in Procs |-> 0]
  /\ ptedit_vmem = [p \in Procs |-> "NULL"]
  /\ impl = [p \in Procs |-> "none"]
  /\ up = [p \in Procs |-> FALSE]

\* open (external): the lowest free descriptor, or -1.
Lowest(tab) ==
  LET free == {fd \in Fds : tab[fd] = "free"} IN IF free = {} THEN -1 ELSE Min(free)
Opened(tab, kind) ==
  IF Lowest(tab) = -1 THEN tab ELSE [tab EXCEPT ![Lowest(tab)] = kind]

\* close (external) of a descriptor, and what is left if it was the device's.
Closed(tab, fd) == [tab EXCEPT ![fd] = "free"]
HoldsDevice(tab) == \E fd \in Fds : tab[fd] = "device"
OpenFiles == {p \in Procs : HoldsDevice(table[p])}

\* open finds the device if it is registered and its module not on the way
\* out (external: misc_open); device_open admits one user.
Openable == registered /\ image \in {"coming", "live"} /\ ~device_busy

-----------------------------------------------------------------------------

InitStaleUmem(p) ==        \* erroneous: a failed open leaves the old ptedit_umem
  LET tab == Opened(table[p], "device")
      fd == IF proc_umem THEN Lowest(tab) ELSE -1
  IN  /\ Careful => ~up[p]
      /\ Openable /\ Lowest(table[p]) # -1
      /\ device_busy' = TRUE
      /\ ptedit_fd' = [ptedit_fd EXCEPT ![p] = Lowest(table[p])]
      /\ ptedit_umem' = IF fd = -1 THEN ptedit_umem ELSE [ptedit_umem EXCEPT ![p] = fd]
      /\ table' = [table EXCEPT ![p] = IF fd = -1 THEN tab ELSE Opened(tab, "umem")]
      /\ impl' = [impl EXCEPT ![p] = "KERNEL"]
      /\ up' = [up EXCEPT ![p] = TRUE]
      /\ UNCHANGED <<ptedit_vmem, notBusy>>

\* The device is not there or busy, or descriptors have run out.
InitFails(p) ==
  /\ ~Openable \/ Lowest(table[p]) = -1
  /\ ptedit_fd' = [ptedit_fd EXCEPT ![p] = -1]
  /\ up' = [up EXCEPT ![p] = FALSE]
  /\ UNCHANGED <<table, ptedit_umem, ptedit_vmem, impl, moduleVars>>

\* /proc/umem may be missing, or be one file too many; that is not reported.
InitSucceeds(p) ==
  LET tab == Opened(table[p], "device")
      fd == IF proc_umem THEN Lowest(tab) ELSE -1
  IN  /\ Openable /\ Lowest(table[p]) # -1
      /\ device_busy' = TRUE
      /\ ptedit_fd' = [ptedit_fd EXCEPT ![p] = Lowest(table[p])]
      /\ ptedit_umem' = [ptedit_umem EXCEPT ![p] = fd]
      /\ table' = [table EXCEPT ![p] = IF fd = -1 THEN tab ELSE Opened(tab, "umem")]
      /\ impl' = [impl EXCEPT ![p] = "KERNEL"]
      /\ up' = [up EXCEPT ![p] = TRUE]
      /\ UNCHANGED <<ptedit_vmem, notBusy>>

ptedit_init(p) ==
  /\ Careful => ~up[p]
  /\ InitFails(p) \/ InitSucceeds(p)

CleanupKeepsUmem(p) ==     \* erroneous: /proc/umem is not closed
  LET fd == ptedit_fd[p]
      tab == IF fd >= 0 THEN Closed(table[p], fd) ELSE table[p]
  IN  /\ Careful => up[p]
      /\ table' = [table EXCEPT ![p] = tab]
      /\ device_busy' = (device_busy /\ (HoldsDevice(table[p]) => HoldsDevice(tab)))
      /\ up' = [up EXCEPT ![p] = FALSE]
      /\ UNCHANGED <<globals, notBusy>>

\* Closes the descriptors but leaves them in the globals.
ptedit_cleanup(p) ==
  LET fd == ptedit_fd[p]
      umem == ptedit_umem[p]
      tab == IF fd >= 0 THEN Closed(table[p], fd) ELSE table[p]
      done == IF umem > 0 THEN Closed(tab, umem) ELSE tab
  IN  /\ Careful => up[p]
      /\ table' = [table EXCEPT ![p] = done]
      /\ device_busy' = (device_busy /\ (HoldsDevice(table[p]) => HoldsDevice(done)))
      /\ up' = [up EXCEPT ![p] = FALSE]
      /\ UNCHANGED <<globals, notBusy>>

\* Physical memory is mapped once; the mapping outlives the descriptor.  A
\* failed mmap leaves MAP_FAILED, which is not NULL either.
MapUmem(p) ==
  IF ptedit_vmem[p] # "NULL" THEN ptedit_vmem[p]
  ELSE IF ptedit_umem[p] \in Fds /\ table[p][ptedit_umem[p]] = "umem" THEN "mapped"
  ELSE "MAP_FAILED"

ptedit_use_implementation(p, i) ==
  /\ Careful => up[p]
  /\ impl' = [impl EXCEPT ![p] = i]
  /\ ptedit_vmem' = [ptedit_vmem EXCEPT ![p] = IF i = "USER" THEN MapUmem(p) ELSE @]
  /\ UNCHANGED <<table, ptedit_fd, ptedit_umem, up, moduleVars>>

\* What a descriptor in a global refers to when it is used.
Behind(p, fd) == IF fd \in Fds THEN table[p][fd] ELSE "free"

\* Through the device of this session; a module that is gone answers nothing.
ptedit_switch_tlb_invalidation(p) ==
  /\ up[p] /\ Behind(p, ptedit_fd[p]) = "device" /\ image # "none"
  /\ SwitchTlbInvalidation
  /\ UNCHANGED <<table, globals, up>>

\* What ptedit_resolve and ptedit_update go through.
TranslateUses(p) ==
  CASE impl[p] = "KERNEL" -> Behind(p, ptedit_fd[p])
    [] impl[p] = "USER" -> ptedit_vmem[p]
    [] impl[p] = "USER_PREAD" -> Behind(p, ptedit_umem[p])

\* What ptedit_read_physical_page and ptedit_write_physical_page go through.
AccessUses(p) ==
  Behind(p, IF ptedit_umem[p] > 0 THEN ptedit_umem[p] ELSE ptedit_fd[p])

-----------------------------------------------------------------------------
(* The program's own files, and its end (external) *)

OpenOther(p) ==
  /\ p \in OwnFiles /\ Lowest(table[p]) # -1
  /\ table' = [table EXCEPT ![p] = Opened(@, "other")]
  /\ UNCHANGED <<globals, up, moduleVars>>

CloseOther(p, fd) ==
  /\ p \in OwnFiles /\ table[p][fd] = "other"
  /\ table' = [table EXCEPT ![p] = Closed(@, fd)]
  /\ UNCHANGED <<globals, up, moduleVars>>

\* The process ends, with or without ptedit_cleanup, and is started again.
Restart(p) ==
  /\ device_busy' = (device_busy /\ ~HoldsDevice(table[p]))
  /\ table' = [table EXCEPT ![p] = Fresh]
  /\ ptedit_fd' = [ptedit_fd EXCEPT ![p] = 0]
  /\ ptedit_umem' = [ptedit_umem EXCEPT ![p] = 0]
  /\ ptedit_vmem' = [ptedit_vmem EXCEPT ![p] = "NULL"]
  /\ impl' = [impl EXCEPT ![p] = "none"]
  /\ up' = [up EXCEPT ![p] = FALSE]
  /\ UNCHANGED notBusy

SessionStep(p) ==
  \/ ptedit_init(p) \/ ptedit_cleanup(p)
  \/ \E i \in Impls : ptedit_use_implementation(p, i)
  \/ ptedit_switch_tlb_invalidation(p)
  \/ OpenOther(p) \/ \E fd \in Fds : CloseOther(p, fd)
  \/ Restart(p)

ModuleStep ==
  /\ Insmod \/ pteditor_init \/ Rmmod(Cardinality(OpenFiles)) \/ pteditor_exit
  /\ UNCHANGED <<table, globals, up>>

Next == ModuleStep \/ \E p \in Procs : SessionStep(p)

Spec == Init /\ [][Next]_vars

-----------------------------------------------------------------------------
(* Properties *)

\* A program that has the device open has a module behind it: unloading waits
\* for it (f_ops.owner), and once insmod has returned, whatever symbols the
\* kernel has, the TLB invalidation in use calls no function that is missing.
\* Excepted are files opened before insmod has returned, which meet a module
\* still being set up, or freed again by an error after misc_register.
OpenFilesSafe ==
  \A p \in OpenFiles :
    \/ image = "live" /\ TlbCallSafe
    \/ image = "coming"
    \/ image = "none" /\ failed_late

\* Whatever a program does with its own files, and however sessions follow
\* each other, the library never reads or writes "physical memory" through a
\* file of the program that took over the number of one of its descriptors.
NoForeignFile ==
  \A p \in Procs : up[p] => TranslateUses(p) # "other" /\ AccessUses(p) # "other"

\* ptedit_cleanup gives back what ptedit_init acquired, "Releases PTEditor
\* kernel module" (ptedit.h:188): the process has neither the device nor
\* /proc/umem open afterwards, so the next ptedit_init anywhere finds the
\* device free.
CleanupReleases ==
  [][\A p \in Procs :
       ptedit_cleanup(p) => \A fd \in Fds : table'[p][fd] \notin {"device", "umem"}]_vars

\* ptedit_cleanup closes no file of the program.
ProgramFilesStay ==
  [][\A p \in Procs, fd \in Fds :
       ptedit_cleanup(p) /\ table[p][fd] = "other" => table'[p][fd] = "other"]_vars
=============================================================================
