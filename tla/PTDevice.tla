------------------------------ MODULE PTDevice ------------------------------
(***************************************************************************)
(* The character device of the kernel module (module/pteditor.c): who may  *)
(* open it, when it is released, and how its ioctls take the mmap_lock of  *)
(* the process they work on.  Threads of several processes run at once;    *)
(* page faults and mmap compete with them for that lock.                   *)
(* What the ioctls do to the page tables is the matter of PTEdit.          *)
(***************************************************************************)
EXTENDS Integers, Sequences

CONSTANTS Procs,        \* processes, each with one mm_struct
          Threads,
          Files,        \* open file descriptions
          ProcOf,       \* the process of a thread
          Ops,          \* the requests the threads make
          None

ReadOps == {"VM_RESOLVE", "GET_ROOT"}
WriteOps == {"VM_UPDATE", "SET_ROOT", "VM_LOCK", "mmap"}
KernelOps == {"mmap"}
DeviceOps == {"VM_RESOLVE", "VM_UPDATE", "GET_ROOT", "SET_ROOT", "VM_LOCK", "VM_UNLOCK"}
RootOps == {"GET_ROOT", "SET_ROOT"}

ASSUME DeviceAssumption ==
  /\ ProcOf \in [Threads -> Procs]
  /\ Ops \subseteq DeviceOps \cup KernelOps
  /\ None \notin Procs \cup Threads \cup Files \cup DeviceOps \cup KernelOps

VARIABLES
  device_busy,          \* static bool device_busy
  mm_is_locked,         \* static bool mm_is_locked
  misc_mtx,             \* the thread inside misc_open, which serializes opens
  alive,                \* processes find_vpid knows
  live,                 \* files whose device_open succeeded, until device_release
  fds,                  \* process |-> files it has a descriptor for
  wr, rd, queue,        \* mmap_lock of a process: writer, readers, waiters
  pc,                   \* where a thread is
  op, pid,              \* the request it executes and the pid in its argument
  mm,                   \* the mm_struct that get_mm returned
  want,                 \* the mode it asks the mmap_lock in
  lock,                 \* the lock argument of resolve_vm and update_vm
  file,                 \* the file its ioctl came through
  fault                 \* its copies to and from user space hit a page fault

fileVars == <<device_busy, misc_mtx, live, fds>>
lockVars == <<wr, rd, queue>>
callVars == <<op, pid, mm, want, lock, file, fault>>
vars == <<device_busy, mm_is_locked, misc_mtx, alive, live, fds, wr, rd, queue,
          pc, op, pid, mm, want, lock, file, fault>>

Init ==
  /\ device_busy = FALSE
  /\ mm_is_locked = FALSE
  /\ misc_mtx = None
  /\ alive \in SUBSET Procs
  /\ live = {}
  /\ fds = [p \in Procs |-> {}]
  /\ wr = [p \in Procs |-> None]
  /\ rd = [p \in Procs |-> {}]
  /\ queue = [p \in Procs |-> <<>>]
  /\ pc = [t \in Threads |-> "user"]
  /\ op = [t \in Threads |-> None]
  /\ pid = [t \in Threads |-> None]
  /\ mm = [t \in Threads |-> None]
  /\ want = [t \in Threads |-> "r"]
  /\ lock = [t \in Threads |-> FALSE]
  /\ file = [t \in Threads |-> None]
  /\ fault = [t \in Threads |-> FALSE]

Goto(t, l) == pc' = [pc EXCEPT ![t] = l]

-----------------------------------------------------------------------------
(* Processes (external): started afresh, forked with their descriptors, and *)
(* ended.  The module takes no reference on the mm it works on (get_mm), so *)
(* that a process outlives the calls made on it is an assumption.           *)

Spawn(p) ==
  /\ p \notin alive
  /\ alive' = alive \cup {p}
  /\ UNCHANGED <<fileVars, mm_is_locked, lockVars, pc, callVars>>

Fork(t, p) ==
  /\ pc[t] = "user" /\ ProcOf[t] \in alive /\ p \notin alive
  /\ alive' = alive \cup {p}
  /\ fds' = [fds EXCEPT ![p] = fds[ProcOf[t]]]
  /\ UNCHANGED <<device_busy, misc_mtx, live, mm_is_locked, lockVars, pc, callVars>>

Exit(p) ==
  /\ p \in alive
  /\ \A t \in Threads : (ProcOf[t] = p => pc[t] = "user") /\ mm[t] # p
  /\ alive' = alive \ {p}
  /\ fds' = [fds EXCEPT ![p] = {}]
  /\ UNCHANGED <<device_busy, misc_mtx, live, mm_is_locked, lockVars, pc, callVars>>

-----------------------------------------------------------------------------
(* Opening and releasing the device *)

\* misc_open (external) holds misc_mtx around the driver's open.
MiscOpen(t) ==
  /\ pc[t] = "user" /\ ProcOf[t] \in alive
  /\ misc_mtx = None
  /\ misc_mtx' = t
  /\ Goto(t, "open")
  /\ UNCHANGED <<device_busy, live, fds, alive, mm_is_locked, lockVars, callVars>>

NoBusyCheck(t) ==          \* erroneous: device_busy is not tested
  /\ pc[t] = "open"
  /\ Goto(t, "claim")
  /\ UNCHANGED <<device_busy, misc_mtx, live, fds, alive, mm_is_locked, lockVars, callVars>>

\* The busy check of device_open.
DeviceOpen(t) ==
  /\ pc[t] = "open"
  /\ IF device_busy
       THEN Goto(t, "user") /\ misc_mtx' = None         \* -EBUSY
       ELSE Goto(t, "claim") /\ UNCHANGED misc_mtx
  /\ UNCHANGED <<device_busy, live, fds, alive, mm_is_locked, lockVars, callVars>>

\* The rest of device_open; the caller gets a descriptor for the new file.
DeviceClaim(t) ==
  /\ pc[t] = "claim"
  /\ device_busy' = TRUE
  /\ \E f \in Files \ live :
       /\ live' = live \cup {f}
       /\ fds' = [fds EXCEPT ![ProcOf[t]] = @ \cup {f}]
  /\ misc_mtx' = None
  /\ Goto(t, "user")
  /\ UNCHANGED <<alive, mm_is_locked, lockVars, callVars>>

Close(t, f) ==
  /\ pc[t] = "user"
  /\ f \in fds[ProcOf[t]]
  /\ fds' = [fds EXCEPT ![ProcOf[t]] = @ \ {f}]
  /\ UNCHANGED <<device_busy, misc_mtx, live, alive, mm_is_locked, lockVars, pc, callVars>>

\* The file is gone once no descriptor names it and no ioctl uses it; only
\* then does the kernel call device_release.
Unreferenced(f) ==
  /\ \A p \in Procs : f \notin fds[p]
  /\ \A t \in Threads : file[t] # f

ReleaseKeepsBusy(f) ==     \* erroneous: device_busy is not reset
  /\ f \in live /\ Unreferenced(f)
  /\ live' = live \ {f}
  /\ UNCHANGED <<device_busy, misc_mtx, fds, alive, mm_is_locked, lockVars, pc, callVars>>

DeviceRelease(f) ==
  /\ f \in live /\ Unreferenced(f)
  /\ live' = live \ {f}
  /\ device_busy' = FALSE
  /\ UNCHANGED <<misc_mtx, fds, alive, mm_is_locked, lockVars, pc, callVars>>

-----------------------------------------------------------------------------
(* mmap_lock (external): an rw_semaphore.  A writer may take a free lock    *)
(* past the waiters, a reader only when nobody waits; otherwise the thread  *)
(* queues and is granted the lock in order.                                 *)

Compatible(p, m) == wr[p] = None /\ (m = "w" => rd[p] = {})

Take(t, p, m) ==
  IF m = "w" THEN wr' = [wr EXCEPT ![p] = t] /\ UNCHANGED rd
             ELSE rd' = [rd EXCEPT ![p] = @ \cup {t}] /\ UNCHANGED wr

\* A page fault in a copy from or to user space takes and drops the caller's
\* own mmap_lock as a reader.
CopyDone(t) == fault[t] => Compatible(ProcOf[t], "r")

-----------------------------------------------------------------------------
(* The requests *)

Begin(t, o, p, f, l, flt) ==
  /\ pc[t] = "user" /\ ProcOf[t] \in alive
  /\ o \in Ops
  /\ op' = [op EXCEPT ![t] = o]
  /\ pid' = [pid EXCEPT ![t] = p]
  /\ file' = [file EXCEPT ![t] = f]
  /\ fault' = [fault EXCEPT ![t] = flt]
  /\ Goto(t, l)
  /\ UNCHANGED <<fileVars, alive, mm_is_locked, lockVars, mm, want, lock>>

\* An ioctl on the device.  p is the pid in its argument, 0 standing for the
\* caller's own; VM_LOCK and VM_UNLOCK have none and use current->active_mm.
Ioctl(t, o, p, f, flt) ==
  /\ o \in DeviceOps
  /\ f \in fds[ProcOf[t]]
  /\ LET plain == o \in {"VM_LOCK", "VM_UNLOCK"} IN
       /\ plain => p = ProcOf[t] /\ ~flt
       /\ Begin(t, o, p, f, IF plain THEN "getmm" ELSE "copyin", flt)

\* The kernel's own users of mmap_lock.
KernelUse(t, o) ==
  /\ o \in KernelOps
  /\ Begin(t, o, ProcOf[t], None, "getmm", FALSE)

CopyIn(t) ==
  /\ pc[t] = "copyin" /\ CopyDone(t)
  /\ Goto(t, "getmm")
  /\ UNCHANGED <<fileVars, alive, mm_is_locked, lockVars, callVars>>

\* Leaving the request: the reference on the file is dropped, the locals die.
Return(t) ==
  /\ Goto(t, "user")
  /\ op' = [op EXCEPT ![t] = None]
  /\ pid' = [pid EXCEPT ![t] = None]
  /\ mm' = [mm EXCEPT ![t] = None]
  /\ want' = [want EXCEPT ![t] = "r"]
  /\ lock' = [lock EXCEPT ![t] = FALSE]
  /\ file' = [file EXCEPT ![t] = None]
  /\ fault' = [fault EXCEPT ![t] = FALSE]

\* After the work on the mm: what is left is to copy the result out.
Finish(t) ==
  IF op[t] \in {"VM_RESOLVE", "GET_ROOT"}
    THEN Goto(t, "copyout") /\ mm' = [mm EXCEPT ![t] = None]
         /\ UNCHANGED <<op, pid, file, want, lock, fault>>
    ELSE Return(t)

\* get_mm succeeded; the lock is taken unless mm_is_locked says the caller
\* has it.  (The kernel's own users know nothing of that flag.)
EnterMm(t) ==
  LET locking == op[t] \in {"VM_LOCK"} \cup KernelOps \/ ~mm_is_locked IN
  /\ mm' = [mm EXCEPT ![t] = pid[t]]
  /\ lock' = [lock EXCEPT ![t] = locking]
  /\ want' = [want EXCEPT ![t] = IF op[t] \in WriteOps THEN "w" ELSE "r"]
  /\ Goto(t, IF op[t] = "VM_UNLOCK" THEN "unlock"
             ELSE IF locking THEN "lock" ELSE "body")
  /\ UNCHANGED <<op, pid, file, fault>>

GetMmNoCheck(t) ==         \* erroneous: the NULL of get_mm is not tested
  /\ pc[t] = "getmm"
  /\ mm' = [mm EXCEPT ![t] = pid[t]]
  /\ lock' = [lock EXCEPT ![t] = TRUE]
  /\ want' = [want EXCEPT ![t] = IF op[t] \in WriteOps THEN "w" ELSE "r"]
  /\ Goto(t, "lock")
  /\ UNCHANGED <<op, pid, file, fault, fileVars, alive, mm_is_locked, lockVars>>

GetMmReadOnly(t) ==        \* erroneous: update_vm takes the lock as a reader
  /\ pc[t] = "getmm"
  /\ pid[t] \in alive
  /\ mm' = [mm EXCEPT ![t] = pid[t]]
  /\ lock' = [lock EXCEPT ![t] = TRUE]
  /\ want' = [want EXCEPT ![t] = "r"]
  /\ Goto(t, "lock")
  /\ UNCHANGED <<op, pid, file, fault, fileVars, alive, mm_is_locked, lockVars>>

\* get_mm and the tests of mm_is_locked, up to the first lock.  get_mm fails
\* for a pid that names no process: VM_RESOLVE then still copies an (invalid)
\* entry out, the others return.
GetMm(t) ==
  /\ pc[t] = "getmm"
  /\ IF \/ op[t] = "VM_LOCK" /\ mm_is_locked
        \/ op[t] = "VM_UNLOCK" /\ ~mm_is_locked
        \/ pid[t] \notin alive /\ op[t] # "VM_RESOLVE"
       THEN Return(t)
     ELSE IF pid[t] \notin alive THEN Finish(t)
     ELSE EnterMm(t)
  /\ UNCHANGED <<fileVars, alive, mm_is_locked, lockVars>>

\* What follows an acquisition: VM_LOCK, having the lock as a writer, goes on
\* to acquire it as a reader.
Acquired(t) ==
  /\ IF op[t] = "VM_LOCK" /\ want[t] = "w"
       THEN want' = [want EXCEPT ![t] = "r"] /\ Goto(t, "lock")
       ELSE UNCHANGED want /\ Goto(t, "body")
  /\ UNCHANGED <<op, pid, mm, lock, file, fault>>

LockFast(t) ==
  /\ pc[t] = "lock"
  /\ Compatible(mm[t], want[t])
  /\ want[t] = "w" \/ queue[mm[t]] = <<>>
  /\ Take(t, mm[t], want[t])
  /\ Acquired(t)
  /\ UNCHANGED <<fileVars, alive, mm_is_locked, queue>>

LockQueue(t) ==
  /\ pc[t] = "lock"
  /\ queue' = [queue EXCEPT ![mm[t]] = Append(@, t)]
  /\ Goto(t, "wait")
  /\ UNCHANGED <<fileVars, alive, mm_is_locked, wr, rd, callVars>>

LockGrant(t) ==
  /\ pc[t] = "wait"
  /\ queue[mm[t]] # <<>> /\ Head(queue[mm[t]]) = t
  /\ Compatible(mm[t], want[t])
  /\ Take(t, mm[t], want[t])
  /\ queue' = [queue EXCEPT ![mm[t]] = Tail(@)]
  /\ Acquired(t)
  /\ UNCHANGED <<fileVars, alive, mm_is_locked>>

\* The work on the mm.  VM_LOCK has none: it sets the flag and returns with
\* the lock held.
Body(t) ==
  /\ pc[t] = "body"
  /\ IF op[t] = "VM_LOCK"
       THEN mm_is_locked' = TRUE /\ Return(t)
       ELSE Goto(t, "unlock") /\ UNCHANGED <<mm_is_locked, callVars>>
  /\ UNCHANGED <<fileVars, alive, lockVars>>

UnlockWritersOnly(t) ==    \* erroneous: resolve_vm returns without unlocking
  /\ pc[t] = "unlock"
  /\ wr' = IF op[t] \in WriteOps THEN [wr EXCEPT ![mm[t]] = None] ELSE wr
  /\ Finish(t)
  /\ UNCHANGED <<fileVars, alive, queue, rd, mm_is_locked>>

\* Releasing the lock.  GET_ROOT and SET_ROOT test mm_is_locked again here;
\* VM_UNLOCK drops both locks of VM_LOCK.
Unlock(t) ==
  /\ pc[t] = "unlock"
  /\ LET p == mm[t]
         both == op[t] = "VM_UNLOCK"
         drop == IF op[t] \in RootOps THEN ~mm_is_locked ELSE lock[t]
     IN /\ wr' = IF both \/ (drop /\ op[t] \in WriteOps)
                   THEN [wr EXCEPT ![p] = None] ELSE wr
        /\ rd' = IF both \/ (drop /\ op[t] \in ReadOps)
                   THEN [rd EXCEPT ![p] = @ \ {t}] ELSE rd
        /\ mm_is_locked' = (mm_is_locked /\ ~both)
  /\ Finish(t)
  /\ UNCHANGED <<fileVars, alive, queue>>

CopyOut(t) ==
  /\ pc[t] = "copyout" /\ CopyDone(t)
  /\ Return(t)
  /\ UNCHANGED <<fileVars, alive, mm_is_locked, lockVars>>

-----------------------------------------------------------------------------

Processes ==
  \/ \E p \in Procs : Spawn(p) \/ Exit(p)
  \/ \E t \in Threads, p \in Procs : Fork(t, p)

Requests ==
  \E t \in Threads :
    \/ MiscOpen(t)
    \/ \E f \in Files : Close(t, f)
    \/ \E o \in DeviceOps, p \in Procs, f \in Files, flt \in BOOLEAN : Ioctl(t, o, p, f, flt)
    \/ \E o \in KernelOps : KernelUse(t, o)

Step(t) ==
  \/ DeviceOpen(t) \/ DeviceClaim(t)
  \/ CopyIn(t) \/ GetMm(t) \/ LockFast(t) \/ LockQueue(t) \/ LockGrant(t)
  \/ Body(t) \/ Unlock(t) \/ CopyOut(t)

Next ==
  \/ Processes
  \/ Requests
  \/ \E t \in Threads : Step(t)
  \/ \E f \in Files : DeviceRelease(f)

Spec == Init /\ [][Next]_vars

(***************************************************************************)
(* Fairness: a thread in the kernel keeps running, the rw_semaphore hands  *)
(* the lock to its first waiter when the lock keeps becoming available,    *)
(* page faults complete likewise, and the last fput releases the file.     *)
(* Nothing is assumed about what the threads request.                      *)
(***************************************************************************)
Fairness ==
  /\ \A t \in Threads :
       /\ WF_vars(DeviceOpen(t) \/ DeviceClaim(t) \/ GetMm(t) \/ Body(t) \/ Unlock(t)
                  \/ LockFast(t) \/ LockQueue(t))
       /\ SF_vars(LockGrant(t))
       /\ SF_vars(CopyIn(t)) /\ SF_vars(CopyOut(t))
  /\ \A f \in Files : WF_vars(DeviceRelease(f))

FairSpec == Spec /\ Fairness

-----------------------------------------------------------------------------
(* Properties *)

Locations == {"user", "open", "claim", "copyin", "getmm", "lock", "wait", "body",
              "unlock", "copyout"}

\* Types of the variables.  An mm in use belongs to a live process: get_mm's
\* failures are honoured by every ioctl.
TypeOK ==
  /\ device_busy \in BOOLEAN /\ mm_is_locked \in BOOLEAN
  /\ misc_mtx \in Threads \cup {None}
  /\ alive \subseteq Procs
  /\ live \subseteq Files
  /\ fds \in [Procs -> SUBSET Files]
  /\ wr \in [Procs -> Threads \cup {None}]
  /\ rd \in [Procs -> SUBSET Threads]
  /\ queue \in [Procs -> Seq(Threads)]
  /\ pc \in [Threads -> Locations]
  /\ op \in [Threads -> Ops \cup {None}]
  /\ pid \in [Threads -> Procs \cup {None}]
  /\ mm \in [Threads -> alive \cup {None}]
  /\ want \in [Threads -> {"r", "w"}]
  /\ lock \in [Threads -> BOOLEAN]
  /\ file \in [Threads -> Files \cup {None}]
  /\ fault \in [Threads -> BOOLEAN]

\* The device has one user at a time: device_busy is set exactly while a file
\* is live, there is at most one, and no descriptor and no running ioctl
\* refers to a file that was already released.
DeviceExclusive ==
  /\ device_busy <=> live # {}
  /\ \A f, g \in live : f = g
  /\ \A p \in Procs : fds[p] \subseteq live
  /\ \A t \in Threads : file[t] # None => file[t] \in live

Holds(t, p) == wr[p] = t \/ t \in rd[p]

\* A thread is never back in user space, nor copying to or from user space,
\* with an mmap_lock held: the first would leave the process hanging, the
\* second would deadlock on the page fault of the copy.
NoLockLeaks ==
  \A t \in Threads, p \in Procs :
    pc[t] \in {"user", "copyin", "copyout"} => ~Holds(t, p)

\* While VM_UPDATE or SET_ROOT works on an mm (or the kernel changes its
\* mappings), no other thread works on it: every walk, update and root switch
\* is under the mmap_lock of the process it is about.
WorkExclusive ==
  \A t, u \in Threads :
    (t # u /\ pc[t] = "body" /\ pc[u] = "body" /\ mm[t] = mm[u])
      => op[t] \in ReadOps /\ op[u] \in ReadOps

(***************************************************************************)
(* The inductive invariant behind the safety properties: which calls hold  *)
(* which lock at which place.                                              *)
(***************************************************************************)
OpenInv ==
  \A t \in Threads :
    /\ misc_mtx = t <=> pc[t] \in {"open", "claim"}
    /\ pc[t] = "claim" => ~device_busy

CallInv ==
  \A t \in Threads :
    /\ pc[t] \in {"user", "open", "claim"} => op[t] = None /\ file[t] = None
    /\ pc[t] \in {"user", "open", "claim", "copyin", "getmm", "copyout"} => mm[t] = None
    /\ pc[t] \in {"copyin", "getmm"} => op[t] # None /\ pid[t] # None
    /\ pc[t] = "copyin" => op[t] \notin {"VM_LOCK", "VM_UNLOCK"}
    /\ pc[t] \in {"lock", "wait", "body", "unlock"} =>
         /\ mm[t] # None /\ lock[t]
         /\ op[t] \in ReadOps \cup WriteOps
         /\ op[t] \in ReadOps => want[t] = "r"
         /\ op[t] \in WriteOps \ {"VM_LOCK"} => want[t] = "w"
    /\ pc[t] \in {"body", "unlock"} => op[t] # "VM_LOCK"

WriteHeld(t) ==
  \/ pc[t] \in {"body", "unlock"} /\ op[t] \in WriteOps
  \/ pc[t] \in {"lock", "wait"} /\ op[t] = "VM_LOCK" /\ want[t] = "r"

ReadHeld(t) == pc[t] \in {"body", "unlock"} /\ op[t] \in ReadOps

LockInv ==
  /\ ~mm_is_locked
  /\ \A p \in Procs, t \in Threads :
       /\ wr[p] = t <=> mm[t] = p /\ WriteHeld(t)
       /\ t \in rd[p] <=> mm[t] = p /\ ReadHeld(t)
  /\ \A p \in Procs : wr[p] # None => rd[p] = {}

\* Every held mmap_lock is accounted for by the place its holder is at, and
\* misc_mtx by the thread inside device_open.
DeviceInv == OpenInv /\ CallInv /\ LockInv

\* A request that started comes back.
RequestsReturn == \A t \in Threads : pc[t] # "user" ~> pc[t] = "user"

\* Once nobody refers to the device any more, it becomes free for the next
\* open: whatever order threads close, exit and finish their ioctls in.
DeviceFreed == (device_busy /\ \A f \in live : Unreferenced(f)) ~> ~device_busy

\* PTEDITOR_IOCTL_CMD_VM_LOCK comes back to its caller.
VmLockReturns == \A t \in Threads : op[t] = "VM_LOCK" ~> pc[t] = "user"
=============================================================================
