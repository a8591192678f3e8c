---------------------------- MODULE PTDeviceProofs --------------------------
(***************************************************************************)
(* The safety properties of the device, for any number of processes,       *)
(* threads and files.  TypeOK, DeviceExclusive and DeviceInv together are  *)
(* inductive; the other properties follow from them.                       *)
(***************************************************************************)
EXTENDS PTDevice, TLAPS

-----------------------------------------------------------------------------
(* What the shared parts of the actions do *)

\* A call whose result is copied out leaves the mm and goes on to the copy.
LEMMA FinishCopies ==
  ASSUME NEW t \in Threads, Finish(t), op[t] \in {"VM_RESOLVE", "GET_ROOT"}
  PROVE  /\ pc' = [pc EXCEPT ![t] = "copyout"]
         /\ mm' = [mm EXCEPT ![t] = None]
         /\ UNCHANGED <<op, pid, file, want, lock, fault>>
BY DEF Finish, Goto

\* An acquisition goes on to the work on the mm, except the first one of
\* VM_LOCK, which leads to the second.
LEMMA AcquiredCases ==
  ASSUME NEW t \in Threads, Acquired(t)
  PROVE  /\ UNCHANGED <<op, pid, mm, lock, file, fault>>
         /\ \/ /\ op[t] = "VM_LOCK" /\ want[t] = "w"
               /\ pc' = [pc EXCEPT ![t] = "lock"]
               /\ want' = [want EXCEPT ![t] = "r"]
            \/ /\ ~(op[t] = "VM_LOCK" /\ want[t] = "w")
               /\ pc' = [pc EXCEPT ![t] = "body"]
               /\ want' = want
BY DEF Acquired, Goto

\* Both ways of acquiring the lock take it when it is compatible.
LEMMA LockTaken ==
  ASSUME NEW t \in Threads, LockFast(t) \/ LockGrant(t), TypeOK, CallInv
  PROVE  /\ mm[t] \in Procs
         /\ pc[t] \in {"lock", "wait"}
         /\ Compatible(mm[t], want[t])
         /\ Acquired(t)
         /\ UNCHANGED <<fileVars, alive, mm_is_locked>>
         /\ \/ /\ want[t] = "w"
               /\ wr' = [wr EXCEPT ![mm[t]] = t]
               /\ rd' = rd
            \/ /\ want[t] = "r"
               /\ rd' = [rd EXCEPT ![mm[t]] = @ \cup {t}]
               /\ wr' = wr
<1>1. mm[t] \in Procs /\ want[t] \in {"r", "w"}
  BY DEF LockFast, LockGrant, CallInv, TypeOK
<1>2. Take(t, mm[t], want[t])
  BY DEF LockFast, LockGrant
<1>3. CASE want[t] = "w"
  BY <1>1, <1>2, <1>3 DEF LockFast, LockGrant, Take
<1>4. CASE want[t] = "r"
  BY <1>1, <1>2, <1>4 DEF LockFast, LockGrant, Take
<1> QED BY <1>1, <1>3, <1>4

-----------------------------------------------------------------------------
(* One lemma per part of the invariant, one step per action *)

\* No action leaves the types.
LEMMA TypeStep == TypeOK /\ CallInv /\ [Next]_vars => TypeOK'
<1> SUFFICES ASSUME TypeOK, CallInv, [Next]_vars PROVE TypeOK'
  OBVIOUS
<1> USE DeviceAssumption
       DEF fileVars, lockVars, callVars, ReadOps, WriteOps, KernelOps, DeviceOps, RootOps
<1>1. ASSUME NEW p \in Procs, Spawn(p) PROVE TypeOK'
  BY <1>1 DEF Spawn, TypeOK, Locations, CallInv
<1>2. ASSUME NEW p \in Procs, Exit(p) PROVE TypeOK'
  BY <1>2 DEF Exit, TypeOK, Locations, CallInv
<1>3. ASSUME NEW t \in Threads, NEW p \in Procs, Fork(t, p) PROVE TypeOK'
  BY <1>3 DEF Fork, TypeOK, Locations, CallInv
<1>4. ASSUME NEW t \in Threads, MiscOpen(t) PROVE TypeOK'
  BY <1>4 DEF MiscOpen, Goto, TypeOK, Locations, CallInv
<1>5. ASSUME NEW t \in Threads, NEW f \in Files, Close(t, f) PROVE TypeOK'
  BY <1>5 DEF Close, TypeOK, Locations, CallInv
<1>6. ASSUME NEW t \in Threads, NEW o \in DeviceOps, NEW p \in Procs, NEW f \in Files,
             NEW flt \in BOOLEAN, Ioctl(t, o, p, f, flt)
      PROVE  TypeOK'
  BY <1>6 DEF Ioctl, Begin, Goto, TypeOK, Locations, CallInv
<1>7. ASSUME NEW t \in Threads, NEW o \in KernelOps, KernelUse(t, o)
      PROVE  TypeOK'
  BY <1>7 DEF KernelUse, Begin, Goto, TypeOK, Locations, CallInv
<1>8. ASSUME NEW t \in Threads, DeviceOpen(t) PROVE TypeOK'
  BY <1>8 DEF DeviceOpen, Goto, TypeOK, Locations, CallInv
<1>9. ASSUME NEW t \in Threads, DeviceClaim(t) PROVE TypeOK'
  BY <1>9 DEF DeviceClaim, Goto, TypeOK, Locations, CallInv
<1>10. ASSUME NEW t \in Threads, CopyIn(t) PROVE TypeOK'
  BY <1>10 DEF CopyIn, Goto, TypeOK, Locations, CallInv
<1>11. ASSUME NEW t \in Threads, GetMm(t) PROVE TypeOK'
  <2>1. UNCHANGED <<fileVars, alive, mm_is_locked, lockVars>> /\ pc[t] = "getmm"
    BY <1>11 DEF GetMm
  <2>2. CASE Return(t)
    BY <2>1, <2>2 DEF Return, Goto, TypeOK, Locations, CallInv
  <2>3. CASE Finish(t) /\ op[t] = "VM_RESOLVE"
    BY <2>1, <2>3, FinishCopies DEF TypeOK, Locations, CallInv
  <2>4. CASE EnterMm(t) /\ pid[t] \in alive /\ (op[t] = "VM_UNLOCK" => mm_is_locked)
    BY <2>1, <2>4 DEF EnterMm, Goto, TypeOK, Locations, CallInv
  <2> QED BY <1>11, <2>2, <2>3, <2>4 DEF GetMm
<1>12. ASSUME NEW t \in Threads, LockFast(t) PROVE TypeOK'
  <2>1. /\ mm[t] \in Procs /\ pc[t] \in {"lock", "wait"} /\ Compatible(mm[t], want[t])
        /\ UNCHANGED <<fileVars, alive, mm_is_locked>>
        /\ \/ /\ want[t] = "w"
              /\ wr' = [wr EXCEPT ![mm[t]] = t]
              /\ rd' = rd
           \/ /\ want[t] = "r"
              /\ rd' = [rd EXCEPT ![mm[t]] = @ \cup {t}]
              /\ wr' = wr
        /\ Acquired(t)
    BY <1>12, LockTaken
  <2>2. /\ UNCHANGED <<op, pid, mm, lock, file, fault>>
        /\ \/ /\ op[t] = "VM_LOCK" /\ want[t] = "w"
              /\ pc' = [pc EXCEPT ![t] = "lock"]
              /\ want' = [want EXCEPT ![t] = "r"]
           \/ /\ ~(op[t] = "VM_LOCK" /\ want[t] = "w")
              /\ pc' = [pc EXCEPT ![t] = "body"]
              /\ want' = want
    BY <2>1, AcquiredCases
  <2>3. wr' \in [Procs -> Threads \cup {None}] /\ rd' \in [Procs -> SUBSET Threads]
    <3>1. [wr EXCEPT ![mm[t]] = t] \in [Procs -> Threads \cup {None}]
      BY <2>1 DEF TypeOK
    <3>2. [rd EXCEPT ![mm[t]] = @ \cup {t}] \in [Procs -> SUBSET Threads]
      BY <2>1 DEF TypeOK
    <3>3. wr \in [Procs -> Threads \cup {None}] /\ rd \in [Procs -> SUBSET Threads]
      BY DEF TypeOK
    <3> QED BY <2>1, <3>1, <3>2, <3>3
  <2>4. pc' \in [Threads -> Locations] /\ want' \in [Threads -> {"r", "w"}]
    <3>1. \A l \in {"lock", "body"} : [pc EXCEPT ![t] = l] \in [Threads -> Locations]
      BY DEF TypeOK, Locations
    <3>2. [want EXCEPT ![t] = "r"] \in [Threads -> {"r", "w"}]
      BY DEF TypeOK
    <3>3. pc \in [Threads -> Locations] /\ want \in [Threads -> {"r", "w"}]
      BY DEF TypeOK
    <3>4. \/ pc' = [pc EXCEPT ![t] = "lock"] /\ want' = [want EXCEPT ![t] = "r"]
          \/ pc' = [pc EXCEPT ![t] = "body"] /\ want' = want
      BY <2>2
    <3> QED BY ONLY <3>1, <3>2, <3>3, <3>4
  <2>5. queue' \in [Procs -> Seq(Threads)]
    BY <1>12, <2>1 DEF LockFast, TypeOK
  <2>6. UNCHANGED <<fileVars, alive, mm_is_locked, op, pid, mm, lock, file, fault>>
    BY <2>1, <2>2
  <2> QED BY ONLY <2>3, <2>4, <2>5, <2>6, TypeOK DEF TypeOK, fileVars
<1>13. ASSUME NEW t \in Threads, LockQueue(t) PROVE TypeOK'
  BY <1>13 DEF LockQueue, Goto, TypeOK, Locations, CallInv
<1>14. ASSUME NEW t \in Threads, LockGrant(t) PROVE TypeOK'
  <2>1. /\ mm[t] \in Procs /\ pc[t] \in {"lock", "wait"} /\ Compatible(mm[t], want[t])
        /\ UNCHANGED <<fileVars, alive, mm_is_locked>>
        /\ \/ /\ want[t] = "w"
              /\ wr' = [wr EXCEPT ![mm[t]] = t]
              /\ rd' = rd
           \/ /\ want[t] = "r"
              /\ rd' = [rd EXCEPT ![mm[t]] = @ \cup {t}]
              /\ wr' = wr
        /\ Acquired(t)
    BY <1>14, LockTaken
  <2>2. /\ UNCHANGED <<op, pid, mm, lock, file, fault>>
        /\ \/ /\ op[t] = "VM_LOCK" /\ want[t] = "w"
              /\ pc' = [pc EXCEPT ![t] = "lock"]
              /\ want' = [want EXCEPT ![t] = "r"]
           \/ /\ ~(op[t] = "VM_LOCK" /\ want[t] = "w")
              /\ pc' = [pc EXCEPT ![t] = "body"]
              /\ want' = want
    BY <2>1, AcquiredCases
  <2>3. wr' \in [Procs -> Threads \cup {None}] /\ rd' \in [Procs -> SUBSET Threads]
    <3>1. [wr EXCEPT ![mm[t]] = t] \in [Procs -> Threads \cup {None}]
      BY <2>1 DEF TypeOK
    <3>2. [rd EXCEPT ![mm[t]] = @ \cup {t}] \in [Procs -> SUBSET Threads]
      BY <2>1 DEF TypeOK
    <3>3. wr \in [Procs -> Threads \cup {None}] /\ rd \in [Procs -> SUBSET Threads]
      BY DEF TypeOK
    <3> QED BY <2>1, <3>1, <3>2, <3>3
  <2>4. pc' \in [Threads -> Locations] /\ want' \in [Threads -> {"r", "w"}]
    <3>1. \A l \in {"lock", "body"} : [pc EXCEPT ![t] = l] \in [Threads -> Locations]
      BY DEF TypeOK, Locations
    <3>2. [want EXCEPT ![t] = "r"] \in [Threads -> {"r", "w"}]
      BY DEF TypeOK
    <3>3. pc \in [Threads -> Locations] /\ want \in [Threads -> {"r", "w"}]
      BY DEF TypeOK
    <3>4. \/ pc' = [pc EXCEPT ![t] = "lock"] /\ want' = [want EXCEPT ![t] = "r"]
          \/ pc' = [pc EXCEPT ![t] = "body"] /\ want' = want
      BY <2>2
    <3> QED BY ONLY <3>1, <3>2, <3>3, <3>4
  <2>5. queue' \in [Procs -> Seq(Threads)]
    BY <1>14, <2>1 DEF LockGrant, TypeOK
  <2>6. UNCHANGED <<fileVars, alive, mm_is_locked, op, pid, mm, lock, file, fault>>
    BY <2>1, <2>2
  <2> QED BY ONLY <2>3, <2>4, <2>5, <2>6, TypeOK DEF TypeOK, fileVars
<1>15. ASSUME NEW t \in Threads, Body(t) PROVE TypeOK'
  <2>1. op[t] # "VM_LOCK"
    BY <1>15 DEF Body, CallInv
  <2>2. /\ pc' = [pc EXCEPT ![t] = "unlock"]
        /\ UNCHANGED <<fileVars, alive, lockVars, mm_is_locked, callVars>>
    BY <1>15, <2>1 DEF Body, Goto
  <2> QED BY ONLY <2>2, TypeOK DEF TypeOK, Locations, fileVars, lockVars, callVars
<1>16. ASSUME NEW t \in Threads, Unlock(t) PROVE TypeOK'
  <2>1. mm[t] \in Procs
    BY <1>16 DEF Unlock, CallInv, TypeOK
  <2>2. /\ wr' \in [Procs -> Threads \cup {None}] /\ rd' \in [Procs -> SUBSET Threads]
        /\ mm_is_locked' \in BOOLEAN
        /\ UNCHANGED <<fileVars, alive, queue>>
    BY <1>16, <2>1 DEF Unlock, TypeOK
  <2>3. CASE Return(t)
    BY <2>2, <2>3 DEF Return, Goto, TypeOK, Locations, CallInv
  <2>4. CASE Finish(t) /\ op[t] \in {"VM_RESOLVE", "GET_ROOT"}
    <3>1. /\ pc' = [pc EXCEPT ![t] = "copyout"] /\ mm' = [mm EXCEPT ![t] = None]
          /\ UNCHANGED <<op, pid, file, want, lock, fault>>
      BY <2>4, FinishCopies
    <3> QED BY ONLY <2>2, <3>1, TypeOK DEF TypeOK, Locations, fileVars
  <2> QED BY <1>16, <2>3, <2>4 DEF Unlock, Finish
<1>17. ASSUME NEW t \in Threads, CopyOut(t) PROVE TypeOK'
  BY <1>17 DEF CopyOut, Return, Goto, TypeOK, Locations, CallInv
<1>18. ASSUME NEW f \in Files, DeviceRelease(f) PROVE TypeOK'
  BY <1>18 DEF DeviceRelease, Unreferenced, TypeOK, Locations, CallInv
<1>19. CASE UNCHANGED vars
  BY <1>19 DEF vars, TypeOK, Locations, CallInv
<1> QED
  BY <1>1, <1>2, <1>3, <1>4, <1>5, <1>6, <1>7, <1>8, <1>9, <1>10,
     <1>11, <1>12, <1>13, <1>14, <1>15, <1>16, <1>17, <1>18, <1>19
     DEF Next, Processes, Requests, Step

\* No action gives the device a second user or lets a reference outlive the
\* release.
LEMMA ExclusiveStep == TypeOK /\ DeviceExclusive /\ DeviceInv /\ [Next]_vars => DeviceExclusive'
<1> SUFFICES ASSUME TypeOK, DeviceExclusive, DeviceInv, [Next]_vars PROVE DeviceExclusive'
  OBVIOUS
<1> USE DeviceAssumption
       DEF fileVars, lockVars, callVars, ReadOps, WriteOps, KernelOps, DeviceOps, RootOps
<1>1. ASSUME NEW p \in Procs, Spawn(p) PROVE DeviceExclusive'
  BY <1>1 DEF Spawn, DeviceExclusive, DeviceInv, OpenInv, CallInv, TypeOK, Locations
<1>2. ASSUME NEW p \in Procs, Exit(p) PROVE DeviceExclusive'
  BY <1>2 DEF Exit, DeviceExclusive, DeviceInv, OpenInv, CallInv, TypeOK, Locations
<1>3. ASSUME NEW t \in Threads, NEW p \in Procs, Fork(t, p) PROVE DeviceExclusive'
  BY <1>3 DEF Fork, DeviceExclusive, DeviceInv, OpenInv, CallInv, TypeOK, Locations
<1>4. ASSUME NEW t \in Threads, MiscOpen(t) PROVE DeviceExclusive'
  BY <1>4 DEF MiscOpen, Goto, DeviceExclusive, DeviceInv, OpenInv, CallInv, TypeOK, Locations
<1>5. ASSUME NEW t \in Threads, NEW f \in Files, Close(t, f) PROVE DeviceExclusive'
  BY <1>5 DEF Close, DeviceExclusive, DeviceInv, OpenInv, CallInv, TypeOK, Locations
<1>6. ASSUME NEW t \in Threads, NEW o \in DeviceOps, NEW p \in Procs, NEW f \in Files,
             NEW flt \in BOOLEAN, Ioctl(t, o, p, f, flt)
      PROVE  DeviceExclusive'
  BY <1>6 DEF Ioctl, Begin, Goto, DeviceExclusive, DeviceInv, OpenInv, CallInv, TypeOK, Locations
<1>7. ASSUME NEW t \in Threads, NEW o \in KernelOps, KernelUse(t, o)
      PROVE  DeviceExclusive'
  BY <1>7 DEF KernelUse, Begin, Goto, DeviceExclusive, DeviceInv, OpenInv, CallInv, TypeOK, Locations
<1>8. ASSUME NEW t \in Threads, DeviceOpen(t) PROVE DeviceExclusive'
  BY <1>8 DEF DeviceOpen, Goto, DeviceExclusive, DeviceInv, OpenInv, CallInv, TypeOK, Locations
<1>9. ASSUME NEW t \in Threads, DeviceClaim(t) PROVE DeviceExclusive'
  BY <1>9 DEF DeviceClaim, Goto, DeviceExclusive, DeviceInv, OpenInv, CallInv, TypeOK, Locations
<1>10. ASSUME NEW t \in Threads, CopyIn(t) PROVE DeviceExclusive'
  BY <1>10 DEF CopyIn, Goto, DeviceExclusive, DeviceInv, OpenInv, CallInv, TypeOK, Locations
<1>11. ASSUME NEW t \in Threads, GetMm(t) PROVE DeviceExclusive'
  <2>1. UNCHANGED <<fileVars, alive, mm_is_locked, lockVars>> /\ pc[t] = "getmm"
    BY <1>11 DEF GetMm
  <2>2. CASE Return(t)
    BY <2>1, <2>2 DEF Return, Goto, DeviceExclusive, DeviceInv, OpenInv, CallInv, TypeOK, Locations
  <2>3. CASE Finish(t) /\ op[t] = "VM_RESOLVE"
    BY <2>1, <2>3, FinishCopies DEF DeviceExclusive, DeviceInv, OpenInv, CallInv, TypeOK, Locations
  <2>4. CASE EnterMm(t) /\ pid[t] \in alive /\ (op[t] = "VM_UNLOCK" => mm_is_locked)
    BY <2>1, <2>4 DEF EnterMm, Goto, DeviceExclusive, DeviceInv, OpenInv, CallInv, TypeOK, Locations
  <2> QED BY <1>11, <2>2, <2>3, <2>4 DEF GetMm
<1>12. ASSUME NEW t \in Threads, LockFast(t) PROVE DeviceExclusive'
  BY <1>12 DEF LockFast, Acquired, Take, Compatible, Goto, DeviceExclusive, DeviceInv, OpenInv, CallInv, TypeOK, Locations
<1>13. ASSUME NEW t \in Threads, LockQueue(t) PROVE DeviceExclusive'
  BY <1>13 DEF LockQueue, Goto, DeviceExclusive, DeviceInv, OpenInv, CallInv, TypeOK, Locations
<1>14. ASSUME NEW t \in Threads, LockGrant(t) PROVE DeviceExclusive'
  BY <1>14 DEF LockGrant, Acquired, Take, Compatible, Goto, DeviceExclusive, DeviceInv, OpenInv, CallInv, TypeOK, Locations
<1>15. ASSUME NEW t \in Threads, Body(t) PROVE DeviceExclusive'
  BY <1>15 DEF Body, Return, Goto, DeviceExclusive, DeviceInv, OpenInv, CallInv, TypeOK, Locations
<1>16. ASSUME NEW t \in Threads, Unlock(t) PROVE DeviceExclusive'
  <2>1. CASE Return(t)
    BY <1>16, <2>1 DEF Unlock, Return, Goto, DeviceExclusive, DeviceInv, OpenInv, CallInv, TypeOK, Locations
  <2>2. CASE Finish(t) /\ op[t] \in {"VM_RESOLVE", "GET_ROOT"}
    BY <1>16, <2>2, FinishCopies DEF Unlock, DeviceExclusive, DeviceInv, OpenInv, CallInv, TypeOK, Locations
  <2> QED BY <1>16, <2>1, <2>2 DEF Unlock, Finish
<1>17. ASSUME NEW t \in Threads, CopyOut(t) PROVE DeviceExclusive'
  BY <1>17 DEF CopyOut, Return, Goto, DeviceExclusive, DeviceInv, OpenInv, CallInv, TypeOK, Locations
<1>18. ASSUME NEW f \in Files, DeviceRelease(f) PROVE DeviceExclusive'
  BY <1>18 DEF DeviceRelease, Unreferenced, DeviceExclusive, DeviceInv, OpenInv, CallInv, TypeOK, Locations
<1>19. CASE UNCHANGED vars
  BY <1>19 DEF vars, DeviceExclusive, DeviceInv, OpenInv, CallInv, TypeOK, Locations
<1> QED
  BY <1>1, <1>2, <1>3, <1>4, <1>5, <1>6, <1>7, <1>8, <1>9, <1>10,
     <1>11, <1>12, <1>13, <1>14, <1>15, <1>16, <1>17, <1>18, <1>19
     DEF Next, Processes, Requests, Step

\* misc_mtx serializes the two halves of device_open.
LEMMA OpenStep == TypeOK /\ DeviceExclusive /\ DeviceInv /\ [Next]_vars => OpenInv'
<1> SUFFICES ASSUME TypeOK, DeviceExclusive, DeviceInv, [Next]_vars PROVE OpenInv'
  OBVIOUS
<1> USE DeviceAssumption
       DEF fileVars, lockVars, callVars, ReadOps, WriteOps, KernelOps, DeviceOps, RootOps
<1>1. ASSUME NEW p \in Procs, Spawn(p) PROVE OpenInv'
  BY <1>1 DEF Spawn, DeviceExclusive, DeviceInv, OpenInv, CallInv, TypeOK, Locations
<1>2. ASSUME NEW p \in Procs, Exit(p) PROVE OpenInv'
  BY <1>2 DEF Exit, DeviceExclusive, DeviceInv, OpenInv, CallInv, TypeOK, Locations
<1>3. ASSUME NEW t \in Threads, NEW p \in Procs, Fork(t, p) PROVE OpenInv'
  BY <1>3 DEF Fork, DeviceExclusive, DeviceInv, OpenInv, CallInv, TypeOK, Locations
<1>4. ASSUME NEW t \in Threads, MiscOpen(t) PROVE OpenInv'
  BY <1>4 DEF MiscOpen, Goto, DeviceExclusive, DeviceInv, OpenInv, CallInv, TypeOK, Locations
<1>5. ASSUME NEW t \in Threads, NEW f \in Files, Close(t, f) PROVE OpenInv'
  BY <1>5 DEF Close, DeviceExclusive, DeviceInv, OpenInv, CallInv, TypeOK, Locations
<1>6. ASSUME NEW t \in Threads, NEW o \in DeviceOps, NEW p \in Procs, NEW f \in Files,
             NEW flt \in BOOLEAN, Ioctl(t, o, p, f, flt)
      PROVE  OpenInv'
  BY <1>6 DEF Ioctl, Begin, Goto, DeviceExclusive, DeviceInv, OpenInv, CallInv, TypeOK, Locations
<1>7. ASSUME NEW t \in Threads, NEW o \in KernelOps, KernelUse(t, o)
      PROVE  OpenInv'
  BY <1>7 DEF KernelUse, Begin, Goto, DeviceExclusive, DeviceInv, OpenInv, CallInv, TypeOK, Locations
<1>8. ASSUME NEW t \in Threads, DeviceOpen(t) PROVE OpenInv'
  BY <1>8 DEF DeviceOpen, Goto, DeviceExclusive, DeviceInv, OpenInv, CallInv, TypeOK, Locations
<1>9. ASSUME NEW t \in Threads, DeviceClaim(t) PROVE OpenInv'
  BY <1>9 DEF DeviceClaim, Goto, DeviceExclusive, DeviceInv, OpenInv, CallInv, TypeOK, Locations
<1>10. ASSUME NEW t \in Threads, CopyIn(t) PROVE OpenInv'
  BY <1>10 DEF CopyIn, Goto, DeviceExclusive, DeviceInv, OpenInv, CallInv, TypeOK, Locations
<1>11. ASSUME NEW t \in Threads, GetMm(t) PROVE OpenInv'
  <2>1. UNCHANGED <<fileVars, alive, mm_is_locked, lockVars>> /\ pc[t] = "getmm"
    BY <1>11 DEF GetMm
  <2>2. CASE Return(t)
    BY <2>1, <2>2 DEF Return, Goto, DeviceExclusive, DeviceInv, OpenInv, CallInv, TypeOK, Locations
  <2>3. CASE Finish(t) /\ op[t] = "VM_RESOLVE"
    BY <2>1, <2>3, FinishCopies DEF DeviceExclusive, DeviceInv, OpenInv, CallInv, TypeOK, Locations
  <2>4. CASE EnterMm(t) /\ pid[t] \in alive /\ (op[t] = "VM_UNLOCK" => mm_is_locked)
    BY <2>1, <2>4 DEF EnterMm, Goto, DeviceExclusive, DeviceInv, OpenInv, CallInv, TypeOK, Locations
  <2> QED BY <1>11, <2>2, <2>3, <2>4 DEF GetMm
<1>12. ASSUME NEW t \in Threads, LockFast(t) PROVE OpenInv'
  BY <1>12 DEF LockFast, Acquired, Take, Compatible, Goto, DeviceExclusive, DeviceInv, OpenInv, CallInv, TypeOK, Locations
<1>13. ASSUME NEW t \in Threads, LockQueue(t) PROVE OpenInv'
  BY <1>13 DEF LockQueue, Goto, DeviceExclusive, DeviceInv, OpenInv, CallInv, TypeOK, Locations
<1>14. ASSUME NEW t \in Threads, LockGrant(t) PROVE OpenInv'
  BY <1>14 DEF LockGrant, Acquired, Take, Compatible, Goto, DeviceExclusive, DeviceInv, OpenInv, CallInv, TypeOK, Locations
<1>15. ASSUME NEW t \in Threads, Body(t) PROVE OpenInv'
  BY <1>15 DEF Body, Return, Goto, DeviceExclusive, DeviceInv, OpenInv, CallInv, TypeOK, Locations
<1>16. ASSUME NEW t \in Threads, Unlock(t) PROVE OpenInv'
  <2>1. CASE Return(t)
    BY <1>16, <2>1 DEF Unlock, Return, Goto, DeviceExclusive, DeviceInv, OpenInv, CallInv, TypeOK, Locations
  <2>2. CASE Finish(t) /\ op[t] \in {"VM_RESOLVE", "GET_ROOT"}
    BY <1>16, <2>2, FinishCopies DEF Unlock, DeviceExclusive, DeviceInv, OpenInv, CallInv, TypeOK, Locations
  <2> QED BY <1>16, <2>1, <2>2 DEF Unlock, Finish
<1>17. ASSUME NEW t \in Threads, CopyOut(t) PROVE OpenInv'
  BY <1>17 DEF CopyOut, Return, Goto, DeviceExclusive, DeviceInv, OpenInv, CallInv, TypeOK, Locations
<1>18. ASSUME NEW f \in Files, DeviceRelease(f) PROVE OpenInv'
  BY <1>18 DEF DeviceRelease, Unreferenced, DeviceExclusive, DeviceInv, OpenInv, CallInv, TypeOK, Locations
<1>19. CASE UNCHANGED vars
  BY <1>19 DEF vars, DeviceExclusive, DeviceInv, OpenInv, CallInv, TypeOK, Locations
<1> QED
  BY <1>1, <1>2, <1>3, <1>4, <1>5, <1>6, <1>7, <1>8, <1>9, <1>10,
     <1>11, <1>12, <1>13, <1>14, <1>15, <1>16, <1>17, <1>18, <1>19
     DEF Next, Processes, Requests, Step

\* The locals of a call agree with where it is; in particular VM_LOCK never
\* gets past its second acquisition.
LEMMA CallStep == TypeOK /\ DeviceInv /\ [Next]_vars => CallInv'
<1> SUFFICES ASSUME TypeOK, DeviceInv, [Next]_vars PROVE CallInv'
  OBVIOUS
<1> USE DeviceAssumption
       DEF fileVars, lockVars, callVars, ReadOps, WriteOps, KernelOps, DeviceOps, RootOps
<1>1. ASSUME NEW p \in Procs, Spawn(p) PROVE CallInv'
  BY <1>1 DEF Spawn, DeviceInv, CallInv, LockInv, WriteHeld, ReadHeld, TypeOK, Locations
<1>2. ASSUME NEW p \in Procs, Exit(p) PROVE CallInv'
  BY <1>2 DEF Exit, DeviceInv, CallInv, LockInv, WriteHeld, ReadHeld, TypeOK, Locations
<1>3. ASSUME NEW t \in Threads, NEW p \in Procs, Fork(t, p) PROVE CallInv'
  BY <1>3 DEF Fork, DeviceInv, CallInv, LockInv, WriteHeld, ReadHeld, TypeOK, Locations
<1>4. ASSUME NEW t \in Threads, MiscOpen(t) PROVE CallInv'
  BY <1>4 DEF MiscOpen, Goto, DeviceInv, CallInv, LockInv, WriteHeld, ReadHeld, TypeOK, Locations
<1>5. ASSUME NEW t \in Threads, NEW f \in Files, Close(t, f) PROVE CallInv'
  BY <1>5 DEF Close, DeviceInv, CallInv, LockInv, WriteHeld, ReadHeld, TypeOK, Locations
<1>6. ASSUME NEW t \in Threads, NEW o \in DeviceOps, NEW p \in Procs, NEW f \in Files,
             NEW flt \in BOOLEAN, Ioctl(t, o, p, f, flt)
      PROVE  CallInv'
  BY <1>6 DEF Ioctl, Begin, Goto, DeviceInv, CallInv, LockInv, WriteHeld, ReadHeld, TypeOK, Locations
<1>7. ASSUME NEW t \in Threads, NEW o \in KernelOps, KernelUse(t, o)
      PROVE  CallInv'
  BY <1>7 DEF KernelUse, Begin, Goto, DeviceInv, CallInv, LockInv, WriteHeld, ReadHeld, TypeOK, Locations
<1>8. ASSUME NEW t \in Threads, DeviceOpen(t) PROVE CallInv'
  BY <1>8 DEF DeviceOpen, Goto, DeviceInv, CallInv, LockInv, WriteHeld, ReadHeld, TypeOK, Locations
<1>9. ASSUME NEW t \in Threads, DeviceClaim(t) PROVE CallInv'
  BY <1>9 DEF DeviceClaim, Goto, DeviceInv, CallInv, LockInv, WriteHeld, ReadHeld, TypeOK, Locations
<1>10. ASSUME NEW t \in Threads, CopyIn(t) PROVE CallInv'
  BY <1>10 DEF CopyIn, Goto, DeviceInv, CallInv, LockInv, WriteHeld, ReadHeld, TypeOK, Locations
<1>11. ASSUME NEW t \in Threads, GetMm(t) PROVE CallInv'
  <2>1. UNCHANGED <<fileVars, alive, mm_is_locked, lockVars>> /\ pc[t] = "getmm"
    BY <1>11 DEF GetMm
  <2>2. CASE Return(t)
    BY <2>1, <2>2 DEF Return, Goto, DeviceInv, CallInv, LockInv, WriteHeld, ReadHeld, TypeOK, Locations
  <2>3. CASE Finish(t) /\ op[t] = "VM_RESOLVE"
    BY <2>1, <2>3, FinishCopies DEF DeviceInv, CallInv, LockInv, WriteHeld, ReadHeld, TypeOK, Locations
  <2>4. CASE EnterMm(t) /\ pid[t] \in alive /\ (op[t] = "VM_UNLOCK" => mm_is_locked)
    <3>1. op[t] \in ReadOps \cup WriteOps \/ op[t] = "VM_UNLOCK"
      BY <2>1 DEF CallInv, DeviceInv, TypeOK
    <3>2. ~mm_is_locked
      BY DEF DeviceInv, LockInv
    <3>3. /\ mm' = [mm EXCEPT ![t] = pid[t]]
          /\ lock' = [lock EXCEPT ![t] = TRUE]
          /\ want' = [want EXCEPT ![t] = IF op[t] \in WriteOps THEN "w" ELSE "r"]
          /\ pc' = [pc EXCEPT ![t] = "lock"]
          /\ op' = op /\ pid' = pid /\ file' = file
      BY <2>4, <3>2 DEF EnterMm, Goto, TypeOK
    <3> QED BY <2>1, <2>4, <3>1, <3>2, <3>3 DEF CallInv, DeviceInv, TypeOK
  <2> QED BY <1>11, <2>2, <2>3, <2>4 DEF GetMm
<1>12. ASSUME NEW t \in Threads, LockFast(t) PROVE CallInv'
  BY <1>12 DEF LockFast, Acquired, Take, Compatible, Goto, DeviceInv, CallInv, LockInv, WriteHeld, ReadHeld, TypeOK, Locations
<1>13. ASSUME NEW t \in Threads, LockQueue(t) PROVE CallInv'
  BY <1>13 DEF LockQueue, Goto, DeviceInv, CallInv, LockInv, WriteHeld, ReadHeld, TypeOK, Locations
<1>14. ASSUME NEW t \in Threads, LockGrant(t) PROVE CallInv'
  BY <1>14 DEF LockGrant, Acquired, Take, Compatible, Goto, DeviceInv, CallInv, LockInv, WriteHeld, ReadHeld, TypeOK, Locations
<1>15. ASSUME NEW t \in Threads, Body(t) PROVE CallInv'
  BY <1>15 DEF Body, Return, Goto, DeviceInv, CallInv, LockInv, WriteHeld, ReadHeld, TypeOK, Locations
<1>16. ASSUME NEW t \in Threads, Unlock(t) PROVE CallInv'
  BY <1>16 DEF Unlock, Finish, Return, Goto, DeviceInv, CallInv, LockInv, WriteHeld, ReadHeld, TypeOK, Locations
<1>17. ASSUME NEW t \in Threads, CopyOut(t) PROVE CallInv'
  BY <1>17 DEF CopyOut, Return, Goto, DeviceInv, CallInv, LockInv, WriteHeld, ReadHeld, TypeOK, Locations
<1>18. ASSUME NEW f \in Files, DeviceRelease(f) PROVE CallInv'
  BY <1>18 DEF DeviceRelease, Unreferenced, DeviceInv, CallInv, LockInv, WriteHeld, ReadHeld, TypeOK, Locations
<1>19. CASE UNCHANGED vars
  BY <1>19 DEF vars, DeviceInv, CallInv, LockInv, WriteHeld, ReadHeld, TypeOK, Locations
<1> QED
  BY <1>1, <1>2, <1>3, <1>4, <1>5, <1>6, <1>7, <1>8, <1>9, <1>10,
     <1>11, <1>12, <1>13, <1>14, <1>15, <1>16, <1>17, <1>18, <1>19
     DEF Next, Processes, Requests, Step

\* Every held mmap_lock is held by a call at a place that releases it.
LEMMA LockStep == TypeOK /\ DeviceInv /\ [Next]_vars => LockInv'
<1> SUFFICES ASSUME TypeOK, DeviceInv, [Next]_vars PROVE LockInv'
  OBVIOUS
<1> USE DeviceAssumption
       DEF fileVars, lockVars, callVars, ReadOps, WriteOps, KernelOps, DeviceOps, RootOps
<1>1. ASSUME NEW p \in Procs, Spawn(p) PROVE LockInv'
  BY <1>1 DEF Spawn, DeviceInv, CallInv, LockInv, WriteHeld, ReadHeld, TypeOK, Locations
<1>2. ASSUME NEW p \in Procs, Exit(p) PROVE LockInv'
  BY <1>2 DEF Exit, DeviceInv, CallInv, LockInv, WriteHeld, ReadHeld, TypeOK, Locations
<1>3. ASSUME NEW t \in Threads, NEW p \in Procs, Fork(t, p) PROVE LockInv'
  BY <1>3 DEF Fork, DeviceInv, CallInv, LockInv, WriteHeld, ReadHeld, TypeOK, Locations
<1>4. ASSUME NEW t \in Threads, MiscOpen(t) PROVE LockInv'
  BY <1>4 DEF MiscOpen, Goto, DeviceInv, CallInv, LockInv, WriteHeld, ReadHeld, TypeOK, Locations
<1>5. ASSUME NEW t \in Threads, NEW f \in Files, Close(t, f) PROVE LockInv'
  BY <1>5 DEF Close, DeviceInv, CallInv, LockInv, WriteHeld, ReadHeld, TypeOK, Locations
<1>6. ASSUME NEW t \in Threads, NEW o \in DeviceOps, NEW p \in Procs, NEW f \in Files,
             NEW flt \in BOOLEAN, Ioctl(t, o, p, f, flt)
      PROVE  LockInv'
  BY <1>6 DEF Ioctl, Begin, Goto, DeviceInv, CallInv, LockInv, WriteHeld, ReadHeld, TypeOK, Locations
<1>7. ASSUME NEW t \in Threads, NEW o \in KernelOps, KernelUse(t, o)
      PROVE  LockInv'
  BY <1>7 DEF KernelUse, Begin, Goto, DeviceInv, CallInv, LockInv, WriteHeld, ReadHeld, TypeOK, Locations
<1>8. ASSUME NEW t \in Threads, DeviceOpen(t) PROVE LockInv'
  BY <1>8 DEF DeviceOpen, Goto, DeviceInv, CallInv, LockInv, WriteHeld, ReadHeld, TypeOK, Locations
<1>9. ASSUME NEW t \in Threads, DeviceClaim(t) PROVE LockInv'
  BY <1>9 DEF DeviceClaim, Goto, DeviceInv, CallInv, LockInv, WriteHeld, ReadHeld, TypeOK, Locations
<1>10. ASSUME NEW t \in Threads, CopyIn(t) PROVE LockInv'
  BY <1>10 DEF CopyIn, Goto, DeviceInv, CallInv, LockInv, WriteHeld, ReadHeld, TypeOK, Locations
<1>11. ASSUME NEW t \in Threads, GetMm(t) PROVE LockInv'
  <2>1. UNCHANGED <<fileVars, alive, mm_is_locked, lockVars>> /\ pc[t] = "getmm"
    BY <1>11 DEF GetMm
  <2>2. CASE Return(t)
    BY <2>1, <2>2 DEF Return, Goto, DeviceInv, CallInv, LockInv, WriteHeld, ReadHeld, TypeOK, Locations
  <2>3. CASE Finish(t) /\ op[t] = "VM_RESOLVE"
    <3>1. /\ pc' = [pc EXCEPT ![t] = "copyout"] /\ mm' = [mm EXCEPT ![t] = None]
          /\ UNCHANGED <<op, want>>
      BY <2>3, FinishCopies
    <3> QED BY <2>1, <3>1 DEF DeviceInv, CallInv, LockInv, WriteHeld, ReadHeld, TypeOK, Locations
  <2>4. CASE EnterMm(t) /\ pid[t] \in alive /\ (op[t] = "VM_UNLOCK" => mm_is_locked)
    BY <2>1, <2>4 DEF EnterMm, Goto, DeviceInv, CallInv, LockInv, WriteHeld, ReadHeld, TypeOK, Locations
  <2> QED BY <1>11, <2>2, <2>3, <2>4 DEF GetMm
<1>12. ASSUME NEW t \in Threads, LockFast(t) PROVE LockInv'
  <2>0. CallInv
    BY DEF DeviceInv
  <2>1. /\ mm[t] \in Procs /\ pc[t] \in {"lock", "wait"} /\ Compatible(mm[t], want[t])
        /\ UNCHANGED <<fileVars, alive, mm_is_locked>>
        /\ \/ /\ want[t] = "w"
              /\ wr' = [wr EXCEPT ![mm[t]] = t]
              /\ rd' = rd
           \/ /\ want[t] = "r"
              /\ rd' = [rd EXCEPT ![mm[t]] = @ \cup {t}]
              /\ wr' = wr
        /\ Acquired(t)
    BY <1>12, <2>0, LockTaken
  <2>2. /\ UNCHANGED <<op, pid, mm, lock, file, fault>>
        /\ \/ /\ op[t] = "VM_LOCK" /\ want[t] = "w"
              /\ pc' = [pc EXCEPT ![t] = "lock"]
              /\ want' = [want EXCEPT ![t] = "r"]
           \/ /\ ~(op[t] = "VM_LOCK" /\ want[t] = "w")
              /\ pc' = [pc EXCEPT ![t] = "body"]
              /\ want' = want
    BY <2>1, AcquiredCases
  <2>3. wr[mm[t]] = None /\ (want[t] = "w" => rd[mm[t]] = {})
    BY <2>1 DEF Compatible
  <2>4. CASE want[t] = "w" /\ op[t] = "VM_LOCK"
    <3>1. /\ wr' = [wr EXCEPT ![mm[t]] = t] /\ rd' = rd /\ mm_is_locked' = mm_is_locked
          /\ op' = op /\ mm' = mm
          /\ pc' = [pc EXCEPT ![t] = "lock"] /\ want' = [want EXCEPT ![t] = "r"]
      BY <2>1, <2>2, <2>4
    <3>2. ~mm_is_locked'
      BY <3>1 DEF DeviceInv, LockInv
    <3>3. ASSUME NEW p \in Procs, NEW u \in Threads
          PROVE  wr'[p] = u <=> mm'[u] = p /\ WriteHeld(u)'
      BY <2>1, <2>3, <2>4, <3>1 DEF DeviceInv, LockInv, WriteHeld, TypeOK
    <3>4. ASSUME NEW p \in Procs, NEW u \in Threads
          PROVE  u \in rd'[p] <=> mm'[u] = p /\ ReadHeld(u)'
      BY <2>1, <2>4, <3>1 DEF DeviceInv, LockInv, ReadHeld, TypeOK
    <3>5. ASSUME NEW p \in Procs, wr'[p] # None PROVE rd'[p] = {}
      BY <2>1, <2>3, <2>4, <3>1, <3>5 DEF DeviceInv, LockInv, TypeOK
    <3> QED BY <3>2, <3>3, <3>4, <3>5 DEF LockInv
  <2>6. CASE want[t] = "w" /\ op[t] # "VM_LOCK"
    BY <2>1, <2>2, <2>3, <2>6 DEF DeviceInv, CallInv, LockInv, WriteHeld, ReadHeld, TypeOK
  <2>5. CASE want[t] = "r"
    BY <2>1, <2>2, <2>3, <2>5 DEF DeviceInv, CallInv, LockInv, WriteHeld, ReadHeld, TypeOK
  <2> QED BY <2>1, <2>4, <2>5, <2>6
<1>13. ASSUME NEW t \in Threads, LockQueue(t) PROVE LockInv'
  BY <1>13 DEF LockQueue, Goto, DeviceInv, CallInv, LockInv, WriteHeld, ReadHeld, TypeOK, Locations
<1>14. ASSUME NEW t \in Threads, LockGrant(t) PROVE LockInv'
  <2>0. CallInv
    BY DEF DeviceInv
  <2>1. /\ mm[t] \in Procs /\ pc[t] \in {"lock", "wait"} /\ Compatible(mm[t], want[t])
        /\ UNCHANGED <<fileVars, alive, mm_is_locked>>
        /\ \/ /\ want[t] = "w"
              /\ wr' = [wr EXCEPT ![mm[t]] = t]
              /\ rd' = rd
           \/ /\ want[t] = "r"
              /\ rd' = [rd EXCEPT ![mm[t]] = @ \cup {t}]
              /\ wr' = wr
        /\ Acquired(t)
    BY <1>14, <2>0, LockTaken
  <2>2. /\ UNCHANGED <<op, pid, mm, lock, file, fault>>
        /\ \/ /\ op[t] = "VM_LOCK" /\ want[t] = "w"
              /\ pc' = [pc EXCEPT ![t] = "lock"]
              /\ want' = [want EXCEPT ![t] = "r"]
           \/ /\ ~(op[t] = "VM_LOCK" /\ want[t] = "w")
              /\ pc' = [pc EXCEPT ![t] = "body"]
              /\ want' = want
    BY <2>1, AcquiredCases
  <2>3. wr[mm[t]] = None /\ (want[t] = "w" => rd[mm[t]] = {})
    BY <2>1 DEF Compatible
  <2>4. CASE want[t] = "w" /\ op[t] = "VM_LOCK"
    <3>1. /\ wr' = [wr EXCEPT ![mm[t]] = t] /\ rd' = rd /\ mm_is_locked' = mm_is_locked
          /\ op' = op /\ mm' = mm
          /\ pc' = [pc EXCEPT ![t] = "lock"] /\ want' = [want EXCEPT ![t] = "r"]
      BY <2>1, <2>2, <2>4
    <3>2. ~mm_is_locked'
      BY <3>1 DEF DeviceInv, LockInv
    <3>3. ASSUME NEW p \in Procs, NEW u \in Threads
          PROVE  wr'[p] = u <=> mm'[u] = p /\ WriteHeld(u)'
      BY <2>1, <2>3, <2>4, <3>1 DEF DeviceInv, LockInv, WriteHeld, TypeOK
    <3>4. ASSUME NEW p \in Procs, NEW u \in Threads
          PROVE  u \in rd'[p] <=> mm'[u] = p /\ ReadHeld(u)'
      BY <2>1, <2>4, <3>1 DEF DeviceInv, LockInv, ReadHeld, TypeOK
    <3>5. ASSUME NEW p \in Procs, wr'[p] # None PROVE rd'[p] = {}
      BY <2>1, <2>3, <2>4, <3>1, <3>5 DEF DeviceInv, LockInv, TypeOK
    <3> QED BY <3>2, <3>3, <3>4, <3>5 DEF LockInv
  <2>6. CASE want[t] = "w" /\ op[t] # "VM_LOCK"
    BY <2>1, <2>2, <2>3, <2>6 DEF DeviceInv, CallInv, LockInv, WriteHeld, ReadHeld, TypeOK
  <2>5. CASE want[t] = "r"
    BY <2>1, <2>2, <2>3, <2>5 DEF DeviceInv, CallInv, LockInv, WriteHeld, ReadHeld, TypeOK
  <2> QED BY <2>1, <2>4, <2>5, <2>6
<1>15. ASSUME NEW t \in Threads, Body(t) PROVE LockInv'
  BY <1>15 DEF Body, Return, Goto, DeviceInv, CallInv, LockInv, WriteHeld, ReadHeld, TypeOK, Locations
<1>16. ASSUME NEW t \in Threads, Unlock(t) PROVE LockInv'
  BY <1>16 DEF Unlock, Finish, Return, Goto, DeviceInv, CallInv, LockInv, WriteHeld, ReadHeld, TypeOK, Locations
<1>17. ASSUME NEW t \in Threads, CopyOut(t) PROVE LockInv'
  BY <1>17 DEF CopyOut, Return, Goto, DeviceInv, CallInv, LockInv, WriteHeld, ReadHeld, TypeOK, Locations
<1>18. ASSUME NEW f \in Files, DeviceRelease(f) PROVE LockInv'
  BY <1>18 DEF DeviceRelease, Unreferenced, DeviceInv, CallInv, LockInv, WriteHeld, ReadHeld, TypeOK, Locations
<1>19. CASE UNCHANGED vars
  BY <1>19 DEF vars, DeviceInv, CallInv, LockInv, WriteHeld, ReadHeld, TypeOK, Locations
<1> QED
  BY <1>1, <1>2, <1>3, <1>4, <1>5, <1>6, <1>7, <1>8, <1>9, <1>10,
     <1>11, <1>12, <1>13, <1>14, <1>15, <1>16, <1>17, <1>18, <1>19
     DEF Next, Processes, Requests, Step

-----------------------------------------------------------------------------
(* The theorems *)

\* The initial states satisfy the whole invariant.
LEMMA InitEstablishes == Init => TypeOK /\ DeviceExclusive /\ DeviceInv
<1> SUFFICES ASSUME Init PROVE TypeOK /\ DeviceExclusive /\ DeviceInv
  OBVIOUS
<1> USE DeviceAssumption DEF DeviceOps, KernelOps
<1>0. queue \in [Procs -> Seq(Threads)]
  BY DEF Init
<1>1. TypeOK
  BY <1>0 DEF Init, TypeOK, Locations
<1>2. DeviceExclusive
  BY DEF Init, DeviceExclusive
<1>3. DeviceInv
  BY DEF Init, DeviceInv, OpenInv, CallInv, LockInv, WriteHeld, ReadHeld
<1> QED BY <1>1, <1>2, <1>3

\* Every variable keeps its type, and an mm that an ioctl works on belongs to
\* a process that exists: get_mm's failures are honoured on every path.
THEOREM TypeCorrect == Spec => []TypeOK
<1>1. TypeOK /\ DeviceExclusive /\ DeviceInv /\ [Next]_vars
        => (TypeOK /\ DeviceExclusive /\ DeviceInv)'
  BY TypeStep, ExclusiveStep, OpenStep, CallStep, LockStep DEF DeviceInv
<1> QED BY InitEstablishes, <1>1, PTL DEF Spec

\* The whole inductive invariant, for the theorems below.
THEOREM Invariance == Spec => [](TypeOK /\ DeviceExclusive /\ DeviceInv)
<1>1. TypeOK /\ DeviceExclusive /\ DeviceInv /\ [Next]_vars
        => (TypeOK /\ DeviceExclusive /\ DeviceInv)'
  BY TypeStep, ExclusiveStep, OpenStep, CallStep, LockStep DEF DeviceInv
<1> QED BY InitEstablishes, <1>1, PTL DEF Spec

\* device_busy admits one user of the device at a time, however opens, closes,
\* forks, exits and running ioctls interleave, and no ioctl runs on a released
\* file.
THEOREM OneUser == Spec => []DeviceExclusive
BY Invariance, PTL

\* No thread returns to user space or copies from or to it holding an
\* mmap_lock: every path through resolve_vm, update_vm, GET_ROOT and SET_ROOT
\* releases what it took.
THEOREM LocksReleased == Spec => []NoLockLeaks
<1>1. TypeOK /\ DeviceInv => NoLockLeaks
  BY DEF DeviceInv, CallInv, LockInv, WriteHeld, ReadHeld, NoLockLeaks, Holds
<1> QED BY <1>1, Invariance, PTL

\* Work that changes an mm excludes all other work on it.
THEOREM WorkIsExclusive == Spec => []WorkExclusive
<1>1. TypeOK /\ DeviceInv => WorkExclusive
  <2> SUFFICES ASSUME TypeOK, DeviceInv,
                      NEW t \in Threads, NEW u \in Threads,
                      t # u, pc[t] = "body", pc[u] = "body", mm[t] = mm[u],
                      op[t] \in WriteOps
               PROVE  FALSE
    BY DEF DeviceInv, CallInv, WorkExclusive
  <2>1. mm[t] \in Procs /\ None \notin Threads
    BY DeviceAssumption DEF DeviceInv, CallInv, TypeOK
  <2>2. wr[mm[t]] = t
    BY <2>1 DEF DeviceInv, LockInv, WriteHeld
  <2>3. u \notin rd[mm[t]]
    BY <2>1, <2>2 DEF DeviceInv, LockInv
  <2>4. op[u] \in WriteOps
    BY <2>1, <2>3 DEF DeviceInv, CallInv, LockInv, ReadHeld
  <2>5. wr[mm[t]] = u
    BY <2>1, <2>4 DEF DeviceInv, LockInv, WriteHeld
  <2> QED BY <2>2, <2>5
<1> QED BY <1>1, Invariance, PTL
=============================================================================
