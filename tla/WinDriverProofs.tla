-------------------------- MODULE WinDriverProofs ---------------------------
(***************************************************************************)
(* The properties of the Windows driver and its loader, for any number of  *)
(* processes, CPUs, entries and failing calls.                             *)
(***************************************************************************)
EXTENDS WinDriver, FiniteSetTheorems, TLAPS

-----------------------------------------------------------------------------
(* The inductive invariant *)

Places == {"user", "lookup", "attach", "get", "set", "detach",
           "write", "flush", "pat"}
Calls == [op : {"none", "get", "set", "update", "set_mts"},
          pid : Procs \cup {NoProc},
          value : Values \cup Pats \cup {None, OtherRoot}]

RequestType ==
  /\ handles \subseteq Procs
  /\ pc \in [Procs -> Places] /\ call \in [Procs -> Calls]
  /\ answer \in [Procs -> Procs \cup {OtherRoot, None}]

MachineType ==
  /\ pte \in [Procs -> Values]
  /\ cr3 \in [Cpus -> Procs \cup {OtherRoot}]
  /\ tlb \in [Cpus -> Values \cup {None}]
  /\ cpu \in [Procs -> Cpus \cup {None}]
  /\ attached \in [Procs -> Procs] /\ moved \subseteq Procs

LoadType ==
  /\ service \in {"none", "stopped", "running", "stop_pending"}
  /\ entry \in {"none", "create", "link", "unload"}
  /\ loader \in {"none", "check", "create", "start", "starting",
                 "stop", "delete", "close"}
  /\ marked \in BOOLEAN /\ device \in BOOLEAN /\ link \in BOOLEAN
  /\ unload \in BOOLEAN /\ promised \in BOOLEAN

\* What a request is about at each of its places, and whose address space it
\* has there: that of the process it asks about from attaching to detaching,
\* its own everywhere else.
Attached == {"get", "set", "detach"}
RequestOk(p) ==
  /\ pc[p] \in {"lookup", "attach"} \cup Attached => call[p].op \in {"get", "set"}
  /\ pc[p] \in {"get", "set"} => call[p].op = pc[p]
  /\ pc[p] \in {"attach"} \cup Attached => call[p].pid \in Procs
  /\ pc[p] \in {"lookup", "attach", "set"} /\ call[p].op = "set" => call[p].value = OtherRoot
  /\ pc[p] \in {"write", "flush"} => call[p].pid \in Procs
  /\ pc[p] = "write" => call[p].value \in Values
  /\ attached[p] = IF pc[p] \in Attached THEN call[p].pid ELSE p
RequestInv == \A p \in Procs : RequestOk(p)

\* A CPU runs one process, and runs it on the address space it has or on the
\* root the process has set for itself; only a SET_CR3 that has written the
\* register for another process may run on something else.
ScheduleInv ==
  /\ \A p, q \in Procs : cpu[p] # None /\ cpu[p] = cpu[q] => p = q
  /\ \A p \in moved : cpu[p] # None /\ attached[p] = p
  /\ \A p \in Procs :
       cpu[p] # None /\ ~(pc[p] = "detach" /\ call[p].op = "set" /\ call[p].pid # p) =>
         cr3[cpu[p]] = IF p \in moved THEN OtherRoot ELSE attached[p]

\* Nothing is cached of the address space that SET_CR3 loads.
TlbInv ==
  /\ \A c \in Cpus : cr3[c] \notin Procs => tlb[c] = None
  /\ WinTlbCoherent

\* Device and link at each step of DriverEntry and Unload.
DriverInv ==
  /\ entry = "none" /\ service \in {"running", "stop_pending"} => device /\ link
  /\ entry = "none" /\ service \in {"none", "stopped"} => ~device /\ ~link
  /\ entry = "create" => service = "stopped" /\ ~device /\ ~link
  /\ entry = "link" => service = "stopped" /\ device /\ ~link
  /\ entry = "unload" => service = "stop_pending" /\ device /\ ~link
  /\ loader = "starting" <=> entry \in {"create", "link"}
  /\ handles # {} => service \in {"running", "stop_pending"} /\ entry = "none"

\* What a run of the loader that met no obstacle has achieved so far.
LoaderInv ==
  /\ loader \in {"start", "starting"} => ~unload
  /\ loader \in {"stop", "delete"} => unload /\ service # "none"
  /\ service = "none" => ~marked
  /\ promised =>
       /\ unload /\ loader \in {"delete", "close"} => service # "running"
       /\ loader = "check" => service # "stop_pending" /\ ~(marked /\ service = "stopped")
       /\ ~unload /\ loader = "create" => service \in {"none", "stopped"} /\ ~marked
       /\ ~unload /\ loader = "start" => service = "stopped" /\ ~marked
       /\ ~unload /\ loader = "close" => Openable

RequestsInv == RequestType /\ MachineType /\ RequestInv
LoadingInv == LoadType /\ DriverInv /\ LoaderInv
WinInv == RequestsInv /\ ScheduleInv /\ TlbInv /\ LoadingInv

-----------------------------------------------------------------------------
(* Places and arguments of requests *)

\* Processes are at known places with known arguments, CPUs and entries have
\* the values they can have, and each request has the address space of the
\* process it asks about from attaching to detaching.
LEMMA RequestsStep == RequestsInv /\ [Next]_vars => RequestsInv'
<1> SUFFICES ASSUME RequestsInv, [Next]_vars PROVE RequestsInv'
  OBVIOUS
<1> USE DEF RequestsInv, RequestType, MachineType, RequestInv, RequestOk, Attached,
            Places, Calls, NoCall, callVars, machine
<1>1. CASE UNCHANGED vars
  BY <1>1 DEF vars
<1>2. ASSUME NEW p \in Procs, Client(p) PROVE RequestsInv'
  <2>1. CASE ptedit_init(p)
    BY <2>1 DEF ptedit_init, At, Goto
  <2>2. CASE ptedit_cleanup(p)
    BY <2>2 DEF ptedit_cleanup, At
  <2>3. ASSUME NEW pid \in Procs \cup {NoProc}, ptedit_get_paging_root(p, pid)
        PROVE  RequestsInv'
    BY <2>3 DEF ptedit_get_paging_root, Call, At, Goto
  <2>4. ASSUME NEW pid \in Procs \cup {NoProc}, ptedit_set_paging_root(p, pid)
        PROVE  RequestsInv'
    BY <2>4 DEF ptedit_set_paging_root, Call, At, Goto
  <2>5. ASSUME NEW pid \in Procs \cup {NoProc}, NEW v \in Values, ptedit_update(p, pid, v)
        PROVE  RequestsInv'
    BY <2>5 DEF ptedit_update, Call, At, Goto
  <2>6. ASSUME NEW v \in Pats, ptedit_set_mts(p, v) PROVE RequestsInv'
    BY <2>6 DEF ptedit_set_mts, Call, At, Goto
  <2>7. CASE Lookup(p)
    BY <2>7 DEF Lookup, At, Goto, Return
  <2>8. CASE Attach(p)
    BY <2>8 DEF Attach, MoveTo, At, Goto, Load
  <2>9. CASE ReadCr3(p)
    BY <2>9 DEF ReadCr3, At, Goto
  <2>10. CASE WriteCr3(p)
    BY <2>10 DEF WriteCr3, At, Goto, Load
  <2>11. CASE Detach(p)
    BY <2>11 DEF Detach, MoveTo, At, Return, Load
  <2>12. CASE WritePhysVal(p)
    BY <2>12 DEF WritePhysVal, At, Goto
  <2>13. CASE FlushTlb(p)
    BY <2>13 DEF FlushTlb, At, Return
  <2>14. CASE Pat(p)
    BY <2>14 DEF Pat, At, Return
  <2>15. QED
    BY <1>2, <2>1, <2>2, <2>3, <2>4, <2>5, <2>6, <2>7, <2>8, <2>9, <2>10, <2>11,
       <2>12, <2>13, <2>14 DEF Client
<1>3. ASSUME NEW c \in Cpus, TlbFill(c) PROVE RequestsInv'
  BY <1>3 DEF TlbFill
<1>4. ASSUME NEW c \in Cpus, NEW p \in Procs, Switch(c, p) PROVE RequestsInv'
  BY <1>4 DEF Switch, Load
<1>5. ASSUME NEW p \in Procs, Preempt(p) PROVE RequestsInv'
  BY <1>5 DEF Preempt
<1>6. CASE LoadStep
  BY <1>6 DEF LoadStep
<1>7. CASE Restart
  BY <1>7 DEF Restart
<1>8. QED
  BY <1>1, <1>2, <1>3, <1>4, <1>5, <1>6, <1>7 DEF Next

\* A CPU goes on running the process it runs on the address space that process
\* has, through preemption, attaching and detaching.
LEMMA ScheduleStep == RequestsInv /\ ScheduleInv /\ [Next]_vars => ScheduleInv'
<1> SUFFICES ASSUME RequestsInv, ScheduleInv, [Next]_vars PROVE ScheduleInv'
  OBVIOUS
<1> USE WinDriverAssumption DEF ScheduleInv, RequestsInv, RequestType, MachineType, RequestInv, RequestOk, Attached,
            Places, Calls, NoCall, callVars, machine
<1>1. CASE UNCHANGED vars
  BY <1>1 DEF vars
<1>2. ASSUME NEW p \in Procs, Client(p) PROVE ScheduleInv'
  <2>1. CASE ptedit_init(p)
    BY <2>1 DEF ptedit_init, At, Goto
  <2>2. CASE ptedit_cleanup(p)
    BY <2>2 DEF ptedit_cleanup, At
  <2>3. ASSUME NEW pid \in Procs \cup {NoProc}, ptedit_get_paging_root(p, pid)
        PROVE  ScheduleInv'
    BY <2>3 DEF ptedit_get_paging_root, Call, At, Goto
  <2>4. ASSUME NEW pid \in Procs \cup {NoProc}, ptedit_set_paging_root(p, pid)
        PROVE  ScheduleInv'
    BY <2>4 DEF ptedit_set_paging_root, Call, At, Goto
  <2>5. ASSUME NEW pid \in Procs \cup {NoProc}, NEW v \in Values, ptedit_update(p, pid, v)
        PROVE  ScheduleInv'
    BY <2>5 DEF ptedit_update, Call, At, Goto
  <2>6. ASSUME NEW v \in Pats, ptedit_set_mts(p, v)
        PROVE  ScheduleInv'
    BY <2>6 DEF ptedit_set_mts, Call, At, Goto
  <2>7. CASE Lookup(p)
    BY <2>7 DEF Lookup, At, Goto, Return
  <2>8. CASE Attach(p)
    BY <2>8 DEF Attach, MoveTo, At, Goto, Load
  <2>9. CASE ReadCr3(p)
    BY <2>9 DEF ReadCr3, At, Goto
  <2>10. CASE WriteCr3(p)
    BY <2>10 DEF WriteCr3, At, Goto, Load
  <2>11. CASE Detach(p)
    BY <2>11 DEF Detach, MoveTo, At, Return, Load
  <2>12. CASE WritePhysVal(p)
    BY <2>12 DEF WritePhysVal, At, Goto
  <2>13. CASE FlushTlb(p)
    BY <2>13 DEF FlushTlb, At, Return
  <2>14. CASE Pat(p)
    BY <2>14 DEF Pat, At, Return
  <2>15. QED
    BY <1>2, <2>1, <2>2, <2>3, <2>4, <2>5, <2>6, <2>7, <2>8, <2>9, <2>10, <2>11,
       <2>12, <2>13, <2>14 DEF Client
<1>3. ASSUME NEW c \in Cpus, TlbFill(c) PROVE ScheduleInv'
  BY <1>3 DEF TlbFill
<1>4. ASSUME NEW c \in Cpus, NEW p \in Procs, Switch(c, p) PROVE ScheduleInv'
  BY <1>4 DEF Switch, Load
<1>5. ASSUME NEW p \in Procs, Preempt(p) PROVE ScheduleInv'
  BY <1>5 DEF Preempt
<1>6. CASE LoadStep
  BY <1>6 DEF LoadStep
<1>7. CASE Restart
  BY <1>7 DEF Restart
<1>8. QED
  BY <1>1, <1>2, <1>3, <1>4, <1>5, <1>6, <1>7 DEF Next

\* What a TLB has is in the tables, or somebody is about to flush it: an entry
\* is written before the flush, and a flush reaches every CPU.
LEMMA TlbStep == RequestsInv /\ TlbInv /\ [Next]_vars => TlbInv'
<1> SUFFICES ASSUME RequestsInv, TlbInv, [Next]_vars PROVE TlbInv'
  OBVIOUS
<1> USE WinDriverAssumption DEF TlbInv, WinTlbCoherent, RequestsInv, RequestType, MachineType, RequestInv, RequestOk, Attached,
            Places, Calls, NoCall, callVars, machine
<1>1. CASE UNCHANGED vars
  BY <1>1 DEF vars
<1>2. ASSUME NEW p \in Procs, Client(p) PROVE TlbInv'
  <2>1. CASE ptedit_init(p)
    BY <2>1 DEF ptedit_init, At, Goto
  <2>2. CASE ptedit_cleanup(p)
    BY <2>2 DEF ptedit_cleanup, At
  <2>3. ASSUME NEW pid \in Procs \cup {NoProc}, ptedit_get_paging_root(p, pid)
        PROVE  TlbInv'
    BY <2>3 DEF ptedit_get_paging_root, Call, At, Goto
  <2>4. ASSUME NEW pid \in Procs \cup {NoProc}, ptedit_set_paging_root(p, pid)
        PROVE  TlbInv'
    BY <2>4 DEF ptedit_set_paging_root, Call, At, Goto
  <2>5. ASSUME NEW pid \in Procs \cup {NoProc}, NEW v \in Values, ptedit_update(p, pid, v)
        PROVE  TlbInv'
    BY <2>5 DEF ptedit_update, Call, At, Goto
  <2>6. ASSUME NEW v \in Pats, ptedit_set_mts(p, v)
        PROVE  TlbInv'
    BY <2>6 DEF ptedit_set_mts, Call, At, Goto
  <2>7. CASE Lookup(p)
    BY <2>7 DEF Lookup, At, Goto, Return
  <2>8. CASE Attach(p)
    <3>1. CASE attached[p] = call[p].pid
      BY <2>8, <3>1 DEF Attach, MoveTo, At, Goto
    <3>2. CASE attached[p] # call[p].pid
      BY <2>8, <3>2 DEF Attach, MoveTo, At, Goto, Load
    <3>3. QED
      BY <3>1, <3>2
  <2>9. CASE ReadCr3(p)
    BY <2>9 DEF ReadCr3, At, Goto
  <2>10. CASE WriteCr3(p)
    BY <2>10 DEF WriteCr3, At, Goto, Load
  <2>11. CASE Detach(p)
    <3>1. CASE attached[p] = p
      BY <2>11, <3>1 DEF Detach, MoveTo, At, Return
    <3>2. CASE attached[p] # p
      BY <2>11, <3>2 DEF Detach, MoveTo, At, Return, Load
    <3>3. QED
      BY <3>1, <3>2
  <2>12. CASE WritePhysVal(p)
    BY <2>12 DEF WritePhysVal, At, Goto
  <2>13. CASE FlushTlb(p)
    BY <2>13 DEF FlushTlb, At, Return
  <2>14. CASE Pat(p)
    BY <2>14 DEF Pat, At, Return
  <2>15. QED
    BY <1>2, <2>1, <2>2, <2>3, <2>4, <2>5, <2>6, <2>7, <2>8, <2>9, <2>10, <2>11,
       <2>12, <2>13, <2>14 DEF Client
<1>3. ASSUME NEW c \in Cpus, TlbFill(c) PROVE TlbInv'
  BY <1>3 DEF TlbFill
<1>4. ASSUME NEW c \in Cpus, NEW p \in Procs, Switch(c, p) PROVE TlbInv'
  BY <1>4 DEF Switch, Load
<1>5. ASSUME NEW p \in Procs, Preempt(p) PROVE TlbInv'
  BY <1>5 DEF Preempt
<1>6. CASE LoadStep
  BY <1>6 DEF LoadStep
<1>7. CASE Restart
  BY <1>7 DEF Restart
<1>8. QED
  BY <1>1, <1>2, <1>3, <1>4, <1>5, <1>6, <1>7 DEF Next

-----------------------------------------------------------------------------
(* Loading and unloading *)

\* Requests do not load or unload anything; they open the device only of a
\* driver that runs.
LEMMA LoadingClient ==
  ASSUME LoadingInv, NEW p \in Procs, Client(p)
  PROVE  LoadingInv'
<1> USE DEF LoadingInv, LoadType, DriverInv, LoaderInv, Openable
<1>1. CASE ptedit_init(p)
  BY <1>1 DEF ptedit_init, loadVars
<1>2. CASE UNCHANGED loadVars /\ handles' \subseteq handles
  BY <1>2 DEF loadVars
<1>3. ptedit_init(p) \/ (UNCHANGED loadVars /\ handles' \subseteq handles)
  BY DEF Client, ptedit_cleanup, ptedit_get_paging_root, ptedit_set_paging_root,
         ptedit_update, ptedit_set_mts, Call, Lookup, Attach, ReadCr3, WriteCr3, Detach,
         WritePhysVal, FlushTlb, Pat
<1>4. QED
  BY <1>1, <1>2, <1>3

\* Device, link and service stay in step through the loader, DriverEntry and
\* Unload, and a loader that met no obstacle is where it should be.
LEMMA LoadingStep == RequestsInv /\ LoadingInv /\ [Next]_vars => LoadingInv'
<1> SUFFICES ASSUME RequestsInv, LoadingInv, [Next]_vars PROVE LoadingInv'
  OBVIOUS
<1> USE DEF LoadingInv, LoadType, DriverInv, LoaderInv, Openable
<1>1. CASE UNCHANGED vars
  BY <1>1 DEF vars, loadVars, callVars
<1>2. ASSUME NEW p \in Procs, Client(p) PROVE LoadingInv'
  BY <1>2, LoadingClient
<1>3. CASE UNCHANGED <<loadVars, callVars>>
  BY <1>3 DEF loadVars, callVars
<1>4. CASE LoadStep
  <2> USE DEF callVars, driverState
  <2>1. UNCHANGED handles
    BY <1>4 DEF LoadStep
  <2>2. Cardinality(handles) = 0 => handles = {}
    <3>1. IsFiniteSet(handles)
      BY WinDriverAssumption, FS_Subset DEF RequestsInv, RequestType
    <3>2. QED
      BY <3>1, FS_EmptySet
  <2>3. ASSUME NEW u \in BOOLEAN, Start(u) PROVE LoadingInv'
    BY <2>1, <2>3 DEF Start
  <2>4. ASSUME NEW from \in {"check", "create"}, Gives(from) PROVE LoadingInv'
    BY <2>1, <2>4 DEF Gives, Fails, Moves, Fault
  <2>5. CASE Openable # unload /\ Goes("check", "none")
    BY <2>1, <2>5 DEF Goes, Moves
  <2>6. CASE Openable = unload /\ Goes("check", "create")
    BY <2>1, <2>6 DEF Goes, Moves
  <2>7. CASE CreateService
    BY <2>1, <2>7 DEF CreateService
  <2>8. ASSUME service # "none", Goes("create", IF unload THEN "stop" ELSE "start")
        PROVE  LoadingInv'
    BY <2>1, <2>8 DEF Goes, Moves
  <2>9. CASE StartService
    <3>1. CASE Fails("start", "close")
      BY <2>1, <3>1 DEF Fails, Moves, Fault
    <3>2. CASE ~Fails("start", "close")
      BY <2>1, <2>9, <3>2 DEF StartService
    <3>3. QED
      BY <3>1, <3>2
  <2>10. CASE StopService
    <3>1. CASE Fails("stop", "delete")
      BY <2>1, <3>1 DEF Fails, Moves, Fault
    <3>2. CASE ~Fails("stop", "delete")
      BY <2>1, <2>10, <3>2 DEF StopService
    <3>3. QED
      BY <3>1, <3>2
  <2>11. CASE DeleteService
    <3>1. CASE Fails("delete", "close")
      BY <2>1, <3>1 DEF Fails, Moves, Fault
    <3>2. CASE ~Fails("delete", "close")
      <4>1. /\ loader = "delete" /\ loader' = "close" /\ unload /\ service # "none"
            /\ UNCHANGED <<service, device, link, entry, unload, promised>>
        BY <2>11, <3>2 DEF DeleteService
      <4>2. LoadType' /\ DriverInv'
        BY <2>1, <2>11, <3>2, <4>1 DEF DeleteService
      <4>3. LoaderInv'
        BY <4>1
      <4>4. QED
        BY <4>2, <4>3
    <3>3. QED
      BY <3>1, <3>2
  <2>12. CASE CloseService
    BY <2>1, <2>12 DEF CloseService, Goes, Moves
  <2>13. CASE CreateDevice
    <3>1. CASE entry' = "link"
      BY <2>1, <2>13, <3>1 DEF CreateDevice
    <3>2. CASE entry' = "none"
      <4>1. /\ entry = "create" /\ loader' = "close" /\ promised' = FALSE
            /\ UNCHANGED <<device, link, service, marked, unload>>
        BY <2>13, <3>2 DEF CreateDevice, Fault
      <4>2. LoadType' /\ DriverInv'
        BY <2>1, <3>2, <4>1
      <4>3. LoaderInv'
        BY <3>2, <4>1
      <4>4. QED
        BY <4>2, <4>3
    <3>3. QED
      BY <2>13, <3>1, <3>2 DEF CreateDevice
  <2>14. CASE LinkFails
    BY <2>1, <2>14 DEF LinkFails, Fault
  <2>15. CASE CreateLink
    BY <2>1, <2>15 DEF CreateLink
  <2>16. CASE UnloadLink(Cardinality(handles))
    BY <2>1, <2>2, <2>16 DEF UnloadLink
  <2>17. CASE UnloadDevice
    BY <2>1, <2>17 DEF UnloadDevice
  <2>18. CASE Delete
    BY <2>1, <2>18 DEF Delete
  <2>19. QED
    BY <1>4, <2>3, <2>4, <2>5, <2>6, <2>7, <2>8, <2>9, <2>10, <2>11, <2>12, <2>13,
       <2>14, <2>15, <2>16, <2>17, <2>18 DEF LoadStep, Loader, DriverEntry, Unload,
       CheckLoaded, OpenService
<1>5. CASE Restart
  BY <1>5 DEF Restart, Reboot
<1>6. QED
  BY <1>1, <1>2, <1>3, <1>4, <1>5 DEF Next, TlbFill, Switch, Preempt

-----------------------------------------------------------------------------
(* The theorems *)

LEMMA InitInv == Init => WinInv
<1> SUFFICES ASSUME Init PROVE WinInv
  OBVIOUS
<1> USE DEF Init, LoadInit, NoCall
<1>1. RequestsInv
  BY DEF RequestsInv, RequestType, MachineType, RequestInv, RequestOk, Attached, Places, Calls
<1>2. ScheduleInv
  BY DEF ScheduleInv
<1>3. TlbInv
  BY DEF TlbInv, WinTlbCoherent
<1>4. LoadingInv
  BY DEF LoadingInv, LoadType, DriverInv, LoaderInv
<1>5. QED
  BY <1>1, <1>2, <1>3, <1>4 DEF WinInv

\* The inductive invariant: every request is on the address space it should
\* be on, and loading is at a step that fits the device and its link.
THEOREM WinInvariance == Spec => []WinInv
<1>1. WinInv /\ [Next]_vars => WinInv'
  BY RequestsStep, ScheduleStep, TlbStep, LoadingStep DEF WinInv
<1>2. QED
  BY InitInv, <1>1, PTL DEF Spec

\* For any number of processes and CPUs, no CPU uses an old entry once
\* ptedit_update has returned (WRITE_PHYS_VAL and FLUSH_TLB of Driver.c).
THEOREM NoStaleTranslations == Spec => []WinTlbCoherent
<1>1. WinInv => WinTlbCoherent
  BY DEF WinInv, TlbInv
<1>2. QED
  BY <1>1, WinInvariance, PTL

\* A process in user mode runs on its own tables or on the root it has set for
\* itself, however its and others' GET_CR3 and SET_CR3 requests were preempted
\* and moved.
THEOREM UserRoots == Spec => []UserRoot
<1>1. WinInv => UserRoot
  BY DEF WinInv, ScheduleInv, RequestsInv, RequestInv, RequestOk, Attached, UserRoot
<1>2. QED
  BY <1>1, WinInvariance, PTL

\* GET_CR3 reads the root of the process it was asked about, and for the own
\* process the one it has set, as long as that is in use.
THEOREM RootsReported == Spec => RootOfPid
<1>1. ASSUME WinInv, Next, NEW p \in Procs, pc[p] = "get", pc'[p] = "detach"
      PROVE  answer'[p] = IF p \in moved THEN OtherRoot ELSE call[p].pid
  <2> USE DEF WinInv, RequestsInv, RequestType
  <2>1. ReadCr3(p)
    <3>1. ASSUME NEW q \in Procs, Client(q) PROVE ReadCr3(p)
      BY <1>1, <3>1 DEF Client, ptedit_init, ptedit_cleanup, ptedit_get_paging_root,
         ptedit_set_paging_root, ptedit_update, ptedit_set_mts, Call, Lookup, Attach,
         ReadCr3, WriteCr3, Detach, WritePhysVal, FlushTlb, Pat, At, Goto, Return
    <3>2. UNCHANGED pc \/ Restart \/ \E q \in Procs : Client(q)
      BY <1>1 DEF Next, LoadStep, TlbFill, Switch, Preempt, callVars
    <3>3. ~Restart
      BY <1>1 DEF Restart
    <3>4. QED
      BY <1>1, <3>1, <3>2, <3>3
  <2>2. attached[p] = call[p].pid
    BY <1>1 DEF RequestInv, RequestOk, Attached
  <2>3. cr3[cpu[p]] = IF p \in moved THEN OtherRoot ELSE attached[p]
    BY <1>1, <2>1 DEF ReadCr3, At, ScheduleInv
  <2>4. answer'[p] = cr3[cpu[p]]
    BY <1>1, <2>1 DEF ReadCr3
  <2>5. QED
    BY <2>2, <2>3, <2>4
<1>2. WinInv /\ [Next]_vars =>
        [\A p \in Procs : pc[p] = "get" /\ pc'[p] = "detach" =>
           answer'[p] = IF p \in moved THEN OtherRoot ELSE call[p].pid]_vars
  BY <1>1
<1>3. QED
  BY <1>2, WinInvariance, PTL DEF Spec, RootOfPid

\* A failing DriverEntry and an Unload leave no link without a device, no
\* device without a driver and nobody with a device that is gone.
THEOREM DriverWhole == Spec => []NoHalfDriver
<1>1. WinInv => NoHalfDriver
  BY DEF WinInv, LoadingInv, LoadType, DriverInv, NoHalfDriver, Image
<1>2. QED
  BY <1>1, WinInvariance, PTL

\* Whatever failures and reboots came before, a run of the loader without a
\* failing call does what it was started for.
THEOREM LoaderWorks == Spec => LoaderDelivers
<1>1. WinInv /\ [Next]_vars =>
        [loader # "none" /\ loader' = "none" /\ promised' =>
           IF unload THEN service # "running" ELSE Openable]_vars
  <2> SUFFICES ASSUME WinInv, Next, loader # "none", loader' = "none", promised'
               PROVE  IF unload THEN service # "running" ELSE Openable
    OBVIOUS
  <2> USE DEF WinInv, LoadingInv, LoadType, DriverInv, LoaderInv, Openable
  <2>1. UNCHANGED loader \/ LoadStep \/ Restart
    BY DEF Next, Client, ptedit_init, ptedit_cleanup, ptedit_get_paging_root,
           ptedit_set_paging_root, ptedit_update, ptedit_set_mts, Call, Lookup, Attach,
           ReadCr3, WriteCr3, Detach, WritePhysVal, FlushTlb, Pat, TlbFill,
           Switch, Preempt, loadVars
  <2>2. ~Restart
    BY DEF Restart, Reboot
  <2>3. CheckLoaded \/ CloseService
    BY <2>1, <2>2 DEF LoadStep, Loader, DriverEntry, Unload, Delete, Start,
       CheckLoaded, CreateService, OpenService, StartService, StopService, DeleteService,
       Goes, Gives, Fails, Moves, Fault, CreateDevice, LinkFails, CreateLink, UnloadLink, UnloadDevice
  <2>4. QED
    BY <2>3 DEF CheckLoaded, CloseService, Goes, Gives, Fails, Moves, Fault
<1>2. QED
  BY <1>1, WinInvariance, PTL DEF Spec, LoaderDelivers
=============================================================================
