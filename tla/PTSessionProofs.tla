--------------------------- MODULE PTSessionProofs --------------------------
(***************************************************************************)
(* Proofs about sessions of the library over a module that is loaded and   *)
(* unloaded, for any finite number of processes, any number of descriptors *)
(* and any kernel symbols.                                                 *)
(***************************************************************************)
EXTENDS PTSession, FiniteSetTheorems, WellFoundedInduction, TLAPS

Kinds == {"free", "other", "device", "umem"}
InitPlaces == {"kallsyms", "register", "flush", "cr4", "probe", "umem"}
ExitPlaces == {"deregister", "unprobe", "remove"}

ModuleTypeOK ==
  /\ invpcid \in BOOLEAN
  /\ image \in {"none", "coming", "live", "going"}
  /\ at \in InitPlaces \cup ExitPlaces \cup {"end"}
  /\ registered \in BOOLEAN /\ probed \in BOOLEAN /\ proc_umem \in BOOLEAN
  /\ has_umem \in BOOLEAN /\ flush_func \in BOOLEAN /\ cr4_func \in BOOLEAN
  /\ invalidate_tlb \in {"NULL", "kernel", "custom"}
  /\ failed_late \in BOOLEAN

SessionTypeOK ==
  /\ table \in [Procs -> [Fds -> Kinds]]
  /\ ptedit_fd \in [Procs -> Fds \cup {-1}]
  /\ ptedit_umem \in [Procs -> Fds \cup {-1}]
  /\ ptedit_vmem \in [Procs -> {"NULL", "mapped", "MAP_FAILED"}]
  /\ impl \in [Procs -> Impls \cup {"none"}]
  /\ up \in [Procs -> BOOLEAN]

-----------------------------------------------------------------------------
(* What holds at each place of pteditor_init and pteditor_exit *)

\* No module: nothing is left but perhaps the device of a failed init.
NoneInv ==
  image = "none" => /\ ~probed /\ ~proc_umem
                    /\ registered => failed_late

\* pteditor_init has done what comes before its place, and nothing else.
ComingInv ==
  image = "coming" =>
    /\ at \in InitPlaces
    /\ ~proc_umem
    /\ at # "umem" => ~probed
    /\ at \in {"kallsyms", "register"} => (registered => failed_late)
    /\ at \notin {"kallsyms", "register"} => registered
    /\ at \in {"cr4", "probe", "umem"} => flush_func /\ invalidate_tlb # "NULL"
    /\ at \in {"probe", "umem"} => invpcid \/ cr4_func

\* pteditor_init has returned 0.
LiveInv ==
  image = "live" =>
    /\ registered
    /\ flush_func /\ invalidate_tlb # "NULL" /\ (invpcid \/ cr4_func)
    /\ proc_umem => has_umem

\* pteditor_exit has undone what comes before its place.
GoingInv ==
  image = "going" =>
    /\ at \in ExitPlaces
    /\ proc_umem => has_umem
    /\ at # "deregister" => ~registered
    /\ at = "remove" => ~probed

\* A device left behind stays, and keeps every later init from succeeding.
LateInv ==
  failed_late =>
    /\ registered
    /\ \/ image = "none"
       \/ image = "coming" /\ at \in {"kallsyms", "register"}

ModuleInv == ModuleTypeOK /\ NoneInv /\ ComingInv /\ LiveInv /\ GoingInv /\ LateInv

\* Files of the device exist only while it is registered.
FilesInv ==
  OpenFiles # {} => /\ registered /\ image # "going"
                    /\ image = "none" => failed_late

\* A session that is up refers to its own files.
UpInv ==
  \A p \in Procs :
    up[p] => /\ impl[p] # "none"
             /\ ptedit_fd[p] # -1 /\ table[p][ptedit_fd[p]] = "device"
             /\ \/ ptedit_umem[p] = -1
                \/ ptedit_umem[p] > 0 /\ table[p][ptedit_umem[p]] = "umem"

Inv == ModuleInv /\ SessionTypeOK /\ FilesInv /\ UpInv

\* In programs that pair ptedit_init and ptedit_cleanup, the files of the
\* library are those of the session.
CarefulInv ==
  \A p \in Procs, fd \in Fds :
    /\ table[p][fd] = "device" => up[p] /\ fd = ptedit_fd[p]
    /\ table[p][fd] = "umem" => up[p] /\ fd = ptedit_umem[p]

-----------------------------------------------------------------------------
(* Loading and unloading *)

\* A step of the module itself keeps what holds of it, provided that no file
\* of the device is open when the module starts to go.
LEMMA ModuleKeepsInv ==
  ASSUME ModuleInv, Insmod \/ pteditor_init \/ Rmmod(Cardinality(OpenFiles)) \/ pteditor_exit
  PROVE  ModuleInv'
<1> USE DEF ModuleInv, ModuleTypeOK, NoneInv, ComingInv, LiveInv, GoingInv, LateInv,
            InitPlaces, ExitPlaces, kernel, statics
<1>1. CASE Insmod
  BY <1>1 DEF Insmod
<1>2. CASE FindKallsyms
  BY <1>2 DEF FindKallsyms, Step, InitError
<1>3. CASE Register
  <2>1. CASE Step("register", "flush") /\ ~registered /\ registered' = TRUE
    BY <1>3, <2>1 DEF Register, Step
  <2>2. CASE InitError("register") /\ UNCHANGED registered
    BY <1>3, <2>2 DEF Register, InitError
  <2> QED BY <1>3, <2>1, <2>2 DEF Register
<1>4. CASE FindFlush
  <2>1. CASE "flush_tlb_mm_range" \in found
    <3>1. /\ image = "coming" /\ image' = "coming" /\ at = "flush" /\ at' = "cr4"
          /\ flush_func' = TRUE /\ invalidate_tlb' = "kernel"
          /\ UNCHANGED <<kernel, registered, probed, proc_umem, has_umem, cr4_func, failed_late>>
      BY <1>4, <2>1 DEF FindFlush, Step
    <3> QED BY <3>1
  <2>2. CASE "flush_tlb_mm_range" \notin found
    BY <1>4, <2>2 DEF FindFlush, InitError
  <2> QED BY <2>1, <2>2
<1>5. CASE FindCr4
  <2>1. CASE invpcid
    BY <1>5, <2>1 DEF FindCr4, Step
  <2>2. CASE ~invpcid /\ "native_write_cr4" \in found
    <3>1. /\ image = "coming" /\ image' = "coming" /\ at = "cr4" /\ at' = "probe"
          /\ cr4_func' = TRUE
          /\ UNCHANGED <<kernel, registered, probed, proc_umem, has_umem, flush_func,
                         invalidate_tlb, failed_late>>
      BY <1>5, <2>2 DEF FindCr4, Step
    <3> QED BY <3>1
  <2>3. CASE ~invpcid /\ "native_write_cr4" \notin found
    <3>1. /\ image = "coming" /\ image' = "none" /\ at = "cr4" /\ at' = "end"
          /\ failed_late' = TRUE
          /\ UNCHANGED <<kernel, registered, probed, proc_umem, has_umem, cr4_func, flush_func, invalidate_tlb>>
      BY <1>5, <2>3 DEF FindCr4, InitError
    <3> QED BY <3>1
  <2> QED BY <2>1, <2>2, <2>3
<1>6. CASE RegisterProbe
  <2>1. probed' \in BOOLEAN
    BY <1>6 DEF RegisterProbe
  <2> QED BY <1>6, <2>1 DEF RegisterProbe, Step
<1>7. CASE CreateUmem
  BY <1>7 DEF CreateUmem
<1>8. CASE Rmmod(Cardinality(OpenFiles))
  BY <1>8 DEF Rmmod
<1>9. CASE Deregister
  BY <1>9 DEF Deregister
<1>10. CASE UnregisterProbe
  BY <1>10 DEF UnregisterProbe
<1>11. CASE RemoveUmem
  <2>1. proc_umem' = FALSE
    BY <1>11 DEF RemoveUmem
  <2> QED BY <1>11, <2>1 DEF RemoveUmem
<1> QED BY <1>1, <1>2, <1>3, <1>4, <1>5, <1>6, <1>7, <1>8, <1>9, <1>10, <1>11
        DEF pteditor_init, pteditor_exit

\* Files of the device outlive no step of the module: rmmod counts them.
LEMMA ModuleKeepsFiles ==
  ASSUME ModuleInv, FilesInv, ModuleStep
  PROVE  FilesInv'
<1>1. OpenFiles' = OpenFiles
  BY DEF ModuleStep, OpenFiles, HoldsDevice
<1> USE <1>1 DEF FilesInv, ModuleInv, ModuleTypeOK, NoneInv, ComingInv, LiveInv, GoingInv,
                 LateInv, InitPlaces, ExitPlaces, kernel, statics
<1>2. CASE Insmod
  BY <1>2 DEF Insmod
<1>3. CASE FindKallsyms
  BY <1>3 DEF FindKallsyms, Step, InitError
<1>4. CASE Register
  BY <1>4 DEF Register, Step, InitError
<1>5. CASE FindFlush
  BY <1>5 DEF FindFlush, Step, InitError
<1>6. CASE FindCr4
  BY <1>6 DEF FindCr4, Step, InitError
<1>7. CASE RegisterProbe
  BY <1>7 DEF RegisterProbe, Step
<1>8. CASE CreateUmem
  BY <1>8 DEF CreateUmem
<1>9. CASE Rmmod(Cardinality(OpenFiles))
  <2>1. IsFiniteSet(OpenFiles)
    BY SessionAssumption, FS_Subset DEF OpenFiles
  <2>2. OpenFiles = {}
    BY <1>9, <2>1, FS_EmptySet DEF Rmmod
  <2> QED BY <2>2
<1>10. CASE pteditor_exit
  BY <1>10 DEF pteditor_exit, Deregister, UnregisterProbe, RemoveUmem
<1> QED BY <1>2, <1>3, <1>4, <1>5, <1>6, <1>7, <1>8, <1>9, <1>10
        DEF ModuleStep, pteditor_init

-----------------------------------------------------------------------------
(* Descriptors *)

LEMMA MinOfDescriptors ==
  ASSUME NEW S, S \subseteq Nat, S # {}
  PROVE  Min(S) \in S /\ \A x \in S : Min(S) <= x
<1>1. PICK m \in S : \A y \in S : ~ (<<y, m>> \in OpToRel(<, Nat))
  BY NatLessThanWellFounded, WFMin
<1>2. ASSUME NEW y \in S PROVE m <= y
  <2>1. y \in Nat /\ m \in Nat
    OBVIOUS
  <2>2. ~(y < m)
    BY <1>1, <2>1 DEF OpToRel
  <2> QED BY <2>1, <2>2
<1> QED BY <1>2 DEF Min

\* open takes a free descriptor, the lowest one.
LEMMA LowestIsFree ==
  ASSUME NEW tab \in [Fds -> Kinds]
  PROVE  /\ Lowest(tab) \in Fds \cup {-1}
         /\ Lowest(tab) # -1 => /\ tab[Lowest(tab)] = "free"
                                /\ \A fd \in Fds : tab[fd] = "free" => Lowest(tab) <= fd
<1> DEFINE free == {fd \in Fds : tab[fd] = "free"}
<1>1. CASE free = {}
  BY <1>1 DEF Lowest
<1>2. CASE free # {}
  <2>1. free \subseteq Nat
    BY SessionAssumption DEF Fds
  <2>2. Min(free) \in free /\ \A x \in free : Min(free) <= x
    BY <1>2, <2>1, MinOfDescriptors
  <2>3. Lowest(tab) = Min(free)
    BY <1>2 DEF Lowest
  <2> QED BY <2>2, <2>3
<1> QED BY <1>1, <1>2

\* open changes one free descriptor at most.
LEMMA OpenedTable ==
  ASSUME NEW tab \in [Fds -> Kinds], NEW kind \in Kinds
  PROVE  /\ Opened(tab, kind) \in [Fds -> Kinds]
         /\ \A fd \in Fds : Opened(tab, kind)[fd] =
                              IF fd = Lowest(tab) THEN kind ELSE tab[fd]
<1>1. -1 \notin Fds
  BY SessionAssumption DEF Fds
<1> QED BY <1>1, LowestIsFree DEF Opened

-----------------------------------------------------------------------------
(* Steps of a process *)

\* device_busy is no part of what holds of the module.
LEMMA BusyIsFree == ASSUME ModuleInv, UNCHANGED notBusy PROVE ModuleInv'
BY DEF ModuleInv, ModuleTypeOK, NoneInv, ComingInv, LiveInv, GoingInv, LateInv,
       notBusy, kernel

\* A step in which p opens no device leaves no more files of it than before.
LEMMA NoNewFiles ==
  ASSUME NEW p \in Procs, FilesInv, UNCHANGED notBusy,
         \A q \in Procs \ {p} : table'[q] = table[q],
         \A fd \in Fds : table'[p][fd] = "device" => table[p][fd] = "device"
  PROVE  FilesInv'
<1>1. OpenFiles' \subseteq OpenFiles
  BY DEF OpenFiles, HoldsDevice
<1> QED BY <1>1 DEF FilesInv, notBusy

LEMMA InitFailsKeeps ==
  ASSUME NEW p \in Procs, Inv, InitFails(p), Careful => ~up[p]
  PROVE  Inv' /\ (Careful /\ CarefulInv => CarefulInv')
<1> USE DEF Inv
<1>1. UNCHANGED <<table, notBusy>>
  BY DEF InitFails, moduleVars, notBusy, statics
<1>2. ModuleInv' /\ FilesInv'
  BY <1>1, BusyIsFree, NoNewFiles
<1>3. SessionTypeOK'
  BY DEF InitFails, SessionTypeOK
<1>4. UpInv'
  BY DEF InitFails, UpInv, SessionTypeOK
<1>5. Careful /\ CarefulInv => CarefulInv'
  BY DEF InitFails, CarefulInv, SessionTypeOK
<1> QED BY <1>2, <1>3, <1>4, <1>5

\* What ptedit_init opens: the device, and /proc/umem at a higher number.
LEMMA InitSucceedsTable ==
  ASSUME NEW p \in Procs, Inv, InitSucceeds(p)
  PROVE  \E a \in Fds, b \in Fds \cup {-1} :
           /\ table[p][a] = "free"
           /\ b # -1 => b > a /\ table[p][b] = "free"
           /\ ptedit_fd' = [ptedit_fd EXCEPT ![p] = a]
           /\ ptedit_umem' = [ptedit_umem EXCEPT ![p] = b]
           /\ table' = [table EXCEPT ![p] = table'[p]]
           /\ table'[p] \in [Fds -> Kinds]
           /\ \A fd \in Fds : table'[p][fd] = IF fd = a THEN "device"
                                              ELSE IF fd = b THEN "umem" ELSE table[p][fd]
<1> DEFINE a == Lowest(table[p])
           tab == Opened(table[p], "device")
           b == IF proc_umem THEN Lowest(tab) ELSE -1
<1>1. table[p] \in [Fds -> Kinds]
  BY DEF Inv, SessionTypeOK
<1>2. a \in Fds /\ table[p][a] = "free" /\ \A fd \in Fds : table[p][fd] = "free" => a <= fd
  BY <1>1, LowestIsFree DEF InitSucceeds
<1>3. /\ tab \in [Fds -> Kinds]
      /\ \A fd \in Fds : tab[fd] = IF fd = a THEN "device" ELSE table[p][fd]
  BY <1>1, OpenedTable DEF Kinds
<1>4. /\ Lowest(tab) \in Fds \cup {-1}
      /\ Lowest(tab) # -1 => tab[Lowest(tab)] = "free"
  BY <1>3, LowestIsFree
<1>5. /\ b \in Fds \cup {-1}
      /\ b # -1 => b = Lowest(tab) /\ table[p][b] = "free" /\ b # a
  BY <1>3, <1>4
<1>6. b # -1 => b > a
  BY <1>2, <1>5, SessionAssumption DEF Fds
<1>7. /\ Opened(tab, "umem") \in [Fds -> Kinds]
      /\ \A fd \in Fds : Opened(tab, "umem")[fd] = IF fd = Lowest(tab) THEN "umem" ELSE tab[fd]
  BY <1>3, OpenedTable DEF Kinds
<1>8. /\ ptedit_fd' = [ptedit_fd EXCEPT ![p] = a]
      /\ ptedit_umem' = [ptedit_umem EXCEPT ![p] = b]
      /\ table' = [table EXCEPT ![p] = IF b = -1 THEN tab ELSE Opened(tab, "umem")]
  BY DEF InitSucceeds
<1>9. table'[p] = IF b = -1 THEN tab ELSE Opened(tab, "umem")
  BY <1>8 DEF Inv, SessionTypeOK
<1>10. -1 \notin Fds
  BY SessionAssumption DEF Fds
<1>11. \A fd \in Fds : table'[p][fd] = IF fd = a THEN "device"
                                       ELSE IF fd = b THEN "umem" ELSE table[p][fd]
  <2>1. CASE b = -1
    BY <2>1, <1>3, <1>9, <1>10
  <2>2. CASE b # -1
    BY <2>2, <1>3, <1>5, <1>7, <1>9
  <2> QED BY <2>1, <2>2
<1>12. table'[p] \in [Fds -> Kinds]
  BY <1>3, <1>7, <1>9
<1>13. table' = [table EXCEPT ![p] = table'[p]]
  BY <1>8, <1>9
<1> HIDE DEF a, b, tab
<1> QED BY <1>2, <1>5, <1>6, <1>8, <1>11, <1>12, <1>13

LEMMA InitSucceedsKeeps ==
  ASSUME NEW p \in Procs, Inv, InitSucceeds(p), Careful => ~up[p]
  PROVE  Inv' /\ (Careful /\ CarefulInv => CarefulInv')
<1> USE DEF Inv
<1>1. PICK a \in Fds, b \in Fds \cup {-1} :
        /\ table[p][a] = "free"
        /\ b # -1 => b > a /\ table[p][b] = "free"
        /\ ptedit_fd' = [ptedit_fd EXCEPT ![p] = a]
        /\ ptedit_umem' = [ptedit_umem EXCEPT ![p] = b]
        /\ table' = [table EXCEPT ![p] = table'[p]]
        /\ table'[p] \in [Fds -> Kinds]
        /\ \A fd \in Fds : table'[p][fd] = IF fd = a THEN "device"
                                           ELSE IF fd = b THEN "umem" ELSE table[p][fd]
  BY InitSucceedsTable
<1>2. a \in Int /\ a >= 0 /\ -1 \notin Fds /\ Fds \subseteq Int
  BY SessionAssumption DEF Fds
<1>3. ModuleInv'
  BY BusyIsFree DEF InitSucceeds
<1>4. FilesInv'
  <2>1. registered /\ image \in {"coming", "live"} /\ UNCHANGED <<registered, image>>
    BY DEF InitSucceeds, Openable, notBusy
  <2> QED BY <2>1 DEF FilesInv
<1>5. SessionTypeOK'
  <2>1. table' \in [Procs -> [Fds -> Kinds]]
    BY <1>1 DEF SessionTypeOK
  <2>2. /\ ptedit_fd' \in [Procs -> Fds \cup {-1}]
        /\ ptedit_umem' \in [Procs -> Fds \cup {-1}]
    BY <1>1 DEF SessionTypeOK
  <2> QED BY <2>1, <2>2 DEF SessionTypeOK, InitSucceeds, Impls
<1>6. UpInv'
  <2> SUFFICES ASSUME NEW q \in Procs, up'[q]
               PROVE  /\ impl'[q] # "none"
                      /\ ptedit_fd'[q] # -1 /\ table'[q][ptedit_fd'[q]] = "device"
                      /\ \/ ptedit_umem'[q] = -1
                         \/ ptedit_umem'[q] > 0 /\ table'[q][ptedit_umem'[q]] = "umem"
    BY DEF UpInv
  <2>1. CASE q = p
    <3>1. ptedit_fd'[p] = a /\ ptedit_umem'[p] = b /\ impl'[p] = "KERNEL"
      BY <1>1 DEF InitSucceeds, SessionTypeOK
    <3>2. table'[p][a] = "device"
      BY <1>1
    <3>3. b # -1 => b > 0 /\ table'[p][b] = "umem"
      BY <1>1, <1>2
    <3> QED BY <2>1, <3>1, <3>2, <3>3, <1>2
  <2>2. CASE q # p
    <3>1. /\ table'[q] = table[q] /\ ptedit_fd'[q] = ptedit_fd[q]
          /\ ptedit_umem'[q] = ptedit_umem[q] /\ impl'[q] = impl[q] /\ up'[q] = up[q]
      BY <1>1, <2>2 DEF InitSucceeds, SessionTypeOK
    <3> QED BY <3>1 DEF UpInv
  <2> QED BY <2>1, <2>2
<1>7. ASSUME Careful, CarefulInv PROVE CarefulInv'
  <2> SUFFICES ASSUME NEW q \in Procs, NEW fd \in Fds
               PROVE  /\ table'[q][fd] = "device" => up'[q] /\ fd = ptedit_fd'[q]
                      /\ table'[q][fd] = "umem" => up'[q] /\ fd = ptedit_umem'[q]
    BY DEF CarefulInv
  <2>1. CASE q = p
    <3>1. table[p][fd] # "device" /\ table[p][fd] # "umem"
      BY <1>7 DEF CarefulInv
    <3>2. ptedit_fd'[p] = a /\ ptedit_umem'[p] = b /\ up'[p] = TRUE
      BY <1>1 DEF InitSucceeds, SessionTypeOK
    <3> QED BY <2>1, <3>1, <3>2, <1>1
  <2>2. CASE q # p
    <3>1. /\ table'[q] = table[q] /\ ptedit_fd'[q] = ptedit_fd[q]
          /\ ptedit_umem'[q] = ptedit_umem[q] /\ up'[q] = up[q]
      BY <1>1, <2>2 DEF InitSucceeds, SessionTypeOK
    <3> QED BY <3>1, <1>7 DEF CarefulInv
  <2> QED BY <2>1, <2>2
<1> QED BY <1>3, <1>4, <1>5, <1>6, <1>7

\* What ptedit_cleanup closes: exactly the two descriptors in the globals.
LEMMA CleanupTable ==
  ASSUME NEW p \in Procs, Inv, ptedit_cleanup(p)
  PROVE  /\ table' = [table EXCEPT ![p] = table'[p]]
         /\ table'[p] \in [Fds -> Kinds]
         /\ \A fd \in Fds :
              table'[p][fd] = IF fd = ptedit_fd[p] \/ (fd = ptedit_umem[p] /\ fd > 0)
                                THEN "free" ELSE table[p][fd]
<1> DEFINE fd0 == ptedit_fd[p]
           umem == ptedit_umem[p]
           tab == IF fd0 >= 0 THEN Closed(table[p], fd0) ELSE table[p]
           done == IF umem > 0 THEN Closed(tab, umem) ELSE tab
<1>1. /\ table[p] \in [Fds -> Kinds] /\ table \in [Procs -> [Fds -> Kinds]]
      /\ fd0 \in Fds \cup {-1} /\ umem \in Fds \cup {-1}
  BY DEF Inv, SessionTypeOK
<1>2. Fds \subseteq Nat
  BY SessionAssumption DEF Fds
<1>3. /\ tab \in [Fds -> Kinds]
      /\ \A fd \in Fds : tab[fd] = IF fd = fd0 THEN "free" ELSE table[p][fd]
  BY <1>1, <1>2 DEF Closed, Kinds
<1>4. /\ done \in [Fds -> Kinds]
      /\ \A fd \in Fds : done[fd] = IF fd = umem /\ fd > 0 THEN "free" ELSE tab[fd]
  <2> HIDE DEF tab
  <2> QED BY <1>1, <1>2, <1>3 DEF Closed, Kinds
<1>5. table' = [table EXCEPT ![p] = done]
  BY DEF ptedit_cleanup
<1>6. table'[p] = done
  BY <1>1, <1>5
<1> HIDE DEF tab, done
<1> QED BY <1>3, <1>4, <1>5, <1>6

LEMMA CleanupKeeps ==
  ASSUME NEW p \in Procs, Inv, ptedit_cleanup(p)
  PROVE  Inv' /\ (Careful /\ CarefulInv => CarefulInv')
<1> USE DEF Inv
<1>1. /\ \A q \in Procs \ {p} : table'[q] = table[q]
      /\ table' \in [Procs -> [Fds -> Kinds]]
      /\ \A fd \in Fds : table'[p][fd] = "free" \/ table'[p][fd] = table[p][fd]
  <2>1. table \in [Procs -> [Fds -> Kinds]]
    BY DEF SessionTypeOK
  <2>2. /\ table' = [table EXCEPT ![p] = table'[p]]
        /\ table'[p] \in [Fds -> Kinds]
    BY CleanupTable
  <2>3. \A fd \in Fds : table'[p][fd] = "free" \/ table'[p][fd] = table[p][fd]
    BY CleanupTable
  <2> QED BY <2>1, <2>2, <2>3
<1>2. UNCHANGED <<globals, notBusy>> /\ up' = [up EXCEPT ![p] = FALSE]
  BY DEF ptedit_cleanup
<1>3. ModuleInv' /\ FilesInv'
  BY <1>1, <1>2, BusyIsFree, NoNewFiles
<1>4. SessionTypeOK'
  BY <1>1, <1>2 DEF SessionTypeOK, globals
<1>5. UpInv'
  BY <1>1, <1>2 DEF UpInv, SessionTypeOK, globals
<1>6. ASSUME Careful, CarefulInv PROVE CarefulInv'
  <2> SUFFICES ASSUME NEW q \in Procs, NEW fd \in Fds
               PROVE  /\ table'[q][fd] = "device" => up'[q] /\ fd = ptedit_fd'[q]
                      /\ table'[q][fd] = "umem" => up'[q] /\ fd = ptedit_umem'[q]
    BY DEF CarefulInv
  <2>1. CASE q = p
    <3>1. up[p] /\ -1 \notin Fds
      BY <1>6, SessionAssumption DEF ptedit_cleanup, Fds
    <3>2. ptedit_umem[p] \in Fds => ptedit_umem[p] > 0
      BY <3>1 DEF UpInv
    <3>3. table'[p][fd] # "device" /\ table'[p][fd] # "umem"
      BY <3>1, <3>2, <1>6, CleanupTable DEF CarefulInv
    <3> QED BY <2>1, <3>3
  <2>2. CASE q # p
    BY <2>2, <1>1, <1>2, <1>6 DEF CarefulInv, SessionTypeOK, globals
  <2> QED BY <2>1, <2>2
<1> QED BY <1>3, <1>4, <1>5, <1>6

LEMMA UseImplementationKeeps ==
  ASSUME NEW p \in Procs, NEW i \in Impls, Inv, ptedit_use_implementation(p, i)
  PROVE  Inv' /\ (Careful /\ CarefulInv => CarefulInv')
<1> USE DEF Inv
<1>1. UNCHANGED <<table, ptedit_fd, ptedit_umem, up, notBusy>>
  BY DEF ptedit_use_implementation, moduleVars, notBusy, statics
<1>2. ModuleInv' /\ FilesInv'
  BY <1>1, BusyIsFree, NoNewFiles
<1>3. MapUmem(p) \in {"NULL", "mapped", "MAP_FAILED"}
  BY DEF MapUmem, SessionTypeOK
<1>4. SessionTypeOK'
  BY <1>1, <1>3 DEF ptedit_use_implementation, SessionTypeOK
<1>5. UpInv'
  BY <1>1 DEF ptedit_use_implementation, UpInv, SessionTypeOK, Impls
<1>6. CarefulInv => CarefulInv'
  BY <1>1 DEF CarefulInv
<1> QED BY <1>2, <1>4, <1>5, <1>6

\* A switch after insmod has returned chooses between two functions that may
\* both be called.
LEMMA SwitchKeeps ==
  ASSUME NEW p \in Procs, Inv, ptedit_switch_tlb_invalidation(p)
  PROVE  Inv' /\ (Careful /\ CarefulInv => CarefulInv')
<1> USE DEF Inv
<1>1. /\ UNCHANGED <<table, ptedit_fd, ptedit_umem, ptedit_vmem, impl, up>>
      /\ UNCHANGED <<invpcid, image, at, registered, probed, proc_umem, has_umem,
                     flush_func, cr4_func, failed_late>>
      /\ invalidate_tlb' \in {"kernel", "custom"}
  BY DEF ptedit_switch_tlb_invalidation, SwitchTlbInvalidation, globals, kernel
<1>2. ModuleInv'
  BY <1>1 DEF ModuleInv, ModuleTypeOK, NoneInv, ComingInv, LiveInv, GoingInv, LateInv
<1>3. FilesInv'
  BY <1>1 DEF FilesInv, OpenFiles, HoldsDevice
<1>4. SessionTypeOK' /\ UpInv' /\ (CarefulInv => CarefulInv')
  BY <1>1 DEF SessionTypeOK, UpInv, CarefulInv
<1> QED BY <1>2, <1>3, <1>4

LEMMA OpenOtherKeeps ==
  ASSUME NEW p \in Procs, Inv, OpenOther(p)
  PROVE  Inv' /\ (Careful /\ CarefulInv => CarefulInv')
<1> USE DEF Inv
<1>1. UNCHANGED <<ptedit_fd, ptedit_umem, ptedit_vmem, impl, up, notBusy>>
  BY DEF OpenOther, globals, moduleVars, notBusy, statics
<1>2. table[p] \in [Fds -> Kinds] /\ Lowest(table[p]) # -1
  BY DEF OpenOther, SessionTypeOK
<1>3. /\ table' = [table EXCEPT ![p] = Opened(table[p], "other")]
      /\ Opened(table[p], "other") \in [Fds -> Kinds]
      /\ \A fd \in Fds : Opened(table[p], "other")[fd] =
                           IF fd = Lowest(table[p]) THEN "other" ELSE table[p][fd]
      /\ table[p][Lowest(table[p])] = "free"
  BY <1>2, OpenedTable, LowestIsFree DEF OpenOther, Kinds
<1>4. /\ table' \in [Procs -> [Fds -> Kinds]]
      /\ \A q \in Procs \ {p} : table'[q] = table[q]
      /\ \A fd \in Fds : \/ table'[p][fd] = table[p][fd]
                         \/ table'[p][fd] = "other" /\ table[p][fd] = "free"
  BY <1>3 DEF SessionTypeOK
<1>5. ModuleInv' /\ FilesInv'
  BY <1>1, <1>4, BusyIsFree, NoNewFiles
<1>6. SessionTypeOK'
  BY <1>1, <1>4 DEF SessionTypeOK
<1>7. UpInv'
  BY <1>1, <1>4 DEF UpInv, SessionTypeOK
<1>8. CarefulInv => CarefulInv'
  BY <1>1, <1>4 DEF CarefulInv
<1> QED BY <1>5, <1>6, <1>7, <1>8

LEMMA CloseOtherKeeps ==
  ASSUME NEW p \in Procs, NEW f \in Fds, Inv, CloseOther(p, f)
  PROVE  Inv' /\ (Careful /\ CarefulInv => CarefulInv')
<1> USE DEF Inv
<1>1. UNCHANGED <<ptedit_fd, ptedit_umem, ptedit_vmem, impl, up, notBusy>>
  BY DEF CloseOther, globals, moduleVars, notBusy, statics
<1>2. /\ table' \in [Procs -> [Fds -> Kinds]]
      /\ \A q \in Procs \ {p} : table'[q] = table[q]
      /\ \A fd \in Fds : \/ table'[p][fd] = table[p][fd]
                         \/ table'[p][fd] = "free" /\ table[p][fd] = "other"
  BY DEF CloseOther, Closed, SessionTypeOK, Kinds
<1>3. ModuleInv' /\ FilesInv'
  BY <1>1, <1>2, BusyIsFree, NoNewFiles
<1>4. SessionTypeOK'
  BY <1>1, <1>2 DEF SessionTypeOK
<1>5. UpInv'
  BY <1>1, <1>2 DEF UpInv, SessionTypeOK
<1>6. CarefulInv => CarefulInv'
  BY <1>1, <1>2 DEF CarefulInv
<1> QED BY <1>3, <1>4, <1>5, <1>6

LEMMA RestartKeeps ==
  ASSUME NEW p \in Procs, Inv, Restart(p)
  PROVE  Inv' /\ (Careful /\ CarefulInv => CarefulInv')
<1> USE DEF Inv
<1>1. /\ Fresh \in [Fds -> Kinds] /\ 0 \in Fds
      /\ \A fd \in Fds : Fresh[fd] \in {"free", "other"}
  BY SessionAssumption DEF Fresh, Kinds, Fds
<1>2. /\ table' \in [Procs -> [Fds -> Kinds]]
      /\ \A q \in Procs \ {p} : table'[q] = table[q]
      /\ \A fd \in Fds : table'[p][fd] \in {"free", "other"}
  BY <1>1 DEF Restart, SessionTypeOK
<1>3. ModuleInv' /\ FilesInv'
  BY <1>2, BusyIsFree, NoNewFiles DEF Restart
<1>4. SessionTypeOK'
  BY <1>1, <1>2 DEF Restart, SessionTypeOK
<1>5. UpInv'
  BY <1>2 DEF Restart, UpInv, SessionTypeOK
<1>6. ASSUME CarefulInv PROVE CarefulInv'
  <2>1. \A q \in Procs \ {p} : /\ up'[q] = up[q] /\ ptedit_fd'[q] = ptedit_fd[q]
                               /\ ptedit_umem'[q] = ptedit_umem[q]
    BY DEF Restart, SessionTypeOK
  <2> QED BY <1>2, <1>6, <2>1 DEF CarefulInv
<1> QED BY <1>3, <1>4, <1>5, <1>6

-----------------------------------------------------------------------------

LEMMA InitInv == Init => Inv /\ CarefulInv
<1> SUFFICES ASSUME Init PROVE Inv /\ CarefulInv
  OBVIOUS
<1>1. /\ Fresh \in [Fds -> Kinds] /\ 0 \in Fds
      /\ \A fd \in Fds : Fresh[fd] \in {"free", "other"}
  BY SessionAssumption DEF Fresh, Kinds, Fds
<1>2. ModuleInv
  BY DEF Init, ModuleInit, ModuleInv, ModuleTypeOK, NoneInv, ComingInv, LiveInv, GoingInv,
         LateInv
<1>3. SessionTypeOK
  BY <1>1 DEF Init, SessionTypeOK
<1>4. OpenFiles = {} /\ UpInv /\ CarefulInv
  BY <1>1 DEF Init, OpenFiles, HoldsDevice, UpInv, CarefulInv
<1> QED BY <1>2, <1>3, <1>4 DEF Inv, FilesInv

LEMMA NextInv ==
  Inv /\ [Next]_vars => Inv' /\ (Careful /\ CarefulInv => CarefulInv')
<1> SUFFICES ASSUME Inv, [Next]_vars
             PROVE  Inv' /\ (Careful /\ CarefulInv => CarefulInv')
  OBVIOUS
<1>1. CASE ModuleStep
  <2>1. ModuleInv' /\ FilesInv'
    BY <1>1, ModuleKeepsInv, ModuleKeepsFiles DEF ModuleStep, Inv
  <2>2. UNCHANGED <<table, ptedit_fd, ptedit_umem, ptedit_vmem, impl, up>>
    BY <1>1 DEF ModuleStep, globals
  <2>3. SessionTypeOK' /\ UpInv' /\ (CarefulInv => CarefulInv')
    BY <2>2 DEF Inv, SessionTypeOK, UpInv, CarefulInv
  <2> QED BY <2>1, <2>3 DEF Inv
<1>2. ASSUME NEW p \in Procs, SessionStep(p)
      PROVE  Inv' /\ (Careful /\ CarefulInv => CarefulInv')
  <2>1. CASE ptedit_init(p)
    BY <2>1, InitFailsKeeps, InitSucceedsKeeps DEF ptedit_init
  <2>2. CASE ptedit_cleanup(p)
    BY <2>2, CleanupKeeps
  <2>3. CASE \E i \in Impls : ptedit_use_implementation(p, i)
    BY <2>3, UseImplementationKeeps
  <2>4. CASE ptedit_switch_tlb_invalidation(p)
    BY <2>4, SwitchKeeps
  <2>5. CASE OpenOther(p)
    BY <2>5, OpenOtherKeeps
  <2>6. CASE \E fd \in Fds : CloseOther(p, fd)
    BY <2>6, CloseOtherKeeps
  <2>7. CASE Restart(p)
    BY <2>7, RestartKeeps
  <2> QED BY <1>2, <2>1, <2>2, <2>3, <2>4, <2>5, <2>6, <2>7 DEF SessionStep
<1>3. CASE UNCHANGED vars
  <2>1. /\ UNCHANGED <<table, ptedit_fd, ptedit_umem, ptedit_vmem, impl, up>>
        /\ UNCHANGED notBusy
    BY <1>3 DEF vars, globals, moduleVars, notBusy, statics
  <2>2. ModuleInv'
    BY <2>1, BusyIsFree DEF Inv
  <2>3. FilesInv'
    BY <2>1 DEF Inv, FilesInv, OpenFiles, HoldsDevice, notBusy
  <2>4. SessionTypeOK' /\ UpInv' /\ (CarefulInv => CarefulInv')
    BY <2>1 DEF Inv, SessionTypeOK, UpInv, CarefulInv
  <2> QED BY <2>2, <2>3, <2>4 DEF Inv
<1> QED BY <1>1, <1>2, <1>3 DEF Next

LEMMA SpecInv == Spec => []Inv
BY InitInv, NextInv, PTL DEF Spec

LEMMA SpecCarefulInv == Careful => (Spec => [](Inv /\ CarefulInv))
<1> SUFFICES ASSUME Careful PROVE Spec => [](Inv /\ CarefulInv)
  OBVIOUS
<1>1. Inv /\ CarefulInv /\ [Next]_vars => (Inv /\ CarefulInv)'
  BY NextInv
<1> QED BY <1>1, InitInv, PTL DEF Spec

\* In every state, the descriptors, globals and static variables have the
\* values the declarations in ptedit.c and pteditor.c allow.
THEOREM SessionTypeCorrect == Spec => [](ModuleTypeOK /\ SessionTypeOK)
<1>1. Inv => ModuleTypeOK /\ SessionTypeOK
  BY DEF Inv, ModuleInv
<1> QED BY <1>1, SpecInv, PTL

\* Whatever symbols the kernel lacks and wherever pteditor_init stops, a
\* module that is gone leaves no probe and no /proc/umem, and a device only
\* after a failure behind misc_register.
THEOREM GoneModuleLeavesNothing == Spec => []NothingLeft
<1>1. Inv => NothingLeft
  BY DEF Inv, ModuleInv, NoneInv, NothingLeft
<1> QED BY <1>1, SpecInv, PTL

\* Any number of processes may open and close the device while the module
\* comes and goes: none has it open without a module behind it whose TLB
\* invalidation may be called, but for the cases OpenFilesSafe names.
THEOREM OpenFilesAreSafe == Spec => []OpenFilesSafe
<1>1. Inv => OpenFilesSafe
  <2> SUFFICES ASSUME Inv, NEW p \in OpenFiles
               PROVE  \/ image = "live" /\ TlbCallSafe
                      \/ image = "coming"
                      \/ image = "none" /\ failed_late
    BY DEF OpenFilesSafe
  <2>1. image = "live" => TlbCallSafe
    BY DEF Inv, ModuleInv, ModuleTypeOK, LiveInv, TlbCallSafe
  <2> QED BY <2>1 DEF Inv, ModuleInv, ModuleTypeOK, FilesInv
<1> QED BY <1>1, SpecInv, PTL

\* No call of the library goes to a file the program opened itself, however
\* ptedit_init, ptedit_cleanup and the program's own opens and closes follow
\* each other, also in programs that do not pair them.
THEOREM NoCallReachesForeignFile == Spec => []NoForeignFile
<1>1. Inv => NoForeignFile
  <2> SUFFICES ASSUME Inv, NEW p \in Procs, up[p]
               PROVE  TranslateUses(p) # "other" /\ AccessUses(p) # "other"
    BY DEF NoForeignFile
  <2>1. /\ impl[p] \in Impls
        /\ ptedit_fd[p] \in Fds /\ table[p][ptedit_fd[p]] = "device"
        /\ \/ ptedit_umem[p] = -1
           \/ ptedit_umem[p] > 0 /\ table[p][ptedit_umem[p]] = "umem"
        /\ ptedit_umem[p] \in Fds \cup {-1}
        /\ ptedit_vmem[p] # "other"
    BY DEF Inv, SessionTypeOK, UpInv
  <2>2. Behind(p, ptedit_fd[p]) = "device" /\ Behind(p, ptedit_umem[p]) # "other"
    <3>1. -1 \notin Fds
      BY SessionAssumption DEF Fds
    <3>2. Behind(p, ptedit_fd[p]) = "device"
      BY <2>1 DEF Behind
    <3>3. ptedit_umem[p] = -1 => Behind(p, ptedit_umem[p]) = "free"
      BY <3>1 DEF Behind
    <3>4. ptedit_umem[p] # -1 => Behind(p, ptedit_umem[p]) = "umem"
      BY <2>1 DEF Behind
    <3> QED BY <3>2, <3>3, <3>4
  <2>3. TranslateUses(p) # "other"
    BY <2>1, <2>2 DEF TranslateUses, Impls
  <2>4. AccessUses(p) # "other"
    BY <2>1, <2>2 DEF AccessUses
  <2> QED BY <2>3, <2>4
<1> QED BY <1>1, SpecInv, PTL

\* In programs that pair the two, ptedit_cleanup leaves neither the device nor
\* /proc/umem open, also after sessions in which /proc/umem did not exist.
THEOREM CleanupReleasesAll == Careful => (Spec => CleanupReleases)
<1> SUFFICES ASSUME Careful PROVE Spec => CleanupReleases
  OBVIOUS
<1>1. ASSUME Inv, CarefulInv, NEW p \in Procs, ptedit_cleanup(p), NEW fd \in Fds
      PROVE  table'[p][fd] \notin {"device", "umem"}
  <2>1. up[p] /\ -1 \notin Fds
    BY <1>1, SessionAssumption DEF ptedit_cleanup, Fds
  <2>2. ptedit_umem[p] \in Fds => ptedit_umem[p] > 0
    BY <1>1, <2>1 DEF Inv, UpInv
  <2> QED BY <1>1, <2>1, <2>2, CleanupTable DEF CarefulInv
<1>2. Inv /\ CarefulInv =>
        \A p \in Procs : ptedit_cleanup(p) =>
                           \A fd \in Fds : table'[p][fd] \notin {"device", "umem"}
  BY <1>1
<1> QED BY <1>2, SpecCarefulInv, PTL DEF CleanupReleases

\* In programs that pair the two, ptedit_cleanup closes no file of the program.
THEOREM CleanupSparesProgramFiles == Careful => (Spec => ProgramFilesStay)
<1> SUFFICES ASSUME Careful PROVE Spec => ProgramFilesStay
  OBVIOUS
<1>1. ASSUME Inv, NEW p \in Procs, NEW fd \in Fds, ptedit_cleanup(p), table[p][fd] = "other"
      PROVE  table'[p][fd] = "other"
  <2>1. up[p]
    BY <1>1 DEF ptedit_cleanup
  <2>2. fd # ptedit_fd[p] /\ ~(fd = ptedit_umem[p] /\ fd > 0)
    BY <1>1, <2>1 DEF Inv, UpInv
  <2> QED BY <1>1, <2>2, CleanupTable
<1>2. Inv => \A p \in Procs, fd \in Fds :
               ptedit_cleanup(p) /\ table[p][fd] = "other" => table'[p][fd] = "other"
  BY <1>1
<1> QED BY <1>2, SpecInv, PTL DEF ProgramFilesStay
=============================================================================
