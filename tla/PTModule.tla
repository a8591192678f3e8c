------------------------------ MODULE PTModule ------------------------------
(***************************************************************************)
(* Loading and unloading of the kernel module: pteditor_init,              *)
(* pteditor_exit and the static variables they set, step by step, on an    *)
(* x86_64 kernel in which some symbols may not be found.  Programs may     *)
(* open the device as soon as misc_register has returned.                  *)
(***************************************************************************)
CONSTANT Symbols        \* sets of symbols kallsyms_lookup_name may find

\* What pteditor_init looks up; "mem" stands for memory_lseek, read_mem,
\* write_mem and mmap_mem together.
AllSymbols == {"kallsyms_lookup_name", "flush_tlb_mm_range", "native_write_cr4",
               "devmem_is_allowed", "mem"}

ASSUME SymbolsAssumption == Symbols \subseteq SUBSET AllSymbols

VARIABLES
  found,                \* the symbols of this kernel
  invpcid,              \* the CPU has X86_FEATURE_INVPCID_SINGLE
  image,                \* the module: "none", "coming", "live" or "going"
  at,                   \* what pteditor_init or pteditor_exit does next
  registered,           \* the device exists
  probed,               \* the return probe of devmem_is_allowed is set
  proc_umem,                 \* /proc/umem exists
  has_umem, invalidate_tlb, flush_func, cr4_func, device_busy,  \* static variables
  failed_late           \* history: pteditor_init failed and left the device

statics == <<has_umem, invalidate_tlb, flush_func, cr4_func, device_busy>>
kernel == <<found, invpcid>>
moduleVars == <<kernel, image, at, registered, probed, proc_umem, statics, failed_late>>

ModuleInit ==
  /\ found \in Symbols /\ invpcid \in BOOLEAN
  /\ image = "none" /\ at = "end"
  /\ registered = FALSE /\ probed = FALSE /\ proc_umem = FALSE
  /\ has_umem = FALSE /\ device_busy = FALSE
  /\ invalidate_tlb = "NULL" /\ flush_func = FALSE /\ cr4_func = FALSE
  /\ failed_late = FALSE

-----------------------------------------------------------------------------

\* insmod (external): static variables have their initial values.
Insmod ==
  /\ image = "none"
  /\ image' = "coming" /\ at' = "kallsyms"
  /\ has_umem' = FALSE /\ device_busy' = FALSE
  /\ invalidate_tlb' = "NULL" /\ flush_func' = FALSE /\ cr4_func' = FALSE
  /\ UNCHANGED <<kernel, registered, probed, proc_umem, failed_late>>

Step(from, to) == image = "coming" /\ at = from /\ at' = to /\ UNCHANGED image

\* An error code from pteditor_init: the module is freed, whoever uses it.
InitError(from) == at = from /\ image = "coming" /\ image' = "none" /\ at' = "end"

FindKallsyms ==
  /\ IF "kallsyms_lookup_name" \in found THEN Step("kallsyms", "register")
                                          ELSE InitError("kallsyms")
  /\ UNCHANGED <<kernel, registered, probed, proc_umem, statics, failed_late>>

\* The name of a device left behind cannot be registered again; memory or
\* minor numbers may also have run out.
Register ==
  /\ \/ Step("register", "flush") /\ ~registered /\ registered' = TRUE
     \/ InitError("register") /\ UNCHANGED registered
  /\ UNCHANGED <<kernel, probed, proc_umem, statics, failed_late>>

\* From here on an error leaves the device registered.
FindFlush ==
  /\ \/ /\ "flush_tlb_mm_range" \in found
        /\ Step("flush", "cr4")
        /\ flush_func' = TRUE /\ invalidate_tlb' = "kernel"
        /\ UNCHANGED failed_late
     \/ /\ "flush_tlb_mm_range" \notin found
        /\ InitError("flush")
        /\ failed_late' = TRUE
        /\ UNCHANGED <<flush_func, invalidate_tlb>>
  /\ UNCHANGED <<kernel, registered, probed, proc_umem, has_umem, cr4_func, device_busy>>

FindCr4Always ==           \* erroneous: looked up only where it is not needed
  /\ Step("cr4", "probe")
  /\ cr4_func' = (invpcid /\ "native_write_cr4" \in found)
  /\ UNCHANGED <<failed_late, kernel, registered, probed, proc_umem,
                 has_umem, flush_func, invalidate_tlb, device_busy>>

\* native_write_cr4 is needed only without INVPCID.
FindCr4 ==
  /\ \/ /\ invpcid
        /\ Step("cr4", "probe")
        /\ UNCHANGED <<cr4_func, failed_late>>
     \/ /\ ~invpcid /\ "native_write_cr4" \in found
        /\ Step("cr4", "probe")
        /\ cr4_func' = TRUE
        /\ UNCHANGED failed_late
     \/ /\ ~invpcid /\ "native_write_cr4" \notin found
        /\ InitError("cr4")
        /\ failed_late' = TRUE
        /\ UNCHANGED cr4_func
  /\ UNCHANGED <<kernel, registered, probed, proc_umem, has_umem, flush_func, invalidate_tlb, device_busy>>

\* A failure is only reported.
RegisterProbe ==
  /\ Step("probe", "umem")
  /\ probed' = ("devmem_is_allowed" \in found)
  /\ UNCHANGED <<kernel, registered, proc_umem, statics, failed_late>>

\* The result of proc_create is not tested.
CreateUmem ==
  /\ at = "umem" /\ image = "coming" /\ image' = "live" /\ at' = "end"
  /\ IF "mem" \in found THEN proc_umem' \in BOOLEAN /\ has_umem' = TRUE
                        ELSE UNCHANGED <<proc_umem, has_umem>>
  /\ UNCHANGED <<kernel, registered, probed, invalidate_tlb, flush_func, cr4_func,
                 device_busy, failed_late>>

pteditor_init ==
  FindKallsyms \/ Register \/ FindFlush \/ FindCr4 \/ RegisterProbe \/ CreateUmem

-----------------------------------------------------------------------------

\* rmmod (external) refuses a module that is in use; f_ops.owner makes every
\* open file a use.
Rmmod(users) ==
  /\ image = "live" /\ users = 0
  /\ image' = "going" /\ at' = "deregister"
  /\ UNCHANGED <<kernel, registered, probed, proc_umem, statics, failed_late>>

Deregister ==
  /\ image = "going" /\ at = "deregister"
  /\ registered' = FALSE /\ at' = "unprobe"
  /\ UNCHANGED <<kernel, image, probed, proc_umem, statics, failed_late>>

\* Also for a probe that was not registered, which the kernel ignores.
UnregisterProbe ==
  /\ image = "going" /\ at = "unprobe"
  /\ probed' = FALSE /\ at' = "remove"
  /\ UNCHANGED <<kernel, image, registered, proc_umem, statics, failed_late>>

ExitKeepsUmem ==           \* erroneous: /proc/umem is not removed
  /\ image = "going" /\ at = "remove"
  /\ image' = "none" /\ at' = "end"
  /\ UNCHANGED <<proc_umem, kernel, registered, probed, statics, failed_late>>

RemoveUmem ==
  /\ image = "going" /\ at = "remove"
  /\ image' = "none" /\ at' = "end"
  /\ proc_umem' = (proc_umem /\ ~has_umem)
  /\ UNCHANGED <<kernel, registered, probed, statics, failed_late>>

pteditor_exit == Deregister \/ UnregisterProbe \/ RemoveUmem

-----------------------------------------------------------------------------
(* Requests that use what pteditor_init looked up *)

\* device_ioctl: SWITCH_TLB_INVALIDATION, with either argument.
SwitchTlbInvalidation ==
  /\ invalidate_tlb' \in {"kernel", "custom"}
  /\ UNCHANGED <<kernel, image, at, registered, probed, proc_umem,
                 has_umem, flush_func, cr4_func, device_busy, failed_late>>

\* invalidate_tlb may be called: it points to a function whose own pointer
\* is set.  _invalidate_tlb uses native_write_cr4_func only without INVPCID.
TlbCallSafe ==
  CASE invalidate_tlb = "NULL" -> FALSE
    [] invalidate_tlb = "kernel" -> flush_func
    [] invalidate_tlb = "custom" -> invpcid \/ cr4_func

-----------------------------------------------------------------------------
(* Properties *)

\* A module that is gone leaves nothing that points into it: no device, no
\* probe and no /proc/umem, except that a pteditor_init which failed after
\* misc_register leaves the device.
NothingLeft ==
  image = "none" => /\ ~probed /\ ~proc_umem
                    /\ registered => failed_late
=============================================================================
