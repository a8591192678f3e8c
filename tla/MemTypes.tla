------------------------------ MODULE MemTypes ------------------------------
(***************************************************************************)
(* Memory types: the PAT register (MAIR_EL1 on aarch64) that every CPU has *)
(* a copy of, the library functions that read, search and program it, and  *)
(* the program that uses them, with the entry functions, to change the     *)
(* type of a page (demos/uncachable.c) and its entry.                      *)
(*                                                                         *)
(* The register is eight bytes; attribute number i is byte i.  It is read  *)
(* on the CPU the caller happens to run on and written on every CPU, one   *)
(* CPU after the other (on_each_cpu).  Several threads may do so at once.  *)
(***************************************************************************)
EXTENDS PTMemType, PTEntrySeq

CONSTANTS Cpus, Threads,
          Requests,     \* records [fn, mt, value] the threads ask for
          InitPats,     \* values of the register at the start, on all CPUs
          None

VARIABLES pat,          \* cpu |-> register
          pc, req,      \* thread |-> place, and its request
          mts,          \* its local copy of the register
          left,         \* CPUs on which on_each_cpu has still to run _set_pat
          ret,          \* the value its request returns
          before        \* history: the register it read
                        \* (and entry, last: the entry of the page)

vars == <<entryVars, pat, pc, req, mts, left, ret, before>>

MtFns == {"get_mt", "find_mt", "set_mt", "set_mts", "retype", "edit"}

ASSUME MemTypesAssumption ==
  /\ Cpus # {}
  /\ InitPats \subseteq Word
  /\ \A r \in Requests : r.fn \in MtFns /\ r.mt \in Ids /\ r.value \in Word

-----------------------------------------------------------------------------

Init ==
  /\ EntryInit
  /\ \E w \in InitPats : pat = [c \in Cpus |-> w]
  /\ pc = [t \in Threads |-> "idle"]
  /\ req = [t \in Threads |-> None]
  /\ mts = [t \in Threads |-> {}]
  /\ left = [t \in Threads |-> {}]
  /\ ret = [t \in Threads |-> None]
  /\ before = [t \in Threads |-> {}]

Goto(t, l) == pc' = [pc EXCEPT ![t] = l]

\* ptedit_set_mts programs its argument, the entry functions take the entry
\* of the page, everything else reads the register first.
Begin(t, r) ==
  /\ pc[t] = "idle"
  /\ req' = [req EXCEPT ![t] = r]
  /\ IF r.fn = "set_mts"
       THEN /\ mts' = [mts EXCEPT ![t] = r.value]
            /\ left' = [left EXCEPT ![t] = Cpus]
            /\ Goto(t, "program")
       ELSE /\ Goto(t, IF r.fn = "edit" THEN "edit" ELSE "read")
            /\ UNCHANGED <<mts, left>>
  /\ UNCHANGED <<entryVars, pat, ret, before>>

\* ptedit_get_mts on some CPU, and what the caller makes of the value.
Read(t, cpu) ==
  LET r == req[t]
      w == GetPat(pat[cpu])
      Answer(x) == /\ ret' = [ret EXCEPT ![t] = x]
                   /\ Goto(t, "return") /\ UNCHANGED <<mts, left>>
  IN  /\ pc[t] = "read"
      /\ before' = [before EXCEPT ![t] = w]
      /\ \/ r.fn = "get_mt" /\ Answer(MtValue(w, r.mt))
         \/ r.fn = "find_mt" /\ Answer(ptedit_find_mt(w, r.value))
         \/ /\ r.fn = "retype"
            /\ ptedit_find_first_mt(w, r.value) = -1
            /\ Answer(-1)
         \/ /\ r.fn = "retype"
            /\ ptedit_find_first_mt(w, r.value) # -1
            /\ ret' = [ret EXCEPT ![t] = ptedit_find_first_mt(w, r.value)]
            /\ Goto(t, "apply") /\ UNCHANGED <<mts, left>>
         \/ /\ r.fn = "set_mt"
            /\ \E n \in SetMtOutcomes(w, r.mt, r.value) : mts' = [mts EXCEPT ![t] = n]
            /\ left' = [left EXCEPT ![t] = Cpus]
            /\ Goto(t, "program") /\ UNCHANGED ret
      /\ UNCHANGED <<entryVars, pat, req>>

\* on_each_cpu runs _set_pat on one CPU; set_pat returns after the last.
Program(t, cpu) ==
  /\ pc[t] = "program" /\ cpu \in left[t]
  /\ pat' = [pat EXCEPT ![cpu] = mts[t]]
  /\ left' = [left EXCEPT ![t] = @ \ {cpu}]
  /\ Goto(t, IF left[t] = {cpu} THEN "return" ELSE "program")
  /\ UNCHANGED <<entryVars, req, mts, ret, before>>

\* The program updates the page's entry with the attribute it found.
Apply(t) ==
  /\ pc[t] = "apply"
  /\ ApplyMt(IdBits(ret[t]))
  /\ Goto(t, "return")
  /\ UNCHANGED <<pat, req, mts, left, ret, before>>

\* The program changes the page's entry in some other way.
EditEntry(t) ==
  /\ pc[t] = "edit"
  /\ EntryNext
  /\ Goto(t, "return")
  /\ UNCHANGED <<pat, req, mts, left, ret, before>>

Return(t) ==
  /\ pc[t] = "return"
  /\ Goto(t, "idle")
  /\ req' = [req EXCEPT ![t] = None]
  /\ mts' = [mts EXCEPT ![t] = {}]
  /\ ret' = [ret EXCEPT ![t] = None]
  /\ before' = [before EXCEPT ![t] = {}]
  /\ UNCHANGED <<entryVars, pat, left>>

Next ==
  \E t \in Threads :
    \/ \E r \in Requests : Begin(t, r)
    \/ \E cpu \in Cpus : Read(t, cpu) \/ Program(t, cpu)
    \/ Apply(t) \/ EditEntry(t) \/ Return(t)

Spec == Init /\ [][Next]_vars

-----------------------------------------------------------------------------
(* Properties *)

\* ptedit_set_mt programs exactly one attribute, whichever it is, on every CPU:
\* "Programs the value of a specific memory type attribute (PAT/MAIR)", with
\* "The PAT/MAIR ID (from 0 to 7)" (ptedit.h:713-715).
SetMtExact ==
  \A t \in Threads :
    pc[t] = "return" /\ req[t].fn = "set_mt" =>
      \A c \in Cpus, i \in Ids :
        MtValue(pat[c], i) =
          IF i = req[t].mt THEN req[t].value ELSE MtValue(before[t], i)

\* Whenever nobody programs the register all CPUs agree on it.  Two threads
\* that program it at once break this, although ptedit_set_mts
\* is "equivalent to writing to the MSR 0x277 (x86) / MAIR_EL1 (ARM) on all
\* CPUs" (ptedit.h:695).
CpusAgree ==
  (\A t \in Threads : pc[t] # "program") => \A c, d \in Cpus : pat[c] = pat[d]

\* The type the CPUs give to the page.
EffectiveType(cpu) == MtValue(pat[cpu], IdOf(MtField))

\* In a program of one thread, a page that is given a type (as in
\* demos/uncachable.c: ptedit_find_first_mt, then ptedit_apply_mt) has it on
\* every CPU, whatever was programmed and edited before; and the program is told that
\* there is no such attribute only if there is none.
RetypeTakesEffect ==
  \A t \in Threads :
    pc[t] = "return" /\ req[t].fn = "retype" =>
      \A c \in Cpus :
        IF ret[t] = -1
          THEN \A i \in Ids : MtValue(pat[c], i) # req[t].value
          ELSE EffectiveType(c) = req[t].value
=============================================================================
