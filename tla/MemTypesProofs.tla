--------------------------- MODULE MemTypesProofs ---------------------------
(***************************************************************************)
(* Proofs about the memory-type register and the entry of a page, for any  *)
(* number of CPUs and threads, any requests and any initial contents.      *)
(***************************************************************************)
EXTENDS MemTypes, PTEntryProofs, WellFoundedInduction, TLAPS

\* No two threads are inside on_each_cpu at the same time.
OneProgrammer ==
  \A t, u \in Threads : pc[t] = "program" /\ pc[u] = "program" => t = u

\* No two calls overlap: a program of one thread, or one with a lock.
Serialized ==
  \A t, u \in Threads : pc[t] # "idle" /\ pc[u] # "idle" => t = u

\* Bit 31 of the PAT is reserved; nobody programs it.
PatRequests ==
  /\ Arch = "x86_64" /\ \A w \in InitPats : 31 \notin w
  /\ \A r \in Requests : /\ r.fn = "set_mts" => 31 \notin r.value
                         /\ r.fn = "set_mt" => r.value \subseteq 0 .. MtWidth - 1

Places == {"idle", "read", "program", "apply", "edit", "return"}

TypeOK ==
  /\ pat \in [Cpus -> Word] /\ EntryTypeOK
  /\ pc \in [Threads -> Places]
  /\ req \in [Threads -> Requests \cup {None}]
  /\ mts \in [Threads -> Word]
  /\ left \in [Threads -> SUBSET Cpus]
  /\ ret = [t \in Threads |-> ret[t]]
  /\ before \in [Threads -> Word]

\* Which function is at which place.
PlaceInv ==
  \A t \in Threads :
    /\ pc[t] # "idle" => req[t] \in Requests
    /\ pc[t] = "read" => req[t].fn # "set_mts"
    /\ pc[t] = "program" => req[t].fn \in {"set_mt", "set_mts"}
    /\ pc[t] = "apply" => req[t].fn = "retype"
    /\ pc[t] = "edit" => req[t].fn = "edit"

\* on_each_cpu has reached the CPUs that are not left.
ProgramInv ==
  \A t \in Threads :
    pc[t] = "program" => \A c \in Cpus \ left[t] : pat[c] = mts[t]

-----------------------------------------------------------------------------
(* The functions on the register *)

\* Bit x of attribute i is bit x + 8 i of the register.
LEMMA MtValueBits ==
  ASSUME NEW w \in Word, NEW i \in Ids, NEW x
  PROVE  x \in MtValue(w, i) <=> x \in 0 .. MtWidth - 1 /\ x + 8 * i \in w
<1>1. MtWidth \in {3, 8}
  BY ArchAssumption DEF MtWidth
<1> QED BY <1>1 DEF MtValue, Field, Shr, Mask, Word, Bits, Ids

\* ptedit_set_mt yields a word.
LEMMA SetMtWord ==
  ASSUME NEW w \in Word, NEW mt \in Ids, NEW v \in Word, NEW n \in SetMtOutcomes(w, mt, v)
  PROVE  n \in Word
BY DEF SetMtOutcomes, Word, Shl

\* What GET_PAT returns is a word, and the register itself unless bit 31 is set.
LEMMA GetPatWord ==
  ASSUME NEW w \in Word
  PROVE  GetPat(w) \in Word /\ (31 \notin w => GetPat(w) = w)
BY DEF GetPat, SignExtend, IntBits, Word, Bits

-----------------------------------------------------------------------------
(* Steps *)

\* What a step that reads the register does, by the place it leads to.
LEMMA ReadCases ==
  ASSUME NEW t \in Threads, NEW cpu \in Cpus, TypeOK, PlaceInv, Read(t, cpu)
  PROVE  /\ pc[t] = "read" /\ UNCHANGED <<entryVars, pat, req>>
         /\ before' = [before EXCEPT ![t] = GetPat(pat[cpu])]
         /\ \/ /\ pc' = [pc EXCEPT ![t] = "return"] /\ req[t].fn \in {"get_mt", "find_mt"}
               /\ ret' = [ret EXCEPT ![t] = ret'[t]] /\ UNCHANGED <<mts, left>>
            \/ /\ pc' = [pc EXCEPT ![t] = IF ret'[t] = -1 THEN "return" ELSE "apply"]
               /\ req[t].fn = "retype"
               /\ ret' = [ret EXCEPT ![t] =
                            ptedit_find_first_mt(GetPat(pat[cpu]), req[t].value)]
               /\ UNCHANGED <<mts, left>>
            \/ /\ pc' = [pc EXCEPT ![t] = "program"] /\ req[t].fn = "set_mt"
               /\ mts' = [mts EXCEPT ![t] = mts'[t]] /\ left' = [left EXCEPT ![t] = Cpus]
               /\ mts'[t] \in SetMtOutcomes(GetPat(pat[cpu]), req[t].mt, req[t].value)
               /\ UNCHANGED ret
<1> DEFINE r == req[t]
           w == GetPat(pat[cpu])
<1>1. t \in DOMAIN ret /\ t \in DOMAIN mts
  BY DEF TypeOK
<1>2. /\ pc[t] = "read" /\ UNCHANGED <<entryVars, pat, req>>
      /\ before' = [before EXCEPT ![t] = w]
  BY DEF Read
<1>3. \/ /\ \/ r.fn = "get_mt" /\ ret' = [ret EXCEPT ![t] = MtValue(w, r.mt)]
            \/ r.fn = "find_mt" /\ ret' = [ret EXCEPT ![t] = ptedit_find_mt(w, r.value)]
         /\ Goto(t, "return") /\ UNCHANGED <<mts, left>>
      \/ /\ r.fn = "retype" /\ ptedit_find_first_mt(w, r.value) = -1
         /\ ret' = [ret EXCEPT ![t] = -1]
         /\ Goto(t, "return") /\ UNCHANGED <<mts, left>>
      \/ /\ r.fn = "retype" /\ ptedit_find_first_mt(w, r.value) # -1
         /\ ret' = [ret EXCEPT ![t] = ptedit_find_first_mt(w, r.value)]
         /\ Goto(t, "apply") /\ UNCHANGED <<mts, left>>
      \/ /\ r.fn = "set_mt"
         /\ \E n \in SetMtOutcomes(w, r.mt, r.value) : mts' = [mts EXCEPT ![t] = n]
         /\ left' = [left EXCEPT ![t] = Cpus]
         /\ Goto(t, "program") /\ UNCHANGED ret
  BY DEF Read
<1> QED BY <1>1, <1>2, <1>3 DEF Goto

\* The invariants on types and places together.
BaseInv == TypeOK /\ PlaceInv

LEMMA BaseStep == BaseInv /\ [Next]_vars => BaseInv'
<1> SUFFICES ASSUME TypeOK, PlaceInv, [Next]_vars PROVE TypeOK' /\ PlaceInv'
  BY DEF BaseInv
<1>0. \A r \in Requests : r.fn \in MtFns /\ r.mt \in Ids /\ r.value \in Word
  BY MemTypesAssumption
<1>1. ASSUME NEW t \in Threads, NEW r \in Requests, Begin(t, r)
      PROVE  TypeOK' /\ PlaceInv'
  <2>1. CASE r.fn = "set_mts"
    BY <1>0, <1>1, <2>1 DEF Begin, Goto, TypeOK, EntryTypeOK, entryVars, PlaceInv, Places
  <2>2. CASE r.fn # "set_mts"
    BY <1>0, <1>1, <2>2 DEF Begin, Goto, TypeOK, EntryTypeOK, entryVars, PlaceInv, Places
  <2> QED BY <2>1, <2>2
<1>2. ASSUME NEW t \in Threads, NEW cpu \in Cpus, Read(t, cpu)
      PROVE  TypeOK' /\ PlaceInv'
  <2>1. GetPat(pat[cpu]) \in Word
    BY GetPatWord DEF TypeOK
  <2>2. /\ pc[t] = "read" /\ UNCHANGED <<entryVars, pat, req>>
        /\ before' = [before EXCEPT ![t] = GetPat(pat[cpu])]
    BY <1>2, ReadCases
  <2>3. req[t] \in Requests
    BY <2>2 DEF PlaceInv
  <2>4. /\ pc' = [pc EXCEPT ![t] = pc'[t]] /\ pc'[t] \in {"return", "apply", "program"}
        /\ ret' = [ret EXCEPT ![t] = ret'[t]]
        /\ pc'[t] = "apply" => req[t].fn = "retype"
        /\ pc'[t] = "program" => req[t].fn = "set_mt"
    BY <1>2, ReadCases DEF TypeOK
  <2>5. mts' \in [Threads -> Word] /\ left' \in [Threads -> SUBSET Cpus]
    <3>1. mts'[t] \in SetMtOutcomes(GetPat(pat[cpu]), req[t].mt, req[t].value) => mts'[t] \in Word
      BY <1>0, <2>1, <2>3, SetMtWord
    <3> QED BY <1>2, <3>1, ReadCases DEF TypeOK
  <2>6. TypeOK'
    BY <2>1, <2>2, <2>4, <2>5 DEF TypeOK, EntryTypeOK, entryVars, Places
  <2>7. PlaceInv'
    BY <2>2, <2>4, <2>3 DEF TypeOK, PlaceInv
  <2> QED BY <2>6, <2>7
<1>3. ASSUME NEW t \in Threads, NEW cpu \in Cpus, Program(t, cpu)
      PROVE  TypeOK' /\ PlaceInv'
  BY <1>3 DEF Program, Goto, TypeOK, EntryTypeOK, entryVars, PlaceInv, Places
<1>4. ASSUME NEW t \in Threads, Apply(t) PROVE TypeOK' /\ PlaceInv'
  <2>1. EntryTypeOK'
    <3>1. \A h \in BOOLEAN, i \in MtIndex : MtBit(i, h) \in Bits
      BY MtBitPositions
    <3> QED BY <1>4, <3>1 DEF Apply, ApplyMt, ptedit_apply_mt, ptedit_apply_mt_huge,
                              TypeOK, EntryTypeOK, Word
  <2> QED BY <1>4, <2>1 DEF Apply, Goto, TypeOK, PlaceInv, Places
<1>5. ASSUME NEW t \in Threads, EditEntry(t) PROVE TypeOK' /\ PlaceInv'
  <2>1. EntryTypeOK'
    BY <1>5, EntryTypeStep DEF EditEntry, TypeOK
  <2> QED BY <1>5, <2>1 DEF EditEntry, Goto, TypeOK, PlaceInv, Places
<1>6. ASSUME NEW t \in Threads, Return(t) PROVE TypeOK' /\ PlaceInv'
  BY <1>6 DEF Return, Goto, TypeOK, EntryTypeOK, entryVars, PlaceInv, Places, Word
<1>7. CASE UNCHANGED vars
  BY <1>7 DEF vars, entryVars, TypeOK, EntryTypeOK, PlaceInv
<1> QED BY <1>1, <1>2, <1>3, <1>4, <1>5, <1>6, <1>7 DEF Next

LEMMA InitBase == Init => BaseInv
BY MemTypesAssumption, SeqAssumption
   DEF Init, EntryInit, BaseInv, TypeOK, EntryTypeOK, PlaceInv, Places, Word

\* The registers, the entry and the threads keep their types.
THEOREM MemTypesTypeCorrect == Spec => []TypeOK
<1>1. BaseInv => TypeOK
  BY DEF BaseInv
<1> QED BY <1>1, InitBase, BaseStep, PTL DEF Spec

-----------------------------------------------------------------------------
(* All CPUs agree *)

AgreeInv == BaseInv /\ ProgramInv /\ CpusAgree

LEMMA AgreeStep ==
  AgreeInv /\ OneProgrammer /\ OneProgrammer' /\ [Next]_vars => AgreeInv'
<1> SUFFICES ASSUME BaseInv, ProgramInv, CpusAgree, OneProgrammer, OneProgrammer', [Next]_vars
             PROVE  ProgramInv' /\ CpusAgree'
  BY BaseStep DEF AgreeInv
<1> USE DEF BaseInv
<1>1. ASSUME NEW t \in Threads, NEW r \in Requests, Begin(t, r)
      PROVE  ProgramInv' /\ CpusAgree'
  <2>1. CASE r.fn = "set_mts"
    BY <1>1, <2>1 DEF Begin, Goto, TypeOK, ProgramInv, CpusAgree
  <2>2. CASE r.fn # "set_mts"
    BY <1>1, <2>2 DEF Begin, Goto, TypeOK, ProgramInv, CpusAgree
  <2> QED BY <2>1, <2>2
<1>2. ASSUME NEW t \in Threads, NEW cpu \in Cpus, Read(t, cpu)
      PROVE  ProgramInv' /\ CpusAgree'
  <2>1. /\ pc[t] = "read" /\ UNCHANGED pat
        /\ \A u \in Threads \ {t} : pc'[u] = pc[u] /\ mts'[u] = mts[u] /\ left'[u] = left[u]
        /\ pc'[t] = "program" => left'[t] = Cpus
    BY <1>2, ReadCases DEF TypeOK
  <2> QED BY <2>1 DEF ProgramInv, CpusAgree
<1>3. ASSUME NEW t \in Threads, NEW cpu \in Cpus, Program(t, cpu)
      PROVE  ProgramInv' /\ CpusAgree'
  <2>1. /\ \A u \in Threads \ {t} : pc[u] # "program" /\ pc'[u] # "program"
        /\ \A c \in Cpus : c \notin left[t] \ {cpu} => pat'[c] = mts[t]
        /\ left'[t] = left[t] \ {cpu} /\ mts' = mts
        /\ pc'[t] = IF left[t] = {cpu} THEN "return" ELSE "program"
    BY <1>3 DEF Program, Goto, TypeOK, ProgramInv, OneProgrammer
  <2> QED BY <2>1 DEF ProgramInv, CpusAgree
<1>4. ASSUME NEW t \in Threads, Apply(t) \/ EditEntry(t) \/ Return(t)
      PROVE  ProgramInv' /\ CpusAgree'
  <2>1. /\ UNCHANGED <<pat, left>> /\ pc[t] # "program" /\ pc'[t] # "program"
        /\ \A u \in Threads \ {t} : pc'[u] = pc[u] /\ mts'[u] = mts[u]
    BY <1>4 DEF Apply, EditEntry, Return, Goto, TypeOK
  <2> QED BY <2>1 DEF ProgramInv, CpusAgree
<1>5. CASE UNCHANGED vars
  BY <1>5 DEF vars, ProgramInv, CpusAgree
<1> QED BY <1>1, <1>2, <1>3, <1>4, <1>5 DEF Next

LEMMA InitAgree == Init => AgreeInv
BY InitBase DEF Init, AgreeInv, ProgramInv, CpusAgree

-----------------------------------------------------------------------------
(* Calls that do not overlap *)

\* The steps of a thread whose calls do not overlap with others: nobody else
\* is in a call, before or after.
LEMMA OthersIdle ==
  ASSUME BaseInv, Serialized, Serialized', NEW t \in Threads,
         \/ \E r \in Requests : Begin(t, r)
         \/ \E cpu \in Cpus : Read(t, cpu) \/ Program(t, cpu)
         \/ Apply(t) \/ EditEntry(t) \/ Return(t)
  PROVE  \A u \in Threads \ {t} : pc'[u] = "idle" /\ pc[u] = "idle"
<1> USE DEF BaseInv, Serialized
<1>1. ASSUME NEW r \in Requests, Begin(t, r) PROVE pc' = [pc EXCEPT ![t] = pc'[t]] /\ pc'[t] # "idle"
  <2>1. CASE r.fn = "set_mts"
    BY <1>1, <2>1 DEF Begin, Goto, TypeOK
  <2>2. CASE r.fn # "set_mts"
    BY <1>1, <2>2 DEF Begin, Goto, TypeOK
  <2> QED BY <2>1, <2>2
<1>2. ASSUME NEW cpu \in Cpus, Read(t, cpu) PROVE pc' = [pc EXCEPT ![t] = pc'[t]] /\ pc[t] # "idle"
  BY <1>2, ReadCases DEF TypeOK
<1>3. ASSUME NEW cpu \in Cpus, Program(t, cpu) PROVE pc' = [pc EXCEPT ![t] = pc'[t]] /\ pc[t] # "idle"
  BY <1>3 DEF Program, Goto, TypeOK
<1>4. ASSUME Apply(t) \/ EditEntry(t) \/ Return(t)
      PROVE  pc' = [pc EXCEPT ![t] = pc'[t]] /\ pc[t] # "idle"
  BY <1>4 DEF Apply, EditEntry, Return, Goto, TypeOK
<1>5. pc' = [pc EXCEPT ![t] = pc'[t]] /\ (pc[t] # "idle" \/ pc'[t] # "idle")
  BY <1>1, <1>2, <1>3, <1>4
<1>6. \A u \in Threads \ {t} : pc'[u] = pc[u]
  BY <1>5 DEF TypeOK
<1> QED BY <1>5, <1>6

-----------------------------------------------------------------------------
(* The type of a page *)

\* Bit 31 is in no register and in no value on its way there, so that GET_PAT
\* reads what is there; the attribute found has the type on every CPU.
RetypeInv ==
  /\ \A c \in Cpus : 31 \notin pat[c]
  /\ \A t \in Threads :
       /\ pc[t] = "program" => 31 \notin mts[t]
       /\ pc[t] = "apply" => /\ ret[t] \in Ids
                             /\ \A c \in Cpus : MtValue(pat[c], ret[t]) = req[t].value

\* ptedit_set_mt does not touch the reserved bit.
LEMMA SetMtReserved ==
  ASSUME PatRequests, NEW w \in Word, 31 \notin w, NEW mt \in Ids,
         NEW v \in SUBSET (0 .. MtWidth - 1), NEW n \in SetMtOutcomes(w, mt, v)
  PROVE  31 \notin n
<1>1. 31 \notin Shl(v, 8 * mt)
  BY DEF PatRequests, Shl, MtWidth, Ids, Bits
<1> QED BY <1>1 DEF SetMtOutcomes

LEMMA RetypeStep ==
  ASSUME PatRequests, AgreeInv, RetypeInv, RetypeTakesEffect,
         Serialized, Serialized', [Next]_vars
  PROVE  RetypeInv' /\ RetypeTakesEffect'
<1> USE DEF AgreeInv, BaseInv
<1>0. \A r \in Requests : r.fn \in MtFns /\ r.mt \in Ids /\ r.value \in Word
  BY MemTypesAssumption
<1>1. ASSUME NEW t \in Threads, NEW r \in Requests, Begin(t, r)
      PROVE  RetypeInv' /\ RetypeTakesEffect'
  <2>1. \A u \in Threads \ {t} : pc'[u] = "idle"
    BY <1>1, OthersIdle
  <2>2. /\ pc'[t] \in {"program", "read", "edit"} /\ pat' = pat
        /\ pc'[t] = "program" => r.fn = "set_mts" /\ mts'[t] = r.value
    BY <1>1 DEF Begin, Goto, TypeOK
  <2> QED BY <2>1, <2>2 DEF RetypeInv, RetypeTakesEffect, PatRequests
<1>2. ASSUME NEW t \in Threads, NEW cpu \in Cpus, Read(t, cpu)
      PROVE  RetypeInv' /\ RetypeTakesEffect'
  <2>1. \A u \in Threads \ {t} : pc'[u] = "idle" /\ pc[u] = "idle"
    BY <1>2, OthersIdle
  <2>2. /\ pc[t] = "read" /\ pat' = pat /\ req' = req /\ req[t] \in Requests
        /\ pat[cpu] \in Word /\ GetPat(pat[cpu]) = pat[cpu]
    BY <1>2, ReadCases, GetPatWord DEF TypeOK, PlaceInv, RetypeInv
  <2>3. \A c \in Cpus : pat[c] = pat[cpu]
    BY <2>1, <2>2 DEF CpusAgree
  <2>4. ASSUME req[t].fn = "retype"
        PROVE  /\ pc'[t] = IF ret'[t] = -1 THEN "return" ELSE "apply"
               /\ ret'[t] = -1 => \A j \in Ids : MtValue(pat[cpu], j) # req[t].value
               /\ ret'[t] # -1 => ret'[t] \in Ids /\ MtValue(pat[cpu], ret'[t]) = req[t].value
    <3>1. /\ pc' = [pc EXCEPT ![t] = IF ret'[t] = -1 THEN "return" ELSE "apply"]
          /\ ret' = [ret EXCEPT ![t] = ptedit_find_first_mt(GetPat(pat[cpu]), req[t].value)]
      BY <1>2, <2>4, ReadCases
    <3>2. ret'[t] = ptedit_find_first_mt(pat[cpu], req[t].value)
      BY <2>2, <3>1 DEF TypeOK
    <3>3. pc'[t] = IF ret'[t] = -1 THEN "return" ELSE "apply"
      BY <3>1 DEF TypeOK
    <3>4. Arch = "x86_64"
      BY DEF PatRequests
    <3> QED BY <3>2, <3>3, <3>4, FindFirstMt
  <2>5. ASSUME pc'[t] = "program"
        PROVE  31 \notin mts'[t]
    <3>1. /\ req[t].fn = "set_mt"
          /\ mts'[t] \in SetMtOutcomes(pat[cpu], req[t].mt, req[t].value)
      BY <1>2, <2>2, <2>5, ReadCases DEF TypeOK
    <3>2. req[t].mt \in Ids /\ req[t].value \in SUBSET (0 .. MtWidth - 1) /\ 31 \notin pat[cpu]
      BY <1>0, <2>2, <3>1 DEF PatRequests, RetypeInv
    <3> QED BY <2>2, <3>1, <3>2, SetMtReserved
  <2>6. pc'[t] = "apply" => req[t].fn = "retype"
    BY <1>2, ReadCases DEF TypeOK
  <2>7. RetypeInv'
    BY <2>1, <2>2, <2>3, <2>4, <2>5, <2>6 DEF RetypeInv
  <2>8. RetypeTakesEffect'
    BY <2>1, <2>2, <2>3, <2>4 DEF RetypeTakesEffect
  <2> QED BY <2>7, <2>8
<1>3. ASSUME NEW t \in Threads, NEW cpu \in Cpus, Program(t, cpu)
      PROVE  RetypeInv' /\ RetypeTakesEffect'
  <2>1. \A u \in Threads \ {t} : pc'[u] = "idle"
    BY <1>3, OthersIdle
  <2>2. /\ pc[t] = "program" /\ req' = req /\ mts' = mts /\ pc'[t] \in {"program", "return"}
        /\ \A c \in Cpus : pat'[c] = mts[t] \/ pat'[c] = pat[c]
        /\ req[t].fn # "retype"
    BY <1>3 DEF Program, Goto, TypeOK, PlaceInv
  <2> QED BY <2>1, <2>2 DEF RetypeInv, RetypeTakesEffect
<1>4. ASSUME NEW t \in Threads, Apply(t) PROVE RetypeInv' /\ RetypeTakesEffect'
  <2>1. \A u \in Threads \ {t} : pc'[u] = "idle"
    BY <1>4, OthersIdle
  <2>2. /\ pc[t] = "apply" /\ pc'[t] = "return" /\ UNCHANGED <<pat, req, mts, ret>>
        /\ ApplyMt(IdBits(ret[t]))
        /\ ret[t] \in Ids /\ \A c \in Cpus : MtValue(pat[c], ret[t]) = req[t].value
    BY <1>4 DEF Apply, Goto, TypeOK, RetypeInv
  <2>3. IdOf(MtField') = ret[t]
    <3>1. IdBits(ret[t]) \in SUBSET (0..7) /\ IdBits(ret[t]) \cap (0..2) = IdBits(ret[t])
      BY DEF IdBits, MtIndex
    <3>2. MtField' = IdBits(ret[t])
      BY <2>2, <3>1, ExtractApplyMt, SeqAssumption DEF ApplyMt, MtField, TypeOK, EntryTypeOK
    <3> QED BY <2>2, <3>2, IdOfIdBits
  <2>4. RetypeInv'
    BY <2>1, <2>2 DEF RetypeInv
  <2>5. RetypeTakesEffect'
    <3>1. ret'[t] # -1
      BY <2>2 DEF Ids
    <3>2. \A c \in Cpus : EffectiveType(c)' = req'[t].value
      BY <2>2, <2>3 DEF EffectiveType
    <3> QED BY <2>1, <3>1, <3>2 DEF RetypeTakesEffect
  <2> QED BY <2>4, <2>5
<1>5. ASSUME NEW t \in Threads, EditEntry(t) PROVE RetypeInv' /\ RetypeTakesEffect'
  <2>1. \A u \in Threads \ {t} : pc'[u] = "idle"
    BY <1>5, OthersIdle
  <2>2. pc'[t] = "return" /\ UNCHANGED <<pat, req>> /\ req[t].fn = "edit"
    BY <1>5 DEF EditEntry, Goto, TypeOK, PlaceInv
  <2> QED BY <2>1, <2>2 DEF RetypeInv, RetypeTakesEffect
<1>6. ASSUME NEW t \in Threads, Return(t) PROVE RetypeInv' /\ RetypeTakesEffect'
  <2>1. \A u \in Threads \ {t} : pc'[u] = "idle"
    BY <1>6, OthersIdle
  <2>2. pc'[t] = "idle" /\ pat' = pat
    BY <1>6 DEF Return, Goto, TypeOK
  <2> QED BY <2>1, <2>2 DEF RetypeInv, RetypeTakesEffect
<1>7. CASE UNCHANGED vars
  BY <1>7 DEF vars, entryVars, RetypeInv, RetypeTakesEffect, EffectiveType, MtField
<1> QED BY <1>1, <1>2, <1>3, <1>4, <1>5, <1>6, <1>7 DEF Next

\* Where calls do not overlap, on x86_64 with the reserved bits left alone, a
\* page that is given a type has it on every CPU, and the program is told that
\* there is no attribute of the type only if there is none.
THEOREM RetypeHasEffect ==
  PatRequests => (Spec /\ []Serialized => []RetypeTakesEffect)
<1> SUFFICES ASSUME PatRequests PROVE Spec /\ []Serialized => []RetypeTakesEffect
  OBVIOUS
<1> DEFINE I == AgreeInv /\ RetypeInv /\ RetypeTakesEffect
<1>1. Init => I
  BY InitAgree DEF Init, RetypeInv, RetypeTakesEffect, PatRequests
<1>2. I /\ Serialized /\ Serialized' /\ [Next]_vars => I'
  <2>1. Serialized /\ Serialized' => OneProgrammer /\ OneProgrammer'
    BY DEF Serialized, OneProgrammer
  <2> QED BY <2>1, AgreeStep, RetypeStep
<1>3. I => RetypeTakesEffect
  OBVIOUS
<1> HIDE DEF I
<1> QED BY <1>1, <1>2, <1>3, PTL DEF Spec

-----------------------------------------------------------------------------
(* The fields of the entry *)

\* Whatever the threads do with the register and however their calls
\* interleave, the entry of the page is changed field by field: each call of
\* an entry function, the one that retypes the page included, sets its own
\* field and no other.
THEOREM EntryStaysFields == SUBSET (0..2) \subseteq Mts => (Spec => FieldsSpec)
<1> SUFFICES ASSUME SUBSET (0..2) \subseteq Mts PROVE Spec => FieldsSpec
  OBVIOUS
<1>1. Init => Fields!Init
  BY DEF Init, EntryInit, Fields!Init
<1>2. TypeOK /\ [Next]_vars => [Fields!Next]_(Fields!vars)
  <2> SUFFICES ASSUME TypeOK, [Next]_vars PROVE [EntryNext]_entryVars
    BY StepImplementsFields DEF TypeOK
  <2>1. ASSUME NEW t \in Threads, NEW r \in Requests, Begin(t, r) PROVE UNCHANGED entryVars
    BY <2>1 DEF Begin
  <2>2. ASSUME NEW t \in Threads, NEW cpu \in Cpus, Read(t, cpu) \/ Program(t, cpu)
        PROVE  UNCHANGED entryVars
    BY <2>2 DEF Read, Program
  <2>3. ASSUME NEW t \in Threads, Apply(t) PROVE EntryNext
    <3>1. IdBits(ret[t]) \in Mts
      BY DEF IdBits, MtIndex
    <3> QED BY <2>3, <3>1 DEF Apply, EntryNext
  <2>4. ASSUME NEW t \in Threads, EditEntry(t) PROVE EntryNext
    BY <2>4 DEF EditEntry
  <2>5. ASSUME NEW t \in Threads, Return(t) PROVE UNCHANGED entryVars
    BY <2>5 DEF Return
  <2>6. CASE UNCHANGED vars
    BY <2>6 DEF vars
  <2> QED BY <2>1, <2>2, <2>3, <2>4, <2>5, <2>6 DEF Next
<1> QED BY <1>1, <1>2, MemTypesTypeCorrect, PTL DEF Spec, FieldsSpec, Fields!Spec
=============================================================================
