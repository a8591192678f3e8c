----------------------------- MODULE EntryFields ----------------------------
(***************************************************************************)
(* What the entry functions of ptedit.h promise: a page-table entry has a  *)
(* page-frame number, a memory type and a set of flags, and a call changes *)
(* exactly the field it names, to exactly the value it is given.           *)
(***************************************************************************)
EXTENDS Integers

CONSTANTS Pfns,         \* frame numbers set_pfn is called with
          Mts,          \* memory types (bytes) apply_mt is called with
          FlagBits,     \* bit positions set_bit and clear_bit are called with
          MtPos         \* bit position |-> bit of the memory-type index

VARIABLES pfn, mt, flags,
          last          \* the call that led here

vars == <<pfn, mt, flags, last>>

SetPfn(p) ==
  /\ pfn' = p
  /\ last' = <<"set_pfn", p>>
  /\ UNCHANGED <<mt, flags>>

ApplyMt(m) ==
  /\ mt' = m \cap (0..2)
  /\ last' = <<"apply_mt", m>>
  /\ UNCHANGED <<pfn, flags>>

SetBit(b) ==
  /\ IF b \in DOMAIN MtPos
       THEN mt' = mt \cup {MtPos[b]} /\ flags' = flags
       ELSE flags' = flags \cup {b} /\ mt' = mt
  /\ last' = <<"set_bit", b>>
  /\ pfn' = pfn

ClearBit(b) ==
  /\ IF b \in DOMAIN MtPos
       THEN mt' = mt \ {MtPos[b]} /\ flags' = flags
       ELSE flags' = flags \ {b} /\ mt' = mt
  /\ last' = <<"clear_bit", b>>
  /\ pfn' = pfn

Init == last = <<"init">>

Next ==
  \/ \E p \in Pfns : SetPfn(p)
  \/ \E m \in Mts : ApplyMt(m)
  \/ \E b \in FlagBits : SetBit(b) \/ ClearBit(b)

Spec == Init /\ [][Next]_vars
=============================================================================
