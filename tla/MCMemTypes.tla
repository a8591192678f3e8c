----------------------------- MODULE MCMemTypes -----------------------------
(***************************************************************************)
(* Linux's PAT: WB WC UC- UC WB WP UC- WT, attribute 0 first.  (On aarch64 *)
(* the MAIR: two device types, uncached, write-back, write-through.)       *)
(* x86_64 also starts from the PAT after reset, which has every type twice,*)
(* and from one in which every attribute but the last is write-back.       *)
(*                                                                         *)
(* The bits of the entry are the ends of every field: frame-number bits 0, *)
(* 27 | 28, 35 | 36 and 39, the memory-type bits, and the flags next to    *)
(* them.                                                                   *)
(***************************************************************************)
EXTENDS MemTypes, TLC

CONSTANTS c1, c2, t1, t2, SetIds, SetTypes

MT_DEVICE == {2}

Register(bytes) == UNION {Shl(bytes[i], 8 * (i - 1)) : i \in DOMAIN bytes}

LinuxPat == Register(<<MT_WB, MT_WC, MT_UCMINUS, MT_UC, MT_WB, MT_WP, MT_UCMINUS, MT_WT>>)
ResetPat == Register(<<MT_WB, MT_WT, MT_UCMINUS, MT_UC, MT_WB, MT_WT, MT_UCMINUS, MT_UC>>)
CachedPat == Register(<<MT_WB, MT_WB, MT_WB, MT_WB, MT_WB, MT_WB, MT_WB, MT_UC>>)
LinuxMair == Register(<<{}, MT_DEVICE, MT_UC, MT_WB, MT_WT, {}, {}, {}>>)

MCInitPats ==
  IF Arch = "x86_64" THEN {LinuxPat, ResetPat, CachedPat} ELSE {LinuxMair}

Types == {MT_UC, MT_WT, MT_WB}

MCRequests ==
  [fn : {"get_mt"}, mt : {0, 7}, value : {{}}] \cup
  [fn : {"find_mt", "retype"}, mt : {0}, value : Types] \cup
  [fn : {"set_mt"}, mt : SetIds, value : SetTypes] \cup
  [fn : {"set_mts"}, mt : {0}, value : MCInitPats] \cup
  [fn : {"edit"}, mt : {0}, value : {{}}]

MCPfns == {w \cap (0 .. PfnWidth - 1) : w \in {{}, {0, 27, 35, 39}, {28, 36}, {35, 39}}}
MCMts == SUBSET (0..2) \cup {{0, 7}}
MCFlagBits == {PRESENT, PWT, PSE, NX} \cup (IF Huge THEN {PAT_LARGE} ELSE {})
MCInitEntries ==
  IF Huge THEN SUBSET {PRESENT, PSE, PAT_LARGE, 21, 39} ELSE {{}, {51, 52}, Bits}
=============================================================================
