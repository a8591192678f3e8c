---------------------------- MODULE MCPTPrograms ----------------------------
(***************************************************************************)
(* One process: pages A, B and P, and room for a mapping, share a page     *)
(* table; a global variable lives under another one; beside them there is  *)
(* a 2 MB page.  The PAT is Linux's.                                       *)
(***************************************************************************)
EXTENDS PTProgramsProofs

CONSTANTS c1, c2

PgdFrame == {4}
PudFrame == {5}
PmdFrame == {6}
PteFrame == {7}
DataPte == {7, 0}

MCPageA == {}
MCPageB == {12}
MCPageP == {13}
MCPmapVa == {12, 13}
MCHuge == {21}
MCTarget == {22, 14}

Table(f) == ptedit_set_pfn({PRESENT, RW, USER, ACCESSED}, f)
Page(f) == ptedit_set_pfn({PRESENT, RW, USER}, f)
HugePage(f) == ptedit_set_pfn({PRESENT, RW, USER, PSE, ACCESSED, DIRTY}, f)

\* The upper half of the root maps the kernel.
MCInitMem ==
  <<PgdFrame, {}>> :> Table(PudFrame) @@
  <<PgdFrame, {8}>> :> Table({12}) @@
  <<PudFrame, {}>> :> Table(PmdFrame) @@
  <<PmdFrame, {}>> :> Table(PteFrame) @@
  <<PmdFrame, {0}>> :> HugePage({9}) @@
  <<PmdFrame, {1}>> :> Table(DataPte) @@
  <<PteFrame, {}>> :> Page({8}) @@
  <<PteFrame, {0}>> :> Page({8, 0}) @@
  <<PteFrame, {1}>> :> Page({8, 1}) @@
  <<PteFrame, {0, 1}>> :> {} @@
  <<DataPte, {2}>> :> Page({8, 2}) @@
  <<{8}, {}>> :> {} @@ <<{8, 0}, {}>> :> {} @@ <<{8, 1}, {}>> :> {} @@ <<{8, 2}, {}>> :> {} @@
  <<{12}, {}>> :> Table(PmdFrame)

Byte(i, type) == Shl(type, 8 * i)
LinuxPat ==
  Byte(0, MT_WB) \cup Byte(1, MT_WC) \cup Byte(2, MT_UCMINUS) \cup Byte(3, MT_UC) \cup
  Byte(4, MT_WB) \cup Byte(5, MT_WP) \cup Byte(6, MT_UCMINUS) \cup Byte(7, MT_WT)
\* After a ptedit_set_mt(3, PTEDIT_MT_WP), no attribute is UC.
MCPats == {LinuxPat, (LinuxPat \ Byte(3, 0..7)) \cup Byte(3, MT_WP)}

\* A page comes and goes, a table is unlinked and linked again, a 2 MB page
\* goes and comes back.
MCChanges ==
  {<<<<PteFrame, {0}>>, {}>>, <<<<PteFrame, {0}>>, Page({8, 0})>>,
   <<<<PteFrame, {0, 1}>>, Page({8, 1})>>,
   <<<<PmdFrame, {1}>>, {}>>, <<<<PmdFrame, {1}>>, Table(DataPte)>>,
   <<<<PmdFrame, {0}>>, {}>>, <<<<PmdFrame, {0}>>, HugePage({9})>>}

\* The hypotheses of the theorems hold of this process.
ASSUME ProcessIsLaidOut == Layout /\ LowerHalf
=============================================================================
