------------------------------ MODULE MCPTEdit ------------------------------
(***************************************************************************)
(* Two processes with small page tables.  Self has two 4 KB pages in one   *)
(* page table, a 2 MB page next to them and an unmapped gigabyte; Other    *)
(* has one 4 KB page, and Gone is a pid that names no process.             *)
(***************************************************************************)
EXTENDS PTEdit

CONSTANTS Other, Gone, t1, t2, CallSet, Where

\* Addresses.
A == {}
B == {12}
C == {21}
D == {30}

\* Frames, all below 1 TiB.
PgdFrame == {4}
PudFrame == {5}
PmdFrame == {6}
PteFrame == {7}
OtherPgd == {16}
OtherPud == {17}
OtherPmd == {18}
OtherPte == {19}

\* Tables have been walked before, pages not yet accessed.
Table(f) == ptedit_set_pfn({PRESENT, RW, USER, ACCESSED}, f)
Page(f) == ptedit_set_pfn({PRESENT, RW, USER}, f)
HugePage(f) == ptedit_set_pfn({PRESENT, RW, USER, PSE}, f)

MCInitMem ==
  <<PgdFrame, {}>> :> Table(PudFrame) @@
  <<PudFrame, {}>> :> Table(PmdFrame) @@
  <<PudFrame, {0}>> :> {} @@
  <<PmdFrame, {}>> :> Table(PteFrame) @@
  <<PmdFrame, {0}>> :> HugePage({9}) @@
  <<PteFrame, {}>> :> Page({8}) @@
  <<PteFrame, {0}>> :> Page({8, 0}) @@
  <<OtherPgd, {}>> :> Table(OtherPud) @@
  <<OtherPud, {}>> :> Table(OtherPmd) @@
  <<OtherPmd, {}>> :> Table(OtherPte) @@
  <<OtherPte, {}>> :> Page({8, 1})

MCInitRoot == Self :> PgdFrame @@ Other :> OtherPgd @@ Gone :> {}

Resolve(va, pid) == [fn |-> "resolve", va |-> va, pid |-> pid]
Update(va, pid, vm_) == [fn |-> "update", va |-> va, pid |-> pid, arg |-> vm_]
Pte(fn, va, pid, arg) == [fn |-> fn, va |-> va, pid |-> pid, arg |-> arg]
AtLevels(fn, va, pid, arg, ls) ==
  [fn |-> fn, va |-> va, pid |-> pid, arg |-> arg, levels |-> ls]

MCCalls ==
  CASE CallSet = "all" ->
         {Resolve(va, pid) : va \in {A, C, D}, pid \in {Own, Other, Gone}} \cup
         {Update(A, Self, "PTE" :> Page({8, 2})), Update(C, Own, "PMD" :> HugePage({10}))} \cup
         {Pte("pte_set_bit", va, Own, NX) : va \in {A, B, C, D}} \cup
         {Pte("pte_clear_bit", A, pid, b) : pid \in {Self, Other}, b \in {PRESENT, NX}} \cup
         {Pte("pte_set_bit", A, Other, PRESENT), Pte("pte_set_pfn", B, Own, {8, 39})} \cup
         {AtLevels("set_bit", A, Own, NX, {"PMD", "PTE"}),
          AtLevels("clear_bit", A, Own, NX, {"PUD", "PMD", "PTE"}),
          AtLevels("clear_bit", C, Self, USER, {"PMD", "PTE"}),
          AtLevels("set_bit", C, Own, USER, {"PMD"}),
          AtLevels("set_bit", A, Gone, NX, {"PTE"})}
    [] CallSet = "pgd" ->
         {AtLevels("set_bit", A, Own, NX, {"PGD"}), AtLevels("clear_bit", A, Own, NX, {"PGD"}),
          AtLevels("set_bit", B, Own, NX, {"PGD", "PTE"}), Resolve(A, Own), Resolve(B, Self)}
    [] CallSet = "races" ->
         {Pte("pte_set_bit", B, Own, NX), AtLevels("clear_bit", B, Own, NX, {"PTE"}),
          Pte("pte_set_pfn", A, Own, {8, 2}), Update(B, Gone, "PTE" :> Page({8, 2}))}
    [] CallSet = "levels" ->
         {AtLevels("set_bit", B, Own, NX, {"PMD"}), Resolve(B, Own)}
    [] CallSet = "other" ->
         {Pte("pte_set_bit", A, Other, NX), Pte("pte_clear_bit", A, Other, NX),
          AtLevels("clear_bit", C, Own, USER, {"PMD"})}

MCTouched ==
  CASE Where = "nowhere" -> {}
    [] Where = "self" -> {<<Self, B>>}
    [] Where = "other" -> {<<Self, C>>, <<Other, A>>}

MCOneSwitch == {<<Other, PgdFrame>>}
MCOthersRoot == {<<Other, PgdFrame>>, <<Other, OtherPgd>>}

MCSymmetry == Permutations({t1, t2})
=============================================================================
