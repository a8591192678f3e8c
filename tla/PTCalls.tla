------------------------------- MODULE PTCalls ------------------------------
(***************************************************************************)
(* What a call of the library promises, as against PTEdit, which says how  *)
(* it is carried out.  Two history variables remember, for each thread,    *)
(* memory and roots when its call began and whether anything else changed  *)
(* memory since.                                                           *)
(***************************************************************************)
EXTENDS PTEdit

VARIABLES snap, alone

CallsInit ==
  /\ Init
  /\ snap = [t \in Threads |-> None]
  /\ alone = [t \in Threads |-> FALSE]

CallsNext ==
  /\ Next
  /\ snap' = [t \in Threads |->
                CASE pc'[t] = "idle" -> None
                  [] pc[t] = "idle" /\ pc'[t] # "idle" -> [mem |-> mem, root |-> root]
                  [] OTHER -> snap[t]]
  /\ alone' = [t \in Threads |->
                 /\ pc'[t] # "idle"
                 /\ pc[t] # "idle" =>
                      alone[t] /\ root' = root /\ (mem' = mem \/ todo'[t] # todo[t])]

CallsSpec == CallsInit /\ [][CallsNext]_<<vars, snap, alone>>

-----------------------------------------------------------------------------

(***************************************************************************)
(* What a call should do to memory m when the process's root is r.         *)
(***************************************************************************)
NewValue(c, l, e) == IF c.fn = "update" THEN c.arg[l] ELSE Edit(c, e)

EditedLevels(c) ==
  CASE c.fn \in PteFns -> {"PTE"}
    [] c.fn \in LevelFns -> c.levels
    [] c.fn = "update" -> DOMAIN c.arg
    [] c.fn = "resolve" -> {}

Expected(c, m, r) ==
  LET w == CpuWalk(m, r, c.va)
      ls == EditedLevels(c) \cap DOMAIN w
  IN  [s \in DOMAIN m |->
         IF \E l \in ls : w[l] = s
           THEN NewValue(c, CHOOSE l \in ls : w[l] = s, m[s])
           ELSE m[s]]

\* A call on a mapped address that nobody interferes with has exactly the
\* documented effect, with either implementation: it changes the entries the
\* CPU uses for that address at the levels it names and nothing else, and
\* ptedit_resolve returns exactly the entries the CPU uses.  For an address
\* without a page table no PTE is reported and the PTE functions do nothing.
CallsExact ==
  \A t \in Threads :
    pc[t] = "return" /\ alone[t] =>
      LET c == call[t]
          m == snap[t].mem
          r == snap[t].root[Target(c)]
          w == CpuWalk(m, r, c.va)
      IN IF Mapped(m, r, c.va)
           THEN /\ mem = Expected(c, m, r)
                /\ c.fn = "resolve" =>
                     /\ DOMAIN cur[t] \ {"P4D"} = DOMAIN w
                     /\ \A l \in DOMAIN w : cur[t][l] = Deref(m, w[l])
           ELSE c.fn \in PteFns \cup {"resolve"} => "PTE" \notin DOMAIN cur[t] /\ mem = m
=============================================================================
