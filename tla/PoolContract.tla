---------------------------- MODULE PoolContract ----------------------------
(***************************************************************************)
(* What iridium::rclone::process_pool promises about the order of its      *)
(* processes: each is launched once, when none of a higher priority and    *)
(* none of its own priority that was added before it still waits; and the  *)
(* pool forgets a process only when its child has ended.                   *)
(***************************************************************************)
EXTENDS Naturals

CONSTANTS
  Procs,   \* the processes that may be added
  Prio     \* Prio[p]: the priority p is added with, a natural number

VARIABLES
  members,    \* the processes in the pool
  arrived,    \* when each was added, counted from the last Clear
  launched,   \* the processes that were ever launched
  alive       \* the processes whose child runs

vars == <<members, arrived, launched, alive>>

Waiting == members \ launched

\* p has to be launched before q
Before(p, q) ==
  Prio[p] > Prio[q] \/ (Prio[p] = Prio[q] /\ arrived[p] < arrived[q])

Init ==
  /\ members = {} /\ launched = {} /\ alive = {}
  /\ arrived = [p \in Procs |-> 0]

Add(p) ==
  /\ p \notin members \cup launched
  /\ members' = members \cup {p}
  /\ arrived' \in [Procs -> Nat]
  /\ \A q \in members : arrived[q] < arrived'[p]
  /\ \A q \in Procs \ {p} : arrived'[q] = arrived[q]
  /\ UNCHANGED <<launched, alive>>

Launch(p) ==
  /\ p \in Waiting
  /\ \A q \in Waiting \ {p} : Before(p, q)
  /\ launched' = launched \cup {p} /\ alive' = alive \cup {p}
  /\ UNCHANGED <<members, arrived>>

End(p) ==
  /\ p \in alive
  /\ alive' = alive \ {p}
  /\ UNCHANGED <<members, arrived, launched>>

Clear ==
  /\ members \cap alive = {}
  /\ members' = {}
  /\ UNCHANGED <<arrived, launched, alive>>

Next == Clear \/ \E p \in Procs : Add(p) \/ Launch(p) \/ End(p)

Spec == Init /\ [][Next]_vars
=============================================================================
