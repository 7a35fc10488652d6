---------------------------- MODULE MCProcessPool ----------------------------
(***************************************************************************)
(* Instances of ProcessPool for TLC: more processes than the pool runs at  *)
(* a time, and what each thread of the application does with it.           *)
(***************************************************************************)
EXTENDS ProcessPool

CONSTANTS owner, other, p1, p2, p3

OneClient  == {owner}
TwoClients == {owner, other}
TwoProcs   == {p1, p2}
ThreeProcs == {p1, p2, p3}

\* p1 is of a lower priority than the others
PrioFew  == [p \in TwoProcs |-> IF p = p1 THEN 1 ELSE 2]
PrioMany == [p \in ThreeProcs |-> IF p = p1 THEN 1 ELSE 2]

\* two threads wait, one adds and one changes the limit
UsualCalls ==
  [c \in TwoClients |-> IF c = owner THEN {"add", "wait"} ELSE {"wait", "set_limit"}]

\* one thread stops the pool while the other adds, clears or destroys
StopCalls ==
  [c \in TwoClients |-> IF c = owner THEN {"add", "clear", "destroy"} ELSE {"stop"}]

\* one thread makes every call that walks through the processes
WalkCalls == [c \in OneClient |-> {"add", "clear", "stop_all", "stop"}]

AddWaitCalls == [c \in OneClient |-> {"add", "wait"}]
StopAllCalls == [c \in TwoClients |-> IF c = owner THEN {"add"} ELSE {"stop_all"}]

NoLimits == {}
Limits12 == {1, 2}
=============================================================================
