----------------------------- MODULE MCProcess -----------------------------
(***************************************************************************)
(* Instances of Process for TLC: who calls what, and how much the child    *)
(* writes.  A pipe holds one line, so that a child with two lines to write *)
(* to one stream may find it full.                                         *)
(***************************************************************************)
EXTENDS Process

CONSTANTS owner, other, onLine

OneClient  == {owner}
WithCallback == {owner, other, onLine}

NoHost   == [c \in OneClient |-> "none"]
LineHost == [c \in WithCallback |-> IF c = onLine THEN "out" ELSE "none"]

\* nobody stops it: the owner starts it, feeds it, closes its pipes and waits
PipeCalls ==
  [c \in OneClient |->
     {"execute", "wait_for_start", "wait_for_finish", "write_input",
      "close_input_pipe", "close_output_pipe"}]

\* two threads and an every_line callback stop it, and the owner waits for it or
\* destroys it
StopCalls ==
  [c \in WithCallback |->
     IF c = owner THEN {"execute", "wait_for_finish", "destroy"} ELSE {"stop"}]

\* the example of the README, and a process that is executed and destroyed
StartCalls   == [c \in OneClient |-> {"execute", "wait_for_start", "wait_for_finish"}]
DestroyCalls == [c \in OneClient |-> {"execute", "destroy"}]

OutErr(o, e) == [s \in Streams |-> IF s = "out" THEN o ELSE e]
Lines12 == OutErr(1, 2)
Lines20 == OutErr(2, 0)
Lines10 == OutErr(1, 0)
=============================================================================
