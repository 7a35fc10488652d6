------------------------------ MODULE Ownership ------------------------------
(***************************************************************************)
(* Who deletes what.  Three classes of iridium::rclone own another object  *)
(* by a raw pointer and write their own constructors, assignments and      *)
(* destructors: process and process_pool own the engine behind _impl       *)
(* (src/src/process/process.cpp, process_pool.cpp), json_log owns the      *)
(* statistics behind _stats (src/src/entities/json_log.cpp).  A pointer    *)
(* left behind by a move is deleted twice; one overwritten is lost; and    *)
(* the callbacks of a process keep a pointer to the process itself.        *)
(*                                                                         *)
(* Handles are places where an object of one of these classes may live,    *)
(* cells are memory for what they own.  A cell that was deleted may be     *)
(* handed out again.                                                       *)
(***************************************************************************)
CONSTANTS
  Handles,       \* places for a process, a process_pool or a json_log
  Cells,         \* memory for engines and statistics
  Class,         \* the class of a handle; of a cell, the class that owns it
  Null,          \* nullptr
  MoveConnected  \* does the application move a process that has callbacks?

Classes == {"process", "process_pool", "json_log"}

ASSUME ConstantsAssumption ==
  /\ Class \in [Handles \cup Cells -> Classes]
  /\ Null \notin Cells
  /\ MoveConnected \in BOOLEAN

VARIABLES
  made,     \* the handles that hold an object
  ptr,      \* _impl or _stats of each
  live,     \* the cells in use
  captured  \* callbacks: the engine that calls, and the process they captured

vars == <<made, ptr, live, captured>>

Init ==
  /\ made = {} /\ live = {} /\ captured = {}
  /\ ptr = [h \in Handles |-> Null]

Made(h, class) == h \in made /\ Class[h] = class
Vacant(h, class) == h \in Handles \ made /\ Class[h] = class

\* memory that operator new may return
Fresh(class) == {c \in Cells \ live : Class[c] = class}

\* delete: an engine takes its callbacks with it
Delete(c) ==
  /\ live' = live \ {c}
  /\ captured' = {k \in captured : k[1] # c}

-----------------------------------------------------------------------------
\* process(), process_pool(n): an engine of one's own
Construct(h) ==
  /\ h \in Handles \ made /\ Class[h] # "json_log"
  /\ \E c \in Fresh(Class[h]) :
       made' = made \cup {h} /\ ptr' = [ptr EXCEPT ![h] = c] /\ live' = live \cup {c}
  /\ UNCHANGED captured

\* a mistake: the pointer of a log without statistics is not initialized
ConstructLog_Uninitialized(h) ==
  /\ Vacant(h, "json_log")
  /\ made' = made \cup {h}
  /\ ptr' = [ptr EXCEPT ![h] = "garbage"]
  /\ UNCHANGED <<live, captured>>

\* json_log(), and a line parsed without statistics
ConstructLog(h) ==
  /\ Vacant(h, "json_log")
  /\ made' = made \cup {h}
  /\ UNCHANGED <<ptr, live, captured>>

\* json_log_parser::parse() of a line with statistics; the callback is given
\* the log to look at or to copy, and it is destroyed when the callback returns
ParseStats(h) ==
  /\ Vacant(h, "json_log")
  /\ \E c \in Fresh("json_log") :
       made' = made \cup {h} /\ ptr' = [ptr EXCEPT ![h] = c] /\ live' = live \cup {c}
  /\ UNCHANGED captured

\* set_stats(): what the log had before is not deleted
SetStats(h) ==
  /\ Made(h, "json_log")
  /\ \E c \in Fresh("json_log") : ptr' = [ptr EXCEPT ![h] = c] /\ live' = live \cup {c}
  /\ UNCHANGED <<made, captured>>

-----------------------------------------------------------------------------
\* a copy of a log has statistics of its own; without any there is nothing to copy
CopyConstruct(h, g) ==
  /\ Vacant(h, "json_log") /\ Made(g, "json_log")
  /\ made' = made \cup {h}
  /\ \/ /\ ptr[g] = Null
        /\ UNCHANGED <<ptr, live>>
     \/ /\ ptr[g] # Null
        /\ \E c \in Fresh("json_log") : ptr' = [ptr EXCEPT ![h] = c] /\ live' = live \cup {c}
  /\ UNCHANGED captured

\* a mistake: the pointer is copied as the other members are
CopyAssign_Shallow(h, g) ==
  /\ Made(h, "json_log") /\ Made(g, "json_log")
  /\ ptr' = [ptr EXCEPT ![h] = ptr[g]]
  /\ UNCHANGED <<made, live, captured>>

\* the statistics of the target are not deleted; without any in the source the
\* target keeps its own; a log assigned to itself is left alone
CopyAssign(h, g) ==
  /\ Made(h, "json_log") /\ Made(g, "json_log") /\ h # g /\ ptr[g] # Null
  /\ \E c \in Fresh("json_log") : ptr' = [ptr EXCEPT ![h] = c] /\ live' = live \cup {c}
  /\ UNCHANGED <<made, captured>>

-----------------------------------------------------------------------------
\* no callback of the process has captured it yet, or the application moves it anyway
Movable(g) == MoveConnected \/ <<ptr[g], g>> \notin captured

\* the pointer goes from g to h; done to an object itself, it is gone
Take(h, g) == ptr' = [ptr EXCEPT ![h] = ptr[g], ![g] = Null]

MoveConstruct(h, g) ==
  /\ h \in Handles \ made /\ g \in made /\ Class[h] = Class[g] /\ Movable(g)
  /\ made' = made \cup {h}
  /\ Take(h, g)
  /\ UNCHANGED <<live, captured>>

\* a mistake: the engine of the target is not deleted
MoveAssignProcess_Drops(h, g) ==
  /\ Made(h, "process") /\ Made(g, "process") /\ h # g /\ Movable(g)
  /\ Take(h, g)
  /\ UNCHANGED <<made, live, captured>>

\* process: the engine of the target is deleted first
MoveAssignProcess(h, g) ==
  /\ Made(h, "process") /\ Made(g, "process") /\ h # g /\ Movable(g)
  /\ Delete(ptr[h])
  /\ Take(h, g)
  /\ UNCHANGED made

\* process_pool: the engine of the target is lost; so is that of a pool
\* assigned to itself
MoveAssignPool(h, g) ==
  /\ Made(h, "process_pool") /\ Made(g, "process_pool")
  /\ Take(h, g)
  /\ UNCHANGED <<made, live, captured>>

\* json_log: the statistics of the target are lost
MoveAssignLog(h, g) ==
  /\ Made(h, "json_log") /\ Made(g, "json_log") /\ h # g
  /\ Take(h, g)
  /\ UNCHANGED <<made, live, captured>>

\* a mistake: a process leaves its engine behind
Destroy_Keeps(h) ==
  /\ h \in made
  /\ made' = made \ {h} /\ ptr' = [ptr EXCEPT ![h] = Null]
  /\ UNCHANGED <<live, captured>>

\* the destructors: delete does nothing for nullptr
Destroy(h) ==
  /\ h \in made
  /\ Delete(ptr[h])
  /\ made' = made \ {h} /\ ptr' = [ptr EXCEPT ![h] = Null]

\* every_line(), on_finish(), on_stop(), on_start(), on_finish_error() and the
\* parsers: a function that captures this is connected to a signal of the engine
Connect(h) ==
  /\ Made(h, "process") /\ ptr[h] # Null
  /\ captured' = captured \cup {<<ptr[h], h>>}
  /\ UNCHANGED <<made, ptr, live>>

Next ==
  \E h \in Handles :
    \/ Construct(h) \/ ConstructLog(h) \/ ParseStats(h) \/ SetStats(h)
    \/ Destroy(h) \/ Connect(h)
    \/ \E g \in Handles :
         \/ CopyConstruct(h, g) \/ CopyAssign(h, g) \/ MoveConstruct(h, g)
         \/ MoveAssignProcess(h, g) \/ MoveAssignPool(h, g) \/ MoveAssignLog(h, g)

Spec == Init /\ [][Next]_vars

-----------------------------------------------------------------------------
Processes == {x \in DOMAIN Class : Class[x] = "process"}

TypeOK ==
  /\ made \subseteq Handles /\ live \subseteq Cells
  /\ ptr \in [Handles -> Cells \cup {Null}]
  /\ captured \subseteq (Cells \cap Processes) \X (Handles \cap Processes)
  /\ \A h \in Handles : ptr[h] # Null => h \in made /\ Class[ptr[h]] = Class[h]

(***************************************************************************)
(* Whatever copies and moves an application makes, in whatever order, an   *)
(* object holds a pointer to memory in use, and no other object holds it:  *)
(* so nothing is deleted twice, or used after another has deleted it.      *)
(***************************************************************************)
OwnedOnce ==
  /\ \A h \in Handles : ptr[h] # Null => ptr[h] \in live
  /\ \A h, g \in Handles : h # g /\ ptr[h] # Null => ptr[h] # ptr[g]

(***************************************************************************)
(* The engine of a process, which has threads and a child, is never lost:  *)
(* as long as it exists some process owns it, whose destructor stops it.   *)
(* (Neither the engine of a pool nor statistics are as safe.)              *)
(***************************************************************************)
EnginesOwned ==
  \A c \in live \cap Processes : \E h \in made : ptr[h] = c

(***************************************************************************)
(* A callback finds, behind the "this" it captured when it was connected,  *)
(* a process that exists and owns the engine that calls it.  (It holds as  *)
(* long as no process is moved once it has callbacks.)                     *)
(***************************************************************************)
CallbacksFindProcess ==
  \A k \in captured : k[2] \in made /\ ptr[k[2]] = k[1]
=============================================================================
