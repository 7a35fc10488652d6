-------------------------- MODULE ProcessLifecycle --------------------------
(***************************************************************************)
(* What one iridium::rclone::process promises to the code that owns it     *)
(* (process_pool, or an application): when its state changes, and how many *)
(* times the on_finish and on_stop callbacks are called.  It is the        *)
(* contract that process_impl.cpp implements (see Process.tla) and on      *)
(* which process_pool_impl.cpp relies (see ProcessPool.tla): one launch,   *)
(* one thread that waits for the child, and any number of threads calling  *)
(* stop().                                                                 *)
(*                                                                         *)
(* Pipes, lines of output and joins are left to Process.tla.               *)
(***************************************************************************)
EXTENDS Naturals, FiniteSets

CONSTANT Stoppers    \* the threads that may call stop()

VARIABLES
  state,     \* process::state
  alive,     \* the child has neither ended nor been told to
  waiter,    \* where the thread that waits for the child is
  stopper,   \* where each call of stop() is
  finishes,  \* how many times on_finish was called
  stops      \* the threads whose stop() called on_stop

vars == <<state, alive, waiter, stopper, finishes, stops>>

States == {"not_launched", "running", "finished", "stopped", "error"}
WaiterPlaces == {"none", "wait", "set", "report", "done"}
StopperPlaces == {"none", "checked", "set"}

Init ==
  /\ state = "not_launched"
  /\ alive = FALSE
  /\ waiter = "none"
  /\ stopper = [s \in Stoppers |-> "none"]
  /\ finishes = 0
  /\ stops = {}

-----------------------------------------------------------------------------
(***************************************************************************)
(* execute(): the only way out of not_launched.  The child may be dead by  *)
(* the time the state says it runs, and the waiting thread may start later.*)
(***************************************************************************)
Launch ==
  /\ state = "not_launched"
  /\ state' = "running"
  /\ alive' \in BOOLEAN
  /\ waiter' \in {"none", "wait"}
  /\ UNCHANGED <<stopper, finishes, stops>>

StartWaiter ==
  /\ state # "not_launched"
  /\ waiter = "none"
  /\ waiter' = "wait"
  /\ UNCHANGED <<state, alive, stopper, finishes, stops>>

Die ==
  /\ alive
  /\ alive' = FALSE
  /\ UNCHANGED <<state, waiter, stopper, finishes, stops>>

(***************************************************************************)
(* The waiting thread: it looks at the state once the child is as good as  *)
(* dead, and unless that is "stopped" records the outcome and reports it.  *)
(***************************************************************************)
Decide ==
  /\ waiter = "wait"
  /\ ~alive
  /\ waiter' = IF state # "stopped" THEN "set" ELSE "done"
  /\ UNCHANGED <<state, alive, stopper, finishes, stops>>

Record ==
  /\ waiter = "set"
  /\ waiter' = "report"
  /\ state' \in {"finished", "error"}
  /\ UNCHANGED <<alive, stopper, finishes, stops>>

Report ==
  /\ waiter = "report"
  /\ waiter' = "done"
  /\ finishes' = finishes + 1
  /\ UNCHANGED <<state, alive, stopper, stops>>

(***************************************************************************)
(* stop(): the check that the process runs, the store, and the callback    *)
(* are three steps; nothing keeps the waiting thread out in between.       *)
(***************************************************************************)
StopCheck(s) ==
  /\ stopper[s] = "none"
  /\ state = "running"
  /\ stopper' = [stopper EXCEPT ![s] = "checked"]
  /\ UNCHANGED <<state, alive, waiter, finishes, stops>>

StopStore(s) ==
  /\ stopper[s] = "checked"
  /\ stopper' = [stopper EXCEPT ![s] = "set"]
  /\ state' = "stopped"
  /\ UNCHANGED <<alive, waiter, finishes, stops>>

StopReport(s) ==
  /\ stopper[s] = "set"
  /\ stopper' = [stopper EXCEPT ![s] = "none"]
  /\ stops' = stops \cup {s}
  /\ UNCHANGED <<state, alive, waiter, finishes>>

Next ==
  \/ Launch \/ StartWaiter \/ Die
  \/ Decide \/ Record \/ Report
  \/ \E s \in Stoppers : StopCheck(s) \/ StopStore(s) \/ StopReport(s)

Spec == Init /\ [][Next]_vars

-----------------------------------------------------------------------------
TypeOK ==
  /\ state \in States
  /\ alive \in BOOLEAN
  /\ waiter \in WaiterPlaces
  /\ stopper \in [Stoppers -> StopperPlaces]
  /\ finishes \in {0, 1}
  /\ stops \subseteq Stoppers

(***************************************************************************)
(* Whoever counts processes by their callbacks, as process_pool does, must *)
(* hear of every process that ended: when the waiting thread is over, then *)
(* on_finish was called, or on_stop was, or a stop() is about to call it.  *)
(* The two checks of the state (in stop() and in the waiting thread) race, *)
(* and in no interleaving may each leave the report to the other.          *)
(***************************************************************************)
AtLeastOneReport ==
  waiter = "done" =>
    \/ finishes = 1
    \/ stops # {}
    \/ \E s \in Stoppers : stopper[s] = "set"

(***************************************************************************)
(* on_finish is called once at most, and never while the child still runs. *)
(***************************************************************************)
FinishAfterDeath ==
  finishes > 0 => finishes = 1 /\ ~alive /\ waiter = "done"

(***************************************************************************)
(* Once the waiting thread is over the process does not look running, so   *)
(* the destructor and a pool's stop need not stop it, whatever stores the  *)
(* racing threads made in between.                                         *)
(***************************************************************************)
EndedNotRunning ==
  waiter \in {"report", "done"} => state \notin {"not_launched", "running"}

=============================================================================
