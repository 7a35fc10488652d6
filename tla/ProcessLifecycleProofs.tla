----------------------- MODULE ProcessLifecycleProofs -----------------------
(***************************************************************************)
(* What the contract of ProcessLifecycle guarantees, for every set of      *)
(* threads that call stop().                                               *)
(***************************************************************************)
EXTENDS ProcessLifecycle, TLAPS

(***************************************************************************)
(* The strengthening.  AtLeastOneReport is not inductive by itself: why    *)
(* the waiting thread saw "stopped" must be remembered.  Only StopStore    *)
(* stores it, and it leaves the stopper at "set" until the callback is     *)
(* made; so a state that is "stopped" is always accounted for.             *)
(***************************************************************************)
NotLaunched ==
  state = "not_launched" =>
    waiter = "none" /\ ~alive /\ \A s \in Stoppers : stopper[s] = "none"

StoppedAccounted ==
  state = "stopped" => stops # {} \/ \E s \in Stoppers : stopper[s] = "set"

WaiterAfterDeath == waiter \in {"set", "report", "done"} => ~alive

NotYetReported == waiter # "done" => finishes = 0

IInv ==
  /\ TypeOK
  /\ NotLaunched
  /\ StoppedAccounted
  /\ WaiterAfterDeath
  /\ NotYetReported
  /\ AtLeastOneReport
  /\ EndedNotRunning

\* The strengthening holds of a process that was not launched.
LEMMA InvariantInit == Init => IInv
  BY DEF Init, IInv, TypeOK, NotLaunched, StoppedAccounted, WaiterAfterDeath,
         NotYetReported, AtLeastOneReport, EndedNotRunning, States,
         WaiterPlaces, StopperPlaces

\* Every step of execute(), of the waiting thread and of stop() preserves it.
LEMMA InvariantStep == IInv /\ [Next]_vars => IInv'
<1> SUFFICES ASSUME IInv, [Next]_vars PROVE IInv'
  OBVIOUS
<1> USE DEF IInv, TypeOK, NotLaunched, StoppedAccounted, WaiterAfterDeath,
            NotYetReported, AtLeastOneReport, EndedNotRunning, States,
            WaiterPlaces, StopperPlaces
<1>1. CASE Launch
  BY <1>1 DEF Launch
<1>2. CASE StartWaiter
  BY <1>2 DEF StartWaiter
<1>3. CASE Die
  BY <1>3 DEF Die
<1>4. CASE Decide
  BY <1>4 DEF Decide
<1>5. CASE Record
  BY <1>5 DEF Record
<1>6. CASE Report
  BY <1>6 DEF Report
<1>7. ASSUME NEW s \in Stoppers, StopCheck(s) PROVE IInv'
  BY <1>7 DEF StopCheck
<1>8. ASSUME NEW s \in Stoppers, StopStore(s) PROVE IInv'
  BY <1>8 DEF StopStore
<1>9. ASSUME NEW s \in Stoppers, StopReport(s) PROVE IInv'
  BY <1>9 DEF StopReport
<1>10. CASE UNCHANGED vars
  BY <1>10 DEF vars
<1> QED
  BY <1>1, <1>2, <1>3, <1>4, <1>5, <1>6, <1>7, <1>8, <1>9, <1>10 DEF Next

(***************************************************************************)
(* The strengthening is an invariant of every lifecycle.                   *)
(***************************************************************************)
THEOREM Invariance == Spec => []IInv
  BY InvariantInit, InvariantStep, PTL DEF Spec

(***************************************************************************)
(* Every variable keeps its type; in particular on_finish is called once.  *)
(***************************************************************************)
THEOREM TypeCorrect == Spec => []TypeOK
<1>1. IInv => TypeOK
  BY DEF IInv
<1> QED
  BY Invariance, <1>1, PTL

(***************************************************************************)
(* A process whose waiting thread is over was reported by on_finish or     *)
(* on_stop, or a stop() in progress is about to report it: the two racing  *)
(* checks of the state never leave the report to each other.               *)
(***************************************************************************)
THEOREM Reported == Spec => []AtLeastOneReport
<1>1. IInv => AtLeastOneReport
  BY DEF IInv
<1> QED
  BY Invariance, <1>1, PTL

(***************************************************************************)
(* on_finish is called after the child is dead, by a thread that is then   *)
(* over; and a process whose thread is over does not look running.         *)
(***************************************************************************)
THEOREM FinishedForGood == Spec => [](FinishAfterDeath /\ EndedNotRunning)
<1>1. IInv => FinishAfterDeath /\ EndedNotRunning
  BY DEF IInv, TypeOK, WaiterAfterDeath, NotYetReported, FinishAfterDeath
<1> QED
  BY Invariance, <1>1, PTL
=============================================================================
