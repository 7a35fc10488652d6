----------------------- MODULE ProcessPoolCountProofs -----------------------
(***************************************************************************)
(* The 16-bit count of running processes, the limit that the scheduler     *)
(* keeps with it, and the count of the ended that wait() trusts, for any   *)
(* number of processes that 16 bits can count.                             *)
(***************************************************************************)
EXTENDS ProcessPoolProofs, Integers

-----------------------------------------------------------------------------
(***************************************************************************)
(* What the count rests on, beside the invariant of ProcessPoolProofs.     *)
(***************************************************************************)

\* the pool is destroyed by its owner, when no other client uses it
Alone == \A c \in Clients :
  /\ op[c] \in {"destroy", "members"} =>
       c = Owner /\ \A d \in Clients : d # c => pc[d] = "idle"
  /\ pc[c] = "join" => op[c] = "destroy"

\* the processes that a client walks through are in the map
TodoInMap == \A c \in Clients :
  pc[c] \in WalkPlaces => \A i \in DOMAIN todo[c] : InQueue(todo[c][i])

\* so is a process whose callbacks are still to come
WaitedInMap == \A p \in Procs : waiter[p] \notin {"none", "done"} => InQueue(p)

\* a client reports the end of a process once, when it has stopped it
ReportsOnce ==
  /\ \A p \in Procs : pstate[p] \in {"not_launched", "running"} => stoppedBy[p] = {}
  /\ \A c \in Clients :
       /\ pc[c] \in {"set", "uncount"} => c \notin stoppedBy[Current(c)]
       /\ pc[c] = "uncount" => pstate[Current(c)] \in {"stopped", "finished"}

Support == IInv /\ Alone /\ TodoInMap /\ WaitedInMap /\ ReportsOnce

\* A notification moves nobody but a client that sleeps.
LEMMA NotifyMoves ==
  ASSUME NEW f \in [Clients -> ClientPlaces], NotifyWait(f), NEW d \in Clients
  PROVE  pc'[d] = f[d] \/ (pc[d] = "w_asleep" /\ pc'[d] = "w_lock")
  BY DEF NotifyWait, Asleep

\* add_process() puts one process into the map.
LEMMA AddMembers ==
  ASSUME IInv, NEW c \in Clients, NEW p \in Procs, AddProcess(c, p), NEW q \in Procs
  PROVE  InQueue(q)' <=> InQueue(q) \/ q = p
  BY AddInContract DEF Contract!Add

\* A client that finds the pool being destroyed begins nothing.
LEMMA AloneStep == Support /\ [Next]_vars => Alone'
<1> SUFFICES ASSUME Support, [Next]_vars PROVE Alone'
  OBVIOUS
<1>a. Alone /\ Holding /\ pc \in [Clients -> ClientPlaces] /\ DOMAIN op = Clients
  BY DEF Support, IInv, Types, ClientTypes
<1> USE ConstantsAssumption, <1>a DEF Alone, Holding, poolVars, countVars,
    procVars, clientVars, historyVars, Up, Goto, Sched, Waiter
<1>1. ASSUME NEW p \in Procs, FinishNotifiesWait(p) PROVE Alone'
  BY <1>1 DEF FinishNotifiesWait, Notifying, NotifyWait, Asleep
<1>2. ASSUME NEW c \in Clients, NEW p \in Procs, AddProcess(c, p) PROVE Alone'
  BY <1>2 DEF AddProcess, MayBegin, MapChanges
<1>3. ASSUME NEW c \in Clients, NEW n \in Limits, SetLimit(c, n) PROVE Alone'
  BY <1>3 DEF SetLimit, MayBegin
<1>4. ASSUME NEW c \in Clients, Notify(c) PROVE Alone'
  BY <1>4 DEF Notify, NotifyScheduler
<1>5. ASSUME NEW c \in Clients, Wait(c) PROVE Alone'
  BY <1>5 DEF Wait, MayBegin
<1>6. ASSUME NEW c \in Clients, WaitLock(c) PROVE Alone'
  BY <1>6 DEF WaitLock
<1>7. ASSUME NEW c \in Clients, WaitWalk(c) PROVE Alone'
  BY <1>7 DEF WaitWalk
<1>8. ASSUME NEW c \in Clients, WaitCheck(c) PROVE Alone'
  BY <1>8 DEF WaitCheck
<1>9. ASSUME NEW c \in Clients, WaitSleep(c) PROVE Alone'
  BY <1>9 DEF WaitSleep
<1>10. ASSUME NEW c \in Clients, WaitWakeup(c) PROVE Alone'
  BY <1>10 DEF WaitWakeup
<1>11. ASSUME NEW c \in Clients, Stop(c) PROVE Alone'
  BY <1>11 DEF Stop, Begin, MayBegin
<1>12. ASSUME NEW c \in Clients, StopAll(c) PROVE Alone'
  BY <1>12 DEF StopAll, Begin, MayBegin
<1>13. ASSUME NEW c \in Clients, Clear(c) PROVE Alone'
  BY <1>13 DEF Clear, Begin, MayBegin
<1>14. ASSUME NEW c \in Clients, Destroy(c) PROVE Alone'
  BY <1>14 DEF Destroy, Begin, MayBegin
<1>15. ASSUME NEW c \in Clients, Lock(c) PROVE Alone'
  BY <1>15 DEF Lock
<1>16. ASSUME NEW c \in Clients, WalkRunning(c) PROVE Alone'
  BY <1>16 DEF WalkRunning
<1>17. ASSUME NEW c \in Clients, WalkPast(c) PROVE Alone'
  BY <1>17 DEF WalkPast
<1>18. ASSUME NEW c \in Clients, Recheck(c) PROVE Alone'
  BY <1>18 DEF Recheck
<1>19. ASSUME NEW c \in Clients, StopSets(c) PROVE Alone'
  BY <1>19 DEF StopSets
<1>20. ASSUME NEW c \in Clients, StopUncounts(c) PROVE Alone'
  BY <1>20 DEF StopUncounts
<1>21. ASSUME NEW c \in Clients, StopTallies(c) PROVE Alone'
  BY <1>21 DEF StopTallies
<1>22. ASSUME NEW c \in Clients, StopNotifies(c) PROVE Alone'
  BY <1>22 DEF StopNotifies, Notifying, NotifyScheduler
<1>23. ASSUME NEW c \in Clients, StopNotifiesWait(c) PROVE Alone'
  <2>1. [pc EXCEPT ![c] = "kill"] \in [Clients -> ClientPlaces] /\ NotifyWait([pc EXCEPT ![c] = "kill"])
    BY <1>23 DEF StopNotifiesWait, ClientPlaces
  <2>2. pc[c] = "notify_wait"
    BY <1>23 DEF StopNotifiesWait
  <2>3. \A d \in Clients :
          pc'[d] = [pc EXCEPT ![c] = "kill"][d] \/ (pc[d] = "w_asleep" /\ pc'[d] = "w_lock")
    BY <2>1, NotifyMoves
  <2>4. \A d \in Clients : (pc[d] = "idle" => pc'[d] = "idle") /\ (pc'[d] = "join" => pc[d] = "join")
    BY <2>2, <2>3
  <2> QED
    BY <1>23, <2>4 DEF StopNotifiesWait
<1>70. ASSUME NEW c \in Clients, StopJoins(c) PROVE Alone'
  BY <1>70 DEF StopJoins
<1>24. ASSUME NEW c \in Clients, StopKills(c) PROVE Alone'
  BY <1>24 DEF StopKills
<1>25. ASSUME NEW c \in Clients, StopEnds(c) PROVE Alone'
  BY <1>25 DEF StopEnds
<1>26. ASSUME NEW c \in Clients, StopAllEnds(c) PROVE Alone'
  BY <1>26 DEF StopAllEnds
<1>27. ASSUME NEW c \in Clients, DestroyMap(c) PROVE Alone'
  BY <1>27 DEF DestroyMap
<1>28. ASSUME NEW c \in Clients, ClearMap(c) PROVE Alone'
  BY <1>28 DEF ClearMap, MapChanges
<1>29. ASSUME NEW c \in Clients, ResetCounts(c) PROVE Alone'
  BY <1>29 DEF ResetCounts
<1>30. ASSUME NEW c \in Clients, MembersGone(c) PROVE Alone'
  BY <1>30 DEF MembersGone
<1>31. CASE UNCHANGED <<pc, op>>
  BY <1>31
<1> HIDE DEF Alone
<1> QED
  BY <1>70, <1>1, <1>2, <1>3, <1>4, <1>5, <1>6, <1>7, <1>8, <1>9, <1>10, <1>11, <1>12, <1>13,
      <1>14, <1>15, <1>16, <1>17, <1>18, <1>19, <1>20, <1>21, <1>22, <1>23, <1>24, <1>25,
      <1>26, <1>27, <1>28, <1>29, <1>30, <1>31
  DEF vars, Next, Over, SchedulerStep, WaiterStep, CallStep, WalkStep, BeginCall,
      EvaluatePredicate, FallAsleep, SpuriousWakeup, CheckState, LaunchProcess,
      NothingToLaunch, CountLaunch, LoopAgain, ChildEnds, WaiterChecks, WaiterSets,
      FinishUncounts, FinishTallies, FinishNotifies, Notifying, NotifyScheduler

\* Only clear() takes processes out of the map, when nobody walks through it.
LEMMA TodoInMapStep == Support /\ [Next]_vars => TodoInMap'
<1> SUFFICES ASSUME Support, [Next]_vars PROVE TodoInMap'
  OBVIOUS
<1>a. TodoInMap /\ pc \in [Clients -> ClientPlaces] /\ todo \in [Clients -> Seq(Procs)]
  BY DEF Support, IInv, Types, ClientTypes
<1> USE <1>a DEF TodoInMap, InQueue, WalkPlaces, StopPlaces, poolVars, countVars,
    procVars, clientVars, historyVars, Up, Goto, Sched, Waiter
<1>1. ASSUME NEW p \in Procs, FinishNotifiesWait(p) PROVE TodoInMap'
  <2>1. pc \in [Clients -> ClientPlaces] /\ NotifyWait(pc)
    BY <1>1 DEF FinishNotifiesWait, ClientPlaces
  <2>2. \A d \in Clients : pc'[d] \in WalkPlaces => pc[d] \in WalkPlaces
    BY <1>1, <2>1, NotifyMoves DEF FinishNotifiesWait
  <2>3. UNCHANGED <<todo, queue>>
    BY <1>1 DEF FinishNotifiesWait
  <2> HIDE DEF WalkPlaces
  <2> QED
    BY <2>2, <2>3
<1>2. ASSUME NEW c \in Clients, NEW p \in Procs, AddProcess(c, p) PROVE TodoInMap'
  <2>1. UNCHANGED todo /\ \A d \in Clients : pc'[d] \in WalkPlaces => pc[d] \in WalkPlaces
    BY <1>2 DEF AddProcess
  <2>2. \A q \in Procs : InQueue(q) => InQueue(q)'
    BY <1>2, AddMembers DEF Support
  <2> HIDE DEF InQueue, WalkPlaces
  <2> QED
    BY <2>1, <2>2
<1>3. ASSUME NEW c \in Clients, NEW n \in Limits, SetLimit(c, n) PROVE TodoInMap'
  BY <1>3 DEF SetLimit, MayBegin
<1>4. ASSUME NEW c \in Clients, Notify(c) PROVE TodoInMap'
  BY <1>4 DEF Notify, NotifyScheduler
<1>5. ASSUME NEW c \in Clients, Wait(c) PROVE TodoInMap'
  BY <1>5 DEF Wait, MayBegin
<1>6. ASSUME NEW c \in Clients, WaitLock(c) PROVE TodoInMap'
  BY <1>6 DEF WaitLock
<1>7. ASSUME NEW c \in Clients, WaitWalk(c) PROVE TodoInMap'
  BY <1>7 DEF WaitWalk
<1>8. ASSUME NEW c \in Clients, WaitCheck(c) PROVE TodoInMap'
  BY <1>8 DEF WaitCheck
<1>9. ASSUME NEW c \in Clients, WaitSleep(c) PROVE TodoInMap'
  BY <1>9 DEF WaitSleep
<1>10. ASSUME NEW c \in Clients, WaitWakeup(c) PROVE TodoInMap'
  BY <1>10 DEF WaitWakeup
<1>11. ASSUME NEW c \in Clients, Stop(c) PROVE TodoInMap'
  BY <1>11 DEF Stop, Begin, MayBegin
<1>12. ASSUME NEW c \in Clients, StopAll(c) PROVE TodoInMap'
  BY <1>12 DEF StopAll, Begin, MayBegin
<1>13. ASSUME NEW c \in Clients, Clear(c) PROVE TodoInMap'
  BY <1>13 DEF Clear, Begin, MayBegin
<1>14. ASSUME NEW c \in Clients, Destroy(c) PROVE TodoInMap'
  BY <1>14 DEF Destroy, Begin, MayBegin
<1>15. ASSUME NEW c \in Clients, Lock(c) PROVE TodoInMap'
  BY <1>15 DEF Lock
<1>16. ASSUME NEW c \in Clients, WalkRunning(c) PROVE TodoInMap'
  BY <1>16 DEF WalkRunning
<1>17. ASSUME NEW c \in Clients, WalkPast(c) PROVE TodoInMap'
  <2>1. \A d \in Clients : pc'[d] = pc[d] /\ (d # c => todo'[d] = todo[d])
    BY <1>17 DEF WalkPast
  <2>2. todo'[c] = Tail(todo[c]) /\ todo[c] # <<>> /\ todo[c] \in Seq(Procs) /\ queue' = queue
    BY <1>17 DEF WalkPast
  <2>3. \A i \in DOMAIN Tail(todo[c]) :
          i + 1 \in DOMAIN todo[c] /\ Tail(todo[c])[i] = todo[c][i + 1]
    BY <2>2
  <2>4. pc[c] \in WalkPlaces
    BY <1>17 DEF WalkPast
  <2> HIDE DEF WalkPlaces
  <2>5. ASSUME NEW i \in DOMAIN Tail(todo[c]) PROVE InQueue(Tail(todo[c])[i])
    BY <2>2, <2>3, <2>4
  <2>6. ASSUME NEW d \in Clients, d # c, pc'[d] \in WalkPlaces, NEW i \in DOMAIN todo'[d]
        PROVE  InQueue(todo'[d][i])
    BY <2>1, <2>2, <2>6
  <2>7. ASSUME NEW d \in Clients, pc'[d] \in WalkPlaces, NEW i \in DOMAIN todo'[d]
        PROVE  \E j \in DOMAIN queue' : queue'[j] = todo'[d][i]
    <3>1. CASE d = c
      BY <2>2, <2>5, <3>1
    <3>2. CASE d # c
      BY <2>2, <2>6, <2>7, <3>2
    <3> QED
      BY <3>1, <3>2
  <2> QED
    BY <2>7
<1>18. ASSUME NEW c \in Clients, Recheck(c) PROVE TodoInMap'
  <2>1. \A d \in Clients :
          pc'[d] \in WalkPlaces => pc[d] \in WalkPlaces /\ todo'[d] = todo[d]
    BY <1>18 DEF Recheck
  <2>2. UNCHANGED queue
    BY <1>18 DEF Recheck
  <2> HIDE DEF WalkPlaces
  <2> QED
    BY <2>1, <2>2
<1>19. ASSUME NEW c \in Clients, StopSets(c) PROVE TodoInMap'
  BY <1>19 DEF StopSets
<1>20. ASSUME NEW c \in Clients, StopUncounts(c) PROVE TodoInMap'
  BY <1>20 DEF StopUncounts
<1>21. ASSUME NEW c \in Clients, StopTallies(c) PROVE TodoInMap'
  BY <1>21 DEF StopTallies
<1>22. ASSUME NEW c \in Clients, StopNotifies(c) PROVE TodoInMap'
  <2>1. \A d \in Clients :
          pc'[d] \in WalkPlaces => pc[d] \in WalkPlaces /\ todo'[d] = todo[d]
    BY <1>22 DEF StopNotifies
  <2>2. UNCHANGED queue
    BY <1>22 DEF StopNotifies
  <2> HIDE DEF WalkPlaces
  <2> QED
    BY <2>1, <2>2
<1>23. ASSUME NEW c \in Clients, StopNotifiesWait(c) PROVE TodoInMap'
  <2>1. [pc EXCEPT ![c] = "kill"] \in [Clients -> ClientPlaces] /\ NotifyWait([pc EXCEPT ![c] = "kill"])
    BY <1>23 DEF StopNotifiesWait, ClientPlaces
  <2>2. \A d \in Clients : pc'[d] \in WalkPlaces => pc[d] \in WalkPlaces
    BY <1>23, <2>1, NotifyMoves DEF StopNotifiesWait
  <2>3. UNCHANGED <<todo, queue>>
    BY <1>23 DEF StopNotifiesWait
  <2> HIDE DEF WalkPlaces
  <2> QED
    BY <2>2, <2>3
<1>70. ASSUME NEW c \in Clients, StopJoins(c) PROVE TodoInMap'
  BY <1>70 DEF StopJoins
<1>24. ASSUME NEW c \in Clients, StopKills(c) PROVE TodoInMap'
  BY <1>24 DEF StopKills
<1>25. ASSUME NEW c \in Clients, StopEnds(c) PROVE TodoInMap'
  BY <1>25 DEF StopEnds
<1>26. ASSUME NEW c \in Clients, StopAllEnds(c) PROVE TodoInMap'
  BY <1>26 DEF StopAllEnds
<1>27. ASSUME NEW c \in Clients, DestroyMap(c) PROVE TodoInMap'
  BY <1>27 DEF DestroyMap
<1>28. ASSUME NEW c \in Clients, ClearMap(c) PROVE TodoInMap'
  <2>1. pc[c] = "walk" /\ op[c] = "clear_map" /\ pc' = [pc EXCEPT ![c] = "reset"]
    BY <1>28 DEF ClearMap
  <2>2. ASSUME NEW d \in Clients, d # c PROVE pc[d] \notin WalkPlaces
    <3>1. mutex = c
      BY <2>1 DEF Support, IInv, Holding
    <3>2. op[d] # "members"
      BY <2>1, <2>2 DEF Support, Alone
    <3> QED
      BY <2>2, <3>1, <3>2 DEF Support, IInv, Holding
  <2> QED
    BY <2>1, <2>2
<1>29. ASSUME NEW c \in Clients, ResetCounts(c) PROVE TodoInMap'
  BY <1>29 DEF ResetCounts
<1>30. ASSUME NEW c \in Clients, MembersGone(c) PROVE TodoInMap'
  BY <1>30 DEF MembersGone
<1>31. CASE UNCHANGED <<pc, todo, queue>>
  BY <1>31
<1> HIDE DEF TodoInMap
<1> QED
  BY <1>70, <1>1, <1>2, <1>3, <1>4, <1>5, <1>6, <1>7, <1>8, <1>9, <1>10, <1>11, <1>12, <1>13,
      <1>14, <1>15, <1>16, <1>17, <1>18, <1>19, <1>20, <1>21, <1>22, <1>23, <1>24, <1>25,
      <1>26, <1>27, <1>28, <1>29, <1>30, <1>31
  DEF vars, Next, Over, SchedulerStep, WaiterStep, CallStep, WalkStep, BeginCall,
      EvaluatePredicate, FallAsleep, SpuriousWakeup, CheckState, LaunchProcess,
      NothingToLaunch, CountLaunch, LoopAgain, ChildEnds, WaiterChecks, WaiterSets,
      FinishUncounts, FinishTallies, FinishNotifies, Notifying, NotifyScheduler

\* A process in the map stays until its callbacks have returned.
LEMMA WaitedInMapStep == Support /\ [Next]_vars => WaitedInMap'
<1> SUFFICES ASSUME Support, [Next]_vars PROVE WaitedInMap'
  OBVIOUS
<1>a. WaitedInMap /\ waiter \in [Procs -> WaiterPlaces]
  BY DEF Support, IInv, Types, ProcessTypes
<1> USE <1>a DEF WaitedInMap, InQueue, poolVars, countVars,
    procVars, clientVars, historyVars, Up, Goto, Sched, Waiter
<1>1. ASSUME NEW p \in Procs, LaunchProcess(p) PROVE WaitedInMap'
  BY <1>1 DEF LaunchProcess, GetProcess
<1>2. ASSUME NEW p \in Procs, WaiterChecks(p) PROVE WaitedInMap'
  BY <1>2 DEF WaiterChecks
<1>3. ASSUME NEW p \in Procs, WaiterSets(p) PROVE WaitedInMap'
  BY <1>3 DEF WaiterSets
<1>4. ASSUME NEW p \in Procs, FinishUncounts(p) PROVE WaitedInMap'
  BY <1>4 DEF FinishUncounts
<1>5. ASSUME NEW p \in Procs, FinishTallies(p) PROVE WaitedInMap'
  BY <1>5 DEF FinishTallies
<1>6. ASSUME NEW p \in Procs, FinishNotifies(p) PROVE WaitedInMap'
  BY <1>6 DEF FinishNotifies, Notifying, NotifyScheduler
<1>7. ASSUME NEW p \in Procs, FinishNotifiesWait(p) PROVE WaitedInMap'
  BY <1>7 DEF FinishNotifiesWait, Notifying, NotifyWait, Asleep
<1>8. ASSUME NEW c \in Clients, NEW p \in Procs, AddProcess(c, p) PROVE WaitedInMap'
  <2>1. UNCHANGED waiter
    BY <1>8 DEF AddProcess
  <2>2. \A q \in Procs : InQueue(q) => InQueue(q)'
    BY <1>8, AddMembers DEF Support
  <2> HIDE DEF InQueue
  <2> QED
    BY <2>1, <2>2
<1>9. ASSUME NEW c \in Clients, ClearMap(c) PROVE WaitedInMap'
  BY <1>9 DEF ClearMap, MapChanges, Support, IInv, Cleared, Todo, WalkPlaces
<1>10. CASE UNCHANGED <<waiter, queue>>
  BY <1>10
<1> HIDE DEF WaitedInMap
<1> QED
  BY <1>1, <1>2, <1>3, <1>4, <1>5, <1>6, <1>7, <1>8, <1>9, <1>10
  DEF vars, Next, Over, SchedulerStep, WaiterStep, CallStep, WalkStep, BeginCall,
      EvaluatePredicate, FallAsleep, SpuriousWakeup, CheckState, NothingToLaunch,
      CountLaunch, LoopAgain, ChildEnds, SetLimit, Notify, NotifyScheduler, Wait, WaitLock,
      WaitWalk, WaitCheck, WaitSleep, WaitWakeup, Stop, Begin, StopAll, Clear, Destroy,
      Lock, WalkRunning, WalkPast, Recheck, StopSets, StopUncounts, StopTallies,
      StopNotifies, Notifying, StopNotifiesWait, NotifyWait, Asleep, StopKills, StopJoins, StopEnds,
      StopAllEnds, DestroyMap, ResetCounts, MembersGone

\* A process is reported by a client only after that client found it running.
LEMMA ReportsOnceStep == Support /\ [Next]_vars => ReportsOnce'
<1> SUFFICES ASSUME Support, [Next]_vars PROVE ReportsOnce'
  OBVIOUS
<1>a. ReportsOnce /\ pc \in [Clients -> ClientPlaces]
  BY DEF Support, IInv, Types, ClientTypes
<1>b. /\ pstate \in [Procs -> {"not_launched", "running", "finished", "stopped"}]
      /\ todo \in [Clients -> Seq(Procs)] /\ DOMAIN op = Clients
      /\ DOMAIN stoppedBy = Procs
  BY DEF Support, IInv, Types, ProcessTypes, ClientTypes
<1>c. \A c \in Clients : pc[c] \in StopPlaces =>
        todo[c] # <<>> /\ Current(c) \in Procs /\ pstate[Current(c)] # "not_launched"
  BY <1>b DEF Support, IInv, Holding, Current
<1> USE <1>a, <1>b, <1>c DEF
    ReportsOnce, StopPlaces, Current, poolVars, countVars,
    procVars, clientVars, historyVars, Up, Goto, Sched, Waiter
<1>1. ASSUME NEW p \in Procs, LaunchProcess(p) PROVE ReportsOnce'
  BY <1>1 DEF LaunchProcess, GetProcess
<1>2. ASSUME NEW p \in Procs, WaiterSets(p) PROVE ReportsOnce'
  BY <1>2 DEF WaiterSets
<1>3. ASSUME NEW p \in Procs, FinishNotifiesWait(p) PROVE ReportsOnce'
  BY <1>3 DEF FinishNotifiesWait, Notifying, NotifyWait, Asleep
<1>4. ASSUME NEW c \in Clients, NEW p \in Procs, AddProcess(c, p) PROVE ReportsOnce'
  BY <1>4 DEF AddProcess, MayBegin, MapChanges
<1>5. ASSUME NEW c \in Clients, NEW n \in Limits, SetLimit(c, n) PROVE ReportsOnce'
  BY <1>5 DEF SetLimit, MayBegin
<1>6. ASSUME NEW c \in Clients, Notify(c) PROVE ReportsOnce'
  BY <1>6 DEF Notify, NotifyScheduler
<1>7. ASSUME NEW c \in Clients, Wait(c) PROVE ReportsOnce'
  BY <1>7 DEF Wait, MayBegin
<1>8. ASSUME NEW c \in Clients, WaitLock(c) PROVE ReportsOnce'
  BY <1>8 DEF WaitLock
<1>9. ASSUME NEW c \in Clients, WaitWalk(c) PROVE ReportsOnce'
  BY <1>9 DEF WaitWalk
<1>10. ASSUME NEW c \in Clients, WaitCheck(c) PROVE ReportsOnce'
  BY <1>10 DEF WaitCheck
<1>11. ASSUME NEW c \in Clients, WaitSleep(c) PROVE ReportsOnce'
  BY <1>11 DEF WaitSleep
<1>12. ASSUME NEW c \in Clients, WaitWakeup(c) PROVE ReportsOnce'
  BY <1>12 DEF WaitWakeup
<1>13. ASSUME NEW c \in Clients, Stop(c) PROVE ReportsOnce'
  BY <1>13 DEF Stop, Begin, MayBegin
<1>14. ASSUME NEW c \in Clients, StopAll(c) PROVE ReportsOnce'
  BY <1>14 DEF StopAll, Begin, MayBegin
<1>15. ASSUME NEW c \in Clients, Clear(c) PROVE ReportsOnce'
  BY <1>15 DEF Clear, Begin, MayBegin
<1>16. ASSUME NEW c \in Clients, Destroy(c) PROVE ReportsOnce'
  BY <1>16 DEF Destroy, Begin, MayBegin
<1>17. ASSUME NEW c \in Clients, Lock(c) PROVE ReportsOnce'
  BY <1>17 DEF Lock
<1>18. ASSUME NEW c \in Clients, WalkRunning(c) PROVE ReportsOnce'
  BY <1>18 DEF WalkRunning
<1>19. ASSUME NEW c \in Clients, WalkPast(c) PROVE ReportsOnce'
  BY <1>19 DEF WalkPast
<1>20. ASSUME NEW c \in Clients, Recheck(c) PROVE ReportsOnce'
  <2>1. UNCHANGED <<pstate, stoppedBy>>
    BY <1>20 DEF Recheck
  <2>2. \A d \in Clients : d # c => pc'[d] = pc[d] /\ todo'[d] = todo[d]
    BY <1>20 DEF Recheck
  <2>3. pc'[c] # "uncount"
    BY <1>20 DEF Recheck
  <2>4. ASSUME pc'[c] = "set" PROVE todo'[c] = todo[c] /\ stoppedBy[Current(c)] = {}
    <3>1. pstate[Current(c)] = "running" /\ UNCHANGED todo
      BY <1>20, <2>4 DEF Recheck
    <3>2. Current(c) \in Procs
      BY <1>20 DEF Recheck
    <3> QED
      BY <3>1, <3>2
  <2>5. \A d \in Clients : pc'[d] \in {"set", "uncount"} => todo'[d] = todo[d]
    BY <2>2, <2>3, <2>4, <1>20 DEF Recheck
  <2>6. \A d \in Clients : pc'[d] \in {"set", "uncount"} => d \notin stoppedBy[Current(d)]
    BY <2>2, <2>3, <2>4
  <2>7. \A d \in Clients : pc'[d] = "uncount" => pstate[Current(d)] \in {"stopped", "finished"}
    BY <2>2, <2>3
  <2> QED
    BY <2>1, <2>5, <2>6, <2>7
<1>21. ASSUME NEW c \in Clients, StopSets(c) PROVE ReportsOnce'
  BY <1>21 DEF StopSets
<1>22. ASSUME NEW c \in Clients, StopUncounts(c) PROVE ReportsOnce'
  <2>1. UNCHANGED <<pstate, todo>> /\ pc' = [pc EXCEPT ![c] = "tally"] /\ pc[c] = "uncount"
    BY <1>22 DEF StopUncounts
  <2>2. stoppedBy' = [stoppedBy EXCEPT ![Current(c)] = @ \cup {c}]
    BY <1>22 DEF StopUncounts
  <2>3. pstate[Current(c)] \in {"stopped", "finished"}
    BY <2>1
  <2>4. \A p \in Procs : p # Current(c) => stoppedBy'[p] = stoppedBy[p]
    BY <2>2
  <2>5. \A d \in Clients, p \in Procs : d # c => (d \in stoppedBy'[p] <=> d \in stoppedBy[p])
    BY <2>2
  <2>6. \A d \in Clients :
          pc'[d] \in {"set", "uncount"} => d # c /\ pc'[d] = pc[d] /\ Current(d) \in Procs
    BY <2>1
  <2>7. \A p \in Procs : pstate[p] \in {"not_launched", "running"} => stoppedBy'[p] = {}
    BY <2>3, <2>4
  <2>8. \A d \in Clients : pc'[d] \in {"set", "uncount"} => d \notin stoppedBy'[Current(d)]
    BY <2>5, <2>6
  <2>9. \A d \in Clients : pc'[d] = "uncount" => pstate[Current(d)] \in {"stopped", "finished"}
    BY <2>6
  <2> QED
    BY <2>1, <2>7, <2>8, <2>9
<1>23. ASSUME NEW c \in Clients, StopTallies(c) PROVE ReportsOnce'
  BY <1>23 DEF StopTallies
<1>24. ASSUME NEW c \in Clients, StopNotifies(c) PROVE ReportsOnce'
  BY <1>24 DEF StopNotifies, Notifying, NotifyScheduler
<1>25. ASSUME NEW c \in Clients, StopNotifiesWait(c) PROVE ReportsOnce'
  <2>1. [pc EXCEPT ![c] = "kill"] \in [Clients -> ClientPlaces] /\ NotifyWait([pc EXCEPT ![c] = "kill"])
    BY <1>25 DEF StopNotifiesWait, ClientPlaces
  <2>3. \A d \in Clients : pc'[d] = [pc EXCEPT ![c] = "kill"][d] \/ pc'[d] = "w_lock"
    BY <2>1, NotifyMoves
  <2>2. \A d \in Clients : pc'[d] \in {"set", "uncount"} => pc'[d] = pc[d]
    BY <2>3
  <2> QED
    BY <1>25, <2>2 DEF StopNotifiesWait
<1>70. ASSUME NEW c \in Clients, StopJoins(c) PROVE ReportsOnce'
  BY <1>70 DEF StopJoins
<1>26. ASSUME NEW c \in Clients, StopKills(c) PROVE ReportsOnce'
  BY <1>26 DEF StopKills
<1>27. ASSUME NEW c \in Clients, StopEnds(c) PROVE ReportsOnce'
  BY <1>27 DEF StopEnds
<1>28. ASSUME NEW c \in Clients, StopAllEnds(c) PROVE ReportsOnce'
  BY <1>28 DEF StopAllEnds
<1>29. ASSUME NEW c \in Clients, DestroyMap(c) PROVE ReportsOnce'
  BY <1>29 DEF DestroyMap
<1>30. ASSUME NEW c \in Clients, ClearMap(c) PROVE ReportsOnce'
  BY <1>30 DEF ClearMap, MapChanges
<1>31. ASSUME NEW c \in Clients, ResetCounts(c) PROVE ReportsOnce'
  BY <1>31 DEF ResetCounts
<1>32. ASSUME NEW c \in Clients, MembersGone(c) PROVE ReportsOnce'
  BY <1>32 DEF MembersGone
<1>33. CASE UNCHANGED <<pstate, stoppedBy, pc, todo>>
  BY <1>33
<1> HIDE DEF ReportsOnce
<1> QED
  BY <1>70, <1>1, <1>2, <1>3, <1>4, <1>5, <1>6, <1>7, <1>8, <1>9, <1>10, <1>11, <1>12, <1>13,
      <1>14, <1>15, <1>16, <1>17, <1>18, <1>19, <1>20, <1>21, <1>22, <1>23, <1>24, <1>25,
      <1>26, <1>27, <1>28, <1>29, <1>30, <1>31, <1>32, <1>33
  DEF vars, Next, Over, SchedulerStep, WaiterStep, CallStep, WalkStep, BeginCall,
      EvaluatePredicate, FallAsleep, SpuriousWakeup, CheckState, NothingToLaunch,
      CountLaunch, LoopAgain, ChildEnds, WaiterChecks, FinishUncounts, FinishTallies,
      FinishNotifies, Notifying, NotifyScheduler

\* The pool starts so, and each action keeps it.
LEMMA SupportInit == Init => Support
<1> SUFFICES ASSUME Init PROVE Support
  OBVIOUS
<1> QED
  BY InvariantInit
  DEF Init, Support, Alone, TodoInMap, WaitedInMap, ReportsOnce, WalkPlaces, StopPlaces

\* The supporting facts together are inductive.
LEMMA SupportStep == Support /\ [Next]_vars => Support'
  BY InvariantStep, AloneStep, TodoInMapStep, WaitedInMapStep, ReportsOnceStep DEF Support

-----------------------------------------------------------------------------
(***************************************************************************)
(* The count.  Up to a multiple of 65536, it is the number of launches     *)
(* counted so far less the number of callbacks made, of the processes that *)
(* are in the map; between the two halves of clear() there are none.       *)
(***************************************************************************)
FinishReports == finished \cap Launched
StopReports == {r \in Launched \X Clients : r[2] \in stoppedBy[r[1]]}
Uncounted == IF sched = "count" THEN 1 ELSE 0

Balanced ==
  (\A c \in Clients : pc[c] # "reset") =>
    \E k \in Int :
      running + (Cardinality(FinishReports) + Cardinality(StopReports) + Uncounted)
        = Cardinality(Launched) + k * CountRange

NoStopAll == \A c \in Clients : op[c] # "stop_all"

\* Nobody begins stop_all_processes() who does not call it.
LEMMA NoStopAllStep ==
  ASSUME \A c \in Clients : "stop_all" \notin MayCall[c], IInv, NoStopAll, [Next]_vars
  PROVE  NoStopAll'
<1> USE ConstantsAssumption DEF IInv, Types, ClientTypes, NoStopAll, clientVars, Up, Goto
<1>1. ASSUME NEW c \in Clients, Notify(c) PROVE NoStopAll'
  BY <1>1 DEF Notify, NotifyScheduler
<1>2. ASSUME NEW c \in Clients, Stop(c) PROVE NoStopAll'
  BY <1>2 DEF Stop, Begin, MayBegin
<1>3. ASSUME NEW c \in Clients, StopAll(c) PROVE NoStopAll'
  BY <1>3 DEF StopAll, Begin, MayBegin
<1>4. ASSUME NEW c \in Clients, Clear(c) PROVE NoStopAll'
  BY <1>4 DEF Clear, Begin, MayBegin
<1>5. ASSUME NEW c \in Clients, Destroy(c) PROVE NoStopAll'
  BY <1>5 DEF Destroy, Begin, MayBegin
<1>6. ASSUME NEW c \in Clients, Recheck(c) PROVE NoStopAll'
  BY <1>6 DEF Recheck
<1>7. ASSUME NEW c \in Clients, StopAllEnds(c) PROVE NoStopAll'
  BY <1>7 DEF StopAllEnds
<1>8. ASSUME NEW c \in Clients, DestroyMap(c) PROVE NoStopAll'
  BY <1>8 DEF DestroyMap
<1>9. ASSUME NEW c \in Clients, ResetCounts(c) PROVE NoStopAll'
  BY <1>9 DEF ResetCounts
<1>10. CASE UNCHANGED op
  BY <1>10
<1> HIDE DEF NoStopAll
<1> QED
  BY <1>1, <1>2, <1>3, <1>4, <1>5, <1>6, <1>7, <1>8, <1>9, <1>10
  DEF vars, Next, Over, SchedulerStep, WaiterStep, CallStep, WalkStep, BeginCall,
      EvaluatePredicate, FallAsleep, SpuriousWakeup, CheckState, LaunchProcess,
      NothingToLaunch, CountLaunch, LoopAgain, ChildEnds, WaiterChecks, WaiterSets,
      FinishUncounts, FinishTallies, FinishNotifies, Notifying, NotifyScheduler,
      FinishNotifiesWait, NotifyWait, Asleep, AddProcess, MapChanges, SetLimit, Wait,
      WaitLock, WaitWalk, WaitCheck, WaitSleep, WaitWakeup, Lock, WalkRunning, WalkPast,
      StopSets, StopUncounts, StopTallies, StopNotifies, StopNotifiesWait, StopKills, StopJoins,
      StopEnds, ClearMap, MembersGone

\* Counting up or down by one, the wrap included.
LEMMA CountTurns ==
  ASSUME NEW r \in Nat, r < CountRange, NEW a \in Int, NEW l \in Int, NEW k \in Int,
         r + a = l + k * CountRange
  PROVE  /\ Inc(r) \in Nat /\ Dec(r) \in Nat
         /\ \E j \in Int : Inc(r) + (a - 1) = l + j * CountRange
         /\ \E j \in Int : Dec(r) + (a + 1) = l + j * CountRange
<1>1. /\ Inc(r) = IF r + 1 = CountRange THEN 0 ELSE r + 1
      /\ Dec(r) = IF r = 0 THEN CountRange - 1 ELSE r - 1
  BY DEF Inc, Dec, CountRange
<1>2. Inc(r) + (a - 1) = l + k * CountRange \/ Inc(r) + (a - 1) = l + (k - 1) * CountRange
  BY <1>1 DEF CountRange
<1>3. Dec(r) + (a + 1) = l + k * CountRange \/ Dec(r) + (a + 1) = l + (k + 1) * CountRange
  BY <1>1 DEF CountRange
<1>4. \E j \in Int : Inc(r) + (a - 1) = l + j * CountRange
  BY <1>2
<1>5. \E j \in Int : Dec(r) + (a + 1) = l + j * CountRange
  BY <1>3
<1>6. Inc(r) \in Nat /\ Dec(r) \in Nat
  BY <1>1 DEF CountRange
<1> QED
  BY <1>4, <1>5, <1>6

\* The sets that are counted are finite, as the processes and the clients are.
LEMMA SetsAreFinite ==
  ASSUME IsFiniteSet(Procs), IsFiniteSet(Clients)
  PROVE  /\ IsFiniteSet(Launched) /\ Cardinality(Launched) \in Nat
         /\ Cardinality(Launched) <= Cardinality(Procs)
         /\ IsFiniteSet(FinishReports) /\ Cardinality(FinishReports) \in Nat
         /\ IsFiniteSet(StopReports) /\ Cardinality(StopReports) \in Nat
<1>1. IsFiniteSet(Launched) /\ Cardinality(Launched) <= Cardinality(Procs)
  BY FS_Subset DEF Launched
<1>2. IsFiniteSet(FinishReports)
  BY <1>1, FS_Intersection DEF FinishReports
<1>3. IsFiniteSet(StopReports)
  <2>1. IsFiniteSet(Launched \X Clients)
    BY <1>1, FS_Product
  <2> QED
    BY <2>1, FS_Subset DEF StopReports
<1> QED
  BY <1>1, <1>2, <1>3, FS_CardinalityType

\* What leaves the count and all that it is compared with alone.
Calm ==
  /\ UNCHANGED <<queue, pstate, running, finished, stoppedBy>>
  /\ sched' = "count" <=> sched = "count"
  /\ \A c \in Clients : pc[c] = "reset" => pc'[c] = "reset"

\* A step that launches, counts and reports nothing leaves the balance as it is.
LEMMA CalmKeepsBalance ==
  ASSUME Balanced, Launched' = Launched, UNCHANGED <<running, finished, stoppedBy>>,
         sched' = "count" <=> sched = "count",
         \A c \in Clients : pc[c] = "reset" => pc'[c] = "reset"
  PROVE  Balanced'
<1>1. UNCHANGED <<FinishReports, StopReports, Uncounted>>
  BY DEF FinishReports, StopReports, Uncounted
<1> QED
  BY <1>1 DEF Balanced

\* Most steps do.
Counting ==
  \/ \E p \in Procs : LaunchProcess(p) \/ WaiterSets(p) \/ FinishUncounts(p)
  \/ CountLaunch
  \/ \E c \in Clients :
       \/ (\E p \in Procs : AddProcess(c, p)) \/ StopSets(c) \/ StopUncounts(c)
       \/ StopAllEnds(c) \/ ClearMap(c) \/ ResetCounts(c)

\* Every step is such a step or one of the counting ones.
LEMMA CalmStep == IInv /\ [Next]_vars => Calm \/ Counting
<1> SUFFICES ASSUME IInv, [Next]_vars, ~Counting PROVE Calm
  OBVIOUS
<1> USE ConstantsAssumption DEF IInv, Types, ClientTypes, Calm, NotifyScheduler, poolVars,
    countVars, procVars, clientVars, historyVars, Up, Goto, Sched, Waiter
<1>1. ASSUME EvaluatePredicate PROVE Calm
  BY <1>1 DEF EvaluatePredicate
<1>2. ASSUME FallAsleep PROVE Calm
  BY <1>2 DEF FallAsleep
<1>3. ASSUME SpuriousWakeup PROVE Calm
  BY <1>3 DEF SpuriousWakeup
<1>4. ASSUME CheckState PROVE Calm
  BY <1>4 DEF CheckState
<1>5. ASSUME NothingToLaunch PROVE Calm
  BY <1>5 DEF NothingToLaunch
<1>6. ASSUME LoopAgain PROVE Calm
  BY <1>6 DEF LoopAgain
<1>7. ASSUME NEW p \in Procs, ChildEnds(p) PROVE Calm
  BY <1>7 DEF ChildEnds
<1>8. ASSUME NEW p \in Procs, WaiterChecks(p) PROVE Calm
  BY <1>8 DEF WaiterChecks
<1>9. ASSUME NEW p \in Procs, FinishTallies(p) PROVE Calm
  BY <1>9 DEF FinishTallies
<1>10. ASSUME NEW p \in Procs, FinishNotifies(p) PROVE Calm
  BY <1>10 DEF FinishNotifies, Notifying, NotifyScheduler
<1>11. ASSUME NEW p \in Procs, FinishNotifiesWait(p) PROVE Calm
  BY <1>11 DEF FinishNotifiesWait, Notifying, NotifyWait, Asleep
<1>12. ASSUME NEW c \in Clients, NEW n \in Limits, SetLimit(c, n) PROVE Calm
  BY <1>12 DEF SetLimit
<1>13. ASSUME NEW c \in Clients, Notify(c) PROVE Calm
  BY <1>13 DEF Notify, NotifyScheduler
<1>14. ASSUME NEW c \in Clients, Wait(c) PROVE Calm
  BY <1>14 DEF Wait
<1>15. ASSUME NEW c \in Clients, WaitLock(c) PROVE Calm
  BY <1>15 DEF WaitLock
<1>16. ASSUME NEW c \in Clients, WaitWalk(c) PROVE Calm
  BY <1>16 DEF WaitWalk
<1>17. ASSUME NEW c \in Clients, WaitCheck(c) PROVE Calm
  BY <1>17 DEF WaitCheck
<1>18. ASSUME NEW c \in Clients, WaitSleep(c) PROVE Calm
  BY <1>18 DEF WaitSleep
<1>19. ASSUME NEW c \in Clients, WaitWakeup(c) PROVE Calm
  BY <1>19 DEF WaitWakeup
<1>20. ASSUME NEW c \in Clients, Stop(c) PROVE Calm
  BY <1>20 DEF Stop, Begin
<1>21. ASSUME NEW c \in Clients, StopAll(c) PROVE Calm
  BY <1>21 DEF StopAll, Begin
<1>22. ASSUME NEW c \in Clients, Clear(c) PROVE Calm
  BY <1>22 DEF Clear, Begin
<1>23. ASSUME NEW c \in Clients, Destroy(c) PROVE Calm
  BY <1>23 DEF Destroy, Begin
<1>24. ASSUME NEW c \in Clients, Lock(c) PROVE Calm
  BY <1>24 DEF Lock
<1>25. ASSUME NEW c \in Clients, WalkRunning(c) PROVE Calm
  BY <1>25 DEF WalkRunning
<1>26. ASSUME NEW c \in Clients, WalkPast(c) PROVE Calm
  BY <1>26 DEF WalkPast
<1>27. ASSUME NEW c \in Clients, Recheck(c) PROVE Calm
  BY <1>27 DEF Recheck
<1>28. ASSUME NEW c \in Clients, StopTallies(c) PROVE Calm
  BY <1>28 DEF StopTallies
<1>29. ASSUME NEW c \in Clients, StopNotifies(c) PROVE Calm
  BY <1>29 DEF StopNotifies, Notifying, NotifyScheduler
<1>30. ASSUME NEW c \in Clients, StopNotifiesWait(c) PROVE Calm
  BY <1>30 DEF StopNotifiesWait, Notifying, NotifyWait, Asleep
<1>70. ASSUME NEW c \in Clients, StopJoins(c) PROVE Calm
  BY <1>70 DEF StopJoins
<1>31. ASSUME NEW c \in Clients, StopKills(c) PROVE Calm
  BY <1>31 DEF StopKills
<1>32. ASSUME NEW c \in Clients, StopEnds(c) PROVE Calm
  BY <1>32 DEF StopEnds
<1>33. ASSUME NEW c \in Clients, DestroyMap(c) PROVE Calm
  BY <1>33 DEF DestroyMap
<1>34. ASSUME NEW c \in Clients, MembersGone(c) PROVE Calm
  BY <1>34 DEF MembersGone
<1>35. CASE UNCHANGED vars
  BY <1>35 DEF vars
<1> QED
  BY <1>70, <1>1, <1>2, <1>3, <1>4, <1>5, <1>6, <1>7, <1>8, <1>9, <1>10, <1>11, <1>12, <1>13,
      <1>14, <1>15, <1>16, <1>17, <1>18, <1>19, <1>20, <1>21, <1>22, <1>23, <1>24, <1>25,
      <1>26, <1>27, <1>28, <1>29, <1>30, <1>31, <1>32, <1>33, <1>34, <1>35
  DEF Next, Over, SchedulerStep, WaiterStep, CallStep, WalkStep, BeginCall,
      Counting

\* A launch, which is not counted yet.
LEMMA LaunchKeepsBalance ==
  ASSUME Support, Balanced, IsFiniteSet(Procs), IsFiniteSet(Clients),
         NEW p \in Procs, LaunchProcess(p)
  PROVE  Balanced'
<1>1. p \notin Launched /\ Launched' = Launched \cup {p}
  BY DEF LaunchProcess, GetProcess, Launched, InQueue, Support, IInv, Types, ProcessTypes, poolVars
<1>2. FinishReports' = FinishReports
  <2>1. p \notin finished /\ finished' = finished
    BY DEF LaunchProcess, Waiter, Support, IInv, Lives
  <2> QED
    BY <1>1, <2>1 DEF FinishReports
<1>3. StopReports' = StopReports
  <2>1. stoppedBy[p] = {} /\ stoppedBy' = stoppedBy
    BY DEF LaunchProcess, GetProcess, Support, ReportsOnce
  <2> QED
    BY <1>1, <2>1 DEF StopReports
<1>4. Uncounted = 0 /\ Uncounted' = 1
  BY DEF LaunchProcess, Sched, Uncounted
<1>5. Cardinality(Launched') = Cardinality(Launched) + 1
  BY <1>1, SetsAreFinite, FS_AddElement
<1>6. running' = running /\ pc' = pc /\ running \in Int
  BY CounterStaysInRange DEF LaunchProcess, countVars, clientVars, Support, IInv, Types, PoolTypes
<1> SUFFICES ASSUME \A c \in Clients : pc[c] # "reset"
             PROVE  \E k \in Int :
                      running' + (Cardinality(FinishReports') + Cardinality(StopReports') + Uncounted')
                        = Cardinality(Launched') + k * CountRange
  BY <1>6 DEF Balanced
<1>7. PICK k \in Int :
        running + (Cardinality(FinishReports) + Cardinality(StopReports) + Uncounted)
          = Cardinality(Launched) + k * CountRange
  BY DEF Balanced
<1>8. k * CountRange \in Int
  BY <1>7 DEF CountRange
<1> QED
  BY <1>2, <1>3, <1>4, <1>5, <1>6, <1>7, <1>8, SetsAreFinite

\* A launch that is counted.
LEMMA CountKeepsBalance ==
  ASSUME Support, Balanced, IsFiniteSet(Procs), IsFiniteSet(Clients), CountLaunch
  PROVE  Balanced'
<1>1. running' = Inc(running) /\ pc' = pc /\ Launched' = Launched
  BY DEF CountLaunch, Launched, InQueue, poolVars, procVars, clientVars
<1>2. FinishReports' = FinishReports
  BY <1>1 DEF CountLaunch, FinishReports, historyVars
<1>3. StopReports' = StopReports
  BY <1>1 DEF CountLaunch, StopReports, historyVars
<1>4. Uncounted = 1 /\ Uncounted' = 0
  BY DEF CountLaunch, Sched, Uncounted
<1> SUFFICES ASSUME \A c \in Clients : pc[c] # "reset"
             PROVE  \E k \in Int :
                      running' + (Cardinality(FinishReports') + Cardinality(StopReports') + Uncounted')
                        = Cardinality(Launched') + k * CountRange
  BY <1>1 DEF Balanced
<1>7. PICK k \in Int :
        running + (Cardinality(FinishReports) + Cardinality(StopReports) + Uncounted)
          = Cardinality(Launched) + k * CountRange
  BY DEF Balanced
<1> DEFINE made == Cardinality(FinishReports) + Cardinality(StopReports) + Uncounted
<1>8. made \in Int /\ Cardinality(Launched) \in Int
  BY SetsAreFinite DEF Uncounted
<1>9. running \in Nat /\ running < CountRange
  BY CounterStaysInRange DEF Support, IInv, Types, PoolTypes
<1>10. \E j \in Int : Inc(running) + (made - 1) = Cardinality(Launched) + j * CountRange
  BY <1>7, <1>8, <1>9, CountTurns
<1>11. Cardinality(FinishReports') + Cardinality(StopReports') + Uncounted' = made - 1
  BY <1>2, <1>3, <1>4, SetsAreFinite
<1> QED
  BY <1>1, <1>10, <1>11

\* A process that reports its end is in the map, and was not reported before.
LEMMA FinishKeepsBalance ==
  ASSUME Support, Balanced, IsFiniteSet(Procs), IsFiniteSet(Clients),
         NEW p \in Procs, FinishUncounts(p)
  PROVE  Balanced'
<1>1. running' = Dec(running) /\ pc' = pc /\ Launched' = Launched
  BY DEF FinishUncounts, Launched, InQueue, poolVars, clientVars
<1>2. Cardinality(FinishReports') = Cardinality(FinishReports) + 1
  <2>1. p \in Launched
    BY DEF FinishUncounts, Waiter, Launched, Support, WaitedInMap, IInv, Lives
  <2>2. p \notin FinishReports
    BY DEF FinishUncounts, Waiter, FinishReports, Support, IInv, Lives
  <2>3. FinishReports' = FinishReports \cup {p}
    BY <1>1, <2>1 DEF FinishUncounts, FinishReports
  <2> QED
    BY <2>2, <2>3, SetsAreFinite, FS_AddElement
<1>3. StopReports' = StopReports
  BY <1>1 DEF FinishUncounts, StopReports
<1>4. Uncounted' = Uncounted
  BY DEF FinishUncounts, Uncounted
<1> SUFFICES ASSUME \A c \in Clients : pc[c] # "reset"
             PROVE  \E k \in Int :
                      running' + (Cardinality(FinishReports') + Cardinality(StopReports') + Uncounted')
                        = Cardinality(Launched') + k * CountRange
  BY <1>1 DEF Balanced
<1>7. PICK k \in Int :
        running + (Cardinality(FinishReports) + Cardinality(StopReports) + Uncounted)
          = Cardinality(Launched) + k * CountRange
  BY DEF Balanced
<1> DEFINE made == Cardinality(FinishReports) + Cardinality(StopReports) + Uncounted
<1>8. made \in Int /\ Cardinality(Launched) \in Int
  BY SetsAreFinite DEF Uncounted
<1>9. running \in Nat /\ running < CountRange
  BY CounterStaysInRange DEF Support, IInv, Types, PoolTypes
<1>10. \E j \in Int : Dec(running) + (made + 1) = Cardinality(Launched) + j * CountRange
  BY <1>7, <1>8, <1>9, CountTurns
<1>11. Cardinality(FinishReports') + Cardinality(StopReports') + Uncounted' = made + 1
  <2>1. Uncounted \in Nat
    BY DEF Uncounted
  <2> QED
    BY <1>2, <1>3, <1>4, <2>1, SetsAreFinite
<1> QED
  BY <1>1, <1>10, <1>11

\* So is a process that a client stopped, and that client reports it once.
LEMMA StopKeepsBalance ==
  ASSUME Support, Balanced, IsFiniteSet(Procs), IsFiniteSet(Clients),
         NEW c \in Clients, StopUncounts(c)
  PROVE  Balanced'
<1>1. /\ running' = Dec(running) /\ Launched' = Launched
      /\ \A d \in Clients : pc'[d] # "reset" => pc[d] # "reset"
  BY DEF StopUncounts, Goto, Launched, InQueue, poolVars, procVars, Support, IInv, Types, ClientTypes
<1>2. Cardinality(StopReports') = Cardinality(StopReports) + 1
  <2>1. Current(c) \in Launched /\ c \notin stoppedBy[Current(c)]
    <3>1. pc[c] = "uncount" /\ todo[c] # <<>> /\ todo[c] \in Seq(Procs)
      BY DEF StopUncounts, Goto, Support, IInv, Types, ClientTypes, Holding, StopPlaces
    <3>2. Current(c) \in Procs /\ 1 \in DOMAIN todo[c] /\ Current(c) = todo[c][1]
      BY <3>1 DEF Current
    <3>3. InQueue(Current(c))
      BY <3>1, <3>2 DEF Support, TodoInMap, WalkPlaces, StopPlaces
    <3> QED
      BY <3>1, <3>2, <3>3 DEF Support, ReportsOnce, Launched
  <2>2. <<Current(c), c>> \notin StopReports
    BY <2>1 DEF StopReports
  <2>3. StopReports' = StopReports \cup {<<Current(c), c>>}
    <3>1. stoppedBy' = [stoppedBy EXCEPT ![Current(c)] = @ \cup {c}]
      BY DEF StopUncounts
    <3>2. \A p \in Procs, d \in Clients :
            d \in stoppedBy'[p] <=> d \in stoppedBy[p] \/ (p = Current(c) /\ d = c)
      BY <2>1, <3>1 DEF Support, IInv, Types, ProcessTypes, Launched
    <3> HIDE DEF Current
    <3> QED
      BY <1>1, <2>1, <3>2 DEF StopReports, Launched
  <2> QED
    BY <2>2, <2>3, SetsAreFinite, FS_AddElement
<1>3. FinishReports' = FinishReports
  BY <1>1 DEF StopUncounts, FinishReports
<1>4. Uncounted' = Uncounted
  BY DEF StopUncounts, Uncounted
<1> SUFFICES ASSUME \A d \in Clients : pc[d] # "reset"
             PROVE  \E k \in Int :
                      running' + (Cardinality(FinishReports') + Cardinality(StopReports') + Uncounted')
                        = Cardinality(Launched') + k * CountRange
  BY <1>1 DEF Balanced
<1>7. PICK k \in Int :
        running + (Cardinality(FinishReports) + Cardinality(StopReports) + Uncounted)
          = Cardinality(Launched) + k * CountRange
  BY DEF Balanced
<1> DEFINE made == Cardinality(FinishReports) + Cardinality(StopReports) + Uncounted
<1>8. made \in Int /\ Cardinality(Launched) \in Int
  BY SetsAreFinite DEF Uncounted
<1>9. running \in Nat /\ running < CountRange
  BY CounterStaysInRange DEF Support, IInv, Types, PoolTypes
<1>10. \E j \in Int : Dec(running) + (made + 1) = Cardinality(Launched) + j * CountRange
  BY <1>7, <1>8, <1>9, CountTurns
<1>11. Cardinality(FinishReports') + Cardinality(StopReports') + Uncounted' = made + 1
  <2>1. Uncounted \in Nat
    BY DEF Uncounted
  <2> QED
    BY <1>2, <1>3, <1>4, <2>1, SetsAreFinite
<1> QED
  BY <1>1, <1>10, <1>11

\* clear() sets the count to zero when the map is empty.
LEMMA ResetKeepsBalance ==
  ASSUME Support, NEW c \in Clients, ResetCounts(c)
  PROVE  Balanced'
<1>1. queue' = <<>>
  <2>1. pc[c] = "reset"
    BY DEF ResetCounts, Goto
  <2> QED
    BY <2>1 DEF ResetCounts, Support, IInv, Sized
<1>2. Launched' = {}
  BY <1>1 DEF Launched, InQueue
<1>3. FinishReports' = {} /\ StopReports' = {}
  BY <1>2 DEF FinishReports, StopReports
<1>4. Uncounted' = 0
  <2>1. mutex = c
    BY DEF ResetCounts, Goto, Support, IInv, Holding
  <2>2. sched # "count"
    BY <2>1, ConstantsAssumption DEF Support, IInv, Holding
  <2> QED
    BY <2>2 DEF ResetCounts, Uncounted
<1>5. running' = 0
  BY DEF ResetCounts
<1>6. 0 + (0 + 0 + 0) = 0 + 0 * CountRange
  BY DEF CountRange
<1> QED
  BY <1>2, <1>3, <1>4, <1>5, <1>6, FS_EmptySet DEF Balanced

\* Every action keeps the count balanced, as long as stop_all_processes() does
\* not set it.
LEMMA BalanceStep ==
  ASSUME IsFiniteSet(Procs), IsFiniteSet(Clients), Support, NoStopAll, Balanced, [Next]_vars
  PROVE  Balanced'
<1>1. CASE Calm
  <2>1. Launched' = Launched
    BY <1>1 DEF Calm, Launched, InQueue
  <2> QED
    BY <1>1, <2>1, CalmKeepsBalance DEF Calm
<1>2. ASSUME NEW p \in Procs, LaunchProcess(p) PROVE Balanced'
  BY <1>2, LaunchKeepsBalance
<1>3. ASSUME NEW p \in Procs, WaiterSets(p) PROVE Balanced'
  <2>1. pstate[p] # "not_launched" /\ pstate' = [pstate EXCEPT ![p] = "finished"]
    BY <1>3 DEF WaiterSets, Waiter, Support, IInv, Lives
  <2>2. \A q \in Procs : pstate'[q] = "not_launched" <=> pstate[q] = "not_launched"
    BY <2>1 DEF Support, IInv, Types, ProcessTypes
  <2>3. Launched' = Launched
    BY <1>3, <2>2 DEF WaiterSets, Launched, InQueue, poolVars
  <2> QED
    BY <1>3, <2>3, CalmKeepsBalance DEF WaiterSets, countVars, clientVars, historyVars
<1>4. ASSUME NEW p \in Procs, FinishUncounts(p) PROVE Balanced'
  BY <1>4, FinishKeepsBalance
<1>5. CASE CountLaunch
  BY <1>5, CountKeepsBalance
<1>6. ASSUME NEW c \in Clients, NEW p \in Procs, AddProcess(c, p) PROVE Balanced'
  <2>1. Launched' = Launched
    BY <1>6, AddMembers DEF AddProcess, Launched, procVars, Support
  <2>2. \A d \in Clients : pc[d] = "reset" => pc'[d] = "reset"
    BY <1>6 DEF AddProcess, Goto, Support, IInv, Types, ClientTypes
  <2> QED
    BY <1>6, <2>1, <2>2, CalmKeepsBalance DEF AddProcess, countVars
<1>7. ASSUME NEW c \in Clients, StopSets(c) PROVE Balanced'
  <2>1. /\ pc[c] = "set" /\ pstate[Current(c)] # "not_launched"
        /\ pstate' = [pstate EXCEPT ![Current(c)] = "stopped"]
    BY <1>7 DEF StopSets, Goto, Support, IInv, Holding, StopPlaces
  <2>2. \A q \in Procs : pstate'[q] = "not_launched" <=> pstate[q] = "not_launched"
    BY <2>1 DEF Support, IInv, Types, ProcessTypes
  <2>3. Launched' = Launched
    BY <1>7, <2>2 DEF StopSets, Launched, InQueue, poolVars
  <2>4. \A d \in Clients : pc[d] = "reset" => pc'[d] = "reset"
    BY <1>7 DEF StopSets, Goto, Support, IInv, Types, ClientTypes
  <2> QED
    BY <1>7, <2>3, <2>4, CalmKeepsBalance DEF StopSets, countVars, historyVars
<1>8. ASSUME NEW c \in Clients, StopUncounts(c) PROVE Balanced'
  BY <1>8, StopKeepsBalance
<1>9. ASSUME NEW c \in Clients, StopAllEnds(c) PROVE Balanced'
  BY <1>9 DEF StopAllEnds, NoStopAll
<1>10. ASSUME NEW c \in Clients, ClearMap(c) PROVE Balanced'
  <2>1. pc'[c] = "reset"
    BY <1>10 DEF ClearMap, Goto, Support, IInv, Types, ClientTypes
  <2> QED
    BY <2>1 DEF Balanced
<1>11. ASSUME NEW c \in Clients, ResetCounts(c) PROVE Balanced'
  BY <1>11, ResetKeepsBalance
<1> QED
  BY <1>1, <1>2, <1>3, <1>4, <1>5, <1>6, <1>7, <1>8, <1>9, <1>10, <1>11, CalmStep
  DEF Counting, Support

\* Whenever _mutex is free nothing is launched but not counted, or half cleared.
LEMMA BalanceMeansExact ==
  ASSUME IsFiniteSet(Procs), IsFiniteSet(Clients), Cardinality(Procs) < CountRange,
         Support, Balanced
  PROVE  RunningExact
<1> SUFFICES ASSUME mutex = Free
             PROVE  (running + Reports) % CountRange = Cardinality(Launched)
  BY DEF RunningExact
<1>1. Uncounted = 0
  BY ConstantsAssumption DEF Uncounted, Support, IInv, Holding, Free
<1>2. \A c \in Clients : pc[c] # "reset"
  BY ConstantsAssumption DEF Support, IInv, Holding
<1>3. PICK k \in Int :
        running + (Cardinality(FinishReports) + Cardinality(StopReports) + Uncounted)
          = Cardinality(Launched) + k * CountRange
  BY <1>2 DEF Balanced
<1>4. Reports = Cardinality(FinishReports) + Cardinality(StopReports)
  BY DEF Reports, FinishReports, StopReports
<1>5. Reports \in Nat /\ running \in Nat
  <2>1. Reports \in Nat
    BY <1>4, SetsAreFinite
  <2>2. running \in Nat
    BY CounterStaysInRange DEF Support, IInv, Types, PoolTypes
  <2> QED
    BY <2>1, <2>2
<1>6. running + Reports = Cardinality(Launched) + k * CountRange
  BY <1>1, <1>3, <1>4, SetsAreFinite
<1>7. Cardinality(Launched) \in Nat /\ Cardinality(Launched) < CountRange
  BY SetsAreFinite, FS_CardinalityType, CounterStaysInRange
<1>8. ASSUME NEW a \in Nat, NEW l \in Nat, l < CountRange, a = l + k * CountRange
      PROVE  a % CountRange = l
  BY <1>8 DEF CountRange
<1> QED
  BY <1>5, <1>6, <1>7, <1>8

\* At the start nothing is launched and nothing counted.
LEMMA InitBalanced == Init => NoStopAll /\ Balanced
<1> SUFFICES ASSUME Init PROVE NoStopAll /\ Balanced
  OBVIOUS
<1>1. NoStopAll
  BY DEF Init, NoStopAll
<1>2. Launched = {} /\ FinishReports = {} /\ StopReports = {} /\ Uncounted = 0 /\ running = 0
  BY DEF Init, Launched, InQueue, FinishReports, StopReports, Uncounted
<1>3. 0 + (0 + 0 + 0) = 0 + 0 * CountRange
  BY DEF CountRange
<1> QED
  BY <1>1, <1>2, <1>3, FS_EmptySet DEF Balanced

(***************************************************************************)
(* "_running_processes": whenever _mutex is free it is the number of       *)
(* processes launched less the number of callbacks made, for any clients   *)
(* that do not call stop_all_processes() and any number of processes that  *)
(* 16 bits can count.                                                      *)
(***************************************************************************)
THEOREM CountIsExact ==
  ASSUME IsFiniteSet(Procs), IsFiniteSet(Clients), Cardinality(Procs) < CountRange,
         \A c \in Clients : "stop_all" \notin MayCall[c]
  PROVE  Spec => []RunningExact
<1> DEFINE Inv == Support /\ NoStopAll /\ Balanced
<1>1. Init => Inv
  BY InitBalanced, SupportInit
<1>2. Inv /\ [Next]_vars => Inv'
  BY SupportStep, NoStopAllStep, BalanceStep DEF Support
<1>3. Inv => RunningExact
  BY BalanceMeansExact
<1> QED
  BY <1>1, <1>2, <1>3, PTL DEF Spec

-----------------------------------------------------------------------------
(***************************************************************************)
(* The limit, where nobody stops, clears or destroys the pool.  What is    *)
(* launched and has not called back is never more than the largest limit,  *)
(* and less while the scheduler is about to launch.                        *)
(***************************************************************************)
Unfinished == Launched \ finished

NobodyStops ==
  /\ poolState = "running"
  /\ \A c \in Clients : op[c] = "none" /\ pc[c] \in WaitPlaces \cup {"idle", "notify"}
  /\ \A p \in Procs : stoppedBy[p] = {}

WithinLimit ==
  \A n \in Limits \cup {Limit0} : (\A m \in Limits \cup {Limit0} : m <= n) =>
    /\ Cardinality(Unfinished) <= n
    /\ sched \in {"check", "launch"} => Cardinality(Unfinished) < n

\* What is left of the actions when no client stops, clears or destroys.
Peaceful(c) ==
  \/ (\E p \in Procs : AddProcess(c, p)) \/ (\E n \in Limits : SetLimit(c, n)) \/ Notify(c)
  \/ Wait(c) \/ WaitLock(c) \/ WaitWalk(c) \/ WaitCheck(c) \/ WaitSleep(c) \/ WaitWakeup(c)

\* Where nobody stops, clears or destroys the pool, these are all the steps there are.
LEMMA OnlyPeaceful ==
  ASSUME \A c \in Clients : MayCall[c] \subseteq {"add", "wait", "set_limit"},
         NobodyStops, [Next]_vars
  PROVE  \/ SchedulerStep \/ SpuriousWakeup
         \/ \E p \in Procs : ChildEnds(p) \/ WaiterStep(p)
         \/ \E c \in Clients : Peaceful(c)
         \/ UNCHANGED vars
<1>1. ASSUME NEW c \in Clients PROVE ~(Stop(c) \/ StopAll(c) \/ Clear(c) \/ Destroy(c))
  BY DEF Stop, StopAll, Clear, Destroy, Begin, MayBegin
<1>2. ASSUME NEW c \in Clients PROVE ~WalkStep(c)
  <2>1. pc[c] \in WaitPlaces \cup {"idle", "notify"}
    BY DEF NobodyStops
  <2> QED
    BY <2>1
    DEF WaitPlaces, WalkStep, Lock, WalkRunning, WalkPast, Recheck, StopSets, StopUncounts,
        StopTallies, StopNotifies, StopNotifiesWait, StopKills, StopJoins, StopEnds, StopAllEnds,
        DestroyMap, ClearMap, ResetCounts, MembersGone, Goto
<1> QED
  BY <1>1, <1>2 DEF Next, CallStep, BeginCall, Over, Peaceful

\* No client ever gets into a call it may not make.
LEMMA NobodyStopsStep ==
  ASSUME \A c \in Clients : MayCall[c] \subseteq {"add", "wait", "set_limit"},
         IInv, NobodyStops, [Next]_vars
  PROVE  NobodyStops'
<1> USE ConstantsAssumption DEF IInv, Types, ClientTypes, NobodyStops, WaitPlaces, poolVars,
    countVars, procVars, clientVars, historyVars, Up, Goto, Sched, Waiter
<1>1. CASE SchedulerStep \/ SpuriousWakeup
  BY <1>1 DEF SchedulerStep, SpuriousWakeup, EvaluatePredicate, FallAsleep, CheckState,
    LaunchProcess, NothingToLaunch, CountLaunch, LoopAgain
<1>2. ASSUME NEW p \in Procs, ChildEnds(p) \/ WaiterStep(p) PROVE NobodyStops'
  BY <1>2 DEF ChildEnds, WaiterStep, WaiterChecks, WaiterSets, FinishUncounts, FinishTallies,
    FinishNotifies, FinishNotifiesWait, Notifying, NotifyWait, Asleep
<1>3. ASSUME NEW c \in Clients, NEW p \in Procs, AddProcess(c, p) PROVE NobodyStops'
  BY <1>3 DEF AddProcess, MapChanges
<1>4. ASSUME NEW c \in Clients, NEW n \in Limits, SetLimit(c, n) PROVE NobodyStops'
  BY <1>4 DEF SetLimit
<1>5. ASSUME NEW c \in Clients, Notify(c) PROVE NobodyStops'
  BY <1>5 DEF Notify, NotifyScheduler
<1>6. ASSUME NEW c \in Clients, Wait(c) PROVE NobodyStops'
  BY <1>6 DEF Wait
<1>7. ASSUME NEW c \in Clients, WaitLock(c) PROVE NobodyStops'
  BY <1>7 DEF WaitLock
<1>8. ASSUME NEW c \in Clients, WaitWalk(c) PROVE NobodyStops'
  BY <1>8 DEF WaitWalk
<1>9. ASSUME NEW c \in Clients, WaitCheck(c) PROVE NobodyStops'
  BY <1>9 DEF WaitCheck
<1>10. ASSUME NEW c \in Clients, WaitSleep(c) PROVE NobodyStops'
  BY <1>10 DEF WaitSleep
<1>11. ASSUME NEW c \in Clients, WaitWakeup(c) PROVE NobodyStops'
  BY <1>11 DEF WaitWakeup
<1>12. CASE UNCHANGED vars
  BY <1>12 DEF vars
<1> QED
  BY <1>1, <1>2, <1>3, <1>4, <1>5, <1>6, <1>7, <1>8, <1>9, <1>10, <1>11, <1>12, OnlyPeaceful
  DEF Peaceful

\* Only the predicate sends the scheduler to launch.
LEMMA SchedulerLooksFirst ==
  ASSUME IInv, [Next]_vars, ~EvaluatePredicate, sched' \in {"check", "launch"}
  PROVE  sched \in {"check", "launch"}
<1> USE DEF NotifyScheduler, poolVars, countVars, procVars, clientVars, historyVars, Sched
<1>1. ASSUME FallAsleep PROVE sched \in {"check", "launch"}
  BY <1>1 DEF FallAsleep
<1>2. ASSUME SpuriousWakeup PROVE sched \in {"check", "launch"}
  BY <1>2 DEF SpuriousWakeup
<1>3. ASSUME CheckState PROVE sched \in {"check", "launch"}
  BY <1>3 DEF CheckState
<1>4. ASSUME NEW p \in Procs, LaunchProcess(p) PROVE sched \in {"check", "launch"}
  BY <1>4 DEF LaunchProcess
<1>5. ASSUME NothingToLaunch PROVE sched \in {"check", "launch"}
  BY <1>5 DEF NothingToLaunch
<1>6. ASSUME CountLaunch PROVE sched \in {"check", "launch"}
  BY <1>6 DEF CountLaunch
<1>7. ASSUME LoopAgain PROVE sched \in {"check", "launch"}
  BY <1>7 DEF LoopAgain
<1>8. ASSUME NEW p \in Procs, FinishNotifies(p) PROVE sched \in {"check", "launch"}
  BY <1>8 DEF FinishNotifies, Notifying, NotifyScheduler
<1>9. ASSUME NEW c \in Clients, Notify(c) PROVE sched \in {"check", "launch"}
  BY <1>9 DEF Notify, NotifyScheduler
<1>10. ASSUME NEW c \in Clients, StopNotifies(c) PROVE sched \in {"check", "launch"}
  BY <1>10 DEF StopNotifies, Notifying, NotifyScheduler
<1>11. CASE UNCHANGED sched
  BY <1>11
<1> QED
  BY <1>1, <1>2, <1>3, <1>4, <1>5, <1>6, <1>7, <1>8, <1>9, <1>10, <1>11
  DEF vars, Next, Over, SchedulerStep, WaiterStep, CallStep, WalkStep, BeginCall, ChildEnds,
      WaiterChecks, WaiterSets, FinishUncounts, FinishTallies, FinishNotifiesWait,
      Notifying, NotifyWait, Asleep, AddProcess, MapChanges, SetLimit, Wait, WaitLock,
      WaitWalk, WaitCheck, WaitSleep, WaitWakeup, Stop, Begin, StopAll, Clear, Destroy,
      Lock, WalkRunning, WalkPast, Recheck, StopSets, StopUncounts, StopTallies,
      StopNotifiesWait, StopKills, StopJoins, StopEnds, StopAllEnds, DestroyMap, ClearMap, ResetCounts,
      MembersGone

\* Where nobody stops, the count is the number of unfinished processes.
LEMMA CountIsUnfinished ==
  ASSUME IsFiniteSet(Procs), IsFiniteSet(Clients), Cardinality(Procs) < CountRange,
         Support, Balanced, NobodyStops, sched # "count"
  PROVE  running = Cardinality(Unfinished)
<1>1. \A c \in Clients : pc[c] # "reset"
  BY DEF NobodyStops, WaitPlaces
<1>2. PICK k \in Int :
        running + (Cardinality(FinishReports) + Cardinality(StopReports) + Uncounted)
          = Cardinality(Launched) + k * CountRange
  BY <1>1 DEF Balanced
<1>3. Uncounted = 0 /\ Cardinality(StopReports) = 0
  <2>1. StopReports = {}
    BY DEF StopReports, NobodyStops, Launched
  <2> QED
    BY <2>1, FS_EmptySet DEF Uncounted
<1>4. /\ IsFiniteSet(Unfinished)
      /\ Cardinality(Unfinished) = Cardinality(Launched) - Cardinality(FinishReports)
  <2>1. Launched \cap finished = FinishReports
    BY DEF FinishReports
  <2> QED
    BY <2>1, SetsAreFinite, FS_Difference DEF Unfinished
<1>5. Cardinality(Unfinished) \in Nat
  BY <1>4, FS_CardinalityType
<1>6. Cardinality(Unfinished) < CountRange
  BY <1>4, <1>5, SetsAreFinite, FS_CardinalityType, CounterStaysInRange
<1>7. running \in Nat /\ running < CountRange
  BY CounterStaysInRange DEF Support, IInv, Types, PoolTypes
<1>8. running = Cardinality(Unfinished) + k * CountRange
  <2>1. k * CountRange \in Int
    BY <1>2 DEF CountRange
  <2> QED
    BY <1>2, <1>3, <1>4, <1>5, <1>7, <2>1, SetsAreFinite
<1>9. ASSUME NEW r \in Nat, NEW u \in Nat, r < CountRange, u < CountRange,
             r = u + k * CountRange
      PROVE  r = u
  BY <1>9 DEF CountRange
<1> QED
  BY <1>5, <1>6, <1>7, <1>8, <1>9

\* Every action keeps the processes within the limit.
LEMMA LimitStep ==
  ASSUME IsFiniteSet(Procs), IsFiniteSet(Clients), Cardinality(Procs) < CountRange,
         \A c \in Clients : MayCall[c] \subseteq {"add", "wait", "set_limit"},
         Support, Balanced, NobodyStops, WithinLimit, [Next]_vars
  PROVE  WithinLimit'
<1>0. IsFiniteSet(Unfinished) /\ Cardinality(Unfinished) \in Nat
  BY SetsAreFinite, FS_Difference, FS_CardinalityType DEF Unfinished
<1> SUFFICES ASSUME NEW n \in Limits \cup {Limit0}, \A m \in Limits \cup {Limit0} : m <= n
             PROVE  /\ Cardinality(Unfinished') <= n
                    /\ sched' \in {"check", "launch"} => Cardinality(Unfinished') < n
  BY DEF WithinLimit
<1>1. /\ n \in Nat /\ Cardinality(Unfinished) <= n
      /\ sched \in {"check", "launch"} => Cardinality(Unfinished) < n
  <2>1. n \in Nat
    BY ConstantsAssumption, CounterStaysInRange
  <2> QED
    BY <2>1 DEF WithinLimit
<1>2. CASE EvaluatePredicate
  <2>1. Unfinished' = Unfinished
    BY <1>2 DEF EvaluatePredicate, Unfinished, Launched, InQueue, poolVars, procVars, historyVars
  <2>2. ASSUME sched' \in {"check", "launch"} PROVE Cardinality(Unfinished) < n
    <3>1. running < limit /\ sched # "count"
      BY <1>2, <2>2 DEF EvaluatePredicate, Sched, NobodyStops
    <3>2. running = Cardinality(Unfinished)
      BY <3>1, CountIsUnfinished
    <3>3. limit \in Nat /\ limit <= n
      <4>1. limit \in Limits \cup {Limit0}
        BY DEF Support, IInv, Types, PoolTypes
      <4> QED
        BY <4>1, ConstantsAssumption, CounterStaysInRange
    <3> QED
      BY <1>0, <1>1, <3>1, <3>2, <3>3
  <2> QED
    BY <1>1, <2>1, <2>2
<1>3. ASSUME NEW p \in Procs, LaunchProcess(p)
      PROVE  /\ Cardinality(Unfinished') <= n
             /\ sched' \in {"check", "launch"} => Cardinality(Unfinished') < n
  <2>1. Unfinished' = Unfinished \cup {p}
    <3>1. Launched' = Launched \cup {p}
      BY <1>3
      DEF LaunchProcess, GetProcess, Launched, InQueue, Support, IInv, Types, ProcessTypes, poolVars
    <3>2. p \notin finished /\ finished' = finished
      BY <1>3 DEF LaunchProcess, Waiter, Support, IInv, Lives
    <3> QED
      BY <3>1, <3>2 DEF Unfinished
  <2>2. sched = "launch" /\ sched' = "count"
    BY <1>3 DEF LaunchProcess, Sched
  <2>3. Cardinality(Unfinished \cup {p}) \in {Cardinality(Unfinished), Cardinality(Unfinished) + 1}
    BY <1>0, FS_AddElement
  <2>4. Cardinality(Unfinished') <= Cardinality(Unfinished) + 1
    BY <1>0, <2>1, <2>3
  <2>5. Cardinality(Unfinished') \in Nat
    BY <1>0, <2>1, <2>3
  <2> QED
    BY <1>0, <1>1, <2>2, <2>4, <2>5
<1>4. ASSUME NEW p \in Procs, FinishUncounts(p)
      PROVE  /\ Cardinality(Unfinished') <= n
             /\ sched' \in {"check", "launch"} => Cardinality(Unfinished') < n
  <2>1. Unfinished' = Unfinished \ {p} /\ sched' = sched
    BY <1>4 DEF FinishUncounts, Unfinished, Launched, InQueue, poolVars
  <2>2. Cardinality(Unfinished \ {p}) \in {Cardinality(Unfinished), Cardinality(Unfinished) - 1}
    BY <1>0, FS_RemoveElement
  <2>3. Cardinality(Unfinished') <= Cardinality(Unfinished) /\ Cardinality(Unfinished') \in Int
    BY <1>0, <2>1, <2>2
  <2> QED
    BY <1>0, <1>1, <2>1, <2>3
<1>5. CASE ~EvaluatePredicate /\ Unfinished' = Unfinished
  BY <1>1, <1>5, SchedulerLooksFirst DEF Support
<1>6. CASE Calm
  BY <1>2, <1>5, <1>6 DEF Calm, Unfinished, Launched, InQueue
<1>7. ASSUME NEW p \in Procs, WaiterSets(p) PROVE Unfinished' = Unfinished
  <2>1. pstate[p] # "not_launched" /\ pstate' = [pstate EXCEPT ![p] = "finished"]
    BY <1>7 DEF WaiterSets, Waiter, Support, IInv, Lives
  <2>2. \A q \in Procs : pstate'[q] = "not_launched" <=> pstate[q] = "not_launched"
    BY <2>1 DEF Support, IInv, Types, ProcessTypes
  <2> QED
    BY <1>7, <2>2 DEF WaiterSets, Unfinished, Launched, InQueue, poolVars, historyVars
<1>8. CASE CountLaunch
  <2>1. Unfinished' = Unfinished
    BY <1>8 DEF CountLaunch, Unfinished, Launched, InQueue, poolVars, procVars, historyVars
  <2> QED
    BY <1>2, <1>5, <2>1
<1>9. ASSUME NEW c \in Clients, NEW p \in Procs, AddProcess(c, p) PROVE Unfinished' = Unfinished
  BY <1>9, AddMembers DEF AddProcess, Unfinished, Launched, procVars, Support
<1>10. Calm \/ CountLaunch
       \/ (\E p \in Procs : LaunchProcess(p) \/ FinishUncounts(p) \/ WaiterSets(p))
       \/ (\E c \in Clients, p \in Procs : AddProcess(c, p))
  <2>1. ASSUME NEW c \in Clients
        PROVE  ~(StopSets(c) \/ StopUncounts(c) \/ StopAllEnds(c) \/ ClearMap(c) \/ ResetCounts(c))
    <3>1. pc[c] \in WaitPlaces \cup {"idle", "notify"}
      BY DEF NobodyStops
    <3> QED
      BY <3>1 DEF WaitPlaces, StopSets, StopUncounts, StopAllEnds, ClearMap, ResetCounts, Goto
  <2> QED
    BY <2>1, CalmStep DEF Counting, Support
<1> QED
  BY <1>2, <1>3, <1>4, <1>5, <1>6, <1>7, <1>8, <1>9, <1>10

\* A child that has not ended belongs to an unfinished process.
LEMMA AliveAreUnfinished ==
  ASSUME IsFiniteSet(Procs), IsFiniteSet(Clients), Support, WithinLimit
  PROVE  LimitRespected
<1>1. IsFiniteSet(Unfinished) /\ Cardinality(Unfinished) \in Nat
  BY SetsAreFinite, FS_Difference, FS_CardinalityType DEF Unfinished
<1>2. alive \subseteq Unfinished
  BY DEF Unfinished, Launched, Support, IInv, Types, ProcessTypes, Lives, WaitedInMap
<1>3. IsFiniteSet(alive) /\ Cardinality(alive) <= Cardinality(Unfinished)
  BY <1>1, <1>2, FS_Subset
<1>4. Cardinality(alive) \in Nat
  BY <1>3, FS_CardinalityType
<1> SUFFICES ASSUME NEW n \in Limits \cup {Limit0}, \A m \in Limits \cup {Limit0} : m <= n
             PROVE  Cardinality(alive) <= n
  BY DEF LimitRespected
<1>5. n \in Nat /\ Cardinality(Unfinished) <= n
  <2>1. n \in Nat
    BY ConstantsAssumption, CounterStaysInRange
  <2> QED
    BY <2>1 DEF WithinLimit
<1> QED
  BY <1>1, <1>3, <1>4, <1>5

(***************************************************************************)
(* "a process pool with a maximum number of simultaneous processes": no    *)
(* more children are alive than the largest limit set, whatever is added,  *)
(* awaited and set meanwhile, as long as nobody stops or clears the pool.  *)
(***************************************************************************)
THEOREM LimitIsKept ==
  ASSUME IsFiniteSet(Procs), IsFiniteSet(Clients), Cardinality(Procs) < CountRange,
         \A c \in Clients : MayCall[c] \subseteq {"add", "wait", "set_limit"}
  PROVE  Spec => []LimitRespected
<1> DEFINE Inv == Support /\ NoStopAll /\ Balanced /\ NobodyStops /\ WithinLimit
<1>1. Init => Inv
  <2> SUFFICES ASSUME Init PROVE Inv
    OBVIOUS
  <2>1. NobodyStops
    BY DEF Init, NobodyStops
  <2>2. WithinLimit
    <3>1. Unfinished = {} /\ sched = "predicate"
      BY DEF Init, Unfinished, Launched, InQueue
    <3>2. \A n \in Limits \cup {Limit0} : n \in Nat
      BY ConstantsAssumption, CounterStaysInRange
    <3> QED
      BY <3>1, <3>2, FS_EmptySet DEF WithinLimit
  <2> QED
    BY <2>1, <2>2, InitBalanced, SupportInit
<1>2. Inv /\ [Next]_vars => Inv'
  <2> SUFFICES ASSUME Inv, [Next]_vars PROVE Inv'
    OBVIOUS
  <2>1. \A c \in Clients : "stop_all" \notin MayCall[c]
    OBVIOUS
  <2>2. Support' /\ NoStopAll' /\ Balanced'
    BY <2>1, SupportStep, NoStopAllStep, BalanceStep DEF Support
  <2>3. NobodyStops' /\ WithinLimit'
    BY NobodyStopsStep, LimitStep DEF Support
  <2> QED
    BY <2>2, <2>3
<1>3. Inv => LimitRespected
  BY AliveAreUnfinished
<1> QED
  BY <1>1, <1>2, <1>3, PTL DEF Spec

-----------------------------------------------------------------------------
(***************************************************************************)
(* wait(), where nobody stops, clears or destroys the pool, and processes  *)
(* are added only while nobody waits.                                      *)
(***************************************************************************)
Members == {p \in Procs : InQueue(p)}

\* the processes that _executed_processes counts
Tallied == {p \in Procs : waiter[p] \in {"notify", "notify_wait", "done"}}

EndsByItself == \A p \in Procs : pstate[p] # "stopped" /\ (waiter[p] # "none" => InQueue(p))

Sizes == executed = Cardinality(Tallied) /\ Cardinality(Members) = Len(queue)

SeenIsSize == \A c \in Clients :
  /\ pc[c] = "w_check" => seen[c] = Len(queue)
  /\ pc[c] \in WaitPlaces => awaited[c] \subseteq Members

Honest == EndsByItself /\ Sizes /\ SeenIsSize

\* A process that nobody stops is in the map, launched by the scheduler, until it ends.
LEMMA EndsByItselfStep ==
  ASSUME \A c \in Clients : MayCall[c] \subseteq {"add", "wait", "set_limit"},
         Support, NobodyStops, EndsByItself, [Next]_vars
  PROVE  EndsByItself'
<1> USE ConstantsAssumption DEF Support, IInv, Types, ProcessTypes, EndsByItself, InQueue,
    poolVars, countVars, procVars, clientVars, historyVars, Up, Goto, Sched, Waiter
<1>1. ASSUME NEW p \in Procs, LaunchProcess(p) PROVE EndsByItself'
  BY <1>1 DEF LaunchProcess, GetProcess
<1>2. ASSUME NEW p \in Procs, WaiterChecks(p) PROVE EndsByItself'
  BY <1>2 DEF WaiterChecks
<1>3. ASSUME NEW p \in Procs, WaiterSets(p) PROVE EndsByItself'
  BY <1>3 DEF WaiterSets
<1>4. ASSUME NEW p \in Procs, FinishUncounts(p) PROVE EndsByItself'
  BY <1>4 DEF FinishUncounts
<1>5. ASSUME NEW p \in Procs, FinishTallies(p) PROVE EndsByItself'
  BY <1>5 DEF FinishTallies
<1>6. ASSUME NEW p \in Procs, FinishNotifies(p) PROVE EndsByItself'
  BY <1>6 DEF FinishNotifies, Notifying, NotifyScheduler
<1>7. ASSUME NEW p \in Procs, FinishNotifiesWait(p) PROVE EndsByItself'
  BY <1>7 DEF FinishNotifiesWait, Notifying, NotifyWait, Asleep
<1>8. ASSUME NEW c \in Clients, NEW p \in Procs, AddProcess(c, p) PROVE EndsByItself'
  <2>1. UNCHANGED <<pstate, waiter>>
    BY <1>8 DEF AddProcess
  <2>2. \A q \in Procs : InQueue(q) => InQueue(q)'
    BY <1>8, AddMembers
  <2> HIDE DEF InQueue
  <2> QED
    BY <2>1, <2>2
<1>9. CASE UNCHANGED <<pstate, waiter, queue>>
  BY <1>9
<1> QED
  BY <1>1, <1>2, <1>3, <1>4, <1>5, <1>6, <1>7, <1>8, <1>9, OnlyPeaceful
  DEF vars, Peaceful, SchedulerStep, WaiterStep, EvaluatePredicate, FallAsleep, CheckState,
      NothingToLaunch, CountLaunch, LoopAgain, SpuriousWakeup, ChildEnds, SetLimit, Notify,
      NotifyScheduler, Wait, WaitLock, WaitWalk, WaitCheck, WaitSleep, WaitWakeup

\* Below the width of the counter, one more is one more.
LEMMA IncSmall ==
  ASSUME NEW n \in Int, n >= 0, n < CountRange - 1
  PROVE  Inc(n) = n + 1
BY DEF Inc, CountRange

\* So the counter of a set of processes grows with it.
LEMMA OneMoreCounts ==
  ASSUME IsFiniteSet(Procs), Cardinality(Procs) < CountRange,
         NEW S \in SUBSET Procs, NEW p \in Procs, p \notin S
  PROVE  Inc(Cardinality(S)) = Cardinality(S \cup {p})
<1>1. IsFiniteSet(S) /\ Cardinality(S \cup {p}) = Cardinality(S) + 1
  BY FS_Subset, FS_AddElement
<1>2. Cardinality(S \cup {p}) <= Cardinality(Procs)
  BY FS_Subset
<1>3. Cardinality(S) \in Nat /\ Cardinality(Procs) \in Nat
  BY <1>1, FS_CardinalityType
<1>4. Cardinality(S) \in Int /\ Cardinality(S) >= 0 /\ Cardinality(S) < CountRange - 1
  BY <1>1, <1>2, <1>3 DEF CountRange
<1> HIDE DEF CountRange
<1>5. Inc(Cardinality(S)) = Cardinality(S) + 1
  BY <1>4, IncSmall
<1> QED
  BY <1>1, <1>5

\* A process is tallied once, and a process added is new to the map.
LEMMA SizesStep ==
  ASSUME \A c \in Clients : MayCall[c] \subseteq {"add", "wait", "set_limit"},
         Support, NobodyStops, EndsByItself, Sizes, [Next]_vars,
         IsFiniteSet(Procs), Cardinality(Procs) < CountRange
  PROVE  Sizes'
<1> USE ConstantsAssumption DEF Support, IInv, Types, ProcessTypes,
    poolVars, countVars, procVars, clientVars, historyVars, Up, Goto, Sched, Waiter
<1>0. queue' = queue => Members' = Members
  BY DEF Members, InQueue
<1>1. ASSUME NEW p \in Procs, LaunchProcess(p) PROVE Sizes'
  <2>1. Tallied' = Tallied
    BY <1>1 DEF LaunchProcess, Tallied, EndsByItself
  <2> QED
    BY <1>1, <2>1, <1>0 DEF LaunchProcess, Sizes
<1>2. ASSUME NEW p \in Procs, WaiterChecks(p) PROVE Sizes'
  <2>1. Tallied' = Tallied
    BY <1>2 DEF WaiterChecks, Tallied, EndsByItself
  <2> QED
    BY <1>2, <2>1, <1>0 DEF WaiterChecks, Sizes
<1>3. ASSUME NEW p \in Procs, WaiterSets(p) PROVE Sizes'
  <2>1. Tallied' = Tallied
    BY <1>3 DEF WaiterSets, Tallied, EndsByItself
  <2> QED
    BY <1>3, <2>1, <1>0 DEF WaiterSets, Sizes
<1>4. ASSUME NEW p \in Procs, FinishUncounts(p) PROVE Sizes'
  <2>1. Tallied' = Tallied
    BY <1>4 DEF FinishUncounts, Tallied, EndsByItself
  <2> QED
    BY <1>4, <2>1, <1>0 DEF FinishUncounts, Sizes
<1>5. ASSUME NEW p \in Procs, FinishTallies(p) PROVE Sizes'
  <2>1. p \notin Tallied /\ Tallied' = Tallied \cup {p}
    BY <1>5 DEF FinishTallies, Tallied
  <2>2. Tallied \in SUBSET Procs
    BY DEF Tallied
  <2>3. Inc(Cardinality(Tallied)) = Cardinality(Tallied')
    BY <2>1, <2>2, OneMoreCounts
  <2>4. executed' = Inc(executed) /\ executed = Cardinality(Tallied)
    BY <1>5 DEF FinishTallies, Sizes
  <2>5. executed' = Cardinality(Tallied')
    BY <2>3, <2>4
  <2> QED
    BY <1>5, <2>5, <1>0 DEF FinishTallies, Sizes
<1>6. ASSUME NEW p \in Procs, FinishNotifies(p) PROVE Sizes'
  <2>1. Tallied' = Tallied
    BY <1>6 DEF FinishNotifies, Tallied, EndsByItself
  <2> QED
    BY <1>6, <2>1, <1>0 DEF FinishNotifies, Sizes
<1>7. ASSUME NEW p \in Procs, FinishNotifiesWait(p) PROVE Sizes'
  <2>1. Tallied' = Tallied
    BY <1>7 DEF FinishNotifiesWait, Tallied, EndsByItself
  <2> QED
    BY <1>7, <2>1, <1>0 DEF FinishNotifiesWait, Sizes
<1>8. ASSUME NEW c \in Clients, NEW p \in Procs, AddProcess(c, p) PROVE Sizes'
  <2>1. ~InQueue(p) /\ UNCHANGED <<waiter, executed>>
    BY <1>8 DEF AddProcess
  <2>2. p \notin Members /\ Members' = Members \cup {p}
    BY <1>8, <2>1, AddMembers DEF Members
  <2>3. Cardinality(Members') = Cardinality(Members) + 1
    BY <2>2, FS_Subset, FS_AddElement DEF Members
  <2>4. Len(queue') = Len(queue) + 1
    BY <1>8, InsertType DEF AddProcess, PoolTypes
  <2>5. Tallied' = Tallied
    BY <2>1 DEF Tallied
  <2> QED
    BY <2>1, <2>3, <2>4, <2>5 DEF Sizes
<1>9. CASE UNCHANGED <<waiter, executed, queue>>
  BY <1>0, <1>9 DEF Sizes, Tallied
<1> QED
  BY <1>1, <1>2, <1>3, <1>4, <1>5, <1>6, <1>7, <1>8, <1>9, OnlyPeaceful
  DEF vars, Peaceful, SchedulerStep, WaiterStep, EvaluatePredicate, FallAsleep, CheckState,
      NothingToLaunch, CountLaunch, LoopAgain, SpuriousWakeup, ChildEnds, SetLimit, Notify,
      NotifyScheduler, Wait, WaitLock, WaitWalk, WaitCheck, WaitSleep, WaitWakeup

\* What wait() walked through is the whole map, for none is added before it is done.
LEMMA SeenIsSizeStep ==
  ASSUME \A c \in Clients : MayCall[c] \subseteq {"add", "wait", "set_limit"},
         Support, NobodyStops, Guarded, SeenIsSize, [Next]_vars
  PROVE  SeenIsSize'
<1> USE ConstantsAssumption DEF Support, IInv, Types, ClientTypes, PoolTypes, SeenIsSize, Members, WaitPlaces,
    InQueue,
    poolVars, countVars, procVars, clientVars, historyVars, Up, Goto, Sched, Waiter
<1>1. ASSUME NEW p \in Procs, FinishNotifiesWait(p) PROVE SeenIsSize'
  BY <1>1 DEF FinishNotifiesWait, Notifying, NotifyWait, Asleep
<1>2. ASSUME NEW c \in Clients, NEW p \in Procs, AddProcess(c, p) PROVE SeenIsSize'
  <2>1. \A d \in Clients : pc'[d] \notin WaitPlaces
    BY <1>2 DEF AddProcess, MayBegin
  <2> QED
    BY <2>1
<1>3. ASSUME NEW c \in Clients, NEW n \in Limits, SetLimit(c, n) PROVE SeenIsSize'
  BY <1>3 DEF SetLimit
<1>4. ASSUME NEW c \in Clients, Notify(c) PROVE SeenIsSize'
  BY <1>4 DEF Notify, NotifyScheduler
<1>5. ASSUME NEW c \in Clients, Wait(c) PROVE SeenIsSize'
  BY <1>5 DEF Wait
<1>6. ASSUME NEW c \in Clients, WaitLock(c) PROVE SeenIsSize'
  BY <1>6 DEF WaitLock
<1>7. ASSUME NEW c \in Clients, WaitWalk(c) PROVE SeenIsSize'
  BY <1>7 DEF WaitWalk
<1>8. ASSUME NEW c \in Clients, WaitCheck(c) PROVE SeenIsSize'
  BY <1>8 DEF WaitCheck
<1>9. ASSUME NEW c \in Clients, WaitSleep(c) PROVE SeenIsSize'
  BY <1>9 DEF WaitSleep
<1>10. ASSUME NEW c \in Clients, WaitWakeup(c) PROVE SeenIsSize'
  BY <1>10 DEF WaitWakeup
<1>11. CASE UNCHANGED <<pc, seen, awaited, queue>>
  BY <1>11
<1> QED
  BY <1>1, <1>2, <1>3, <1>4, <1>5, <1>6, <1>7, <1>8, <1>9, <1>10, <1>11, OnlyPeaceful
  DEF vars, Peaceful, SchedulerStep, WaiterStep, EvaluatePredicate, FallAsleep, CheckState,
      LaunchProcess, NothingToLaunch, CountLaunch, LoopAgain, SpuriousWakeup, ChildEnds,
      WaiterChecks, WaiterSets, FinishUncounts, FinishTallies, FinishNotifies, Notifying,
      NotifyScheduler

(***************************************************************************)
(* "wait for all processes to finish": wait() returns when every process   *)
(* that was in the pool when it was called has ended, and not before.      *)
(***************************************************************************)
THEOREM WaitIsHonest ==
  ASSUME IsFiniteSet(Procs), Cardinality(Procs) < CountRange, Guarded,
         \A c \in Clients : MayCall[c] \subseteq {"add", "wait", "set_limit"}
  PROVE  Spec => WaitMeansEnded
<1> DEFINE Inv == Support /\ NobodyStops /\ Honest
<1>1. Init => Inv
  <2> SUFFICES ASSUME Init PROVE Inv
    OBVIOUS
  <2>1. NobodyStops /\ EndsByItself
    BY DEF Init, NobodyStops, EndsByItself
  <2>2. Tallied = {} /\ Members = {} /\ executed = 0 /\ Len(queue) = 0
    BY DEF Init, Tallied, Members, InQueue
  <2>3. Sizes /\ SeenIsSize
    BY <2>2, FS_EmptySet DEF Sizes, SeenIsSize, Init, WaitPlaces
  <2> QED
    BY <2>1, <2>3, SupportInit DEF Honest
<1>2. Inv /\ [Next]_vars => Inv'
  BY SupportStep, NobodyStopsStep, EndsByItselfStep, SizesStep, SeenIsSizeStep DEF Support, Honest
<1>3. Inv /\ [Next]_vars =>
        \A c \in Clients :
          pc[c] = "w_check" /\ pc'[c] = "idle" =>
            \A p \in awaited[c] :
              p \notin alive /\ waiter[p] \in {"notify", "notify_wait", "done"}
  <2> SUFFICES ASSUME Inv, [Next]_vars, NEW c \in Clients, pc[c] = "w_check", pc'[c] = "idle",
                      NEW p \in awaited[c]
               PROVE  p \notin alive /\ waiter[p] \in {"notify", "notify_wait", "done"}
    OBVIOUS
  <2>1. executed = seen[c]
    <3>1. pc \in [Clients -> ClientPlaces]
      BY DEF Support, IInv, Types, ClientTypes
    <3>2. ASSUME NEW q \in Procs, FinishNotifiesWait(q) PROVE FALSE
      BY <3>1, <3>2, NotifyMoves DEF FinishNotifiesWait
    <3>3. PICK d \in Clients : Peaceful(d)
      BY <3>2, OnlyPeaceful
      DEF SchedulerStep, SpuriousWakeup, EvaluatePredicate, FallAsleep, CheckState,
          LaunchProcess, NothingToLaunch, CountLaunch, LoopAgain, ChildEnds, WaiterStep,
          WaiterChecks, WaiterSets, FinishUncounts, FinishTallies, FinishNotifies, vars,
          clientVars
    <3>4. d = c
      BY <3>1, <3>3
      DEF Peaceful, AddProcess, SetLimit, Notify, Wait, WaitLock, WaitWalk, WaitCheck,
          WaitSleep, WaitWakeup, Goto
    <3>5. WaitCheck(c)
      BY <3>3, <3>4
      DEF Peaceful, AddProcess, SetLimit, Notify, Wait, WaitLock, WaitWalk, WaitSleep,
          WaitWakeup, Goto
    <3> QED
      BY <3>1, <3>5 DEF WaitCheck, Goto
  <2>2. Cardinality(Tallied) = Cardinality(Members)
    BY <2>1 DEF Honest, Sizes, SeenIsSize
  <2>3. Tallied \in SUBSET Members /\ IsFiniteSet(Members)
    BY FS_Subset DEF Tallied, Members, Honest, EndsByItself
  <2>4. Tallied = Members
    BY <2>2, <2>3, FS_Subset
  <2>5. p \in Tallied
    BY <2>4 DEF Honest, SeenIsSize, WaitPlaces
  <2> QED
    BY <2>5 DEF Tallied, Support, IInv, Lives
<1> QED
  BY <1>1, <1>2, <1>3, PTL DEF Spec, WaitMeansEnded

=============================================================================
