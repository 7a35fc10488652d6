-------------------------- MODULE ProcessPoolProofs --------------------------
(***************************************************************************)
(* The properties of ProcessPool for any processes, priorities, clients,   *)
(* calls and limits.                                                       *)
(***************************************************************************)
EXTENDS ProcessPool, SequenceTheorems, FiniteSetTheorems, TLAPS

-----------------------------------------------------------------------------
(***************************************************************************)
(* The inductive invariant.                                                *)
(***************************************************************************)
PoolTypes ==
  /\ poolState \in {"running", "stopped"}
  /\ queue \in Seq(Procs) /\ counter \in Nat
  /\ limit \in Limits \cup {Limit0}
  /\ running \in 0..(CountRange - 1) /\ executed \in 0..(CountRange - 1)
  /\ mutex \in Clients \cup {Free, "scheduler"}
  /\ sched \in SchedPlaces
  /\ prog \in {"up", "terminate", "undefined"}

ProcessTypes ==
  /\ pstate \in [Procs -> {"not_launched", "running", "finished", "stopped"}]
  /\ alive \subseteq Procs
  /\ waiter \in [Procs -> WaiterPlaces]
  /\ arrived \in [Procs -> Nat]
  /\ finished \subseteq Procs /\ late \subseteq Procs
  /\ stoppedBy \in [Procs -> SUBSET Clients]

ClientTypes ==
  /\ pc \in [Clients -> ClientPlaces]
  /\ op \in [Clients -> Calls \cup {"none", "clear_map", "members"}]
  /\ todo \in [Clients -> Seq(Procs)]
  /\ seen \in [Clients -> Nat]
  /\ awaited \in [Clients -> SUBSET Procs]

Types == PoolTypes /\ ProcessTypes /\ ClientTypes

StopPlaces == {"recheck", "set", "uncount", "tally", "notify_sched", "notify_wait", "kill", "joins"}
WalkPlaces == StopPlaces \cup {"walk"}

\* who holds _mutex is known from where the threads are
Holding ==
  /\ mutex = "scheduler" <=> sched = "count"
  /\ \A c \in Clients :
       /\ mutex = c <=> pc[c] \in WalkPlaces \cup {"reset"} /\ op[c] # "members"
       /\ pc[c] = "lock" => op[c] \in {"stop", "stop_all", "clear", "destroy"}
       /\ pc[c] = "reset" => op[c] = "clear_map"
       /\ pc[c] \in StopPlaces => todo[c] # <<>> /\ pstate[Current(c)] # "not_launched"

\* the thread that waits for a child is where the state of the process allows
Lives == \A p \in Procs :
  /\ waiter[p] = "none" <=> pstate[p] = "not_launched"
  /\ p \in alive => waiter[p] = "wait"
  /\ pstate[p] = "running" => waiter[p] \in {"wait", "set"}
  /\ p \in finished => waiter[p] \in {"tally", "notify", "notify_wait", "done"}

\* the map is in the order of priorities and of arrival
Sorted ==
  /\ \A i, j \in DOMAIN queue : i < j => Contract!Before(queue[i], queue[j])
  /\ \A i \in DOMAIN queue : arrived[queue[i]] < counter

\* clear() empties the map first and resets the counters then
Sized ==
  \/ counter = Len(queue) /\ \A c \in Clients : pc[c] # "reset"
  \/ queue = <<>> /\ \E c \in Clients : mutex = c /\ pc[c] = "reset"

Todo(c, p) == \E i \in DOMAIN todo[c] : todo[c][i] = p

\* clear() stops the processes of the map, then joins them
Cleared == \A c \in Clients, i \in DOMAIN queue :
  /\ op[c] = "clear" /\ pc[c] \in WalkPlaces /\ pstate[queue[i]] = "running" =>
       Todo(c, queue[i])
  /\ op[c] = "clear_map" /\ pc[c] \in WalkPlaces =>
       /\ pstate[queue[i]] # "running"
       /\ waiter[queue[i]] \in {"none", "done"} \/ Todo(c, queue[i])

\* a scheduler that launched a process late looks at the state before the next
OneLate ==
  late # {} =>
    /\ poolState = "stopped" /\ sched \in {"count", "loop", "exit"}
    /\ \E p \in Procs : late = {p}

IInv == Types /\ Holding /\ Lives /\ Sorted /\ Sized /\ Cleared /\ OneLate

\* A process put into the map is the only new element of it.
LEMMA InsertType ==
  ASSUME queue \in Seq(Procs), NEW p \in Procs, NEW k \in 0..Len(queue)
  PROVE  /\ Insert(p, k) \in Seq(Procs) /\ Len(Insert(p, k)) = Len(queue) + 1
         /\ DOMAIN Insert(p, k) = 1..(Len(queue) + 1)
  BY DEF Insert

\* The counters wrap around and stay 16 bits wide.
LEMMA CounterStaysInRange ==
  /\ CountRange \in Nat /\ CountRange > 0
  /\ \A n \in 0..(CountRange - 1) : Inc(n) \in 0..(CountRange - 1) /\ Dec(n) \in 0..(CountRange - 1)
<1>1. CountRange \in Nat /\ CountRange > 0
  BY DEF CountRange
<1> QED
  BY <1>1 DEF Inc, Dec

\* The pool starts in the invariant.
LEMMA InvariantInit == Init => IInv
<1> SUFFICES ASSUME Init PROVE IInv
  OBVIOUS
<1> USE ConstantsAssumption DEF Init
<1>1. PoolTypes
  BY CounterStaysInRange DEF PoolTypes, SchedPlaces
<1>2. ProcessTypes
  BY DEF ProcessTypes, WaiterPlaces
<1>3. ClientTypes
  BY DEF ClientTypes, ClientPlaces
<1>4. Holding /\ Lives
  BY DEF Holding, Lives, StopPlaces, WalkPlaces, Free
<1>5. Sorted /\ Sized /\ Cleared /\ OneLate
  BY DEF Sorted, Sized, Cleared, OneLate
<1> QED
  BY <1>1, <1>2, <1>3, <1>4, <1>5 DEF IInv, Types

\* Every action keeps the types of the pool's own variables.
LEMMA PoolTypesStep == Types /\ [Next]_vars => PoolTypes'
<1> SUFFICES ASSUME Types, [Next]_vars PROVE PoolTypes'
  OBVIOUS
<1> USE ConstantsAssumption, CounterStaysInRange, InsertType DEF Types, PoolTypes,
    SchedPlaces, NotifyScheduler, poolVars, countVars, procVars, clientVars, historyVars,
    Up, Goto, Sched, Waiter
<1>1. ASSUME EvaluatePredicate PROVE PoolTypes'
  BY <1>1 DEF EvaluatePredicate
<1>2. ASSUME FallAsleep PROVE PoolTypes'
  BY <1>2 DEF FallAsleep
<1>3. ASSUME SpuriousWakeup PROVE PoolTypes'
  BY <1>3 DEF SpuriousWakeup
<1>4. ASSUME CheckState PROVE PoolTypes'
  BY <1>4 DEF CheckState
<1>5. ASSUME NEW p \in Procs, LaunchProcess(p) PROVE PoolTypes'
  BY <1>5 DEF LaunchProcess
<1>6. ASSUME NothingToLaunch PROVE PoolTypes'
  BY <1>6 DEF NothingToLaunch
<1>7. ASSUME CountLaunch PROVE PoolTypes'
  BY <1>7 DEF CountLaunch
<1>8. ASSUME LoopAgain PROVE PoolTypes'
  BY <1>8 DEF LoopAgain
<1>9. ASSUME NEW p \in Procs, ChildEnds(p) PROVE PoolTypes'
  BY <1>9 DEF ChildEnds
<1>10. ASSUME NEW p \in Procs, WaiterChecks(p) PROVE PoolTypes'
  BY <1>10 DEF WaiterChecks
<1>11. ASSUME NEW p \in Procs, WaiterSets(p) PROVE PoolTypes'
  BY <1>11 DEF WaiterSets
<1>12. ASSUME NEW p \in Procs, FinishUncounts(p) PROVE PoolTypes'
  BY <1>12 DEF FinishUncounts
<1>13. ASSUME NEW p \in Procs, FinishTallies(p) PROVE PoolTypes'
  BY <1>13 DEF FinishTallies
<1>14. ASSUME NEW p \in Procs, FinishNotifies(p) PROVE PoolTypes'
  BY <1>14 DEF FinishNotifies, Notifying
<1>15. ASSUME NEW p \in Procs, FinishNotifiesWait(p) PROVE PoolTypes'
  BY <1>15 DEF FinishNotifiesWait, Notifying, NotifyWait, Asleep
<1>16. ASSUME NEW c \in Clients, NEW p \in Procs, AddProcess(c, p) PROVE PoolTypes'
  BY <1>16 DEF AddProcess, MapChanges
<1>17. ASSUME NEW c \in Clients, NEW n \in Limits, SetLimit(c, n) PROVE PoolTypes'
  BY <1>17 DEF SetLimit
<1>18. ASSUME NEW c \in Clients, Notify(c) PROVE PoolTypes'
  BY <1>18 DEF Notify
<1>19. ASSUME NEW c \in Clients, Wait(c) PROVE PoolTypes'
  BY <1>19 DEF Wait
<1>20. ASSUME NEW c \in Clients, WaitLock(c) PROVE PoolTypes'
  BY <1>20 DEF WaitLock
<1>21. ASSUME NEW c \in Clients, WaitWalk(c) PROVE PoolTypes'
  BY <1>21 DEF WaitWalk
<1>22. ASSUME NEW c \in Clients, WaitCheck(c) PROVE PoolTypes'
  BY <1>22 DEF WaitCheck
<1>23. ASSUME NEW c \in Clients, WaitSleep(c) PROVE PoolTypes'
  BY <1>23 DEF WaitSleep
<1>24. ASSUME NEW c \in Clients, WaitWakeup(c) PROVE PoolTypes'
  BY <1>24 DEF WaitWakeup
<1>25. ASSUME NEW c \in Clients, Stop(c) PROVE PoolTypes'
  BY <1>25 DEF Stop, Begin
<1>26. ASSUME NEW c \in Clients, StopAll(c) PROVE PoolTypes'
  BY <1>26 DEF StopAll, Begin
<1>27. ASSUME NEW c \in Clients, Clear(c) PROVE PoolTypes'
  BY <1>27 DEF Clear, Begin
<1>28. ASSUME NEW c \in Clients, Destroy(c) PROVE PoolTypes'
  BY <1>28 DEF Destroy, Begin
<1>29. ASSUME NEW c \in Clients, Lock(c) PROVE PoolTypes'
  BY <1>29 DEF Lock
<1>30. ASSUME NEW c \in Clients, WalkRunning(c) PROVE PoolTypes'
  BY <1>30 DEF WalkRunning
<1>31. ASSUME NEW c \in Clients, WalkPast(c) PROVE PoolTypes'
  BY <1>31 DEF WalkPast
<1>32. ASSUME NEW c \in Clients, Recheck(c) PROVE PoolTypes'
  BY <1>32 DEF Recheck
<1>33. ASSUME NEW c \in Clients, StopSets(c) PROVE PoolTypes'
  BY <1>33 DEF StopSets
<1>34. ASSUME NEW c \in Clients, StopUncounts(c) PROVE PoolTypes'
  BY <1>34 DEF StopUncounts
<1>35. ASSUME NEW c \in Clients, StopTallies(c) PROVE PoolTypes'
  BY <1>35 DEF StopTallies
<1>36. ASSUME NEW c \in Clients, StopNotifies(c) PROVE PoolTypes'
  BY <1>36 DEF StopNotifies, Notifying
<1>37. ASSUME NEW c \in Clients, StopNotifiesWait(c) PROVE PoolTypes'
  BY <1>37 DEF StopNotifiesWait, Notifying, NotifyWait, Asleep
<1>70. ASSUME NEW c \in Clients, StopJoins(c) PROVE PoolTypes'
  BY <1>70 DEF StopJoins
<1>38. ASSUME NEW c \in Clients, StopKills(c) PROVE PoolTypes'
  BY <1>38 DEF StopKills
<1>39. ASSUME NEW c \in Clients, StopEnds(c) PROVE PoolTypes'
  BY <1>39 DEF StopEnds
<1>40. ASSUME NEW c \in Clients, StopAllEnds(c) PROVE PoolTypes'
  BY <1>40 DEF StopAllEnds
<1>41. ASSUME NEW c \in Clients, DestroyMap(c) PROVE PoolTypes'
  BY <1>41 DEF DestroyMap
<1>42. ASSUME NEW c \in Clients, ClearMap(c) PROVE PoolTypes'
  BY <1>42 DEF ClearMap, MapChanges
<1>43. ASSUME NEW c \in Clients, ResetCounts(c) PROVE PoolTypes'
  BY <1>43 DEF ResetCounts
<1>44. ASSUME NEW c \in Clients, MembersGone(c) PROVE PoolTypes'
  BY <1>44 DEF MembersGone
<1>45. CASE UNCHANGED vars
  BY <1>45 DEF vars
<1> QED
  BY <1>70, <1>1, <1>2, <1>3, <1>4, <1>5, <1>6, <1>7, <1>8, <1>9, <1>10, <1>11, <1>12, <1>13,
      <1>14, <1>15, <1>16, <1>17, <1>18, <1>19, <1>20, <1>21, <1>22, <1>23, <1>24, <1>25,
      <1>26, <1>27, <1>28, <1>29, <1>30, <1>31, <1>32, <1>33, <1>34, <1>35, <1>36, <1>37,
      <1>38, <1>39, <1>40, <1>41, <1>42, <1>43, <1>44, <1>45
  DEF Next, Over, SchedulerStep, WaiterStep, CallStep, WalkStep, BeginCall

\* Every action keeps the types of the processes' variables.
LEMMA ProcessTypesStep == Types /\ [Next]_vars => ProcessTypes'
<1> SUFFICES ASSUME Types, [Next]_vars PROVE ProcessTypes'
  OBVIOUS
<1> USE ConstantsAssumption DEF Types, ProcessTypes, WaiterPlaces, poolVars, countVars,
    procVars, clientVars, historyVars, Up, Goto, Sched, Waiter
<1>1. ASSUME NEW p \in Procs, LaunchProcess(p) PROVE ProcessTypes'
  BY <1>1 DEF LaunchProcess
<1>2. ASSUME NEW p \in Procs, ChildEnds(p) PROVE ProcessTypes'
  BY <1>2 DEF ChildEnds
<1>3. ASSUME NEW p \in Procs, WaiterChecks(p) PROVE ProcessTypes'
  BY <1>3 DEF WaiterChecks
<1>4. ASSUME NEW p \in Procs, WaiterSets(p) PROVE ProcessTypes'
  BY <1>4 DEF WaiterSets
<1>5. ASSUME NEW p \in Procs, FinishUncounts(p) PROVE ProcessTypes'
  BY <1>5 DEF FinishUncounts
<1>6. ASSUME NEW p \in Procs, FinishTallies(p) PROVE ProcessTypes'
  BY <1>6 DEF FinishTallies
<1>7. ASSUME NEW p \in Procs, FinishNotifies(p) PROVE ProcessTypes'
  BY <1>7 DEF FinishNotifies, Notifying
<1>8. ASSUME NEW p \in Procs, FinishNotifiesWait(p) PROVE ProcessTypes'
  BY <1>8 DEF FinishNotifiesWait, Notifying, NotifyWait, Asleep
<1>9. ASSUME NEW c \in Clients, NEW p \in Procs, AddProcess(c, p) PROVE ProcessTypes'
  BY <1>9 DEF AddProcess, MapChanges, PoolTypes
<1>10. ASSUME NEW c \in Clients, StopSets(c) PROVE ProcessTypes'
  BY <1>10 DEF StopSets
<1>11. ASSUME NEW c \in Clients, StopUncounts(c) PROVE ProcessTypes'
  BY <1>11 DEF StopUncounts
<1>70. ASSUME NEW c \in Clients, StopJoins(c) PROVE ProcessTypes'
  BY <1>70 DEF StopJoins
<1>12. ASSUME NEW c \in Clients, StopKills(c) PROVE ProcessTypes'
  BY <1>12 DEF StopKills
<1>13. CASE UNCHANGED <<procVars, arrived, finished, late, stoppedBy>>
  BY <1>13
<1> HIDE DEF ProcessTypes
<1> QED
  BY <1>70, <1>1, <1>2, <1>3, <1>4, <1>5, <1>6, <1>7, <1>8, <1>9, <1>10, <1>11, <1>12, <1>13
  DEF vars, Next, Over, SchedulerStep, WaiterStep, CallStep, WalkStep, BeginCall,
      EvaluatePredicate, FallAsleep, SpuriousWakeup, CheckState, NothingToLaunch,
      CountLaunch, LoopAgain, SetLimit, Notify, Wait, WaitLock, WaitWalk, WaitCheck,
      WaitSleep, WaitWakeup, Stop, Begin, StopAll, Clear, Destroy, Lock, WalkRunning,
      WalkPast, Recheck, StopTallies, StopNotifies, Notifying, StopNotifiesWait, NotifyWait,
      Asleep, StopEnds, StopAllEnds, DestroyMap, ClearMap, MapChanges, ResetCounts,
      MembersGone

\* Every action keeps the types of the clients' variables.
LEMMA ClientTypesStep == Types /\ [Next]_vars => ClientTypes'
<1> SUFFICES ASSUME Types, [Next]_vars PROVE ClientTypes'
  OBVIOUS
<1> USE ConstantsAssumption DEF Types, ClientTypes, ClientPlaces, WaitPlaces, Calls,
    poolVars, countVars, procVars, clientVars, historyVars, Up, Goto, Sched, Waiter
<1>1. ASSUME NEW p \in Procs, FinishNotifiesWait(p) PROVE ClientTypes'
  BY <1>1 DEF FinishNotifiesWait, Notifying, NotifyWait, Asleep
<1>2. ASSUME NEW c \in Clients, NEW p \in Procs, AddProcess(c, p) PROVE ClientTypes'
  BY <1>2 DEF AddProcess, MapChanges
<1>3. ASSUME NEW c \in Clients, NEW n \in Limits, SetLimit(c, n) PROVE ClientTypes'
  BY <1>3 DEF SetLimit
<1>4. ASSUME NEW c \in Clients, Notify(c) PROVE ClientTypes'
  BY <1>4 DEF Notify
<1>5. ASSUME NEW c \in Clients, Wait(c) PROVE ClientTypes'
  BY <1>5 DEF Wait
<1>6. ASSUME NEW c \in Clients, WaitLock(c) PROVE ClientTypes'
  BY <1>6 DEF WaitLock
<1>7. ASSUME NEW c \in Clients, WaitWalk(c) PROVE ClientTypes'
  BY <1>7 DEF WaitWalk, PoolTypes
<1>8. ASSUME NEW c \in Clients, WaitCheck(c) PROVE ClientTypes'
  BY <1>8 DEF WaitCheck
<1>9. ASSUME NEW c \in Clients, WaitSleep(c) PROVE ClientTypes'
  BY <1>9 DEF WaitSleep
<1>10. ASSUME NEW c \in Clients, WaitWakeup(c) PROVE ClientTypes'
  BY <1>10 DEF WaitWakeup
<1>11. ASSUME NEW c \in Clients, Stop(c) PROVE ClientTypes'
  BY <1>11 DEF Stop, Begin
<1>12. ASSUME NEW c \in Clients, StopAll(c) PROVE ClientTypes'
  BY <1>12 DEF StopAll, Begin
<1>13. ASSUME NEW c \in Clients, Clear(c) PROVE ClientTypes'
  BY <1>13 DEF Clear, Begin
<1>14. ASSUME NEW c \in Clients, Destroy(c) PROVE ClientTypes'
  BY <1>14 DEF Destroy, Begin
<1>15. ASSUME NEW c \in Clients, Lock(c) PROVE ClientTypes'
  BY <1>15 DEF Lock, PoolTypes
<1>16. ASSUME NEW c \in Clients, WalkRunning(c) PROVE ClientTypes'
  BY <1>16 DEF WalkRunning
<1>17. ASSUME NEW c \in Clients, WalkPast(c) PROVE ClientTypes'
  BY <1>17 DEF WalkPast
<1>18. ASSUME NEW c \in Clients, Recheck(c) PROVE ClientTypes'
  <2>1. todo' \in [Clients -> Seq(Procs)]
    <3>1. <<>> \in Seq(Procs)
      BY EmptySeq
    <3>2. todo' = todo \/ todo' = [todo EXCEPT ![c] = <<>>]
      BY <1>18 DEF Recheck
    <3> QED
      BY <3>1, <3>2
  <2>2. pc' \in [Clients -> ClientPlaces]
    <3>1. pc' = [pc EXCEPT ![c] = "set"] \/ pc' = [pc EXCEPT ![c] = "idle"]
      BY <1>18 DEF Recheck
    <3> QED
      BY <3>1
  <2>3. op' \in [Clients -> Calls \cup {"none", "clear_map", "members"}]
    BY <1>18 DEF Recheck
  <2> QED
    BY <1>18, <2>1, <2>2, <2>3 DEF Recheck
<1>19. ASSUME NEW c \in Clients, StopSets(c) PROVE ClientTypes'
  BY <1>19 DEF StopSets
<1>20. ASSUME NEW c \in Clients, StopUncounts(c) PROVE ClientTypes'
  BY <1>20 DEF StopUncounts
<1>21. ASSUME NEW c \in Clients, StopTallies(c) PROVE ClientTypes'
  BY <1>21 DEF StopTallies
<1>22. ASSUME NEW c \in Clients, StopNotifies(c) PROVE ClientTypes'
  BY <1>22 DEF StopNotifies, Notifying
<1>23. ASSUME NEW c \in Clients, StopNotifiesWait(c) PROVE ClientTypes'
  BY <1>23 DEF StopNotifiesWait, Notifying, NotifyWait, Asleep
<1>70. ASSUME NEW c \in Clients, StopJoins(c) PROVE ClientTypes'
  BY <1>70 DEF StopJoins
<1>24. ASSUME NEW c \in Clients, StopKills(c) PROVE ClientTypes'
  BY <1>24 DEF StopKills
<1>25. ASSUME NEW c \in Clients, StopEnds(c) PROVE ClientTypes'
  BY <1>25 DEF StopEnds
<1>26. ASSUME NEW c \in Clients, StopAllEnds(c) PROVE ClientTypes'
  BY <1>26 DEF StopAllEnds
<1>27. ASSUME NEW c \in Clients, DestroyMap(c) PROVE ClientTypes'
  BY <1>27 DEF DestroyMap, PoolTypes
<1>28. ASSUME NEW c \in Clients, ClearMap(c) PROVE ClientTypes'
  BY <1>28 DEF ClearMap, MapChanges
<1>29. ASSUME NEW c \in Clients, ResetCounts(c) PROVE ClientTypes'
  BY <1>29 DEF ResetCounts
<1>30. ASSUME NEW c \in Clients, MembersGone(c) PROVE ClientTypes'
  BY <1>30 DEF MembersGone
<1>31. CASE UNCHANGED <<clientVars, awaited>>
  BY <1>31
<1> HIDE DEF ClientTypes
<1> QED
  BY <1>70, <1>1, <1>2, <1>3, <1>4, <1>5, <1>6, <1>7, <1>8, <1>9, <1>10, <1>11, <1>12, <1>13,
      <1>14, <1>15, <1>16, <1>17, <1>18, <1>19, <1>20, <1>21, <1>22, <1>23, <1>24, <1>25,
      <1>26, <1>27, <1>28, <1>29, <1>30, <1>31
  DEF vars, Next, Over, SchedulerStep, WaiterStep, CallStep, WalkStep, BeginCall,
      EvaluatePredicate, FallAsleep, SpuriousWakeup, CheckState, LaunchProcess,
      NothingToLaunch, CountLaunch, LoopAgain, ChildEnds, WaiterChecks, WaiterSets,
      FinishUncounts, FinishTallies, FinishNotifies, Notifying

\* Every action takes and gives back _mutex where Holding says.
LEMMA HoldingStep == IInv /\ [Next]_vars => Holding'
<1> SUFFICES ASSUME IInv, [Next]_vars PROVE Holding'
  OBVIOUS
<1> USE ConstantsAssumption DEF IInv, Types, ClientTypes, Holding, StopPlaces, WalkPlaces,
    Free, Current, poolVars, countVars, procVars, clientVars, historyVars, Up, Goto, Sched,
    Waiter
<1>1. ASSUME EvaluatePredicate PROVE Holding'
  BY <1>1 DEF EvaluatePredicate
<1>2. ASSUME FallAsleep PROVE Holding'
  BY <1>2 DEF FallAsleep
<1>3. ASSUME SpuriousWakeup PROVE Holding'
  BY <1>3 DEF SpuriousWakeup
<1>4. ASSUME CheckState PROVE Holding'
  BY <1>4 DEF CheckState
<1>5. ASSUME NEW p \in Procs, LaunchProcess(p) PROVE Holding'
  BY <1>5 DEF LaunchProcess
<1>6. ASSUME NothingToLaunch PROVE Holding'
  BY <1>6 DEF NothingToLaunch
<1>7. ASSUME CountLaunch PROVE Holding'
  BY <1>7 DEF CountLaunch
<1>8. ASSUME LoopAgain PROVE Holding'
  BY <1>8 DEF LoopAgain
<1>9. ASSUME NEW p \in Procs, ChildEnds(p) PROVE Holding'
  BY <1>9 DEF ChildEnds
<1>10. ASSUME NEW p \in Procs, WaiterChecks(p) PROVE Holding'
  BY <1>10 DEF WaiterChecks
<1>11. ASSUME NEW p \in Procs, WaiterSets(p) PROVE Holding'
  BY <1>11 DEF WaiterSets
<1>12. ASSUME NEW p \in Procs, FinishUncounts(p) PROVE Holding'
  BY <1>12 DEF FinishUncounts
<1>13. ASSUME NEW p \in Procs, FinishTallies(p) PROVE Holding'
  BY <1>13 DEF FinishTallies
<1>14. ASSUME NEW p \in Procs, FinishNotifies(p) PROVE Holding'
  BY <1>14 DEF FinishNotifies, Notifying, NotifyScheduler
<1>15. ASSUME NEW p \in Procs, FinishNotifiesWait(p) PROVE Holding'
  BY <1>15 DEF FinishNotifiesWait, Notifying, NotifyWait, Asleep
<1>16. ASSUME NEW c \in Clients, NEW p \in Procs, AddProcess(c, p) PROVE Holding'
  BY <1>16 DEF AddProcess, MapChanges
<1>17. ASSUME NEW c \in Clients, NEW n \in Limits, SetLimit(c, n) PROVE Holding'
  BY <1>17 DEF SetLimit
<1>18. ASSUME NEW c \in Clients, Notify(c) PROVE Holding'
  BY <1>18 DEF Notify, Notifying, NotifyScheduler
<1>19. ASSUME NEW c \in Clients, Wait(c) PROVE Holding'
  BY <1>19 DEF Wait
<1>20. ASSUME NEW c \in Clients, WaitLock(c) PROVE Holding'
  BY <1>20 DEF WaitLock
<1>21. ASSUME NEW c \in Clients, WaitWalk(c) PROVE Holding'
  BY <1>21 DEF WaitWalk
<1>22. ASSUME NEW c \in Clients, WaitCheck(c) PROVE Holding'
  BY <1>22 DEF WaitCheck
<1>23. ASSUME NEW c \in Clients, WaitSleep(c) PROVE Holding'
  BY <1>23 DEF WaitSleep
<1>24. ASSUME NEW c \in Clients, WaitWakeup(c) PROVE Holding'
  BY <1>24 DEF WaitWakeup
<1>25. ASSUME NEW c \in Clients, Stop(c) PROVE Holding'
  BY <1>25 DEF Stop, Begin
<1>26. ASSUME NEW c \in Clients, StopAll(c) PROVE Holding'
  BY <1>26 DEF StopAll, Begin
<1>27. ASSUME NEW c \in Clients, Clear(c) PROVE Holding'
  BY <1>27 DEF Clear, Begin
<1>28. ASSUME NEW c \in Clients, Destroy(c) PROVE Holding'
  BY <1>28 DEF Destroy, Begin
<1>29. ASSUME NEW c \in Clients, Lock(c) PROVE Holding'
  BY <1>29 DEF Lock
<1>30. ASSUME NEW c \in Clients, WalkRunning(c) PROVE Holding'
  BY <1>30 DEF WalkRunning
<1>31. ASSUME NEW c \in Clients, WalkPast(c) PROVE Holding'
  BY <1>31 DEF WalkPast
<1>32. ASSUME NEW c \in Clients, Recheck(c) PROVE Holding'
  <2>1. CASE pc' = [pc EXCEPT ![c] = "set"]
    <3>1. pc[c] = "recheck" /\ UNCHANGED <<mutex, sched, op, todo, pstate>>
      BY <1>32, <2>1 DEF Recheck
    <3> QED
      BY <2>1, <3>1
  <2>2. CASE pc' # [pc EXCEPT ![c] = "set"]
    <3>1. /\ pc[c] = "recheck" /\ pc' = [pc EXCEPT ![c] = "idle"]
          /\ mutex' = IF mutex = c THEN Free ELSE mutex
          /\ op' = [op EXCEPT ![c] = "none"] /\ todo' = [todo EXCEPT ![c] = <<>>]
          /\ UNCHANGED <<sched, pstate>>
      BY <1>32, <2>2 DEF Recheck
    <3> QED
      BY <3>1
  <2> QED
    BY <2>1, <2>2
<1>33. ASSUME NEW c \in Clients, StopSets(c) PROVE Holding'
  BY <1>33 DEF StopSets
<1>34. ASSUME NEW c \in Clients, StopUncounts(c) PROVE Holding'
  BY <1>34 DEF StopUncounts
<1>35. ASSUME NEW c \in Clients, StopTallies(c) PROVE Holding'
  BY <1>35 DEF StopTallies
<1>36. ASSUME NEW c \in Clients, StopNotifies(c) PROVE Holding'
  BY <1>36 DEF StopNotifies, Notifying, NotifyScheduler
<1>37. ASSUME NEW c \in Clients, StopNotifiesWait(c) PROVE Holding'
  BY SMTT(60), <1>37 DEF StopNotifiesWait, Notifying, NotifyWait, Asleep
<1>70. ASSUME NEW c \in Clients, StopJoins(c) PROVE Holding'
  BY <1>70 DEF StopJoins
<1>38. ASSUME NEW c \in Clients, StopKills(c) PROVE Holding'
  BY <1>38 DEF StopKills
<1>39. ASSUME NEW c \in Clients, StopEnds(c) PROVE Holding'
  BY <1>39 DEF StopEnds
<1>40. ASSUME NEW c \in Clients, StopAllEnds(c) PROVE Holding'
  BY <1>40 DEF StopAllEnds
<1>41. ASSUME NEW c \in Clients, DestroyMap(c) PROVE Holding'
  BY <1>41 DEF DestroyMap
<1>42. ASSUME NEW c \in Clients, ClearMap(c) PROVE Holding'
  BY <1>42 DEF ClearMap, MapChanges
<1>43. ASSUME NEW c \in Clients, ResetCounts(c) PROVE Holding'
  BY <1>43 DEF ResetCounts
<1>44. ASSUME NEW c \in Clients, MembersGone(c) PROVE Holding'
  BY <1>44 DEF MembersGone
<1>45. CASE UNCHANGED vars
  BY <1>45 DEF vars
<1> QED
  BY <1>70, <1>1, <1>2, <1>3, <1>4, <1>5, <1>6, <1>7, <1>8, <1>9, <1>10, <1>11, <1>12, <1>13,
      <1>14, <1>15, <1>16, <1>17, <1>18, <1>19, <1>20, <1>21, <1>22, <1>23, <1>24, <1>25,
      <1>26, <1>27, <1>28, <1>29, <1>30, <1>31, <1>32, <1>33, <1>34, <1>35, <1>36, <1>37,
      <1>38, <1>39, <1>40, <1>41, <1>42, <1>43, <1>44, <1>45
  DEF Next, Over, SchedulerStep, WaiterStep, CallStep, WalkStep, BeginCall

\* Every action keeps each process and the thread that waits for it in step.
LEMMA LivesStep == IInv /\ [Next]_vars => Lives'
<1> SUFFICES ASSUME IInv, [Next]_vars PROVE Lives'
  OBVIOUS
<1> USE ConstantsAssumption DEF IInv, Types, ProcessTypes, Lives, poolVars, countVars,
    procVars, clientVars, historyVars, Up, Goto, Sched, Waiter
<1>1. ASSUME NEW p \in Procs, LaunchProcess(p) PROVE Lives'
  BY <1>1 DEF LaunchProcess, GetProcess
<1>2. ASSUME NEW p \in Procs, ChildEnds(p) PROVE Lives'
  BY <1>2 DEF ChildEnds
<1>3. ASSUME NEW p \in Procs, WaiterChecks(p) PROVE Lives'
  BY <1>3 DEF WaiterChecks
<1>4. ASSUME NEW p \in Procs, WaiterSets(p) PROVE Lives'
  BY <1>4 DEF WaiterSets
<1>5. ASSUME NEW p \in Procs, FinishUncounts(p) PROVE Lives'
  BY <1>5 DEF FinishUncounts
<1>6. ASSUME NEW p \in Procs, FinishTallies(p) PROVE Lives'
  BY <1>6 DEF FinishTallies
<1>7. ASSUME NEW p \in Procs, FinishNotifies(p) PROVE Lives'
  BY <1>7 DEF FinishNotifies, Notifying
<1>8. ASSUME NEW p \in Procs, FinishNotifiesWait(p) PROVE Lives'
  BY <1>8 DEF FinishNotifiesWait, Notifying, NotifyWait, Asleep
<1>9. ASSUME NEW c \in Clients, StopSets(c) PROVE Lives'
  BY <1>9 DEF StopSets, Holding, StopPlaces, Current
<1>70. ASSUME NEW c \in Clients, StopJoins(c) PROVE Lives'
  BY <1>70 DEF StopJoins
<1>10. ASSUME NEW c \in Clients, StopKills(c) PROVE Lives'
  BY <1>10 DEF StopKills
<1>11. CASE UNCHANGED <<procVars, finished>>
  BY <1>11
<1> HIDE DEF Lives
<1> QED
  BY <1>70, <1>1, <1>2, <1>3, <1>4, <1>5, <1>6, <1>7, <1>8, <1>9, <1>10, <1>11
  DEF vars, Next, Over, SchedulerStep, WaiterStep, CallStep, WalkStep, BeginCall,
      EvaluatePredicate, FallAsleep, SpuriousWakeup, CheckState, NothingToLaunch,
      CountLaunch, LoopAgain, AddProcess, MapChanges, SetLimit, Notify, Wait, WaitLock,
      WaitWalk, WaitCheck, WaitSleep, WaitWakeup, Stop, Begin, StopAll, Clear, Destroy,
      Lock, WalkRunning, WalkPast, Recheck, StopUncounts, StopTallies, StopNotifies,
      Notifying, StopNotifiesWait, NotifyWait, Asleep, StopEnds, StopAllEnds, DestroyMap,
      ClearMap, ResetCounts, MembersGone

\* A second process is not launched late.
LEMMA OneLateStep == IInv /\ [Next]_vars => OneLate'
<1> SUFFICES ASSUME IInv, [Next]_vars PROVE OneLate'
  OBVIOUS
<1> USE ConstantsAssumption DEF IInv, OneLate, poolVars, countVars, procVars, clientVars,
    historyVars, Up, Goto, Sched, Waiter
<1>1. ASSUME EvaluatePredicate PROVE OneLate'
  BY <1>1 DEF EvaluatePredicate
<1>2. ASSUME FallAsleep PROVE OneLate'
  BY <1>2 DEF FallAsleep
<1>3. ASSUME SpuriousWakeup PROVE OneLate'
  BY <1>3 DEF SpuriousWakeup
<1>4. ASSUME CheckState PROVE OneLate'
  BY <1>4 DEF CheckState
<1>5. ASSUME NEW p \in Procs, LaunchProcess(p) PROVE OneLate'
  BY <1>5 DEF LaunchProcess
<1>6. ASSUME NothingToLaunch PROVE OneLate'
  BY <1>6 DEF NothingToLaunch
<1>7. ASSUME CountLaunch PROVE OneLate'
  BY <1>7 DEF CountLaunch
<1>8. ASSUME LoopAgain PROVE OneLate'
  BY <1>8 DEF LoopAgain
<1>9. ASSUME NEW p \in Procs, FinishNotifies(p) PROVE OneLate'
  BY <1>9 DEF FinishNotifies, Notifying, NotifyScheduler
<1>10. ASSUME NEW c \in Clients, Notify(c) PROVE OneLate'
  BY <1>10 DEF Notify, Notifying, NotifyScheduler
<1>11. ASSUME NEW c \in Clients, Lock(c) PROVE OneLate'
  BY <1>11 DEF Lock
<1>12. ASSUME NEW c \in Clients, StopNotifies(c) PROVE OneLate'
  BY <1>12 DEF StopNotifies, Notifying, NotifyScheduler
<1>13. CASE UNCHANGED <<poolState, sched, late>>
  BY <1>13
<1> HIDE DEF OneLate
<1> QED
  BY <1>1, <1>2, <1>3, <1>4, <1>5, <1>6, <1>7, <1>8, <1>9, <1>10, <1>11, <1>12, <1>13
  DEF vars, Next, Over, SchedulerStep, WaiterStep, CallStep, WalkStep, BeginCall, ChildEnds,
      WaiterChecks, WaiterSets, FinishUncounts, FinishTallies, FinishNotifiesWait,
      Notifying, NotifyWait, Asleep, AddProcess, MapChanges, SetLimit, Wait, WaitLock,
      WaitWalk, WaitCheck, WaitSleep, WaitWakeup, Stop, Begin, StopAll, Clear, Destroy,
      WalkRunning, WalkPast, Recheck, StopSets, StopUncounts, StopTallies, StopNotifiesWait,
      StopKills, StopJoins, StopEnds, StopAllEnds, DestroyMap, ClearMap, ResetCounts, MembersGone

\* The process that is added comes behind its equals, which arrived before.
LEMMA InsertSorted ==
  ASSUME IInv, NEW p \in Procs, NEW k \in 0..Len(queue), Behind(p, k), ~InQueue(p),
         queue' = Insert(p, k), arrived' = [arrived EXCEPT ![p] = counter], counter' = counter + 1
  PROVE  Sorted'
<1> DEFINE n == Len(queue)
<1>1. /\ n \in Nat /\ DOMAIN queue = 1..n /\ counter \in Nat
      /\ \A i \in 1..n : queue[i] \in Procs
  BY DEF IInv, Types, PoolTypes
<1>2. /\ DOMAIN queue' = 1..(n + 1)
      /\ \A i \in 1..(n + 1) :
           queue'[i] = IF i <= k THEN queue[i] ELSE IF i = k + 1 THEN p ELSE queue[i - 1]
  BY InsertType DEF IInv, Types, PoolTypes, Insert
<1>3. /\ \A q \in Procs : arrived[q] \in Nat /\ Prio[q] \in Nat
      /\ \A q \in Procs : arrived'[q] = IF q = p THEN counter ELSE arrived[q]
  BY ConstantsAssumption DEF IInv, Types, ProcessTypes
<1>4. \A i \in 1..n : queue[i] # p /\ arrived[queue[i]] < counter
  BY <1>1 DEF InQueue, IInv, Sorted
<1>5. ASSUME NEW i \in 1..n, NEW j \in 1..n, i < j
      PROVE  \/ Prio[queue[i]] > Prio[queue[j]]
             \/ Prio[queue[i]] = Prio[queue[j]] /\ arrived[queue[i]] < arrived[queue[j]]
  BY <1>1, <1>5 DEF IInv, Sorted, Contract!Before
<1>6. /\ \A i \in 1..k : Prio[queue[i]] >= Prio[p]
      /\ \A i \in (k + 1)..n : Prio[queue[i]] < Prio[p]
  BY DEF Behind
<1> HIDE DEF n
<1>7. ASSUME NEW i \in 1..(n + 1) PROVE arrived'[queue'[i]] < counter'
  BY SMTT(60), <1>1, <1>2, <1>3, <1>4
<1>8. ASSUME NEW i \in 1..(n + 1), NEW j \in 1..(n + 1), i < j
      PROVE  Contract!Before(queue[i], queue[j])'
  <2>1. CASE j <= k
    BY <1>1, <1>2, <1>3, <1>4, <1>5, <1>8, <2>1 DEF n, Contract!Before
  <2>2. CASE j = k + 1
    BY <1>1, <1>2, <1>3, <1>4, <1>6, <1>8, <2>2 DEF n, Contract!Before
  <2>3. CASE j > k + 1 /\ i <= k
    BY <1>1, <1>2, <1>3, <1>4, <1>5, <1>8, <2>3 DEF n, Contract!Before
  <2>4. CASE j > k + 1 /\ i = k + 1
    BY <1>1, <1>2, <1>3, <1>4, <1>6, <1>8, <2>4 DEF n, Contract!Before
  <2>5. CASE i > k + 1
    BY <1>1, <1>2, <1>3, <1>4, <1>5, <1>8, <2>5 DEF n, Contract!Before
  <2> QED
    BY <1>1, <2>1, <2>2, <2>3, <2>4, <2>5
<1> QED
  BY <1>2, <1>7, <1>8 DEF Sorted

\* The map is in order.
LEMMA SortedStep == IInv /\ [Next]_vars => Sorted'
<1> SUFFICES ASSUME IInv, [Next]_vars PROVE Sorted'
  OBVIOUS
<1> USE DEF IInv, Sorted, Contract!Before, poolVars, countVars, procVars, clientVars,
    historyVars, Up, Goto, Sched, Waiter
<1>1. ASSUME NEW c \in Clients, NEW p \in Procs, AddProcess(c, p) PROVE Sorted'
  BY <1>1, InsertSorted DEF AddProcess
<1>2. ASSUME NEW c \in Clients, ClearMap(c) PROVE Sorted'
  BY <1>2 DEF ClearMap, Sorted
<1>3. ASSUME NEW c \in Clients, ResetCounts(c) PROVE Sorted'
  BY <1>3 DEF ResetCounts, Sorted, Sized, Holding, IInv
<1>4. CASE UNCHANGED <<queue, arrived, counter>>
  BY <1>4
<1> HIDE DEF Sorted
<1> QED
  BY <1>1, <1>2, <1>3, <1>4
  DEF vars, Next, Over, SchedulerStep, WaiterStep, CallStep, WalkStep, BeginCall,
      EvaluatePredicate, FallAsleep, SpuriousWakeup, CheckState, LaunchProcess,
      NothingToLaunch, CountLaunch, LoopAgain, ChildEnds, WaiterChecks, WaiterSets,
      FinishUncounts, FinishTallies, FinishNotifies, Notifying, FinishNotifiesWait,
      NotifyWait, Asleep, SetLimit, Notify, Wait, WaitLock, WaitWalk, WaitCheck, WaitSleep,
      WaitWakeup, Stop, Begin, StopAll, Clear, Destroy, Lock, WalkRunning, WalkPast,
      Recheck, StopSets, StopUncounts, StopTallies, StopNotifies, StopNotifiesWait,
      StopKills, StopJoins, StopEnds, StopAllEnds, DestroyMap, MembersGone

\* Nobody sees the counter of processes while it is wrong.
LEMMA SizedStep == IInv /\ [Next]_vars => Sized'
<1> SUFFICES ASSUME IInv, [Next]_vars PROVE Sized'
  OBVIOUS
<1> USE ConstantsAssumption DEF IInv, Types, ClientTypes, Sized, Holding, Free, WalkPlaces,
    StopPlaces, poolVars, countVars, procVars, clientVars, historyVars, Up, Goto, Sched,
    Waiter
<1>1. ASSUME NEW p \in Procs, LaunchProcess(p) PROVE Sized'
  BY <1>1 DEF LaunchProcess
<1>2. ASSUME CountLaunch PROVE Sized'
  BY <1>2 DEF CountLaunch
<1>3. ASSUME NEW p \in Procs, FinishNotifiesWait(p) PROVE Sized'
  BY <1>3 DEF FinishNotifiesWait, Notifying, NotifyWait, Asleep
<1>4. ASSUME NEW c \in Clients, NEW p \in Procs, AddProcess(c, p) PROVE Sized'
  BY <1>4, InsertType DEF AddProcess, PoolTypes
<1>5. ASSUME NEW c \in Clients, NEW n \in Limits, SetLimit(c, n) PROVE Sized'
  BY <1>5 DEF SetLimit
<1>6. ASSUME NEW c \in Clients, Notify(c) PROVE Sized'
  BY <1>6 DEF Notify
<1>7. ASSUME NEW c \in Clients, Wait(c) PROVE Sized'
  BY <1>7 DEF Wait
<1>8. ASSUME NEW c \in Clients, WaitLock(c) PROVE Sized'
  BY <1>8 DEF WaitLock
<1>9. ASSUME NEW c \in Clients, WaitWalk(c) PROVE Sized'
  BY <1>9 DEF WaitWalk
<1>10. ASSUME NEW c \in Clients, WaitCheck(c) PROVE Sized'
  BY <1>10 DEF WaitCheck
<1>11. ASSUME NEW c \in Clients, WaitSleep(c) PROVE Sized'
  BY <1>11 DEF WaitSleep
<1>12. ASSUME NEW c \in Clients, WaitWakeup(c) PROVE Sized'
  BY <1>12 DEF WaitWakeup
<1>13. ASSUME NEW c \in Clients, Stop(c) PROVE Sized'
  BY <1>13 DEF Stop, Begin
<1>14. ASSUME NEW c \in Clients, StopAll(c) PROVE Sized'
  BY <1>14 DEF StopAll, Begin
<1>15. ASSUME NEW c \in Clients, Clear(c) PROVE Sized'
  BY <1>15 DEF Clear, Begin
<1>16. ASSUME NEW c \in Clients, Destroy(c) PROVE Sized'
  BY <1>16 DEF Destroy, Begin
<1>17. ASSUME NEW c \in Clients, Lock(c) PROVE Sized'
  BY <1>17 DEF Lock
<1>18. ASSUME NEW c \in Clients, WalkRunning(c) PROVE Sized'
  BY <1>18 DEF WalkRunning
<1>19. ASSUME NEW c \in Clients, WalkPast(c) PROVE Sized'
  BY <1>19 DEF WalkPast
<1>20. ASSUME NEW c \in Clients, Recheck(c) PROVE Sized'
  BY <1>20 DEF Recheck
<1>21. ASSUME NEW c \in Clients, StopSets(c) PROVE Sized'
  BY <1>21 DEF StopSets
<1>22. ASSUME NEW c \in Clients, StopUncounts(c) PROVE Sized'
  BY <1>22 DEF StopUncounts
<1>23. ASSUME NEW c \in Clients, StopTallies(c) PROVE Sized'
  BY <1>23 DEF StopTallies
<1>24. ASSUME NEW c \in Clients, StopNotifies(c) PROVE Sized'
  BY <1>24 DEF StopNotifies, Notifying
<1>25. ASSUME NEW c \in Clients, StopNotifiesWait(c) PROVE Sized'
  <2>1. \A d \in Clients : pc'[d] = "reset" <=> pc[d] = "reset"
    <3>1. /\ pc[c] = "notify_wait"
          /\ \/ pc' = [pc EXCEPT ![c] = "kill"]
             \/ \E e \in Clients :
                  pc[e] = "w_asleep" /\ pc' = [[pc EXCEPT ![c] = "kill"] EXCEPT ![e] = "w_lock"]
      BY <1>25 DEF StopNotifiesWait, NotifyWait, Asleep
    <3>2. CASE pc' = [pc EXCEPT ![c] = "kill"]
      BY <3>1, <3>2
    <3>3. ASSUME NEW e \in Clients, pc[e] = "w_asleep",
                 pc' = [[pc EXCEPT ![c] = "kill"] EXCEPT ![e] = "w_lock"]
          PROVE  \A d \in Clients : pc'[d] = "reset" <=> pc[d] = "reset"
      <4>1. e # c /\ pc \in [Clients -> ClientPlaces]
        BY <3>1, <3>3
      <4> QED
        BY <3>1, <3>3, <4>1
    <3> QED
      BY <3>1, <3>2, <3>3
  <2>2. UNCHANGED <<queue, counter, mutex>>
    BY <1>25 DEF StopNotifiesWait
  <2> QED
    BY <2>1, <2>2
<1>70. ASSUME NEW c \in Clients, StopJoins(c) PROVE Sized'
  BY <1>70 DEF StopJoins
<1>26. ASSUME NEW c \in Clients, StopKills(c) PROVE Sized'
  BY <1>26 DEF StopKills
<1>27. ASSUME NEW c \in Clients, StopEnds(c) PROVE Sized'
  BY <1>27 DEF StopEnds
<1>28. ASSUME NEW c \in Clients, StopAllEnds(c) PROVE Sized'
  BY <1>28 DEF StopAllEnds
<1>29. ASSUME NEW c \in Clients, DestroyMap(c) PROVE Sized'
  BY <1>29 DEF DestroyMap
<1>30. ASSUME NEW c \in Clients, ClearMap(c) PROVE Sized'
  BY <1>30 DEF ClearMap, MapChanges
<1>31. ASSUME NEW c \in Clients, ResetCounts(c) PROVE Sized'
  BY <1>31 DEF ResetCounts
<1>32. ASSUME NEW c \in Clients, MembersGone(c) PROVE Sized'
  BY <1>32 DEF MembersGone
<1>33. CASE UNCHANGED <<queue, counter, mutex, pc>>
  BY <1>33
<1> HIDE DEF Sized
<1> QED
  BY <1>70, <1>1, <1>2, <1>3, <1>4, <1>5, <1>6, <1>7, <1>8, <1>9, <1>10, <1>11, <1>12, <1>13,
      <1>14, <1>15, <1>16, <1>17, <1>18, <1>19, <1>20, <1>21, <1>22, <1>23, <1>24, <1>25,
      <1>26, <1>27, <1>28, <1>29, <1>30, <1>31, <1>32, <1>33
  DEF vars, Next, Over, SchedulerStep, WaiterStep, CallStep, WalkStep, BeginCall,
      EvaluatePredicate, FallAsleep, SpuriousWakeup, CheckState, NothingToLaunch, LoopAgain,
      ChildEnds, WaiterChecks, WaiterSets, FinishUncounts, FinishTallies, FinishNotifies,
      Notifying

\* Who walks through the processes while _mutex is free destroys the pool.
LEMMA NobodyWalks ==
  ASSUME Holding, mutex = Free, NEW d \in Clients, pc[d] \in WalkPlaces
  PROVE  op[d] = "members"
  BY ConstantsAssumption DEF Holding

\* What has still to be walked through, but for the process just passed.
LEMMA TodoTail ==
  ASSUME NEW s \in Seq(Procs), s # <<>>, NEW i \in DOMAIN s, s[i] # Head(s)
  PROVE  \E j \in DOMAIN Tail(s) : Tail(s)[j] = s[i]
<1>1. i - 1 \in DOMAIN Tail(s) /\ Tail(s)[i - 1] = s[i]
  OBVIOUS
<1> QED
  BY <1>1

\* clear() leaves nothing running behind.
LEMMA ClearedStep == IInv /\ [Next]_vars => Cleared'
<1> SUFFICES ASSUME IInv, [Next]_vars PROVE Cleared'
  OBVIOUS
<1> USE ConstantsAssumption DEF IInv, Types, ClientTypes, Cleared, Todo, Holding, Free,
    StopPlaces, WalkPlaces, poolVars, countVars, procVars, clientVars, historyVars, Up,
    Goto, Sched, Waiter
<1>1. ASSUME NEW p \in Procs, LaunchProcess(p) PROVE Cleared'
  <2>1. \A d \in Clients : pc[d] \in WalkPlaces => op[d] \notin {"clear", "clear_map"}
    BY <1>1, NobodyWalks DEF LaunchProcess
  <2> QED
    BY <1>1, <2>1 DEF LaunchProcess
<1>2. ASSUME NEW p \in Procs, ChildEnds(p) PROVE Cleared'
  BY <1>2 DEF ChildEnds
<1>3. ASSUME NEW p \in Procs, WaiterChecks(p) PROVE Cleared'
  BY <1>3 DEF WaiterChecks
<1>4. ASSUME NEW p \in Procs, WaiterSets(p) PROVE Cleared'
  BY <1>4 DEF WaiterSets
<1>5. ASSUME NEW p \in Procs, FinishUncounts(p) PROVE Cleared'
  BY <1>5 DEF FinishUncounts
<1>6. ASSUME NEW p \in Procs, FinishTallies(p) PROVE Cleared'
  BY <1>6 DEF FinishTallies
<1>7. ASSUME NEW p \in Procs, FinishNotifies(p) PROVE Cleared'
  BY <1>7 DEF FinishNotifies, Notifying
<1>8. ASSUME NEW p \in Procs, FinishNotifiesWait(p) PROVE Cleared'
  BY <1>8 DEF FinishNotifiesWait, Notifying, NotifyWait, Asleep
<1>9. ASSUME NEW c \in Clients, NEW p \in Procs, AddProcess(c, p) PROVE Cleared'
  <2>1. \A d \in Clients : pc[d] \in WalkPlaces => op[d] = "members"
    BY <1>9, NobodyWalks DEF AddProcess
  <2>2. op' = op /\ \A d \in Clients : pc'[d] \in WalkPlaces => pc[d] \in WalkPlaces
    BY <1>9 DEF AddProcess
  <2> QED
    BY <2>1, <2>2
<1>10. ASSUME NEW c \in Clients, NEW n \in Limits, SetLimit(c, n) PROVE Cleared'
  BY <1>10 DEF SetLimit
<1>11. ASSUME NEW c \in Clients, Notify(c) PROVE Cleared'
  BY <1>11 DEF Notify
<1>12. ASSUME NEW c \in Clients, Wait(c) PROVE Cleared'
  BY <1>12 DEF Wait
<1>13. ASSUME NEW c \in Clients, WaitLock(c) PROVE Cleared'
  BY <1>13 DEF WaitLock
<1>14. ASSUME NEW c \in Clients, WaitWalk(c) PROVE Cleared'
  BY <1>14 DEF WaitWalk
<1>15. ASSUME NEW c \in Clients, WaitCheck(c) PROVE Cleared'
  BY <1>15 DEF WaitCheck
<1>16. ASSUME NEW c \in Clients, WaitSleep(c) PROVE Cleared'
  BY <1>16 DEF WaitSleep
<1>17. ASSUME NEW c \in Clients, WaitWakeup(c) PROVE Cleared'
  BY <1>17 DEF WaitWakeup
<1>18. ASSUME NEW c \in Clients, Stop(c) PROVE Cleared'
  BY <1>18 DEF Stop, Begin
<1>19. ASSUME NEW c \in Clients, StopAll(c) PROVE Cleared'
  BY <1>19 DEF StopAll, Begin
<1>20. ASSUME NEW c \in Clients, Clear(c) PROVE Cleared'
  BY <1>20 DEF Clear, Begin
<1>21. ASSUME NEW c \in Clients, Destroy(c) PROVE Cleared'
  BY <1>21 DEF Destroy, Begin
<1>22. ASSUME NEW c \in Clients, Lock(c) PROVE Cleared'
  BY <1>22 DEF Lock
<1>23. ASSUME NEW c \in Clients, WalkRunning(c) PROVE Cleared'
  BY <1>23 DEF WalkRunning
<1>24. ASSUME NEW c \in Clients, WalkPast(c) PROVE Cleared'
  <2>1. ASSUME NEW d \in Clients, NEW i \in DOMAIN queue, Todo(d, queue[i])
        PROVE  Todo(d, queue[i])' \/ (d = c /\ queue[i] = Current(c))
    <3>1. queue' = queue /\ queue[i] \in Procs
      BY <1>24 DEF WalkPast, PoolTypes
    <3>2. CASE d = c /\ queue[i] # Current(c)
      <4>1. PICK j \in DOMAIN todo[c] : todo[c][j] = queue[i]
        BY <2>1, <3>2
      <4>2. todo[c] # <<>> /\ todo[c] \in Seq(Procs) /\ todo'[c] = Tail(todo[c])
        BY <1>24 DEF WalkPast
      <4>3. \E k \in DOMAIN todo'[c] : todo'[c][k] = queue[i]
        <5>1. todo[c][j] # Head(todo[c])
          BY <3>2, <4>1 DEF Current
        <5>2. \E k \in DOMAIN Tail(todo[c]) : Tail(todo[c])[k] = todo[c][j]
          <6> HIDE DEF IInv, Types, ClientTypes, Cleared, Todo, Holding
          <6> QED
            BY <4>1, <4>2, <5>1, TodoTail
        <5> QED
          BY <4>1, <4>2, <5>2
      <4> QED
        BY <3>1, <3>2, <4>3
    <3>3. CASE d # c
      BY <1>24, <2>1, <3>1, <3>3 DEF WalkPast
    <3> QED
      BY <3>2, <3>3
  <2>2. /\ op' = op /\ pc' = pc /\ queue' = queue /\ pstate' = pstate /\ waiter' = waiter
        /\ pstate[Current(c)] # "running"
        /\ op[c] = "clear_map" => waiter[Current(c)] \in {"none", "done"}
    BY <1>24 DEF WalkPast, Destroying
  <2> HIDE DEF Todo
  <2> QED
    BY <2>1, <2>2
<1>25. ASSUME NEW c \in Clients, Recheck(c) PROVE Cleared'
  BY <1>25 DEF Recheck
<1>26. ASSUME NEW c \in Clients, StopSets(c) PROVE Cleared'
  BY <1>26 DEF StopSets
<1>27. ASSUME NEW c \in Clients, StopUncounts(c) PROVE Cleared'
  BY <1>27 DEF StopUncounts
<1>28. ASSUME NEW c \in Clients, StopTallies(c) PROVE Cleared'
  BY <1>28 DEF StopTallies
<1>29. ASSUME NEW c \in Clients, StopNotifies(c) PROVE Cleared'
  BY <1>29 DEF StopNotifies, Notifying
<1>30. ASSUME NEW c \in Clients, StopNotifiesWait(c) PROVE Cleared'
  <2>1. \A d \in Clients : pc'[d] \in WalkPlaces => pc[d] \in WalkPlaces
    BY <1>30 DEF StopNotifiesWait, NotifyWait, Asleep
  <2>2. \A d \in Clients : pc'[d] \in WalkPlaces /\ pc'[d] # "walk" => pc[d] # "walk"
    BY <1>30 DEF StopNotifiesWait, NotifyWait, Asleep
  <2> QED
    BY <1>30, <2>1, <2>2 DEF StopNotifiesWait
<1>70. ASSUME NEW c \in Clients, StopJoins(c) PROVE Cleared'
  BY <1>70 DEF StopJoins
<1>31. ASSUME NEW c \in Clients, StopKills(c) PROVE Cleared'
  BY <1>31 DEF StopKills
<1>32. ASSUME NEW c \in Clients, StopEnds(c) PROVE Cleared'
  BY <1>32 DEF StopEnds
<1>33. ASSUME NEW c \in Clients, StopAllEnds(c) PROVE Cleared'
  BY <1>33 DEF StopAllEnds
<1>34. ASSUME NEW c \in Clients, DestroyMap(c) PROVE Cleared'
  BY <1>34 DEF DestroyMap
<1>35. ASSUME NEW c \in Clients, ClearMap(c) PROVE Cleared'
  BY <1>35 DEF ClearMap, MapChanges
<1>36. ASSUME NEW c \in Clients, ResetCounts(c) PROVE Cleared'
  BY <1>36 DEF ResetCounts
<1>37. ASSUME NEW c \in Clients, MembersGone(c) PROVE Cleared'
  BY <1>37 DEF MembersGone
<1>38. CASE UNCHANGED <<procVars, queue, pc, op, todo>>
  BY <1>38
<1> HIDE DEF Cleared
<1> QED
  BY <1>70, <1>1, <1>2, <1>3, <1>4, <1>5, <1>6, <1>7, <1>8, <1>9, <1>10, <1>11, <1>12, <1>13,
      <1>14, <1>15, <1>16, <1>17, <1>18, <1>19, <1>20, <1>21, <1>22, <1>23, <1>24, <1>25,
      <1>26, <1>27, <1>28, <1>29, <1>30, <1>31, <1>32, <1>33, <1>34, <1>35, <1>36, <1>37,
      <1>38
  DEF vars, Next, Over, SchedulerStep, WaiterStep, CallStep, WalkStep, BeginCall,
      EvaluatePredicate, FallAsleep, SpuriousWakeup, CheckState, NothingToLaunch,
      CountLaunch, LoopAgain

\* The invariant is inductive.
LEMMA InvariantStep == IInv /\ [Next]_vars => IInv'
  BY PoolTypesStep, ProcessTypesStep, ClientTypesStep, HoldingStep, LivesStep, SortedStep,
     SizedStep, ClearedStep, OneLateStep
  DEF IInv, Types

(***************************************************************************)
(* In every state of the pool each thread holds _mutex where the code says *)
(* it does, the map is in order, and what clear() has passed is over.      *)
(***************************************************************************)
THEOREM Invariance == Spec => []IInv
  BY InvariantInit, InvariantStep, PTL DEF Spec

-----------------------------------------------------------------------------
(***************************************************************************)
(* The pool's variables keep their types; the two 16-bit counters wrap     *)
(* around instead of leaving their range, and size() is the size of the    *)
(* map whenever _mutex is free.                                            *)
(***************************************************************************)
THEOREM TypeCorrect == Spec => []TypeOK
<1>1. IInv => TypeOK
  BY ConstantsAssumption
  DEF IInv, Types, PoolTypes, ProcessTypes, ClientTypes, TypeOK, Sized
<1> QED
  BY Invariance, <1>1, PTL

(***************************************************************************)
(* However stop() and the scheduler race, one process at most is launched  *)
(* after the pool was stopped.                                             *)
(***************************************************************************)
THEOREM StopIsAlmostPrompt == Spec => []AtMostOneLate
<1>1. IInv => AtMostOneLate
  <2> SUFFICES ASSUME IInv PROVE Cardinality(late) <= 1
    BY DEF AtMostOneLate
  <2>1. CASE late = {}
    BY <2>1, FS_EmptySet
  <2>2. CASE late # {}
    <3>1. PICK p \in Procs : late = {p}
      BY <2>2 DEF IInv, OneLate
    <3>2. Cardinality({p}) = 1
      BY FS_Singleton
    <3> QED
      BY <3>1, <3>2
  <2> QED
    BY <2>1, <2>2
<1> QED
  BY Invariance, <1>1, PTL

(***************************************************************************)
(* When clear() destroys the map no process of it runs, so the destructor  *)
(* of none has to stop it.                                                 *)
(***************************************************************************)
THEOREM ClearIsQuiet == Spec => []ClearFindsNoneRunning
<1>1. IInv => ClearFindsNoneRunning
  <2> SUFFICES ASSUME IInv, NEW c \in Clients, op[c] = "clear_map",
                      pc[c] \in {"walk", "recheck"}, NEW i \in DOMAIN queue
               PROVE  pstate[queue[i]] # "running"
    BY DEF ClearFindsNoneRunning, Launched, InQueue
  <2> QED
    BY DEF IInv, Cleared, WalkPlaces, StopPlaces
<1> QED
  BY Invariance, <1>1, PTL

-----------------------------------------------------------------------------
(***************************************************************************)
(* Each step of the pool is a step of its contract or none: the processes  *)
(* are launched once each, in the order of the contract.                   *)
(***************************************************************************)
LEMMA ContractInit == Init => Contract!Init
  BY DEF Init, Contract!Init, InQueue

\* The one launched is the first in the map of those not launched.
LEMMA LaunchInOrder ==
  ASSUME IInv, NEW p \in Procs, LaunchProcess(p)
  PROVE  Contract!Launch(p)
<1>1. PICK i \in DOMAIN queue :
        /\ queue[i] = p /\ pstate[p] = "not_launched"
        /\ \A j \in 1..(i - 1) : pstate[queue[j]] # "not_launched"
  BY DEF LaunchProcess, GetProcess
<1>2. ASSUME NEW q \in Contract!Waiting, q # p PROVE Contract!Before(p, q)
  <2>1. PICK j \in DOMAIN queue : queue[j] = q /\ pstate[q] = "not_launched"
    BY <1>2 DEF Contract!Waiting, InQueue, IInv, Types, ProcessTypes
  <2>2. i < j
    BY <1>1, <1>2, <2>1 DEF IInv, Types, PoolTypes
  <2> QED
    BY <1>1, <2>1, <2>2 DEF IInv, Sorted
<1>3. p \in Contract!Waiting
  BY <1>1 DEF Contract!Waiting, InQueue
<1>4. /\ {q \in Procs : pstate'[q] # "not_launched"} = {q \in Procs : pstate[q] # "not_launched"} \cup {p}
      /\ queue' = queue /\ arrived' = arrived /\ alive' = alive \cup {p}
  BY DEF LaunchProcess, IInv, Types, ProcessTypes, poolVars, historyVars
<1> QED
  BY <1>2, <1>3, <1>4 DEF Contract!Launch, InQueue

\* A process added is not in the map yet, and arrives after those that are.
LEMMA AddInContract ==
  ASSUME IInv, NEW c \in Clients, NEW p \in Procs, AddProcess(c, p)
  PROVE  Contract!Add(p)
<1>1. PICK k \in 0..Len(queue) : queue' = Insert(p, k)
  BY DEF AddProcess
<1>2. {q \in Procs : InQueue(q)}' = {q \in Procs : InQueue(q)} \cup {p}
  <2>1. ASSUME NEW q \in Procs, InQueue(q) PROVE InQueue(q)'
    <3>1. PICK i \in DOMAIN queue : queue[i] = q
      BY <2>1 DEF InQueue
    <3>2. CASE i <= k
      BY <1>1, <3>1, <3>2 DEF Insert, InQueue, IInv, Types, PoolTypes
    <3>3. CASE i > k
      <4>1. i + 1 \in DOMAIN queue' /\ queue'[i + 1] = q
        BY <1>1, <3>1, <3>3 DEF Insert, IInv, Types, PoolTypes
      <4> QED
        BY <4>1 DEF InQueue
    <3> QED
      BY <3>1, <3>2, <3>3 DEF IInv, Types, PoolTypes
  <2>2. InQueue(p)'
    <3>1. k + 1 \in DOMAIN queue' /\ queue'[k + 1] = p
      BY <1>1 DEF Insert, IInv, Types, PoolTypes
    <3> QED
      BY <3>1 DEF InQueue
  <2>3. ASSUME NEW q \in Procs, InQueue(q)', q # p PROVE InQueue(q)
    BY <1>1, <2>3 DEF InQueue, Insert, IInv, Types, PoolTypes
  <2> QED
    BY <2>1, <2>2, <2>3
<1>3. ASSUME NEW q \in Procs, InQueue(q) PROVE arrived[q] < arrived'[p]
  BY <1>3 DEF AddProcess, InQueue, IInv, Sorted, Types, ProcessTypes
<1>4. /\ arrived' \in [Procs -> Nat]
      /\ \A q \in Procs \ {p} : arrived'[q] = arrived[q]
  BY DEF AddProcess, IInv, Types, PoolTypes, ProcessTypes
<1>5. ~InQueue(p) /\ pstate[p] = "not_launched" /\ pstate' = pstate /\ alive' = alive
  BY DEF AddProcess, procVars
<1> QED
  BY <1>2, <1>3, <1>4, <1>5 DEF Contract!Add

\* The map is emptied when no child of it runs.
LEMMA ClearInContract ==
  ASSUME IInv, NEW c \in Clients, ClearMap(c)
  PROVE  Contract!Clear
<1>1. ASSUME NEW i \in DOMAIN queue PROVE queue[i] \notin alive
  BY DEF ClearMap, Goto, IInv, Cleared, Todo, Lives, WalkPlaces, Types, PoolTypes
<1>2. {p \in Procs : InQueue(p)}' = {}
  BY DEF ClearMap, InQueue
<1>3. UNCHANGED <<arrived, pstate, alive>>
  BY DEF ClearMap, procVars, historyVars
<1> QED
  BY <1>1, <1>2, <1>3 DEF Contract!Clear, InQueue

\* Each action, with what it does in the contract.
LEMMA ContractStep == IInv /\ [Next]_vars => [Contract!Next]_(Contract!vars)
<1> SUFFICES ASSUME IInv, [Next]_vars PROVE [Contract!Next]_(Contract!vars)
  OBVIOUS
<1> USE DEF Contract!vars, Contract!Next, InQueue, poolVars, countVars, procVars,
    clientVars, historyVars, Up, Goto, Sched, Waiter
<1>1. ASSUME NEW p \in Procs, LaunchProcess(p) PROVE [Contract!Next]_(Contract!vars)
  BY <1>1, LaunchInOrder
<1>2. ASSUME NEW p \in Procs, ChildEnds(p) PROVE [Contract!Next]_(Contract!vars)
  BY <1>2 DEF ChildEnds, Contract!End
<1>3. ASSUME NEW p \in Procs, WaiterSets(p) PROVE [Contract!Next]_(Contract!vars)
  <2>1. \A q \in Procs : pstate'[q] # "not_launched" <=> pstate[q] # "not_launched"
    BY <1>3 DEF WaiterSets, IInv, Lives, Types, ProcessTypes
  <2> QED
    BY <1>3, <2>1 DEF WaiterSets
<1>4. ASSUME NEW c \in Clients, NEW p \in Procs, AddProcess(c, p) PROVE [Contract!Next]_(Contract!vars)
  BY <1>4, AddInContract
<1>5. ASSUME NEW c \in Clients, StopSets(c) PROVE [Contract!Next]_(Contract!vars)
  <2>1. \A q \in Procs : pstate'[q] # "not_launched" <=> pstate[q] # "not_launched"
    BY <1>5 DEF StopSets, IInv, Holding, StopPlaces, Types, ProcessTypes
  <2> QED
    BY <1>5, <2>1 DEF StopSets
<1>70. ASSUME NEW c \in Clients, StopJoins(c) PROVE [Contract!Next]_(Contract!vars)
  BY <1>70 DEF StopJoins
<1>6. ASSUME NEW c \in Clients, StopKills(c) PROVE [Contract!Next]_(Contract!vars)
  <2>1. CASE Current(c) \in alive
    BY <1>6, <2>1 DEF StopKills, Contract!End, IInv, Types, ProcessTypes
  <2>2. CASE Current(c) \notin alive
    BY <1>6, <2>2 DEF StopKills
  <2> QED
    BY <2>1, <2>2
<1>7. ASSUME NEW c \in Clients, ClearMap(c) PROVE [Contract!Next]_(Contract!vars)
  BY <1>7, ClearInContract
<1>8. CASE UNCHANGED <<queue, arrived, alive, pstate>>
  BY <1>8
<1> QED
  BY <1>70, <1>1, <1>2, <1>3, <1>4, <1>5, <1>6, <1>7, <1>8
  DEF vars, Next, Over, SchedulerStep, WaiterStep, CallStep, WalkStep, BeginCall,
      EvaluatePredicate, FallAsleep, SpuriousWakeup, CheckState, NothingToLaunch,
      CountLaunch, LoopAgain, WaiterChecks, FinishUncounts, FinishTallies, FinishNotifies,
      Notifying, FinishNotifiesWait, NotifyWait, Asleep, SetLimit, Notify, Wait, WaitLock,
      WaitWalk, WaitCheck, WaitSleep, WaitWakeup, Stop, Begin, StopAll, Clear, Destroy,
      Lock, WalkRunning, WalkPast, Recheck, StopUncounts, StopTallies, StopNotifies,
      StopNotifiesWait, StopEnds, StopAllEnds, DestroyMap, ResetCounts, MembersGone

(***************************************************************************)
(* The pool keeps its contract, whatever is added, stopped, cleared or     *)
(* changed meanwhile: each process is launched once at most, by priority   *)
(* and age, and clear() forgets no process whose child runs.               *)
(***************************************************************************)
THEOREM KeepsContract == Spec => ImplementsContract
  BY Invariance, ContractInit, ContractStep, PTL DEF Spec, ImplementsContract

-----------------------------------------------------------------------------
\* A process that was not launched is an abstract one that was not.
LEMMA LifecycleInit == ASSUME Init, NEW q \in Procs PROVE Lifecycle(q)!Init
  BY DEF Init, Lifecycle!Init, WaiterAt, StopperAt

\* Each action, with what it does in the life of one process.
LEMMA LifecycleStep ==
  ASSUME IInv, [Next]_vars, NEW q \in Procs
  PROVE  [Lifecycle(q)!Next]_(Lifecycle(q)!vars)
<1> USE DEF Lifecycle!vars, WaiterAt, StopperAt, Current, IInv, Types, ProcessTypes,
    ClientTypes, poolVars, countVars, procVars, clientVars, historyVars, Up, Goto, Sched,
    Waiter
<1>1. ASSUME EvaluatePredicate PROVE [Lifecycle(q)!Next]_(Lifecycle(q)!vars)
  BY <1>1 DEF EvaluatePredicate
<1>2. ASSUME FallAsleep PROVE [Lifecycle(q)!Next]_(Lifecycle(q)!vars)
  BY <1>2 DEF FallAsleep
<1>3. ASSUME SpuriousWakeup PROVE [Lifecycle(q)!Next]_(Lifecycle(q)!vars)
  BY <1>3 DEF SpuriousWakeup
<1>4. ASSUME CheckState PROVE [Lifecycle(q)!Next]_(Lifecycle(q)!vars)
  BY <1>4 DEF CheckState
<1>5. ASSUME NEW p \in Procs, LaunchProcess(p) PROVE [Lifecycle(q)!Next]_(Lifecycle(q)!vars)
  <2>1. CASE p = q
    <3>1. (q \in alive)' \in BOOLEAN
      OBVIOUS
    <3>2. pstate[q] = "not_launched" /\ pstate'[q] = "running"
      BY <1>5, <2>1 DEF LaunchProcess, GetProcess
    <3>3. Lifecycle(q)!Launch
      BY <1>5, <2>1, <3>1, <3>2 DEF LaunchProcess, Lifecycle!Launch
    <3> QED
      BY <3>3 DEF Lifecycle!Next
  <2>2. CASE ~(p = q)
    BY <1>5, <2>2 DEF LaunchProcess
  <2> QED
    BY <2>1, <2>2
<1>6. ASSUME NothingToLaunch PROVE [Lifecycle(q)!Next]_(Lifecycle(q)!vars)
  BY <1>6 DEF NothingToLaunch
<1>7. ASSUME CountLaunch PROVE [Lifecycle(q)!Next]_(Lifecycle(q)!vars)
  BY <1>7 DEF CountLaunch
<1>8. ASSUME LoopAgain PROVE [Lifecycle(q)!Next]_(Lifecycle(q)!vars)
  BY <1>8 DEF LoopAgain
<1>9. ASSUME NEW p \in Procs, ChildEnds(p) PROVE [Lifecycle(q)!Next]_(Lifecycle(q)!vars)
  <2>1. CASE p = q
    <3>1. Lifecycle(q)!Die
      BY <1>9, <2>1 DEF ChildEnds, Lifecycle!Die, Lives
    <3> QED
      BY <3>1 DEF Lifecycle!Next
  <2>2. CASE ~(p = q)
    BY <1>9, <2>2 DEF ChildEnds
  <2> QED
    BY <2>1, <2>2
<1>10. ASSUME NEW p \in Procs, WaiterChecks(p) PROVE [Lifecycle(q)!Next]_(Lifecycle(q)!vars)
  <2>1. CASE p = q
    <3>1. Lifecycle(q)!Decide
      BY <1>10, <2>1 DEF WaiterChecks, Lifecycle!Decide
    <3> QED
      BY <3>1 DEF Lifecycle!Next
  <2>2. CASE ~(p = q)
    BY <1>10, <2>2 DEF WaiterChecks
  <2> QED
    BY <2>1, <2>2
<1>11. ASSUME NEW p \in Procs, WaiterSets(p) PROVE [Lifecycle(q)!Next]_(Lifecycle(q)!vars)
  <2>1. CASE p = q
    <3>1. Lifecycle(q)!Record
      BY <1>11, <2>1 DEF WaiterSets, Lifecycle!Record
    <3> QED
      BY <3>1 DEF Lifecycle!Next
  <2>2. CASE ~(p = q)
    BY <1>11, <2>2 DEF WaiterSets
  <2> QED
    BY <2>1, <2>2
<1>12. ASSUME NEW p \in Procs, FinishUncounts(p) PROVE [Lifecycle(q)!Next]_(Lifecycle(q)!vars)
  <2>1. CASE p = q
    <3>1. q \notin finished /\ q \in finished'
      BY <1>12, <2>1 DEF FinishUncounts, Lives
    <3>2. Lifecycle(q)!Report
      BY <1>12, <2>1, <3>1 DEF FinishUncounts, Lifecycle!Report
    <3> QED
      BY <3>2 DEF Lifecycle!Next
  <2>2. CASE ~(p = q)
    BY <1>12, <2>2 DEF FinishUncounts
  <2> QED
    BY <2>1, <2>2
<1>13. ASSUME NEW p \in Procs, FinishTallies(p) PROVE [Lifecycle(q)!Next]_(Lifecycle(q)!vars)
  BY <1>13 DEF FinishTallies
<1>14. ASSUME NEW p \in Procs, FinishNotifies(p) PROVE [Lifecycle(q)!Next]_(Lifecycle(q)!vars)
  BY <1>14 DEF FinishNotifies, Notifying
<1>15. ASSUME NEW p \in Procs, FinishNotifiesWait(p) PROVE [Lifecycle(q)!Next]_(Lifecycle(q)!vars)
  BY <1>15 DEF FinishNotifiesWait, Notifying, NotifyWait, Asleep
<1>16. ASSUME NEW c \in Clients, NEW p \in Procs, AddProcess(c, p) PROVE [Lifecycle(q)!Next]_(Lifecycle(q)!vars)
  BY <1>16 DEF AddProcess, MapChanges
<1>17. ASSUME NEW c \in Clients, NEW n \in Limits, SetLimit(c, n) PROVE [Lifecycle(q)!Next]_(Lifecycle(q)!vars)
  BY <1>17 DEF SetLimit
<1>18. ASSUME NEW c \in Clients, Notify(c) PROVE [Lifecycle(q)!Next]_(Lifecycle(q)!vars)
  BY <1>18 DEF Notify
<1>19. ASSUME NEW c \in Clients, Wait(c) PROVE [Lifecycle(q)!Next]_(Lifecycle(q)!vars)
  BY <1>19 DEF Wait
<1>20. ASSUME NEW c \in Clients, WaitLock(c) PROVE [Lifecycle(q)!Next]_(Lifecycle(q)!vars)
  BY <1>20 DEF WaitLock
<1>21. ASSUME NEW c \in Clients, WaitWalk(c) PROVE [Lifecycle(q)!Next]_(Lifecycle(q)!vars)
  BY <1>21 DEF WaitWalk
<1>22. ASSUME NEW c \in Clients, WaitCheck(c) PROVE [Lifecycle(q)!Next]_(Lifecycle(q)!vars)
  BY <1>22 DEF WaitCheck
<1>23. ASSUME NEW c \in Clients, WaitSleep(c) PROVE [Lifecycle(q)!Next]_(Lifecycle(q)!vars)
  BY <1>23 DEF WaitSleep
<1>24. ASSUME NEW c \in Clients, WaitWakeup(c) PROVE [Lifecycle(q)!Next]_(Lifecycle(q)!vars)
  BY <1>24 DEF WaitWakeup
<1>25. ASSUME NEW c \in Clients, Stop(c) PROVE [Lifecycle(q)!Next]_(Lifecycle(q)!vars)
  BY <1>25 DEF Stop, Begin
<1>26. ASSUME NEW c \in Clients, StopAll(c) PROVE [Lifecycle(q)!Next]_(Lifecycle(q)!vars)
  BY <1>26 DEF StopAll, Begin
<1>27. ASSUME NEW c \in Clients, Clear(c) PROVE [Lifecycle(q)!Next]_(Lifecycle(q)!vars)
  BY <1>27 DEF Clear, Begin
<1>28. ASSUME NEW c \in Clients, Destroy(c) PROVE [Lifecycle(q)!Next]_(Lifecycle(q)!vars)
  BY <1>28 DEF Destroy, Begin
<1>29. ASSUME NEW c \in Clients, Lock(c) PROVE [Lifecycle(q)!Next]_(Lifecycle(q)!vars)
  BY <1>29 DEF Lock
<1>30. ASSUME NEW c \in Clients, WalkRunning(c) PROVE [Lifecycle(q)!Next]_(Lifecycle(q)!vars)
  BY <1>30 DEF WalkRunning
<1>31. ASSUME NEW c \in Clients, WalkPast(c) PROVE [Lifecycle(q)!Next]_(Lifecycle(q)!vars)
  BY <1>31 DEF WalkPast
<1>32. ASSUME NEW c \in Clients, Recheck(c) PROVE [Lifecycle(q)!Next]_(Lifecycle(q)!vars)
  <2>1. CASE Current(c) = q /\ pc'[c] = "set"
    <3>1. /\ pc[c] = "recheck" /\ pc' = [pc EXCEPT ![c] = "set"] /\ pstate[q] = "running"
          /\ UNCHANGED <<pstate, alive, waiter, todo, finished, stoppedBy>>
      BY <1>32, <2>1 DEF Recheck
    <3>2. todo[c] # <<>>
      BY <3>1 DEF Holding, StopPlaces
    <3>3. Lifecycle(q)!StopCheck(c)
      BY <2>1, <3>1, <3>2 DEF Lifecycle!StopCheck
    <3> QED
      BY <3>3 DEF Lifecycle!Next
  <2>2. CASE ~(Current(c) = q /\ pc'[c] = "set")
    BY <1>32, <2>2 DEF Recheck
  <2> QED
    BY <2>1, <2>2
<1>33. ASSUME NEW c \in Clients, StopSets(c) PROVE [Lifecycle(q)!Next]_(Lifecycle(q)!vars)
  <2>1. CASE Current(c) = q
    <3>2. todo[c] # <<>>
      BY <1>33 DEF StopSets, Holding, StopPlaces
    <3>1. Lifecycle(q)!StopStore(c)
      BY <1>33, <2>1, <3>2 DEF StopSets, Lifecycle!StopStore
    <3> QED
      BY <3>1 DEF Lifecycle!Next
  <2>2. CASE ~(Current(c) = q)
    BY <1>33, <2>2 DEF StopSets
  <2> QED
    BY <2>1, <2>2
<1>34. ASSUME NEW c \in Clients, StopUncounts(c) PROVE [Lifecycle(q)!Next]_(Lifecycle(q)!vars)
  <2>1. CASE Current(c) = q
    <3>2. todo[c] # <<>>
      BY <1>34 DEF StopUncounts, Holding, StopPlaces
    <3>1. Lifecycle(q)!StopReport(c)
      BY <1>34, <2>1, <3>2 DEF StopUncounts, Lifecycle!StopReport
    <3> QED
      BY <3>1 DEF Lifecycle!Next
  <2>2. CASE ~(Current(c) = q)
    BY <1>34, <2>2 DEF StopUncounts
  <2> QED
    BY <2>1, <2>2
<1>35. ASSUME NEW c \in Clients, StopTallies(c) PROVE [Lifecycle(q)!Next]_(Lifecycle(q)!vars)
  BY <1>35 DEF StopTallies
<1>36. ASSUME NEW c \in Clients, StopNotifies(c) PROVE [Lifecycle(q)!Next]_(Lifecycle(q)!vars)
  BY <1>36 DEF StopNotifies, Notifying
<1>37. ASSUME NEW c \in Clients, StopNotifiesWait(c) PROVE [Lifecycle(q)!Next]_(Lifecycle(q)!vars)
  BY <1>37 DEF StopNotifiesWait, Notifying, NotifyWait, Asleep
<1>70. ASSUME NEW c \in Clients, StopJoins(c) PROVE [Lifecycle(q)!Next]_(Lifecycle(q)!vars)
  BY <1>70 DEF StopJoins
<1>38. ASSUME NEW c \in Clients, StopKills(c) PROVE [Lifecycle(q)!Next]_(Lifecycle(q)!vars)
  <2>1. CASE Current(c) = q /\ q \in alive
    <3>1. Lifecycle(q)!Die
      BY <1>38, <2>1 DEF StopKills, Lifecycle!Die
    <3> QED
      BY <3>1 DEF Lifecycle!Next
  <2>2. CASE ~(Current(c) = q /\ q \in alive)
    BY <1>38, <2>2 DEF StopKills
  <2> QED
    BY <2>1, <2>2
<1>39. ASSUME NEW c \in Clients, StopEnds(c) PROVE [Lifecycle(q)!Next]_(Lifecycle(q)!vars)
  BY <1>39 DEF StopEnds
<1>40. ASSUME NEW c \in Clients, StopAllEnds(c) PROVE [Lifecycle(q)!Next]_(Lifecycle(q)!vars)
  BY <1>40 DEF StopAllEnds
<1>41. ASSUME NEW c \in Clients, DestroyMap(c) PROVE [Lifecycle(q)!Next]_(Lifecycle(q)!vars)
  BY <1>41 DEF DestroyMap
<1>42. ASSUME NEW c \in Clients, ClearMap(c) PROVE [Lifecycle(q)!Next]_(Lifecycle(q)!vars)
  BY <1>42 DEF ClearMap, MapChanges
<1>43. ASSUME NEW c \in Clients, ResetCounts(c) PROVE [Lifecycle(q)!Next]_(Lifecycle(q)!vars)
  BY <1>43 DEF ResetCounts
<1>44. ASSUME NEW c \in Clients, MembersGone(c) PROVE [Lifecycle(q)!Next]_(Lifecycle(q)!vars)
  BY <1>44 DEF MembersGone
<1>45. CASE UNCHANGED vars
  BY <1>45 DEF vars
<1> QED
  BY <1>70, <1>1, <1>2, <1>3, <1>4, <1>5, <1>6, <1>7, <1>8, <1>9, <1>10, <1>11, <1>12, <1>13,
      <1>14, <1>15, <1>16, <1>17, <1>18, <1>19, <1>20, <1>21, <1>22, <1>23, <1>24, <1>25,
      <1>26, <1>27, <1>28, <1>29, <1>30, <1>31, <1>32, <1>33, <1>34, <1>35, <1>36, <1>37,
      <1>38, <1>39, <1>40, <1>41, <1>42, <1>43, <1>44, <1>45
  DEF Next, Over, SchedulerStep, WaiterStep, CallStep, WalkStep, BeginCall

(***************************************************************************)
(* Every process of the pool lives as the contract that the engine itself  *)
(* is proved to implement says: what is proved of the pool holds of a pool *)
(* of engines.                                                             *)
(***************************************************************************)
THEOREM ProcessesKeepContract == Spec => ProcessesImplementLifecycle
<1>1. IInv /\ [Next]_vars =>
        [\A p \in Procs : Lifecycle(p)!Next \/ UNCHANGED Lifecycle(p)!vars]_vars
  BY LifecycleStep
<1>2. Init => \A p \in Procs : Lifecycle(p)!Init
  BY LifecycleInit
<1> QED
  BY Invariance, <1>1, <1>2, PTL DEF Spec, ProcessesImplementLifecycle

=============================================================================
