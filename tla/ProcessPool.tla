---------------------------- MODULE ProcessPool ----------------------------
(***************************************************************************)
(* iridium::rclone::process_pool: process_pool::_process_pool_impl_ of     *)
(* src/src/process/process_pool_impl.cpp.                                  *)
(*                                                                         *)
(* A scheduler thread launches the processes of the pool, highest priority *)
(* first, at most _simultaneous_processes at a time.  It learns that one   *)
(* ended from two callbacks, which the process calls from the thread that  *)
(* waits for its child (on_finish) or from the thread that stops it        *)
(* (on_stop).  _mutex guards the map; the counters are atomic; the state   *)
(* is guarded by nothing; and the notifications are made without the mutex *)
(* of their condition variable.                                            *)
(*                                                                         *)
(* A process is the abstract one of ProcessLifecycle, with its callbacks   *)
(* taken apart.  Each action is one step of one thread.                    *)
(***************************************************************************)
EXTENDS Naturals, Sequences, FiniteSets

CONSTANTS
  Procs,      \* the processes that may be added
  Prio,       \* Prio[p]: the priority p is added with
  Clients,    \* threads of the application
  Owner,      \* the client that destroys the pool
  MayCall,    \* MayCall[c]: the functions client c calls
  Limit0,     \* the constructor's simultaneous_processes
  Limits,     \* the arguments of set_simultaneous_processes()
  Guarded     \* the application adds and clears only while no thread of it waits

Calls == {"add", "stop", "stop_all", "clear", "wait", "set_limit", "destroy"}
CountRange == 65536      \* uint16_t
Free == "free"           \* _mutex is not held

ASSUME ConstantsAssumption ==
  /\ Prio \in [Procs -> Nat]
  /\ Owner \in Clients /\ Free \notin Clients /\ "scheduler" \notin Clients
  /\ MayCall \in [Clients -> SUBSET Calls]
  /\ \A c \in Clients \ {Owner} : "destroy" \notin MayCall[c]
  /\ Limit0 \in 0..(CountRange - 1) /\ Limits \subseteq 0..(CountRange - 1)
  /\ Guarded \in BOOLEAN

VARIABLES
  poolState,   \* _state: running, stopped
  queue,       \* _processes, in the order of the map
  limit,       \* _simultaneous_processes
  running,     \* _running_processes
  executed,    \* _executed_processes
  counter,     \* _process_counter
  mutex,       \* who holds _mutex
  sched,       \* where the scheduler thread is
  pstate,      \* process::state of each process
  alive,       \* the children that have not ended
  waiter,      \* where the thread is that waits for each child
  pc,          \* where each client is
  op,          \* which call a client's walk through the processes belongs to
  todo,        \* the processes a client still has to walk through
  seen,        \* the size of the map that the predicate of a client's wait() found
  prog,        \* the program: up, or how it ended
  arrived,     \* (history) when each process was added
  awaited,     \* (history) the processes that were in the pool when wait() was called
  finished,    \* (history) processes that called on_finish
  stoppedBy,   \* (history) the clients whose stop() called a process's on_stop
  late         \* (history) processes launched although the pool was stopped

poolVars    == <<poolState, queue, limit, counter>>
countVars   == <<running, executed>>
procVars    == <<pstate, alive, waiter>>
clientVars  == <<pc, op, todo, seen>>
historyVars == <<arrived, awaited, finished, stoppedBy, late>>
vars == <<poolVars, countVars, mutex, sched, procVars, clientVars, prog, historyVars>>

-----------------------------------------------------------------------------
(***************************************************************************)
(* The constructor returns when the scheduler has set the state to running.*)
(***************************************************************************)
Init ==
  /\ poolState = "running" /\ queue = <<>> /\ limit = Limit0 /\ counter = 0
  /\ running = 0 /\ executed = 0
  /\ mutex = Free /\ sched = "predicate"
  /\ pstate = [p \in Procs |-> "not_launched"]
  /\ alive = {} /\ waiter = [p \in Procs |-> "none"]
  /\ pc = [c \in Clients |-> "idle"]
  /\ op = [c \in Clients |-> "none"] /\ todo = [c \in Clients |-> <<>>]
  /\ seen = [c \in Clients |-> 0]
  /\ prog = "up"
  /\ arrived = [p \in Procs |-> 0] /\ awaited = [c \in Clients |-> {}]
  /\ finished = {} /\ stoppedBy = [p \in Procs |-> {}] /\ late = {}

\* nothing moves once the program is over
Up == prog = "up"

Goto(c, from, to) == Up /\ pc[c] = from /\ pc' = [pc EXCEPT ![c] = to]
Sched(from, to) == Up /\ sched = from /\ sched' = to
Waiter(p, from, to) == Up /\ waiter[p] = from /\ waiter' = [waiter EXCEPT ![p] = to]

InQueue(p) == \E i \in DOMAIN queue : queue[i] = p
Launchable(p) == InQueue(p) /\ pstate[p] = "not_launched"

\* get_process(): the first process in the map that was not launched
GetProcess(p) ==
  \E i \in DOMAIN queue :
    /\ queue[i] = p /\ pstate[p] = "not_launched"
    /\ \A j \in 1..(i - 1) : pstate[queue[j]] # "not_launched"

\* a mistake: the counter does not wrap
Dec_NoWrap(n) == n - 1

Dec(n) == (n + CountRange - 1) % CountRange

Inc(n) == (n + 1) % CountRange

\* The members of the pool are destroyed before _processes is: a callback that
\* notifies by then uses a condition variable that is gone.
Notifying ==
  prog' \in IF op[Owner] = "members" THEN {"up", "undefined"} ELSE {prog}

\* notify_one of _cv_process: only a scheduler that sleeps hears it
NotifyScheduler(s) == IF s = "asleep" THEN "predicate" ELSE s

\* notify_one of _wait_cv, with the clients at f
Asleep == {c \in Clients : pc[c] = "w_asleep"}
NotifyWait(f) ==
  IF Asleep = {} THEN pc' = f
  ELSE \E c \in Asleep : pc' = [f EXCEPT ![c] = "w_lock"]

-----------------------------------------------------------------------------
(***************************************************************************)
(* The scheduler.  The predicate is evaluated under _mutex, then the       *)
(* scheduler sleeps, or looks at the state again, takes _mutex again and   *)
(* launches.  What it saw under the first lock may be stale by then.       *)
(***************************************************************************)
\* a mistake: one process too many
EvaluatePredicate_OneMore ==
  /\ poolState = "stopped" \/ mutex = Free
  /\ Sched("predicate",
           IF \/ poolState = "stopped"
              \/ running <= limit /\ \E p \in Procs : Launchable(p)
           THEN "check" ELSE "sleep")
  /\ UNCHANGED <<poolVars, countVars, mutex, procVars, clientVars, prog, historyVars>>

EvaluatePredicate ==
  /\ poolState = "stopped" \/ mutex = Free
  /\ Sched("predicate",
           IF \/ poolState = "stopped"
              \/ running < limit /\ \E p \in Procs : Launchable(p)
           THEN "check" ELSE "sleep")
  /\ UNCHANGED <<poolVars, countVars, mutex, procVars, clientVars, prog, historyVars>>

FallAsleep ==
  /\ Sched("sleep", "asleep")
  /\ UNCHANGED <<poolVars, countVars, mutex, procVars, clientVars, prog, historyVars>>

SpuriousWakeup ==
  /\ Sched("asleep", "predicate")
  /\ UNCHANGED <<poolVars, countVars, mutex, procVars, clientVars, prog, historyVars>>

CheckState ==
  /\ Sched("check", IF poolState = "stopped" THEN "exit" ELSE "launch")
  /\ UNCHANGED <<poolVars, countVars, mutex, procVars, clientVars, prog, historyVars>>

\* a mistake: _mutex is not taken again
LaunchProcess_NoLock(p) ==
  /\ GetProcess(p)
  /\ Sched("launch", "count")
  /\ pstate' = [pstate EXCEPT ![p] = "running"]
  /\ alive' = alive \cup {p}
  /\ Waiter(p, "none", "wait")
  /\ late' = IF poolState = "stopped" THEN late \cup {p} ELSE late
  /\ UNCHANGED <<poolVars, countVars, mutex, clientVars, prog, arrived, awaited,
                 finished, stoppedBy>>

\* the callbacks are connected and execute() is called under _mutex
LaunchProcess(p) ==
  /\ mutex = Free
  /\ GetProcess(p)
  /\ Sched("launch", "count")
  /\ mutex' = "scheduler"
  /\ pstate' = [pstate EXCEPT ![p] = "running"]
  /\ alive' = alive \cup {p}
  /\ Waiter(p, "none", "wait")
  /\ late' = IF poolState = "stopped" THEN late \cup {p} ELSE late
  /\ UNCHANGED <<poolVars, countVars, clientVars, prog, arrived, awaited,
                 finished, stoppedBy>>

NothingToLaunch ==
  /\ mutex = Free
  /\ \A p \in Procs : ~Launchable(p)
  /\ Sched("launch", "loop")
  /\ UNCHANGED <<poolVars, countVars, mutex, procVars, clientVars, prog, historyVars>>

\* a mistake: the next process is launched without looking at the state
CountLaunch_Batch ==
  /\ Sched("count", "launch")
  /\ running' = Inc(running)
  /\ mutex' = Free
  /\ UNCHANGED <<poolVars, executed, procVars, clientVars, prog, historyVars>>

CountLaunch ==
  /\ Sched("count", "loop")
  /\ running' = Inc(running)
  /\ mutex' = Free
  /\ UNCHANGED <<poolVars, executed, procVars, clientVars, prog, historyVars>>

LoopAgain ==
  /\ Sched("loop", IF poolState = "running" THEN "predicate" ELSE "exit")
  /\ UNCHANGED <<poolVars, countVars, mutex, procVars, clientVars, prog, historyVars>>

SchedulerStep ==
  \/ EvaluatePredicate \/ FallAsleep \/ CheckState
  \/ (\E p \in Procs : LaunchProcess(p)) \/ NothingToLaunch
  \/ CountLaunch \/ LoopAgain

-----------------------------------------------------------------------------
(***************************************************************************)
(* A child ends, and the thread that waits for it settles the state and    *)
(* calls on_finish, unless it finds the process stopped.                   *)
(***************************************************************************)
ChildEnds(p) ==
  /\ Up /\ p \in alive
  /\ alive' = alive \ {p}
  /\ UNCHANGED <<poolVars, countVars, mutex, sched, pstate, waiter, clientVars, prog,
                 historyVars>>

WaiterChecks(p) ==
  /\ p \notin alive
  /\ Waiter(p, "wait", IF pstate[p] # "stopped" THEN "set" ELSE "done")
  /\ UNCHANGED <<poolVars, countVars, mutex, sched, pstate, alive, clientVars, prog,
                 historyVars>>

\* a pool does not tell "error" from "finished"
WaiterSets(p) ==
  /\ Waiter(p, "set", "uncount")
  /\ pstate' = [pstate EXCEPT ![p] = "finished"]
  /\ UNCHANGED <<poolVars, countVars, mutex, sched, alive, clientVars, prog, historyVars>>

\* a mistake: a process that finished is still counted as running
FinishUncounts_Missing(p) ==
  /\ Waiter(p, "uncount", "tally")
  /\ finished' = finished \cup {p}
  /\ UNCHANGED <<poolVars, countVars, mutex, sched, pstate, alive, clientVars, prog,
                 arrived, awaited, stoppedBy, late>>

\* a mistake: the callback takes _mutex
FinishUncounts_Locks(p) ==
  /\ mutex = Free
  /\ Waiter(p, "uncount", "tally")
  /\ running' = Dec(running)
  /\ finished' = finished \cup {p}
  /\ UNCHANGED <<poolVars, executed, mutex, sched, pstate, alive, clientVars, prog,
                 arrived, awaited, stoppedBy, late>>

\* the on_finish callback, in four steps
FinishUncounts(p) ==
  /\ Waiter(p, "uncount", "tally")
  /\ running' = Dec(running)
  /\ finished' = finished \cup {p}
  /\ UNCHANGED <<poolVars, executed, mutex, sched, pstate, alive, clientVars, prog,
                 arrived, awaited, stoppedBy, late>>

FinishTallies(p) ==
  /\ Waiter(p, "tally", "notify")
  /\ executed' = Inc(executed)
  /\ UNCHANGED <<poolVars, running, mutex, sched, pstate, alive, clientVars, prog,
                 historyVars>>

FinishNotifies(p) ==
  /\ Waiter(p, "notify", "notify_wait")
  /\ sched' = NotifyScheduler(sched)
  /\ Notifying
  /\ UNCHANGED <<poolVars, countVars, mutex, pstate, alive, clientVars, historyVars>>

FinishNotifiesWait(p) ==
  /\ Waiter(p, "notify_wait", "done")
  /\ NotifyWait(pc)
  /\ Notifying
  /\ UNCHANGED <<poolVars, countVars, mutex, sched, pstate, alive, op, todo, seen, historyVars>>

WaiterStep(p) ==
  \/ WaiterChecks(p) \/ WaiterSets(p) \/ FinishUncounts(p)
  \/ FinishTallies(p) \/ FinishNotifies(p) \/ FinishNotifiesWait(p)

-----------------------------------------------------------------------------
WaitPlaces == {"w_lock", "w_walk", "w_check", "w_sleep", "w_asleep"}

\* The application destroys the pool once, when nothing else uses it.
MayBegin(c, call) ==
  /\ pc[c] = "idle" /\ call \in MayCall[c]
  /\ op[Owner] \notin {"destroy", "members"}
  /\ Guarded =>
       /\ call \in {"add", "clear"} => \A d \in Clients : pc[d] \notin WaitPlaces
       /\ call = "wait" => \A d \in Clients : op[d] \in {"clear", "clear_map"} => pc[d] = "idle"

\* The map changes: wait() walks through it without _mutex, and a walk that is
\* under way then reads it while it is written.
MapChanges ==
  prog' \in IF \E d \in Clients : pc[d] = "w_walk" THEN {"up", "undefined"} ELSE {prog}

\* the place in the map behind k processes
Insert(p, k) ==
  [i \in 1..(Len(queue) + 1) |->
     IF i <= k THEN queue[i] ELSE IF i = k + 1 THEN p ELSE queue[i - 1]]

\* a mistake: in front of the processes of its priority
Behind_Front(p, k) ==
  /\ \A i \in 1..k : Prio[queue[i]] > Prio[p]
  /\ \A i \in (k + 1)..Len(queue) : Prio[queue[i]] <= Prio[p]

\* behind the processes of its priority, before the lower ones
Behind(p, k) ==
  /\ \A i \in 1..k : Prio[queue[i]] >= Prio[p]
  /\ \A i \in (k + 1)..Len(queue) : Prio[queue[i]] < Prio[p]

AddProcess(c, p) ==
  /\ MayBegin(c, "add") /\ mutex = Free
  /\ poolState # "stopped"
  /\ pstate[p] = "not_launched" /\ ~InQueue(p)
  /\ \E k \in 0..Len(queue) : Behind(p, k) /\ queue' = Insert(p, k)
  /\ counter' = counter + 1
  /\ arrived' = [arrived EXCEPT ![p] = counter]
  /\ MapChanges
  /\ Goto(c, "idle", "notify")
  /\ UNCHANGED <<poolState, limit, countVars, mutex, sched, procVars, op, todo, seen,
                 awaited, finished, stoppedBy, late>>

\* set_simultaneous_processes() stores without a lock
SetLimit(c, n) ==
  /\ MayBegin(c, "set_limit") /\ limit # n
  /\ limit' = n
  /\ Goto(c, "idle", "notify")
  /\ UNCHANGED <<poolState, queue, counter, countVars, mutex, sched, procVars, op, todo,
                 seen, prog, historyVars>>

\* the notify_one at the end of add_process(), set_simultaneous_processes(), stop()
Notify(c) ==
  /\ Goto(c, "notify", IF op[c] = "destroy" THEN "join" ELSE "idle")
  /\ op' = [op EXCEPT ![c] = IF @ = "destroy" THEN @ ELSE "none"]
  /\ sched' = NotifyScheduler(sched)
  /\ UNCHANGED <<poolVars, countVars, mutex, procVars, todo, seen, prog, historyVars>>

-----------------------------------------------------------------------------
(***************************************************************************)
(* wait().  Its predicate walks through the map, which _mutex guards, under*)
(* _wait_mutex, and then compares what it found with a counter: two steps  *)
(* for every other thread.  The check and the sleep are two steps for the  *)
(* callbacks, which notify without _wait_mutex.                            *)
(***************************************************************************)
Wait(c) ==
  /\ MayBegin(c, "wait")
  /\ Goto(c, "idle", "w_lock")
  /\ awaited' = [awaited EXCEPT ![c] = {p \in Procs : InQueue(p)}]
  /\ UNCHANGED <<poolVars, countVars, mutex, sched, procVars, op, todo, seen, prog,
                 arrived, finished, stoppedBy, late>>

WaitLock(c) ==
  /\ \A d \in Clients : pc[d] \notin {"w_walk", "w_check", "w_sleep"}
  /\ Goto(c, "w_lock", "w_walk")
  /\ UNCHANGED <<poolVars, countVars, mutex, sched, procVars, op, todo, seen, prog, historyVars>>

WaitWalk(c) ==
  /\ Goto(c, "w_walk", "w_check")
  /\ seen' = [seen EXCEPT ![c] = Len(queue)]
  /\ UNCHANGED <<poolVars, countVars, mutex, sched, procVars, op, todo, prog, historyVars>>

\* a mistake: the last process is not waited for
WaitCheck_AllButOne(c) ==
  /\ Goto(c, "w_check", IF executed + 1 >= seen[c] THEN "idle" ELSE "w_sleep")
  /\ seen' = [seen EXCEPT ![c] = 0]
  /\ UNCHANGED <<poolVars, countVars, mutex, sched, procVars, op, todo, prog, historyVars>>

WaitCheck(c) ==
  /\ Goto(c, "w_check", IF executed = seen[c] THEN "idle" ELSE "w_sleep")
  /\ seen' = [seen EXCEPT ![c] = 0]
  /\ awaited' = [awaited EXCEPT ![c] = IF executed = seen[c] THEN {} ELSE @]
  /\ UNCHANGED <<poolVars, countVars, mutex, sched, procVars, op, todo, prog,
                 arrived, finished, stoppedBy, late>>

WaitSleep(c) ==
  /\ Goto(c, "w_sleep", "w_asleep")
  /\ UNCHANGED <<poolVars, countVars, mutex, sched, procVars, op, todo, seen, prog, historyVars>>

WaitWakeup(c) ==
  /\ Goto(c, "w_asleep", "w_lock")
  /\ UNCHANGED <<poolVars, countVars, mutex, sched, procVars, op, todo, seen, prog, historyVars>>

-----------------------------------------------------------------------------
(***************************************************************************)
(* stop(), stop_all_processes(), stop_all_processes_and_clear() and the    *)
(* destructor: take _mutex and walk through the processes, stopping each   *)
(* that runs.  The walk "clear" of the last two destroys each process of   *)
(* the map: it stops it if it runs, and joins its threads.                 *)
(***************************************************************************)
Begin(c, call, to) ==
  /\ MayBegin(c, call)
  /\ Goto(c, "idle", to)
  /\ op' = [op EXCEPT ![c] = call]
  /\ UNCHANGED <<poolVars, countVars, mutex, sched, procVars, todo, seen, prog, historyVars>>

Stop(c) == poolState # "stopped" /\ Begin(c, "stop", "lock")
StopAll(c) == Begin(c, "stop_all", "lock")
Clear(c) == Begin(c, "clear", "lock")
Destroy(c) ==
  /\ \A d \in Clients : pc[d] = "idle"
  /\ Begin(c, "destroy", IF poolState = "stopped" THEN "join" ELSE "lock")

Lock(c) ==
  /\ mutex = Free /\ mutex' = c
  /\ Goto(c, "lock", "walk")
  /\ todo' = [todo EXCEPT ![c] = queue]
  /\ poolState' = IF op[c] \in {"stop", "destroy"} THEN "stopped" ELSE poolState
  /\ UNCHANGED <<queue, limit, counter, countVars, sched, procVars, op, seen, prog, historyVars>>

Current(c) == Head(todo[c])
Destroying(c) == op[c] \in {"clear_map", "members"}

\* is_running(), then the call of the process's stop()
WalkRunning(c) ==
  /\ todo[c] # <<>> /\ pstate[Current(c)] = "running"
  /\ Goto(c, "walk", "recheck")
  /\ UNCHANGED <<poolVars, countVars, mutex, sched, procVars, op, todo, seen, prog, historyVars>>

\* past a process that does not run; one that is destroyed is joined first
WalkPast(c) ==
  /\ todo[c] # <<>> /\ pstate[Current(c)] # "running"
  /\ Destroying(c) => waiter[Current(c)] \in {"none", "done"}
  /\ Goto(c, "walk", "walk")
  /\ todo' = [todo EXCEPT ![c] = Tail(@)]
  /\ UNCHANGED <<poolVars, countVars, mutex, sched, procVars, op, seen, prog, historyVars>>

\* a mistake: stop() does not check the state of the process
Recheck_Missing(c) ==
  /\ Goto(c, "recheck", "set")
  /\ UNCHANGED <<poolVars, countVars, mutex, sched, procVars, op, todo, seen, prog, historyVars>>

\* process::stop() checks the state again: it throws when the process has
\* ended in between, and a destructor does not survive that
Recheck(c) ==
  \/ /\ Goto(c, "recheck", "set")
     /\ pstate[Current(c)] = "running"
     /\ UNCHANGED <<poolVars, countVars, mutex, sched, procVars, op, todo, seen, prog,
                    historyVars>>
  \/ /\ Goto(c, "recheck", "idle")
     /\ pstate[Current(c)] # "running"
     /\ prog' = IF op[c] \in {"clear_map", "members", "destroy"} THEN "terminate" ELSE prog
     /\ mutex' = IF mutex = c THEN Free ELSE mutex
     /\ op' = [op EXCEPT ![c] = "none"] /\ todo' = [todo EXCEPT ![c] = <<>>]
     /\ UNCHANGED <<poolVars, countVars, sched, procVars, seen, historyVars>>

StopSets(c) ==
  /\ Goto(c, "set", "uncount")
  /\ pstate' = [pstate EXCEPT ![Current(c)] = "stopped"]
  /\ UNCHANGED <<poolVars, countVars, mutex, sched, alive, waiter, op, todo, seen, prog,
                 historyVars>>

\* the on_stop callback, in four steps, and the end of the child
StopUncounts(c) ==
  /\ Goto(c, "uncount", "tally")
  /\ running' = Dec(running)
  /\ stoppedBy' = [stoppedBy EXCEPT ![Current(c)] = @ \cup {c}]
  /\ UNCHANGED <<poolVars, executed, mutex, sched, procVars, op, todo, seen, prog,
                 arrived, awaited, finished, late>>

StopTallies(c) ==
  /\ Goto(c, "tally", "notify_sched")
  /\ executed' = Inc(executed)
  /\ UNCHANGED <<poolVars, running, mutex, sched, procVars, op, todo, seen, prog, historyVars>>

StopNotifies(c) ==
  /\ Goto(c, "notify_sched", "notify_wait")
  /\ sched' = NotifyScheduler(sched)
  /\ Notifying
  /\ UNCHANGED <<poolVars, countVars, mutex, procVars, op, todo, seen, historyVars>>

StopNotifiesWait(c) ==
  /\ Up /\ pc[c] = "notify_wait"
  /\ NotifyWait([pc EXCEPT ![c] = "kill"])
  /\ Notifying
  /\ UNCHANGED <<poolVars, countVars, mutex, sched, procVars, op, todo, seen, historyVars>>

\* whether running() still says so of a child just terminated is up to the library
StopKills(c) ==
  /\ \E to \in {"walk", "joins"} : Goto(c, "kill", to)
  /\ alive' = alive \ {Current(c)}
  /\ UNCHANGED <<poolVars, countVars, mutex, sched, pstate, waiter, op, todo, seen, prog,
                 historyVars>>

\* if it does, the threads of the process are joined, under _mutex if the walk has it
StopJoins(c) ==
  /\ Goto(c, "joins", "walk")
  /\ waiter[Current(c)] = "done"
  /\ UNCHANGED <<poolVars, countVars, mutex, sched, procVars, op, todo, seen, prog, historyVars>>

-----------------------------------------------------------------------------
(***************************************************************************)
(* The ends of the walks.                                                  *)
(***************************************************************************)
StopEnds(c) ==
  /\ todo[c] = <<>> /\ op[c] \in {"stop", "destroy"}
  /\ Goto(c, "walk", "notify")
  /\ mutex' = Free
  /\ UNCHANGED <<poolVars, countVars, sched, procVars, op, todo, seen, prog, historyVars>>

StopAllEnds(c) ==
  /\ todo[c] = <<>> /\ op[c] = "stop_all"
  /\ Goto(c, "walk", "idle")
  /\ op' = [op EXCEPT ![c] = "none"]
  /\ running' = 0
  /\ mutex' = Free
  /\ UNCHANGED <<poolVars, executed, sched, procVars, todo, seen, prog,
                 historyVars>>

\* the processes are destroyed: _processes.clear(), or the pool's members
DestroyMap(c) ==
  /\ Up
  /\ \/ /\ pc[c] = "walk" /\ todo[c] = <<>> /\ op[c] = "clear"
        /\ op' = [op EXCEPT ![c] = "clear_map"]
     \/ /\ pc[c] = "join" /\ sched = "exit"
        /\ op' = [op EXCEPT ![c] = "members"]
  /\ pc' = [pc EXCEPT ![c] = "walk"]
  /\ todo' = [todo EXCEPT ![c] = queue]
  /\ UNCHANGED <<poolVars, countVars, mutex, sched, procVars, seen, prog, historyVars>>

ClearMap(c) ==
  /\ todo[c] = <<>> /\ op[c] = "clear_map"
  /\ Goto(c, "walk", "reset")
  /\ queue' = <<>>
  /\ MapChanges
  /\ UNCHANGED <<poolState, limit, counter, countVars, mutex, sched, procVars, op, todo,
                 seen, historyVars>>

\* a mistake: _running_processes is left alone
ResetCounts_KeepsRunning(c) ==
  /\ Goto(c, "reset", "idle")
  /\ op' = [op EXCEPT ![c] = "none"]
  /\ executed' = 0 /\ counter' = 0
  /\ mutex' = Free
  /\ UNCHANGED <<poolState, queue, limit, running, sched, procVars, todo, seen, prog,
                 historyVars>>

ResetCounts(c) ==
  /\ Goto(c, "reset", "idle")
  /\ op' = [op EXCEPT ![c] = "none"]
  /\ running' = 0 /\ executed' = 0 /\ counter' = 0
  /\ mutex' = Free
  /\ UNCHANGED <<poolState, queue, limit, sched, procVars, todo, seen, prog,
                 historyVars>>

MembersGone(c) ==
  /\ todo[c] = <<>> /\ op[c] = "members"
  /\ Goto(c, "walk", "gone")
  /\ UNCHANGED <<poolVars, countVars, mutex, sched, procVars, op, todo, seen, prog, historyVars>>

-----------------------------------------------------------------------------
WalkStep(c) ==
  \/ Lock(c) \/ WalkRunning(c) \/ WalkPast(c) \/ Recheck(c) \/ StopSets(c)
  \/ StopUncounts(c) \/ StopTallies(c) \/ StopNotifies(c) \/ StopNotifiesWait(c)
  \/ StopKills(c) \/ StopJoins(c) \/ StopEnds(c) \/ StopAllEnds(c) \/ DestroyMap(c) \/ ClearMap(c)
  \/ ResetCounts(c) \/ MembersGone(c)

\* a call that has begun goes on; an application need not begin any
CallStep(c) ==
  Notify(c) \/ WaitLock(c) \/ WaitWalk(c) \/ WaitCheck(c) \/ WaitSleep(c) \/ WalkStep(c)

BeginCall(c) ==
  \/ (\E p \in Procs : AddProcess(c, p)) \/ (\E n \in Limits : SetLimit(c, n))
  \/ Wait(c) \/ Stop(c) \/ StopAll(c) \/ Clear(c) \/ Destroy(c)

\* the program is over, or the pool is destroyed
Over == (~Up \/ pc[Owner] = "gone") /\ UNCHANGED vars

Next ==
  \/ SchedulerStep \/ SpuriousWakeup
  \/ \E p \in Procs : ChildEnds(p) \/ WaiterStep(p)
  \/ \E c \in Clients : CallStep(c) \/ BeginCall(c) \/ WaitWakeup(c)
  \/ Over

Spec == Init /\ [][Next]_vars

(***************************************************************************)
(* Every thread runs, every child ends, and a call that has begun goes on. *)
(* Nothing makes a sleeper wake up for no reason, or a client call.        *)
(***************************************************************************)
Fairness ==
  /\ WF_vars(SchedulerStep)
  /\ \A p \in Procs : WF_vars(ChildEnds(p)) /\ WF_vars(WaiterStep(p))
  /\ \A c \in Clients : WF_vars(CallStep(c))

FairSpec == Spec /\ Fairness

-----------------------------------------------------------------------------
SchedPlaces == {"predicate", "sleep", "asleep", "check", "launch", "count", "loop", "exit"}
WaiterPlaces == {"none", "wait", "set", "uncount", "tally", "notify", "notify_wait", "done"}
ClientPlaces == WaitPlaces \cup
  {"idle", "notify", "lock", "walk", "recheck", "set", "uncount", "tally", "notify_sched",
   "notify_wait", "kill", "joins", "join", "reset", "gone"}

TypeOK ==
  /\ poolState \in {"running", "stopped"}
  /\ queue \in Seq(Procs) /\ counter \in Nat
  /\ mutex = Free => counter = Len(queue)   \* what size() returns
  /\ limit \in Limits \cup {Limit0}
  /\ running \in 0..(CountRange - 1) /\ executed \in 0..(CountRange - 1)
  /\ mutex \in Clients \cup {Free, "scheduler"}
  /\ sched \in SchedPlaces
  /\ pstate \in [Procs -> {"not_launched", "running", "finished", "stopped"}]
  /\ alive \subseteq Procs
  /\ waiter \in [Procs -> WaiterPlaces]
  /\ pc \in [Clients -> ClientPlaces]
  /\ op \in [Clients -> Calls \cup {"none", "clear_map", "members"}]
  /\ todo \in [Clients -> Seq(Procs)]
  /\ seen \in [Clients -> Nat]
  /\ prog \in {"up", "terminate", "undefined"}
  /\ arrived \in [Procs -> Nat] /\ awaited \in [Clients -> SUBSET Procs]
  /\ finished \subseteq Procs
  /\ stoppedBy \in [Procs -> SUBSET Clients]
  /\ late \subseteq Procs

Launched == {p \in Procs : InQueue(p) /\ pstate[p] # "not_launched"}

\* how many times a callback of a process in the pool was entered
Reports ==
  Cardinality(finished \cap Launched)
    + Cardinality({r \in Launched \X Clients : r[2] \in stoppedBy[r[1]]})

(***************************************************************************)
(* Whenever _mutex is free, _running_processes is the number of processes  *)
(* launched less the number of callbacks made: no callback of a process    *)
(* that clear() destroyed arrives after the counters are reset, and the    *)
(* callback of a process that ends before its launch was counted wraps the *)
(* counter around and back.  (stop_all_processes() breaks it.)             *)
(***************************************************************************)
RunningExact ==
  mutex = Free => (running + Reports) % CountRange = Cardinality(Launched)

(***************************************************************************)
(* "a process pool with a maximum number of simultaneous processes".       *)
(***************************************************************************)
LimitRespected == \A n \in Limits \cup {Limit0} :
  (\A m \in Limits \cup {Limit0} : m <= n) => Cardinality(alive) <= n

(***************************************************************************)
(* "wait for all processes to finish": when wait() returns, every process  *)
(* that was in the pool when it was called has ended, and the callbacks    *)
(* the application connected to it before the pool did have returned.      *)
(***************************************************************************)
WaitMeansEnded ==
  [][\A c \in Clients :
       pc[c] = "w_check" /\ pc'[c] = "idle" =>
         \A p \in awaited[c] : p \notin alive /\ waiter[p] \in {"notify", "notify_wait", "done"}]_vars

(***************************************************************************)
(* "stop pool and all processes": stop() leaves at most one process behind *)
(* that is launched after it walked through them, namely the one that the  *)
(* scheduler was about to launch when it last looked at the state.         *)
(***************************************************************************)
AtMostOneLate == Cardinality(late) <= 1

(***************************************************************************)
(* A process that was launched is told to end before it is destroyed: no   *)
(* process of the map runs when clear() starts to destroy the map, so that *)
(* no destructor has to stop one.                                          *)
(***************************************************************************)
ClearFindsNoneRunning ==
  \A c \in Clients :
    op[c] = "clear_map" /\ pc[c] \in {"walk", "recheck"} => \A p \in Launched : pstate[p] # "running"

(***************************************************************************)
(* Whoever walks through the processes under _mutex gives it back,         *)
(* although it stops them and joins their threads meanwhile: neither a     *)
(* callback nor the thread that waits for a child needs that mutex.        *)
(***************************************************************************)
MutexReleased ==
  \A c \in Clients : (mutex = c) ~> (mutex # c \/ ~Up)

(***************************************************************************)
(* wait() returns: every process of a running pool is launched, and ends.  *)
(***************************************************************************)
WaitReturns ==
  \A c \in Clients : (pc[c] = "w_lock") ~> (pc[c] = "idle" \/ ~Up)

(***************************************************************************)
(* Every process of the pool behaves like the abstract one.                *)
(***************************************************************************)
WaiterAt(p) ==
  IF waiter[p] = "uncount" THEN "report"
  ELSE IF waiter[p] \in {"tally", "notify", "notify_wait"} THEN "done"
  ELSE waiter[p]

StopperAt(c, p) ==
  IF pc[c] \notin {"set", "uncount"} \/ todo[c] = <<>> \/ Current(c) # p THEN "none"
  ELSE IF pc[c] = "set" THEN "checked"
  ELSE "set"

Lifecycle(p) == INSTANCE ProcessLifecycle WITH
  Stoppers <- Clients,
  state    <- pstate[p],
  alive    <- p \in alive,
  waiter   <- WaiterAt(p),
  stopper  <- [c \in Clients |-> StopperAt(c, p)],
  finishes <- IF p \in finished THEN 1 ELSE 0,
  stops    <- stoppedBy[p]

ProcessesImplementLifecycle ==
  /\ \A p \in Procs : Lifecycle(p)!Init
  /\ [][\A p \in Procs : Lifecycle(p)!Next \/ UNCHANGED Lifecycle(p)!vars]_vars

(***************************************************************************)
(* The pool launches its processes once each, by priority and in the order *)
(* they were added, whatever is added, stopped or cleared meanwhile, and   *)
(* clear() lets go of no child that runs.                                  *)
(***************************************************************************)
Contract == INSTANCE PoolContract WITH
  members  <- {p \in Procs : InQueue(p)},
  arrived  <- arrived,
  launched <- {p \in Procs : pstate[p] # "not_launched"},
  alive    <- alive

ImplementsContract ==
  /\ Contract!Init
  /\ [][Contract!Next \/ UNCHANGED Contract!vars]_vars

=============================================================================
