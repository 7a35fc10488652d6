# Verification of iridium (rclone_cpp)

`iridium` is a C++20 library that runs the `rclone` program: it puts a command
line together, starts the child process, reads its pipes line by line, parses
the lines into a tree of files, and schedules many such processes in a pool.
This directory holds TLA+ models of the parts of it that have state and
concurrency, the TLC configurations that check them on small instances, and
TLAPS proofs for the process engine, the pool, the command line, the tree and the
ownership of memory. Paths below are relative to the root of the repository.

    tlasany M.tla                          # parse
    tlc -workers 2 -config Run.cfg MCM.tla # model-check one run
    tlapm ProcessProofs.tla                # check the proofs

## 1. Inventory

| Component | Source | State | Operations | Talks to |
|---|---|---|---|---|
| process engine | `src/process/process_impl.cpp` | `_state`, `_child`, three pipes, `_threads`, `_counter_read`, `_output`, `_error`, signals | `execute`, `wait_for_start`, `wait_for_finish`, `write_input`, `close_*_pipe`, `stop`, destructor; threads: on_start, two readers, the waiter | the child (pipes, signals, exit code); the application and the pool (callbacks) |
| process facade, builders | `src/process/process.cpp` | path of rclone, `_is_initialized`, `_global_options` (static); `_args`, `_local_options`, `use_global_options` | `initialize`, constructor, some 30 builders, `add_option`, `with_global_options`, `commands`, `execute` | the engine; options; config_create |
| config_create | `src/process/config_create.cpp` | name, type, parameters | setters, `get_process`, `execute` | overwrites `_args` of its process |
| options | `src/options/*`, `include/iridium/options/*` | a word and a value | `get`, `add_option(s)_to_vector` | read by builders, `commands`, `execute` |
| process pool | `src/process/process_pool_impl.cpp` | map of processes by priority, limit, two 16-bit atomic counters, `_process_counter`, `_state`, three mutexes, two condition variables | `add_process`, `wait`, `stop`, `stop_all_processes`, `stop_all_processes_and_clear`, `set_simultaneous_processes`, destructor; one scheduler thread | calls `execute`, `stop`, the destructor of processes; is called by their on_finish and on_stop |
| file tree | `src/entities/file.cpp` | name, size, time, `_parent`, `_children`, a mutex per file | `add_child`, `add_child_if_not_exist`, `remove_child`, `==`, `path`, `absolute_path`, copies and moves | the parsers, the application |
| file parser | `src/parsers/file_parser.cpp` | a pointer to the root | `parse` of a line of `lsjson` or `lsl` | runs on a reader thread of a process; grows the tree |
| json_log | `src/entities/json_log.cpp`, `src/parsers/json_log_parser.cpp` | level, texts, time, a raw pointer to the statistics it owns | `set_stats`, copies, moves, assignments, destructor; `parse` of a line | made on a reader thread, lent to a callback |
| remote | `src/entities/remote.cpp` | name, type, path | `root_path`, `full_path`, setters, moves | shared by the files of a tree |
| other parsers, small entities | `src/parsers/*`, `src/entities/*` | none, or one record | `parse`, printing | on reader threads, or in on_finish |

The behaviours that are hard:

* **The engine has no lock.** `_mutex` is held by `wait_for_start()` alone.
  `_state` is stored by `execute()`, the waiter and `stop()`, each after a check
  of its own; the readers share `_output`; the pipes are reset by the readers and
  closed by clients; the waiter learns from a counter that the readers are done.
* **Somebody waits for somebody all the time:** the child for the readers (full
  pipe), the waiter for the child and the readers, `stop()`, `wait_for_finish()`
  and the destructor for all threads, the pool's calls for the processes, under
  the pool's mutex, and the pool's destructor for the scheduler.
* **The pool counts callbacks**, which arrive at any time from threads of the
  processes: before the launch is counted, twice for one process, after a reset,
  and without the mutex of the condition variables they notify.
* **Raw pointers own things.** `process`, `process_pool` and `json_log` each have
  moves and assignments written by hand, no two alike; and the callbacks of a
  process capture its address.
* **Listings arrive in an order** that the parser relies on, and several may
  grow one tree.

What makes each component correct is stated as the properties of section 4; the
hazards, each at its line, are in `PROJECT.json`.

## 2. Modules

| Module | Models | Composes |
|---|---|---|
| `ProcessLifecycle` | abstract: what a process promises about its state and callbacks | – |
| `Process` | the engine, the child and the clients' threads | implements `ProcessLifecycle` |
| `PoolContract` | abstract: what a pool promises about the order of its processes | – |
| `ProcessPool` | the pool over abstract processes | implements `PoolContract`; each process implements `ProcessLifecycle` |
| `ProcessCommand` | facade, options, global options, config_create | – |
| `FileTree` | the tree, its edits, copies and moves, the two parsers that grow it, remotes and paths | – |
| `Ownership` | the owning pointers of `process`, `process_pool`, `json_log`, and what callbacks capture | – |
| `ProcessLifecycleProofs`, `ProcessProofs`, `ProcessPoolProofs`, `ProcessPoolCountProofs`, `ProcessCommandProofs`, `FileTreeProofs`, `OwnershipProofs` | theorems and proofs | extend the modules they prove about |
| `Recursion` | lemmas for the proofs: induction over numbers, functions defined by recursion, sequences | used by `ProcessCommandProofs`, `FileTreeProofs` |
| `MC*` | instances for TLC | extend the modules they instantiate |

`ProcessLifecycle` is the seam. The pool model cannot contain several whole
engines, so it contains abstract processes; `Process` is proved to implement the
abstract process, and `ProcessPool` that each process inside the pool is an
instance of the same one. `ProcessPool` refines it only by taking the callbacks
apart, because that is where the pool's races are. `PoolContract` is what is left of
a pool when the threads, the locks and the counters are taken away: processes that
are added, launched by priority and age, ended, and forgotten.

### How the models correspond to the code

*Process.* Every action is one step of one thread between two accesses to a
shared field. `tpc[t]` is the place of an engine thread (`start`, `out`, `err`,
`wait`, in the order of `_threads`), `pc[c]` that of a client.
`ExecuteSpawn`, `ExecuteRunning`, `ExecutePush` (four times), `ExecuteNotify` are
the lines of `execute()` in their order; `GetLine`, `AppendLine`, `EveryLine`,
`EndOfStream`, `ResetPipe`, `CountRead` the loop of a reader; `WaitChild`,
`CheckStopped`, `SetOutcome`, `WaitReaders`, `CallFinish` the waiter; `WriteInput`,
`WriteCheck`, `WriteStep` the check of the state, that of the pipe, and the write; `Stop` and
the `Stop*` actions the lines of `stop()`; `Destroy*` the destructor, which goes
through the same `Stop*` actions. A line of output is its number in its stream.
Undefined behaviour is a choice: two readers that append at once may lose a line
or end in `prog = "undefined"`; so may a client that uses a pipe reset under its
hands, or a `stop()` that walks through `_threads` while `execute()` pushes.
`prog` also records the other ways the program ends: `exit(1)` in `execute()`, an
exception out of a destructor, SIGPIPE.

A client is a thread of the application or a callback: `Host[c]` is the engine thread
that runs the callback `c`. A callback acts only while its host is inside the
application (`InCallback`), and the host goes on only when it has returned
(`Returned`). A callback may call `stop()`, `write_input()` and the closes. A `stop()`
that comes to its own thread in `_threads` throws (`JoinThrows`), and the exception
ends the program unless the callback catches it: `boost::thread::join()` of oneself.

The child, the pipes and Boost are modelled from their use: a pipe holds `PipeCap`
lines, a read fails when the child is dead and the pipe empty, or the pipe was
closed; after `terminate()` the library may or may not say that the child is
`running()` - the code has a branch for either, and the waiter may leave its wait
before the killed child is reaped. `terminate()` and `running()` are assumed not
to throw in `stop()`.

*ProcessPool.* `sched` follows the scheduler's loop: predicate (under `_mutex`),
sleep, check of the state, launch (under `_mutex`), count. `waiter[p]` is the
thread that waits for the child of `p`, with the on_finish callback as four steps
(count down, count up, two notifications); `stop()`, `stop_all_processes()`,
`stop_all_processes_and_clear()` and the destructor share the walk through the
processes (`Lock`, `WalkRunning`, `WalkPast`, `Recheck`, `StopSets`, the on_stop
callback in four steps, `StopKills`, `StopJoins`), and `op[c]` says whose walk it is and
how it ends. After `StopKills` the library may still say that the child is running:
then the threads of the process are joined (`StopJoins`, `process_impl.cpp:235-240`),
under `_mutex`, which the walk holds until the callbacks of that process are done. `wait()` is three steps: `WaitLock`, then `WaitWalk`, which looks through the map
without `_mutex` and keeps its size in `seen`, then `WaitCheck`, which compares that
with the count of ended processes. `Guarded` says that the application adds and clears
only while none of its threads is between the first and the last; otherwise the walk
may meet a map that changes (`MapChanges`), which is undefined. The map is the sequence `queue` in the order of the map. The counters are 16
bits wide. A notification is heard only by who sleeps. The model has no `error`
state, because the pool does not tell it from `finished`.

*ProcessCommand.* A command is a sequence of words: its name, operands. `config
create` is one word, `create`. A builder is `Build` (with or without the check
that the operand is a directory) or `Check` (which also adds options). Each call of
`process::config_create()` makes a new creator (`ConfigCreate`); the setters and `execute()`
are those of the last one made. `told` and `ran` are history: what
`commands()` last said, and what the child was given.

*FileTree.* A line is the path of its entry. `WalkJson` and `WalkLsl` are one turn
of the loop over the directories of a path, `MakeDirectory` the branch that makes
one, `AddEntry` the entry itself. The files are numbered as they are made;
`stamp` is what `==` can tell of size and time. `uses` is chosen at the start: what
the threads do with the tree. A path is a sequence of words, slashes among them, so
that `Collapse` does what the regular expression of `path()` and `absolute_path()`
does. Every file is given the remote of its parent, and `absolute_path()` looks at
the root's only, so the remote is a parameter of `AbsolutePath`; a root without one
reads as one with a remote of no type and no path. For the same reason `SameFile` leaves
out the comparison of remotes: the files of one tree share theirs. The root is called "/",
as applications that list a whole remote call it, or has no name, as in the tests.
A removed file is destroyed with all below it when nothing else owns it; a parser that has
come to it goes on with a raw pointer, so that each of its further steps may be undefined
(`Alive`, `Dangles`, `Touch`). `Entries` are those whose directory is still there. `Transfer` is what the copy and move
constructors and the assignments do: the new file takes name, parent and children of
the old one, and one moved from is `MovedFrom`, without a name and without a mutex, so
that adding a child to it is undefined. No child learns that its parent is now
somewhere else. Copies go wrong for nobody; of moves, `MoveDirectories` says whether
directories are moved too.

*Ownership.* A handle is a place where an object may live (a variable, a
`unique_ptr`, the local of a parser), a cell the memory of an engine or of
statistics. Each constructor, assignment and destructor is one action; a self-move
of a pool is `MoveAssignPool(h, h)`. `captured` pairs an engine with the process its
callbacks captured. A cell deleted is free to be handed out again, so a pointer left
behind would come to point at somebody else's.

## 3. Bounds

| Bound | Value | Why it is enough |
|---|---|---|
| clients | 1 or 2, and a callback | two are needed for a race between calls; a third does the same calls again. The engine's safety and most of the pool's are proved for any number. |
| lines, pipe | 1 or 2 lines per stream, a pipe of 1 | two lines into a pipe of one fill it, and both streams can be full at once |
| processes in a pool | 2 or 3, limit 1 or 2 | more processes than the limit, of two priorities; three make a third one late or over the limit visible |
| calls | `MayCall` per run | each run lets the clients make the calls its question is about, as often as they like while states stay finite; `add` is limited by the processes |
| `MaxOptions` | 1 option per vector | order and leftovers show with one global and one local option, words of two kinds |
| `RootNames` | "/" and "" | the two cases of `absolute_path()`: a root with a name and one without |
| `MaxFiles`, `MaxMade`, `MaxCopied`, `MaxAdded` | 11; 4 for `add_child_if_not_exist()`; 7 for copies and moves; files at hand are added to a file with less than 2 children | 7 lines, the two directories they make, root and orphan; an edit needs root, orphan and two files, equal or not; a listing of 4 lines under root, next to orphan, leaves room for one copy of an entry, and assignments need none |
| handles and cells of `Ownership` | 3 processes with 2 engines, 2 pools with 2, 3 logs with 3 statistics | a third object shows a pointer shared by two that both moved on; it is proved for any number |

No state is cut off but by these constants, and deadlock is checked in every run:
a state without a next step would be an error. `Over` lets a finished program, a
destroyed object or a listing that is all parsed stay as it is.

## 4. Runs

Passing:

* `ProcessPipes` - one client, nobody stops. `FinishSeesAll`: on_finish is called
  when the child is dead, both readers are done and every line of `_error` is
  stored. `ProcessEnds`: no sizes of pipes and no order of threads hangs it.
  `FinishReported`: the finish is reported. 370 000 states.
* `ProcessStop` - the owner executes, waits or destroys; another thread and an
  every_line callback stop the process, which may end by itself.
  `AtLeastOneReport`, `ImplementsLifecycle`: the racing checks of the state never
  lose the report. `DrainNotAborted`: the waiter never spins on an interrupted
  reader. `NothingOutlives`, `ReturnsNotRunning`, `OutputComplete`, and
  `CallsReturn`: joins end, and a callback's join of itself throws. 154 000 states.
* `PoolUsual` - three processes, nobody stops. `RunningExact`: whenever the mutex
  is free, launched = running + callbacks made (mod 2^16), so the count that wraps
  when a process ends before it was counted comes back. `LimitRespected`,
  `WaitMeansEnded`, and `ImplementsContract`: each process is launched once, by
  priority and age. 1 600 000 states, the largest run.
* `PoolStop` - stop against add, clear, destructor. `AtMostOneLate`,
  `ClearFindsNoneRunning`, `RunningExact`, `ProcessesImplementLifecycle`,
  `ImplementsContract`. 260 000 states.
* `PoolWalks` - `MutexReleased`: every walk ends, and gives the mutex back, whether it joins
  the threads of a process it stopped or of one it destroys. 570 000 states.
* `Command` - `CommandsTell`, `WellFormed`. 150 000 states.
* `Tree` - a listing by two threads, one of each format; two threads that add files if
  they do not exist and remove them; an application that adds and removes files it has at
  hand; a listing whose entries are copied, moved and assigned while it comes in; a
  listing whose directories another thread removes. `PathsAreListed` and
  `AbsolutePathsAreListed` (on four remotes, under a root with a name and without):
  what goes up by `_parent` gives the path of the line. `EntriesAreThere`: what goes down
  by `_children` finds the entry of every line parsed, so none is lost. `DirectoriesOnce`.
  `AddedOncePerThread`: with the look of `add_child_if_not_exist()` and its push apart, a
  directory never has more of one file than there are threads that add. 170 000 states.
* `Ownership` - `OwnedOnce`, `EnginesOwned`, `CallbacksFindProcess`. 6 700 states, up
  to the exchange of objects of a class (`SYMMETRY`; there is no liveness here).

Each component also has its `TypeOK` in one of them. In `ProcessPool` it says that
`_process_counter`, which `size()` returns, is the size of the map.

Violated, because the code does otherwise than its documentation says:

* `ProcessStartLost` - `wait_for_start()` waits for `_state == running`
  (`process_impl.cpp:73`), which may be over before it looks; the example of
  `README.md:105-109` then hangs.
* `ProcessDestroyThrows` - `~process() noexcept` (`process.hpp:20`) checks the
  state, then calls `stop()`, which checks it again and throws.
* `PoolWaitLost` - the last callback notifies `_wait_cv` between the check and the
  sleep of `wait()` (`process_pool_impl.cpp:66`, `123`).
* `PoolOverLimit` - `stop_all_processes()` sets the count of running processes to
  0 (`process_pool_impl.cpp:117`) that callbacks change themselves.

### Met on the way, without a run of their own

* `wait()` returns too early when a `stop()` of a process races its end: on_stop
  and on_finish both count it (`process_pool_impl.cpp:61-74`). `WaitMeansEnded` is
  therefore checked where nobody stops.
* `wait()` walks through the map without `_mutex`, and compares the count of ended
  processes with a size it has read before: an `add_process()` in between lets it
  return too early, or the map changes under the walk. The runs of the pool set
  `Guarded`.
* `stop_all_processes_and_clear()` sets the counts to 0 and notifies nobody: a `wait()`
  that sleeps meanwhile sleeps on. Cut short by the exception of a process that ended
  during the walk, it leaves a process counted down twice, and more run than the limit
  allows; `LimitRespected` is checked where nobody stops.
* on_stop is called, and counted, before the child is killed (`process_impl.cpp`,
  `stop()`), so `wait()` of the pool may return while that child is alive.
* `stop()` in a callback joins the thread it runs on: the exception ends the program,
  unless the callback catches it.
* A pool's `stop()` may leave one process running (the scheduler's check at line
  56 is stale by line 58). `AtMostOneLate` says that it is one.
* `execute()` drops `with_global_options()` (`process.cpp:122`).
* A failing executable makes `initialize()` execute `throw;` outside a handler
  (`process.cpp:60`): the program is terminated; and the path it stored stays.
* `get_output()` of a child that writes to both pipes may lack lines, and
  `every_line` callbacks may overlap (`process_impl.cpp:120-136`).
* A directory that follows its content in a `lsjson` listing leaves the content in
  the wrong place (`file_parser.cpp:88`); listing one tree by `lsl` after `lsjson`
  makes its directories a second time (`file.cpp:83` compares the time).
* A `json_log` assigned to loses its statistics, and keeps them, with the text of
  another line, when the source has none (`json_log.cpp:34`, `67`); the target of a
  move of a pool, or a pool moved to itself, loses its engine, whose scheduler thread
  goes on (`process_pool.cpp:20`). `OwnedOnce` and `EnginesOwned` say what is safe.
* A process moved after callbacks were connected leaves them with the address of the
  process moved from (`process.cpp:145-216`). `CallbacksFindProcess` is therefore
  checked and proved where none is (`MoveConnected`).
* `root_path()` of a remote of no type is empty, although its comment says "name and
  ":" if it doesn't end with ":"" (`remote.cpp:39`, `45`).
* `add_child_if_not_exist()` looks without the mutex and pushes with it
  (`file.cpp:66-69`): two threads both find nothing and both add, where one finds "child
  already exists, no new child added" (`rclone_file_test.cpp:202`). `AddedOncePerThread`
  is how far that goes.
* `add_child()` pushes before it looks at the parent (`file.cpp:59-61`): when it throws
  "Parent is not the same as the child parent", the child is in the file all the same.
* A directory moved leaves its children with a `_parent` that is what it was moved from
  (`file.cpp:97-111`), so that `path()` (`file.cpp:158-170`) is not their path; and adding
  to what is left locks a mutex that is not there. `PathsAreListed` is checked and proved
  where only other files are moved.
* A file removed while a parser is in it, or below it, is destroyed under the parser's
  hands (`file.cpp:75`, `file_parser.cpp:40`, `131`); the parser ends in undefined.
  `PathsAreListed` speaks of the entries that are still there.

## 5. Fairness

Liveness is checked under weak fairness of each thread of the library, of the
child's progress, and of a call that has begun. That is what an operating system
gives to threads that are not blocked. Nothing forces a client to begin a call, a
child to fail, a process to be given input, or a spurious wake-up to occur: the
last matters, because fair spurious wake-ups would hide every lost notification.
In a pool each child ends in the end; the engine's child ends when its lines are
written and it has its input, so `ProcessEnds` and `CallsReturn` suppose
`InputSettled`. Mutexes need no strong fairness in the runs: in `PoolWalks` one
client calls, and the scheduler cannot take the mutex infinitely often, because it
launches finitely many processes.

## 6. Proofs

`ProcessProofs` proves, for every set of clients, all calls they make, any number
of lines and any size of pipes (assuming `ConstantsAssumption`: only the owner
executes, joins and destroys the object, and destroys it when nobody else uses it):

* `TypeCorrect`, `FinishIsComplete`, `OutputIsComplete`, `DrainIsSafe`,
  `DestroyedIsQuiet`, `StopIsFinal`: the safety properties of the runs;
* `Refinement`: `Spec => Lifecycle!Spec`, each action of the engine with the step
  of the abstract process it is, or a stutter;
* `EndIsReported`: by `Refinement` and the theorem `Reported` of
  `ProcessLifecycleProofs`, the end of a process is reported by on_finish or
  on_stop. The pool, which counts reports, rests on it.

The invariant. None of these properties is inductive. `IInv` has two parts.
`Control` is about places: each thread is at a place of its own code (`Places`),
only the owner executes and destroys (`OwnerOnly`), which threads exist follows
from where `execute()` is (`NotLaunched`, `Pushed`), the waiter is past its wait only
if the child is dead or was killed (`WaiterKnows`), the counter counts readers that
are done (`Counted`), and the heart of it, `StopHolds`: whoever kills the child or
interrupts a thread has stored `stopped`, and no thread can overwrite that any more,
because the waiter has then not passed its check; `Hosted` says that a callback is in a
call only while its host is inside the application. `Data` is about lines: a reader
that is done has read all, or was cut (`Drained`), and `_error` holds the lines taken
but for the one in hand (`ErrorStored`), as `_output` does when only one reader appends
to it (`OutputStored`). `Control` is inductive by itself; `Data`
needs it. Both are proved with a step per action; `Quiet` collects what the actions
that do not touch the lines leave alone.

`ProcessLifecycleProofs` does the same for the abstract process, for any number of
threads in `stop()`.

`OwnershipProofs` proves the four invariants of `Ownership` for any handles, cells and
classes of them (`ConstantsAssumption`). `TypeOK` and `OwnedOnce` are inductive together
(`IInv`): fresh memory is nobody's because every pointer is to memory in use. Two
lemmas carry the actions, one for those that take a pointer from another object
(`TakeKeepsOwner`), one for those that allocate (`FreshKeepsOwner`). `NoEngineLost`
and `CallbacksSafe` rest on `IInv`: deleting one's engine must not free another's.

`ProcessPoolProofs` proves, for any processes, priorities, clients, calls and limits
(`ConstantsAssumption`: only the owner destroys the pool), `TypeCorrect`,
`StopIsAlmostPrompt`, `ClearIsQuiet`, `KeepsContract` (the pool implements
`PoolContract`) and `ProcessesKeepContract` (each of its processes implements
`ProcessLifecycle`). `IInv` is seven parts: `Types`; `Holding`, who has `_mutex`, and
which thread is at a place that needs it; `Lives`, how the state of a process follows
from where its threads are; `Sorted`, the map's order; `Sized`, `_process_counter` is
the size of the map; `Cleared`, what a clear has walked past does not run; `OneLate`,
a scheduler that launched a process late looks at the state before it launches another.

`ProcessPoolCountProofs` rests on it and counts. Cardinalities of what the callbacks
have done are compared with the counters: `Balanced` says that running, plus the
callbacks, plus a launch not yet counted is launched plus a multiple of 2^16, at every
step and not only when the mutex is free. From it follow

* `CountIsExact` for finitely many clients and fewer than 65536 processes, if nobody
  calls `stop_all_processes()` (which sets the count, see `PoolOverLimit`);
* `LimitIsKept` (`WithinLimit`) if clients add, wait and set the limit only: the
  processes launched and not yet counted down are within the largest limit set;
* `WaitIsHonest` (`Honest`: `EndsByItself`, `Sizes`, `SeenIsSize`) under the same
  condition and `Guarded`.

`Recursion` is what makes induction possible. The induction theorems of the library take
an operator for a parameter, which the provers cannot be given; so the lemmas here are
about sets and functions: a set that has 0, and with each n the next, has all numbers
(`UpTo`, `FromSmaller`); a function whose value at n is made of that at n - 1 by a given
step exists (`RecursionExists`), so that a `CHOOSE`n one, which is what a recursive
definition means, has its equations. They come from `LeastMember`, and that from the
well-founded order of finite sets. A property is put as the set of the numbers that have
it.

`ProcessCommandProofs` proves, for any words, operands and options and any calls:

* `CommandTypes`: the state keeps its type, by induction over the options of a vector and
  the words of an option;
* `CommandsAreTrue`: what `commands()` says is what runs. The invariant has one part for a
  process not yet launched, whose command line may still change but then makes what was
  said unknown (`Foretold`), and one for a launched one (`Recalled`). The text of a command
  is the same term on both sides, so nothing need be known about how words are put in a
  row;
* `WhatRunsIsWellFormed`, which needs just that: options are added after what a builder
  put into `_args`, so the name of a command and its operands stay where they are. The
  hypothesis `OptionsBegin` says that no option begins like a command with requirements;
  a process without a builder would run its options as a command, and the option classes
  of `include/iridium/options` all begin with dashes.

`FileTreeProofs` proves about edits `AddedAtMostOncePerThread`, for any threads, names and
files. With several threads the scan may be out of date at the push, so what is inductive
is a count (`AddedTogether`): the equal children of a directory, plus the threads that
found none and are about to push one (`Pushers`), are no more than the threads that add.
A scan that finds nothing is made when there is no such child, and then the pushers are
threads, each counted once; a push turns a pusher into a child; a removal leaves no
child of that name.

About listings it proves, as long as no directory is moved or assigned to,

* `TreeTypes`: `Tree` and `AtWork`, that the tree is well formed and each thread at a
  directory of it, are inductive with `Busy`;
* `ListedEntriesAreThere`: where nobody removes, moves or assigns, every line that was
  parsed has its entry, and one comes to it from the root, child by child;
* `ListedPaths` and `ListedAbsolutePaths`: `path()` and `absolute_path()` of an entry are
  what its line says, for any lines, any number of threads that list, add, copy, move,
  assign and remove meanwhile, and any remotes. The assumptions on the constants are
  `ConstantsAssumption`, `UsesAssumption` (what a thread may do; there are finitely many)
  and `RootNamesAssumption` (the root is called "/" or nothing). The hypothesis is
  `Usual`, of which TLC
  checks that the instance of `Tree` satisfies it (`UsesAreUsual`):

  | Part | Says | Because |
  |---|---|---|
  | `~MoveDirectories` | no directory is moved or assigned to | else its children keep a pointer to what is left of it (`file.cpp:97-131`) |
  | `PathsHaveNames` | no name in a line is empty or a slash | `rclone` writes none |
  | `DirectoriesAreListed` | a line of `lsjson` comes after those of the directories it is in | else `json_parse()` skips them (`file_parser.cpp:88`) |
  | `ListedAlone` | a thread parses one format; nobody adds files of the tree to others of it while it is listed, nor removes anything while `lsjson` is | `json_parse()` again, and `add_child()` (`file.cpp:56-62`), which lets a directory be its own parent |

The invariant behind the last two is `Places`: there is a function `P` from directories to
paths and a function `M` from paths to directories such that `Known(P, M)`. `P` has every
directory that a parser may come to: it is the root, with the empty path, or was made
later than its parent, and its path is that of its parent and its name; every listed entry
is in one of them, and a thread on its way down is at the one whose path it has behind it
(`PlacedTree`, `PlacedThread`). That would do for `lsl`, whose parser makes what it does
not find. For `lsjson`, `M` says what the parser *does* find: the first child of that name
that is a directory (`Down`), which stays the first when more are pushed behind it
(`DownStays`), and is in `M` as soon as the line of the directory is parsed (`FoundTree`,
`FoundThread`). The two are not inverse: a directory may be there twice, listed by
`lsjson` and made by `lsl`, and both have the same path. `P` and `M` are quantified inside
the invariant and grow from step to step (`KnownPush`); a removal forgets `M`. There is a
lemma for each action, and `KnownStep` puts them together.

What `path()` computes from `_parent` is then found by induction along `P`, whose parents
come before their children (`WordsOfPlaces`): the words of the root, then those of the
path. How several slashes read as one is an induction over the words: `CollapseJoined` says
that what follows reads the same after what reads the same, `SlashBefore` that a slash
before a path is lost, `WrittenStays` that a written path is read as it is.

`ListedEntriesAreThere` goes the other way, from the root down (`EntryFound`, an induction
along `P` again). It needs that every directory with a place, and the entry of every
parsed line, is among the children of its parent (`LinksKnown`); `add_child()` makes it so
(`PushedHangs`), and no step but a removal, a move or an assignment undoes it (`HangsOn`).

`DirectoriesListedOnce` says that while somebody lists, a directory is in the tree once
(`DirectoriesOnce`). It needs one more hypothesis, which the instance of `Tree` satisfies
too:

| Part | Says | Because |
|---|---|---|
| `ListedOnce` | two threads do not list the same directory | each of them adds its own: `json_parse()` does not look (`file_parser.cpp:98`), and between the look of `lsl_parse()` and its `add_child()` (`file_parser.cpp:125-130`) the other may add. The property itself leaves out applications that remove: what is below a directory that was removed is still linked from it when the directory is made again |

Its invariant adds to `Known(P, M)` what `Once(P)` says, for the same `P`: no two
directories have the same place, and every child that is a directory has one
(`OnceTree`); what keeps it so is said of each thread (`OnceThread`). A line of `lsjson`
that is still to be parsed, or is being parsed, names no place that is taken, since each
line comes once. A thread of `lsl` that is about to make a directory (`"make"`) has a free
place for it, and keeps it although others push meanwhile, since theirs are elsewhere
(`OnceOthers`); it got there because it found nothing, and it finds each directory of
its own listing that is there, because those it makes are equal, in size and time too, to
those it looks for (`OnceWalkLsl`, and the hazard at `file_parser.cpp:125`). `P` is the
one that `KnownStep` gives: `Follows` says that it grows only where a parser adds a file.
That there are then as many paths as directories is `OncePaths`: different places are
written differently (`WrittenApart`), and the root's path, a single slash, like none of
them (`PathsApart`). Where nobody lists
the code does not promise it: it holds in the instance because the application has one
directory at hand, and fails where one adds two of a name.

Only model-checked: the liveness properties (`ProcessEnds`, `FinishReported`,
`CallsReturn`, `MutexReleased`), out of the prover's reach. Every invariant and every
action property of the passing runs is stated by a theorem, under the hypotheses named here.

## 7. Not modelled, and why

* `wait_for_finish()` called from a callback of the same process: it throws as `stop()`
  does, or waits for ever with a full pipe; and on_stop callbacks that call back.
* Callbacks of the application that call back into the pool.
* The setters of a file (`set_parent`, `set_name` and the others), which may make any
  tree of any other.
* What the callbacks do that `list_remotes()` and the parsers connect: they run in
  on_finish or on a reader thread, and one that throws ends the program.
* `clean_data()`, and the parsers other than those of files: functions of one text.
* Regular expressions, JSON, printing, dates, the text of options: functions of
  one text without state.
* Exceptions of Boost inside `stop()`; partial or blocking writes to the child's
  input; Windows.
* Build files, packaging, tests: the tests are read for what they expect.

## 8. Plan

Order: the engine first, because everything else runs on it; then the pool, the
command line, the tree. Then ownership, which stands alone. All five are modelled,
checked and, but for what section 6 lists, proved. What is left, in the order of
what it would add:

1. Callbacks of the application as clients of the pool: `Host` of `Process` in
   `ProcessPool`, where an on_finish callback that adds a process takes `_mutex`.
2. `wait_for_finish()` and on_stop callbacks as calls of a callback in `Process`.
3. The callback that `list_remotes()` connects, as steps of the thread that calls it.
4. The setters of files, with what of `PathsAreListed` is left.
