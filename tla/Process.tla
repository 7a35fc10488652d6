------------------------------ MODULE Process ------------------------------
(***************************************************************************)
(* The engine of iridium::rclone::process: process::_process_impl_ of      *)
(* src/src/process/process_impl.cpp, the child it starts, and the threads  *)
(* that call it.                                                           *)
(*                                                                         *)
(* execute() starts the child and four threads: one that calls on_start,   *)
(* two that read the child's pipes line by line, and one that waits for    *)
(* the child, settles the state and calls on_finish.  None of the fields   *)
(* they share is guarded by a lock: _mutex is held by wait_for_start()     *)
(* alone.  Each action is one step of one thread between two accesses to   *)
(* shared fields; a client is a thread of the application, or a callback   *)
(* that calls back into the process from one of the four threads, and what *)
(* it may call is a parameter.                                             *)
(***************************************************************************)
EXTENDS Naturals, Sequences, FiniteSets

CONSTANTS
  Clients,     \* threads of the application, and callbacks
  Host,        \* Host[c]: the thread that runs the callback c, or "none"
  Owner,       \* the client that executes, joins and destroys the process
  MayCall,     \* MayCall[c]: the functions client c calls
  Lines,       \* Lines[s]: how many lines the child writes to stream s
  PipeCap,     \* how many lines a pipe holds
  NeedsInput   \* does the child read its input before it ends?

Streams == {"out", "err"}
Threads == {"start", "out", "err", "wait"}
Order == <<"start", "out", "err", "wait">>   \* the elements of _threads, as pushed
Calls == {"execute", "wait_for_start", "wait_for_finish", "write_input", "stop",
          "close_input_pipe", "close_output_pipe", "close_error_pipe", "destroy"}

ASSUME ConstantsAssumption ==
  /\ Host \in [Clients -> Threads \cup {"none"}]
  /\ Owner \in Clients /\ Host[Owner] = "none"
  /\ MayCall \in [Clients -> SUBSET Calls]
  /\ \A c \in Clients \ {Owner} :
        MayCall[c] \cap {"execute", "wait_for_finish", "destroy"} = {}
  /\ Lines \in [Streams -> Nat]
  /\ PipeCap \in Nat \ {0}
  /\ NeedsInput \in BOOLEAN

VARIABLES
  state,        \* _state
  child,        \* _child: none, alive, killed (the signal is sent), exited
  code,         \* the exit code of an exited child
  written,      \* lines the child has written to each stream
  fed,          \* has the child got input?
  pipe,         \* _out and _err: null, open, closed
  inPipe,       \* _in: null, open, closed
  taken,        \* lines std::getline has returned from each stream
  output,       \* _output: stream and number of each line
  error,        \* _error: number of each line
  counter,      \* _counter_read
  interrupted,  \* threads whose interrupt() was called
  tpc,          \* where each thread of _threads is
  pc,           \* where each client is
  joining,      \* the element of _threads a client in stop() is at
  destroying,   \* is the owner inside the destructor?
  prog,         \* the program: up, or how it ended
  cut,          \* (history) streams whose pipe a client closed
  finishes,     \* (history) calls of on_finish
  stops         \* (history) clients that called on_stop

childVars   == <<child, code, written, fed>>
pipeVars    == <<pipe, inPipe, taken>>
dataVars    == <<output, error, counter>>
clientVars  == <<pc, joining, destroying>>
historyVars == <<cut, finishes, stops>>
vars == <<state, childVars, pipeVars, dataVars, interrupted, tpc, clientVars,
          prog, historyVars>>

-----------------------------------------------------------------------------
Init ==
  /\ state = "not_launched"
  /\ child = "none" /\ code = 0
  /\ written = [s \in Streams |-> 0] /\ fed = FALSE
  /\ pipe = [s \in Streams |-> "null"] /\ inPipe = "null"
  /\ taken = [s \in Streams |-> 0]
  /\ output = <<>> /\ error = <<>> /\ counter = 0
  /\ interrupted = {}
  /\ tpc = [t \in Threads |-> "none"]
  /\ pc = [c \in Clients |-> "idle"]
  /\ joining = [c \in Clients |-> 1] /\ destroying = FALSE
  /\ prog = "up"
  /\ cut = {} /\ finishes = 0 /\ stops = {}

\* nothing moves once the program is over
Up == prog = "up"

Goto(c, from, to) == Up /\ pc[c] = from /\ pc' = [pc EXCEPT ![c] = to]
Step(t, from, to) == Up /\ tpc[t] = from /\ tpc' = [tpc EXCEPT ![t] = to]

Ended(t) == tpc[t] \in {"done", "aborted"}
\* a join of t returns; an element not pushed yet is not joined
Joinable(t) == tpc[t] = "none" \/ Ended(t)
Other(s) == IF s = "out" THEN "err" ELSE "out"

\* a thread calls the callbacks of the application
InCallback(t) == tpc[t] \in {"signal", "fire"}

\* and waits for what they call
Returned(t) == \A c \in Clients : Host[c] = t => pc[c] = "idle"

\* The application destroys a process once, when no thread of its own uses it.
\* A callback may call it at any time, from within the destructor too.
MayBegin(c, call) ==
  /\ Up /\ pc[c] = "idle" /\ call \in MayCall[c]
  /\ IF Host[c] = "none" THEN ~destroying /\ pc[Owner] # "gone" ELSE InCallback(Host[c])

-----------------------------------------------------------------------------
(***************************************************************************)
(* The child.  It writes its lines, blocks on a full pipe, dies when a     *)
(* pipe it writes to was closed, and may fail at any time.                 *)
(***************************************************************************)
ChildWrite(s) ==
  /\ Up /\ child = "alive"
  /\ written[s] < Lines[s] /\ written[s] - taken[s] < PipeCap
  /\ pipe[s] = "open"
  /\ written' = [written EXCEPT ![s] = @ + 1]
  /\ UNCHANGED <<state, child, code, fed, pipeVars, dataVars, interrupted, tpc,
                 clientVars, prog, historyVars>>

Exit(c) ==
  /\ Up
  /\ child' = "exited" /\ code' = c
  /\ UNCHANGED <<state, written, fed, pipeVars, dataVars, interrupted, tpc,
                 clientVars, prog, historyVars>>

ChildFinish ==
  /\ child = "alive"
  /\ \A s \in Streams : written[s] = Lines[s]
  /\ NeedsInput => fed \/ inPipe = "closed"
  /\ Exit(0)

ChildBroken ==
  /\ child = "alive"
  /\ \E s \in Streams : pipe[s] # "open" /\ written[s] < Lines[s]
  /\ Exit(1)

ChildFail == child = "alive" /\ Exit(1)

ChildKilled == child = "killed" /\ Exit(1)

-----------------------------------------------------------------------------
(***************************************************************************)
(* The thread that calls on_start.                                         *)
(***************************************************************************)
CallStart ==
  /\ Returned("start") /\ Step("start", "fire", "done")
  /\ UNCHANGED <<state, childVars, pipeVars, dataVars, interrupted, clientVars,
                 prog, historyVars>>

\* a mistake: one thread reads both pipes, _err after _out
GetLine_ErrLast(s) ==
  /\ taken[s] < written[s]
  /\ s = "err" => tpc["out"] \in {"count", "done"}
  /\ Step(s, "getline", IF s \in interrupted THEN "aborted" ELSE "append")
  /\ taken' = [taken EXCEPT ![s] = @ + 1]
  /\ UNCHANGED <<state, childVars, pipe, inPipe, dataVars, interrupted,
                 clientVars, prog, historyVars>>

(***************************************************************************)
(* read_output() and read_error(): std::getline returns a line, blocks on  *)
(* an empty pipe, or fails at the end of the stream; on a pipe a client    *)
(* has closed it returns what is buffered, or fails.  An interrupted       *)
(* thread ends at the interruption point, before it stores the line.       *)
(***************************************************************************)
GetLine(s) ==
  /\ taken[s] < written[s]
  /\ Step(s, "getline", IF s \in interrupted THEN "aborted" ELSE "append")
  /\ taken' = [taken EXCEPT ![s] = @ + 1]
  /\ UNCHANGED <<state, childVars, pipe, inPipe, dataVars, interrupted,
                 clientVars, prog, historyVars>>

\* a mistake: the end of the child is taken for the end of the stream
EndOfStream_AtExit(s) ==
  /\ pipe[s] = "closed" \/ child = "exited"
  /\ Step(s, "getline", "reset")
  /\ UNCHANGED <<state, childVars, pipeVars, dataVars, interrupted, clientVars,
                 prog, historyVars>>

EndOfStream(s) ==
  /\ \/ pipe[s] = "closed"
     \/ child = "exited" /\ taken[s] = written[s]
  /\ Step(s, "getline", "reset")
  /\ UNCHANGED <<state, childVars, pipeVars, dataVars, interrupted, clientVars,
                 prog, historyVars>>

(***************************************************************************)
(* The two emplace_back of a line.  Both readers append to _output with no *)
(* lock: when the other one is there too, either line may be lost, or the  *)
(* vector breaks.                                                          *)
(***************************************************************************)
AppendLine(s) ==
  /\ Step(s, "append", "signal")
  /\ error' = IF s = "err" THEN Append(error, taken[s]) ELSE error
  /\ \/ output' = Append(output, <<s, taken[s]>>) /\ UNCHANGED prog
     \/ /\ tpc[Other(s)] = "append"
        /\ UNCHANGED output
        /\ prog' \in {"up", "undefined"}
  /\ UNCHANGED <<state, childVars, pipeVars, counter, interrupted, clientVars,
                 historyVars>>

\* the every_line callbacks run while the reader is at "signal"
EveryLine(s) ==
  /\ Returned(s) /\ Step(s, "signal", "getline")
  /\ UNCHANGED <<state, childVars, pipeVars, dataVars, interrupted, clientVars,
                 prog, historyVars>>

\* a mistake: read_output() counts too
ResetPipe_Counts(s) ==
  /\ Step(s, "reset", "count")
  /\ pipe' = [pipe EXCEPT ![s] = "null"]
  /\ counter' = counter + 1
  /\ UNCHANGED <<state, childVars, inPipe, taken, output, error, interrupted,
                 clientVars, prog, historyVars>>

ResetPipe(s) ==
  /\ Step(s, "reset", "count")
  /\ pipe' = [pipe EXCEPT ![s] = "null"]
  /\ UNCHANGED <<state, childVars, inPipe, taken, dataVars, interrupted,
                 clientVars, prog, historyVars>>

\* a mistake: the thread that reads _err does not count
CountRead_OutOnly(s) ==
  /\ Step(s, "count", "done")
  /\ counter' = IF s = "out" THEN counter + 1 ELSE counter
  /\ UNCHANGED <<state, childVars, pipeVars, output, error, interrupted,
                 clientVars, prog, historyVars>>

CountRead(s) ==
  /\ Step(s, "count", "done")
  /\ counter' = counter + 1
  /\ UNCHANGED <<state, childVars, pipeVars, output, error, interrupted,
                 clientVars, prog, historyVars>>

\* a mistake: the thread does not wait for the child
WaitChild_NoWait ==
  /\ Step("wait", "wait", "check")
  /\ UNCHANGED <<state, childVars, pipeVars, dataVars, interrupted, clientVars,
                 prog, historyVars>>

(***************************************************************************)
(* The thread that waits for the child: the wait, the check of the state,  *)
(* the store, the loop on _counter_read, and on_finish.  A child that      *)
(* terminate() was called on need not be waited for: running() denies it.  *)
(***************************************************************************)
WaitChild ==
  /\ child \in {"killed", "exited"}
  /\ Step("wait", "wait", "check")
  /\ UNCHANGED <<state, childVars, pipeVars, dataVars, interrupted, clientVars,
                 prog, historyVars>>

\* a mistake: the state is not checked
CheckStopped_Missing ==
  /\ Step("wait", "check", "set")
  /\ UNCHANGED <<state, childVars, pipeVars, dataVars, interrupted, clientVars,
                 prog, historyVars>>

CheckStopped ==
  /\ Step("wait", "check", IF state # "stopped" THEN "set" ELSE "done")
  /\ UNCHANGED <<state, childVars, pipeVars, dataVars, interrupted, clientVars,
                 prog, historyVars>>

SetOutcome ==
  /\ Step("wait", "set", "drain")
  /\ state' = IF code = 0 THEN "finished" ELSE "error"
  /\ UNCHANGED <<childVars, pipeVars, dataVars, interrupted, clientVars, prog,
                 historyVars>>

\* a mistake: one reader is enough
WaitReaders_One ==
  /\ ~(counter < 1)
  /\ Step("wait", "drain", "fire")
  /\ UNCHANGED <<state, childVars, pipeVars, dataVars, interrupted, clientVars,
                 prog, historyVars>>

WaitReaders ==
  /\ ~(counter < 2)
  /\ Step("wait", "drain", "fire")
  /\ UNCHANGED <<state, childVars, pipeVars, dataVars, interrupted, clientVars,
                 prog, historyVars>>

CallFinish ==
  /\ Returned("wait") /\ Step("wait", "fire", "done")
  /\ finishes' = finishes + 1
  /\ UNCHANGED <<state, childVars, pipeVars, dataVars, interrupted, clientVars,
                 prog, cut, stops>>

ReaderStep(s) ==
  \/ GetLine(s) \/ EndOfStream(s) \/ AppendLine(s)
  \/ EveryLine(s) \/ ResetPipe(s) \/ CountRead(s)

WaiterStep ==
  WaitChild \/ CheckStopped \/ SetOutcome \/ WaitReaders \/ CallFinish

-----------------------------------------------------------------------------
(***************************************************************************)
(* execute(): the child is started (a failure to start it exits the        *)
(* program), the state is set, and the threads are pushed one by one, with *)
(* the wake-up of wait_for_start() after the first.                        *)
(***************************************************************************)
ExecuteSpawn(c) ==
  /\ MayBegin(c, "execute") /\ state = "not_launched"
  /\ \/ /\ child' = "alive"
        /\ pipe' = [s \in Streams |-> "open"] /\ inPipe' = "open"
        /\ Goto(c, "idle", "ex_running")
        /\ UNCHANGED prog
     \/ /\ prog' = "exit"
        /\ UNCHANGED <<child, pipe, inPipe, pc>>
  /\ UNCHANGED <<state, code, written, fed, taken, dataVars, interrupted, tpc,
                 joining, destroying, historyVars>>

ExecuteRunning(c) ==
  /\ Goto(c, "ex_running", "ex_start")
  /\ state' = "running"
  /\ UNCHANGED <<childVars, pipeVars, dataVars, interrupted, tpc, joining,
                 destroying, prog, historyVars>>

\* push_back may move the vector under a stop() that walks through it
InJoinLoop(c) == pc[c] \in {"st_interrupt", "st_join"}

Push(c, from, t, place, to) ==
  /\ Goto(c, from, to)
  /\ Step(t, "none", place)
  /\ prog' \in IF \E d \in Clients : InJoinLoop(d) THEN {prog, "undefined"} ELSE {prog}
  /\ UNCHANGED <<state, childVars, pipeVars, dataVars, interrupted, joining,
                 destroying, historyVars>>

ExecutePush(c) ==
  \/ Push(c, "ex_start", "start", "fire", "ex_notify")
  \/ Push(c, "ex_out", "out", "getline", "ex_err")
  \/ Push(c, "ex_err", "err", "getline", "ex_wait")
  \/ Push(c, "ex_wait", "wait", "wait", "idle")

\* notify_all wakes the clients that sleep now; each checks its predicate again
Woken(f) == [d \in Clients |-> IF f[d] = "ws_asleep" THEN "ws_check" ELSE f[d]]

OnlyPc == UNCHANGED <<state, childVars, pipeVars, dataVars, interrupted, tpc,
                      joining, destroying, prog, historyVars>>

ExecuteNotify(c) ==
  /\ Up /\ pc[c] = "ex_notify"
  /\ pc' = Woken([pc EXCEPT ![c] = "ex_out"])
  /\ OnlyPc

Execute(c) == ExecuteRunning(c) \/ ExecutePush(c) \/ ExecuteNotify(c)

-----------------------------------------------------------------------------
(***************************************************************************)
(* wait_for_start(): the check of the predicate and the sleep are two      *)
(* steps, because neither the store of the state nor notify_all is made    *)
(* under _mutex.  The lock only keeps other callers out of the two.        *)
(***************************************************************************)
WaitForStart(c) ==
  /\ MayBegin(c, "wait_for_start") /\ Goto(c, "idle", "ws_check") /\ OnlyPc

StartCheck(c) ==
  /\ \A d \in Clients : pc[d] # "ws_sleep"
  /\ Goto(c, "ws_check", IF state = "running" THEN "idle" ELSE "ws_sleep")
  /\ OnlyPc

StartSleep(c) == Goto(c, "ws_sleep", "ws_asleep") /\ OnlyPc

SpuriousWakeup(c) == Goto(c, "ws_asleep", "ws_check") /\ OnlyPc

(***************************************************************************)
(* wait_for_finish(): joins every thread pushed so far, in order; joining  *)
(* changes nothing, so the walk is one step, taken when all have ended.    *)
(***************************************************************************)
WaitForFinish(c) ==
  /\ MayBegin(c, "wait_for_finish") /\ Goto(c, "idle", "wf_join") /\ OnlyPc

FinishJoined(c) ==
  /\ \A t \in Threads : Joinable(t)
  /\ Goto(c, "wf_join", "idle")
  /\ OnlyPc

(***************************************************************************)
(* write_input(): the state is checked, then the pipe is written; on a     *)
(* pipe whose reader is gone the write raises SIGPIPE.                     *)
(***************************************************************************)
WriteInput(c) ==
  /\ MayBegin(c, "write_input") /\ state = "running"
  /\ Goto(c, "idle", "wi_write") /\ OnlyPc

WriteCheck(c) == Goto(c, "wi_write", IF inPipe = "open" THEN "wi_pipe" ELSE "idle") /\ OnlyPc

\* a pipe that was closed since fails the call
WriteStep(c) ==
  /\ Goto(c, "wi_pipe", "idle")
  /\ fed' = (fed \/ (inPipe = "open" /\ child = "alive"))
  /\ prog' = IF inPipe = "open" /\ child = "exited" THEN "sigpipe" ELSE prog
  /\ UNCHANGED <<state, child, code, written, pipeVars, dataVars, interrupted,
                 tpc, joining, destroying, historyVars>>

(***************************************************************************)
(* close_input_pipe(), close_output_pipe() and close_error_pipe().  The    *)
(* last two test the pointer and use it later: a reader that resets it in  *)
(* between leaves a null pointer to be used.                               *)
(***************************************************************************)
CloseInputPipe(c) ==
  /\ MayBegin(c, "close_input_pipe") /\ inPipe = "open"
  /\ inPipe' = "closed"
  /\ UNCHANGED <<state, childVars, pipe, taken, dataVars, interrupted, tpc,
                 clientVars, prog, historyVars>>

CloseCall(s) == IF s = "out" THEN "close_output_pipe" ELSE "close_error_pipe"
Closing(s)   == IF s = "out" THEN "co_close" ELSE "ce_close"

ClosePipe(c, s) ==
  /\ MayBegin(c, CloseCall(s)) /\ pipe[s] = "open"
  /\ Goto(c, "idle", Closing(s)) /\ OnlyPc

CloseStep(c, s) ==
  /\ Goto(c, Closing(s), "idle")
  /\ pipe' = IF pipe[s] = "open" THEN [pipe EXCEPT ![s] = "closed"] ELSE pipe
  /\ prog' = IF pipe[s] = "null" THEN "undefined" ELSE prog
  /\ cut' = cut \cup {s}
  /\ UNCHANGED <<state, childVars, inPipe, taken, dataVars, interrupted, tpc,
                 joining, destroying, finishes, stops>>

-----------------------------------------------------------------------------
(***************************************************************************)
(* stop(): check, store, on_stop, close the input, terminate the child,    *)
(* and, if it still runs, interrupt and join each thread in turn.  The     *)
(* destructor calls it too.                                                *)
(***************************************************************************)
Stop(c) ==
  /\ MayBegin(c, "stop") /\ state = "running"
  /\ Goto(c, "idle", "st_set") /\ OnlyPc

\* a mistake: stop() leaves the state to the waiting thread
StopSet_NoStore(c) ==
  /\ Goto(c, "st_set", "st_signal")
  /\ UNCHANGED <<state, childVars, pipeVars, dataVars, interrupted, tpc, joining,
                 destroying, prog, historyVars>>

StopSet(c) ==
  /\ Goto(c, "st_set", "st_signal")
  /\ state' = "stopped"
  /\ UNCHANGED <<childVars, pipeVars, dataVars, interrupted, tpc, joining,
                 destroying, prog, historyVars>>

\* a mistake: stop() has nothing to report of a child that is dead
StopSignal_DeadChild(c) ==
  /\ Goto(c, "st_signal", "st_close")
  /\ stops' = IF child = "exited" THEN stops ELSE stops \cup {c}
  /\ UNCHANGED <<state, childVars, pipeVars, dataVars, interrupted, tpc, joining,
                 destroying, prog, cut, finishes>>

StopSignal(c) ==
  /\ Goto(c, "st_signal", "st_close")
  /\ stops' = stops \cup {c}
  /\ UNCHANGED <<state, childVars, pipeVars, dataVars, interrupted, tpc, joining,
                 destroying, prog, cut, finishes>>

StopClose(c) ==
  /\ Goto(c, "st_close", "st_terminate")
  /\ inPipe' = "closed"
  /\ UNCHANGED <<state, childVars, pipe, taken, dataVars, interrupted, tpc,
                 joining, destroying, prog, historyVars>>

StopTerminate(c) ==
  /\ Goto(c, "st_terminate", "st_running")
  /\ child' = IF child = "alive" THEN "killed" ELSE child
  /\ UNCHANGED <<state, code, written, fed, pipeVars, dataVars, interrupted, tpc,
                 joining, destroying, prog, historyVars>>

\* whether running() still says so of a child just terminated is up to the library
StopRunning(c) ==
  /\ \/ Goto(c, "st_running", "st_notify")
     \/ child = "killed" /\ Goto(c, "st_running", "st_interrupt")
  /\ joining' = [joining EXCEPT ![c] = 1]
  /\ UNCHANGED <<state, childVars, pipeVars, dataVars, interrupted, tpc,
                 destroying, prog, historyVars>>

\* the element of _threads that the loop of stop() is at
Current(c) == Order[joining[c]]

StopInterrupt(c) ==
  /\ Goto(c, "st_interrupt",
          IF tpc[Current(c)] = "none" THEN "st_notify" ELSE "st_join")
  /\ interrupted' = IF tpc[Current(c)] = "none" THEN interrupted
                                                ELSE interrupted \cup {Current(c)}
  /\ UNCHANGED <<state, childVars, pipeVars, dataVars, tpc, joining, destroying,
                 prog, historyVars>>

\* a mistake: a thread may join itself
JoinThrows_Waits(c) ==
  /\ Current(c) = Host[c] /\ Ended(Current(c))
  /\ Goto(c, "st_join", "idle")
  /\ UNCHANGED <<state, childVars, pipeVars, dataVars, interrupted, tpc, joining,
                 destroying, prog, historyVars>>

\* a callback comes to the thread it runs on: join() throws, and the callback
\* catches that or ends the program
JoinThrows(c) ==
  /\ Current(c) = Host[c]
  /\ Goto(c, "st_join", "idle")
  /\ prog' \in {"up", "terminate"}
  /\ UNCHANGED <<state, childVars, pipeVars, dataVars, interrupted, tpc, joining,
                 destroying, historyVars>>

StopJoin(c) ==
  /\ Current(c) # Host[c] /\ Ended(Current(c))
  /\ Goto(c, "st_join", IF joining[c] = Len(Order) THEN "st_notify" ELSE "st_interrupt")
  /\ joining' = [joining EXCEPT ![c] = IF @ = Len(Order) THEN @ ELSE @ + 1]
  /\ UNCHANGED <<state, childVars, pipeVars, dataVars, interrupted, tpc,
                 destroying, prog, historyVars>>

StopNotify(c) ==
  /\ Up /\ pc[c] = "st_notify"
  /\ pc' = Woken([pc EXCEPT ![c] = IF destroying /\ c = Owner THEN "de_join" ELSE "idle"])
  /\ OnlyPc

StopStep(c) ==
  \/ StopSet(c) \/ StopSignal(c) \/ StopClose(c) \/ StopTerminate(c)
  \/ StopRunning(c) \/ StopInterrupt(c) \/ StopJoin(c) \/ JoinThrows(c)
  \/ StopNotify(c)

(***************************************************************************)
(* ~_process_impl_(): it checks the state, and stop() checks it again; a   *)
(* process that ended in between makes stop() throw, and an exception may  *)
(* not leave a destructor.                                                 *)
(***************************************************************************)
Destroy(c) ==
  /\ MayBegin(c, "destroy")
  /\ \A d \in Clients : Host[d] = "none" => pc[d] = "idle"
  /\ Goto(c, "idle", IF state = "running" THEN "de_stop" ELSE "de_join")
  /\ destroying' = TRUE
  /\ UNCHANGED <<state, childVars, pipeVars, dataVars, interrupted, tpc, joining,
                 prog, historyVars>>

DestroyStop(c) ==
  /\ Goto(c, "de_stop", IF state = "running" THEN "st_set" ELSE "de_stop")
  /\ prog' = IF state = "running" THEN prog ELSE "terminate"
  /\ UNCHANGED <<state, childVars, pipeVars, dataVars, interrupted, tpc, joining,
                 destroying, historyVars>>

\* a mistake: the destructor does not join
DestroyJoined_NoJoin(c) == Goto(c, "de_join", "gone") /\ OnlyPc

DestroyJoined(c) ==
  /\ \A t \in Threads : Joinable(t)
  /\ Goto(c, "de_join", "gone")
  /\ OnlyPc

-----------------------------------------------------------------------------
ChildProgress ==
  \/ \E s \in Streams : ChildWrite(s)
  \/ ChildFinish \/ ChildBroken \/ ChildKilled

\* a call that has begun goes on; an application need not begin any
CallStep(c) ==
  \/ Execute(c) \/ StartCheck(c) \/ StartSleep(c) \/ FinishJoined(c)
  \/ WriteCheck(c) \/ WriteStep(c) \/ (\E s \in Streams : CloseStep(c, s))
  \/ StopStep(c) \/ DestroyStop(c) \/ DestroyJoined(c)

BeginCall(c) ==
  \/ ExecuteSpawn(c) \/ WaitForStart(c) \/ WaitForFinish(c) \/ WriteInput(c)
  \/ CloseInputPipe(c) \/ (\E s \in Streams : ClosePipe(c, s))
  \/ Stop(c) \/ Destroy(c)

\* the program is over, or the process is destroyed
Over == (~Up \/ pc[Owner] = "gone") /\ UNCHANGED vars

Next ==
  \/ ChildProgress \/ ChildFail
  \/ CallStart \/ WaiterStep
  \/ \E s \in Streams : ReaderStep(s)
  \/ \E c \in Clients : CallStep(c) \/ BeginCall(c) \/ SpuriousWakeup(c)
  \/ Over

Spec == Init /\ [][Next]_vars

(***************************************************************************)
(* The operating system runs every thread and the child, and a call that   *)
(* has begun goes on.  Nothing makes a client begin a call, the child      *)
(* fail, or a sleeper wake up for no reason.                               *)
(***************************************************************************)
Fairness ==
  /\ WF_vars(ChildProgress)
  /\ WF_vars(CallStart) /\ WF_vars(WaiterStep)
  /\ \A s \in Streams : WF_vars(ReaderStep(s))
  /\ \A c \in Clients : WF_vars(CallStep(c))

FairSpec == Spec /\ Fairness

-----------------------------------------------------------------------------
ReaderPlaces == {"none", "getline", "append", "signal", "reset", "count", "done", "aborted"}
WaiterPlaces == {"none", "wait", "check", "set", "drain", "fire", "done"}
StopPlaces == {"st_set", "st_signal", "st_close", "st_terminate", "st_running",
               "st_interrupt", "st_join", "st_notify"}
ClientPlaces ==
  StopPlaces \cup
  {"idle", "ex_running", "ex_start", "ex_notify", "ex_out", "ex_err", "ex_wait",
   "ws_check", "ws_sleep", "ws_asleep", "wf_join", "wi_write", "wi_pipe", "co_close",
   "ce_close", "de_stop", "de_join", "gone"}

TypeOK ==
  /\ state \in {"not_launched", "running", "finished", "stopped", "error"}
  /\ child \in {"none", "alive", "killed", "exited"}
  /\ code \in {0, 1}
  /\ written \in [Streams -> Nat] /\ \A s \in Streams : written[s] <= Lines[s]
  /\ fed \in BOOLEAN
  /\ pipe \in [Streams -> {"null", "open", "closed"}]
  /\ inPipe \in {"null", "open", "closed"}
  /\ taken \in [Streams -> Nat] /\ \A s \in Streams : taken[s] <= written[s]
  /\ output \in Seq(Streams \X Nat)
  /\ error \in Seq(Nat)
  /\ counter \in 0..2
  /\ interrupted \subseteq Threads
  /\ tpc \in [Threads -> ReaderPlaces \cup WaiterPlaces \cup {"fire"}]
  /\ pc \in [Clients -> ClientPlaces]
  /\ joining \in [Clients -> 1..Len(Order)]
  /\ destroying \in BOOLEAN
  /\ prog \in {"up", "exit", "terminate", "sigpipe", "undefined"}
  /\ cut \subseteq Streams
  /\ finishes \in {0, 1}
  /\ stops \subseteq Clients

(***************************************************************************)
(* When on_finish is called everything is settled: the child is dead, both *)
(* readers have ended, every line the child wrote has been read (unless a  *)
(* client closed the pipe), and get_error() returns them all, in order.    *)
(* The waiting thread learns this from _counter_read alone.                *)
(***************************************************************************)
FinishSeesAll ==
  tpc["wait"] = "fire" =>
    /\ child = "exited"
    /\ \A s \in Streams : tpc[s] = "done" /\ (s \notin cut => taken[s] = written[s])
    /\ error = [i \in 1..taken["err"] |-> i]

(***************************************************************************)
(* A child that writes to one stream only: get_output() has its lines, all *)
(* of them and in order, when on_finish is called.                         *)
(***************************************************************************)
OutputComplete ==
  \A s \in Streams :
    Lines[Other(s)] = 0 /\ tpc["wait"] = "fire" =>
      output = [i \in 1..taken[s] |-> <<s, i>>]

(***************************************************************************)
(* The thread that waits for the child spins until both readers have       *)
(* counted.  A reader that stop() interrupts never counts, so the two must *)
(* not meet: the spin would never end, and no join of that thread either.  *)
(***************************************************************************)
DrainNotAborted ==
  tpc["wait"] \in {"set", "drain", "fire"} =>
    \A s \in Streams : tpc[s] # "aborted"

(***************************************************************************)
(* The threads use the fields of the object, and so do the calls that a    *)
(* callback makes: when the object is gone none of the threads runs, no    *)
(* call is under way, and the child has ended or was killed.  (No detached *)
(* thread, no orphan.)                                                     *)
(***************************************************************************)
NothingOutlives ==
  pc[Owner] = "gone" =>
    /\ child # "alive" /\ \A t \in Threads : Joinable(t)
    /\ \A c \in Clients \ {Owner} : pc[c] = "idle"

(***************************************************************************)
(* After wait_for_finish() or stop() returns, is_running() is false: no    *)
(* store of a racing thread makes a process run again.                     *)
(***************************************************************************)
ReturnsNotRunning ==
  [][\A c \in Clients :
       (pc[c] = "wf_join" /\ tpc["wait"] # "none") \/ pc[c] = "st_notify" =>
         (pc'[c] # pc[c] => state' # "running")]_vars

(***************************************************************************)
(* The process ends: whatever the sizes of the pipes, and however many     *)
(* lines the child writes to either, each of its threads ends, provided    *)
(* that a child that reads its input gets some, or loses its input.        *)
(***************************************************************************)
Gone == prog # "up" \/ \A t \in Threads : Ended(t)
InputSettled == ~NeedsInput \/ fed \/ inPipe = "closed"

ProcessEnds == (tpc["wait"] = "wait" /\ InputSettled) ~> Gone

(***************************************************************************)
(* stop(), wait_for_finish() and the destructor return: they join threads  *)
(* that read pipes, wait for the child and wait for each other.  A stop()  *)
(* called from a callback returns too, or throws: it never waits for ever  *)
(* for the thread it runs on, nor do two stop() wait for each other.       *)
(***************************************************************************)
CallsReturn ==
  \A c \in Clients :
    (pc[c] \in {"st_set", "wf_join", "de_join"} /\ InputSettled)
      ~> (prog # "up" \/ pc[c] \in {"idle", "gone"})

(***************************************************************************)
(* A process that ends by itself, with nobody stopping it, is reported.    *)
(***************************************************************************)
FinishReported ==
  (child = "exited") ~> (finishes = 1 \/ stops # {} \/ prog # "up")

(***************************************************************************)
(* The abstract process this one implements.                               *)
(***************************************************************************)
WaiterAt(p) ==
  CASE p = "check" -> "wait"
    [] p \in {"drain", "fire"} -> "report"
    [] OTHER -> p

StopperAt(p) ==
  CASE p = "st_set" -> "checked"
    [] p = "st_signal" -> "set"
    [] OTHER -> "none"

Lifecycle == INSTANCE ProcessLifecycle WITH
  Stoppers <- Clients,
  alive    <- state # "not_launched" /\ child = "alive",
  waiter   <- WaiterAt(tpc["wait"]),
  stopper  <- [c \in Clients |-> StopperAt(pc[c])]

(***************************************************************************)
(* Each step of the engine is a step of the abstract process, or none.     *)
(***************************************************************************)
ImplementsLifecycle == Lifecycle!Spec

(***************************************************************************)
(* In particular the two racing checks of the state, in stop() and in the  *)
(* waiting thread, never leave the report to each other: process_pool      *)
(* counts every process that ended, by on_finish or by on_stop.            *)
(***************************************************************************)
AtLeastOneReport == Lifecycle!AtLeastOneReport

(***************************************************************************)
(* wait_for_start() returns once the process was started: the README waits *)
(* for the start and then for the finish of a process it executed.  The    *)
(* code does not: a process that ended before it was asked is not running. *)
(***************************************************************************)
WaitForStartReturns ==
  \A c \in Clients :
    (pc[c] \in {"ws_check", "ws_sleep", "ws_asleep"} /\ state # "not_launched")
      ~> (pc[c] = "idle" \/ prog # "up")

(***************************************************************************)
(* "~process() noexcept": the destructor never throws.  The code does: a   *)
(* process that ends between its two checks makes the second one throw.    *)
(***************************************************************************)
DestructorNeverThrows == prog # "terminate"

=============================================================================
