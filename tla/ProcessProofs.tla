--------------------------- MODULE ProcessProofs ---------------------------
(***************************************************************************)
(* The engine of a process, for any number of client threads, any calls    *)
(* they make, any number of lines and any size of the pipes.               *)
(***************************************************************************)
EXTENDS Process, TLAPS

ExecutePlaces == {"ex_running", "ex_start", "ex_notify", "ex_out", "ex_err", "ex_wait"}
DestroyPlaces == {"de_stop", "de_join", "gone"}

\* Each thread is at a place of its own code.
Places ==
  /\ tpc["start"] \in {"none", "fire", "done"}
  /\ tpc["wait"] \in WaiterPlaces
  /\ \A s \in Streams : tpc[s] \in ReaderPlaces

\* Only the owner executes and destroys; no other thread is in a call by then.
OwnerOnly ==
  /\ \A c \in Clients : pc[c] \in ExecutePlaces \cup DestroyPlaces => c = Owner
  /\ pc[Owner] \in DestroyPlaces => destroying
  /\ destroying => \A c \in Clients \ {Owner} : Host[c] = "none" => pc[c] = "idle"
  /\ destroying => pc[Owner] \in DestroyPlaces \cup StopPlaces

\* A thread stays in its callback while that is in a call.
Hosted ==
  \A c \in Clients : Host[c] # "none" /\ pc[c] # "idle" => InCallback(Host[c])

\* Before the launch nothing exists but the child execute() has just started.
NotLaunched ==
  state = "not_launched" =>
    /\ \A c \in Clients :
         pc[c] \notin StopPlaces \cup (ExecutePlaces \ {"ex_running"})
    /\ \A t \in Threads : tpc[t] = "none"
    /\ child # "killed"
    /\ child = "none" <=> pc[Owner] # "ex_running"

\* How many threads were pushed follows from where execute() is.
Pushed ==
  state # "not_launched" =>
    /\ pc[Owner] # "ex_running" /\ child # "none"
    /\ tpc["start"] = "none" <=> pc[Owner] = "ex_start"
    /\ tpc["out"] = "none" <=> pc[Owner] \in {"ex_start", "ex_notify", "ex_out"}
    /\ tpc["err"] = "none" <=> pc[Owner] \in {"ex_start", "ex_notify", "ex_out", "ex_err"}
    /\ tpc["wait"] = "none" <=>
         pc[Owner] \in {"ex_start", "ex_notify", "ex_out", "ex_err", "ex_wait"}

\* The waiting thread is past its wait only when the child is dead, or was told
\* to die, in which case it will not see a finish; and it has stored an outcome
\* before it drains.
WaiterKnows ==
  /\ tpc["wait"] \in {"check", "done"} => child \in {"killed", "exited"}
  /\ tpc["wait"] \in {"set", "drain", "fire"} => child = "exited"
  /\ state = "running" => tpc["wait"] \notin {"drain", "fire", "done"}

Counted ==
  /\ counter = (IF tpc["out"] = "done" THEN 1 ELSE 0) + (IF tpc["err"] = "done" THEN 1 ELSE 0)
  /\ tpc["wait"] = "fire" => counter = 2

\* A child dies by the signal of a stop() whose store of "stopped" no thread
\* can overwrite any more.
Doomed ==
  \/ child = "killed"
  \/ interrupted # {}
  \/ \E c \in Clients : pc[c] \in {"st_interrupt", "st_join"}

StopHolds ==
  /\ \A c \in Clients :
       pc[c] \in StopPlaces \ {"st_set"} => state \notin {"not_launched", "running"}
  /\ \A c \in Clients :
       pc[c] \in {"st_signal", "st_close", "st_terminate"} /\ child = "alive" => state = "stopped"
  /\ Doomed => state = "stopped" /\ tpc["wait"] \notin {"set", "drain", "fire"}
  /\ \A s \in Streams : tpc[s] = "aborted" => s \in interrupted

\* A reader stops reading at the end of its stream, or because it was cut.
Drained ==
  \A s \in Streams :
    /\ pipe[s] = "closed" => s \in cut
    /\ tpc[s] \in {"append", "aborted"} => taken[s] > 0
    /\ tpc[s] \in {"reset", "count", "done"} =>
         s \in cut \/ (child = "exited" /\ taken[s] = written[s])

\* The lines taken from a stream, but for the one still in hand.
Stored(s) == 1..(taken[s] - (IF tpc[s] \in {"append", "aborted"} THEN 1 ELSE 0))

\* They are what _error holds, and _output when the other stream is silent.
ErrorStored == error = [i \in Stored("err") |-> i]

OutputStored ==
  \A s \in Streams : Lines[Other(s)] = 0 => output = [i \in Stored(s) |-> <<s, i>>]

Reported == finishes = 1 => tpc["wait"] = "done"

(***************************************************************************)
(* The invariant in two parts: where the threads and the clients are, and  *)
(* the lines.  The first is inductive by itself; the second rests on it.   *)
(***************************************************************************)
ControlTypes ==
  /\ state \in {"not_launched", "running", "finished", "stopped", "error"}
  /\ child \in {"none", "alive", "killed", "exited"}
  /\ code \in {0, 1}
  /\ fed \in BOOLEAN
  /\ inPipe \in {"null", "open", "closed"}
  /\ counter \in 0..2
  /\ interrupted \subseteq Threads
  /\ tpc \in [Threads -> ReaderPlaces \cup WaiterPlaces \cup {"fire"}]
  /\ pc \in [Clients -> ClientPlaces]
  /\ joining \in [Clients -> 1..Len(Order)]
  /\ destroying \in BOOLEAN
  /\ prog \in {"up", "exit", "terminate", "sigpipe", "undefined"}
  /\ finishes \in {0, 1}
  /\ stops \subseteq Clients

DataTypes ==
  /\ written \in [Streams -> Nat] /\ \A s \in Streams : written[s] <= Lines[s]
  /\ taken \in [Streams -> Nat] /\ \A s \in Streams : taken[s] <= written[s]
  /\ pipe \in [Streams -> {"null", "open", "closed"}]
  /\ cut \subseteq Streams
  /\ output \in Seq(Streams \X Nat)
  /\ error \in Seq(Nat)

Control ==
  /\ ControlTypes /\ Places /\ OwnerOnly /\ NotLaunched /\ Pushed /\ WaiterKnows
  /\ Counted /\ StopHolds /\ Hosted /\ Reported /\ NothingOutlives

Data == DataTypes /\ Drained /\ ErrorStored /\ OutputStored

IInv == Control /\ Data

\* The elements of _threads are threads of the engine.
LEMMA OrderType == Len(Order) = 4 /\ \A i \in 1..4 : Order[i] \in Threads
  BY DEF Order, Threads

\* Appending the next line to the lines stored so far.
LEMMA AppendNext ==
  ASSUME NEW n \in Nat
  PROVE  /\ Append([i \in 1..n |-> i], n + 1) = [i \in 1..(n + 1) |-> i]
         /\ \A s : Append([i \in 1..n |-> <<s, i>>], <<s, n + 1>>) = [i \in 1..(n + 1) |-> <<s, i>>]
  OBVIOUS

\* A process that was not launched.
LEMMA ControlInit == Init => Control
<1> SUFFICES ASSUME Init PROVE Control
  OBVIOUS
<1> USE ConstantsAssumption DEF Init, Streams, Threads
<1>1. ControlTypes
  <2>1. joining \in [Clients -> 1..Len(Order)]
    BY OrderType
  <2>2. pc \in [Clients -> ClientPlaces]
    BY DEF ClientPlaces
  <2>3. tpc \in [Threads -> ReaderPlaces \cup WaiterPlaces \cup {"fire"}]
    BY DEF ReaderPlaces
  <2>4. interrupted \subseteq Threads /\ stops \subseteq Clients
    OBVIOUS
  <2>5. fed \in BOOLEAN /\ destroying \in BOOLEAN
    OBVIOUS
  <2>6. /\ state = "not_launched" /\ child = "none" /\ code = 0 /\ inPipe = "null"
        /\ counter = 0 /\ prog = "up" /\ finishes = 0
    OBVIOUS
  <2> HIDE DEF Init
  <2> QED
    BY <2>1, <2>2, <2>3, <2>4, <2>5, <2>6 DEF ControlTypes
<1>2. Places
  BY DEF Places, ReaderPlaces, WaiterPlaces
<1>3. OwnerOnly /\ NotLaunched /\ Pushed
  BY DEF OwnerOnly, NotLaunched, Pushed, ExecutePlaces, DestroyPlaces, StopPlaces
<1>4. WaiterKnows /\ Counted /\ StopHolds /\ Hosted /\ Reported /\ NothingOutlives
  BY DEF WaiterKnows, Counted, StopHolds, Doomed, StopPlaces, Hosted, Reported,
         NothingOutlives
<1> QED
  BY <1>1, <1>2, <1>3, <1>4 DEF Control

\* No line was written, taken or stored yet.
LEMMA DataInit == Init => Data
<1>1. Init => error = [i \in 1..0 |-> i] /\ \A s \in Streams : output = [i \in 1..0 |-> <<s, i>>]
  BY DEF Init
<1> QED
  BY <1>1, ConstantsAssumption
  DEF Init, Data, DataTypes, Drained, ErrorStored, OutputStored, Stored, Streams, Threads

\* Every step of every thread, of the child and of a client preserves where
\* they are: one step of the proof for each action.
LEMMA ControlStep == Control /\ [Next]_vars => Control'
<1> SUFFICES ASSUME Control, [Next]_vars PROVE Control'
  OBVIOUS
<1> USE ConstantsAssumption, OrderType
    DEF Control, ControlTypes, Places, OwnerOnly, NotLaunched, Pushed, WaiterKnows, Counted,
        StopHolds, Doomed, Hosted, Reported, NothingOutlives, Streams, Threads,
        InCallback, Returned,
        Calls, ReaderPlaces, WaiterPlaces, StopPlaces, ClientPlaces, ExecutePlaces,
        DestroyPlaces, Joinable, Ended, Up, Goto, Step, OnlyPc, Woken, MayBegin,
        childVars, pipeVars, dataVars, clientVars, historyVars
<1>1. ASSUME NEW s \in Streams, ChildWrite(s) PROVE Control'
  BY <1>1 DEF ChildWrite
<1>2. CASE ChildFinish
  BY <1>2 DEF ChildFinish, Exit
<1>3. CASE ChildBroken
  BY <1>3 DEF ChildBroken, Exit
<1>4. CASE ChildFail
  BY <1>4 DEF ChildFail, Exit
<1>5. CASE ChildKilled
  BY <1>5 DEF ChildKilled, Exit
<1>6. CASE CallStart
  BY <1>6 DEF CallStart
<1>7. CASE WaitChild
  BY <1>7 DEF WaitChild
<1>8. CASE CheckStopped
  BY <1>8 DEF CheckStopped
<1>9. CASE SetOutcome
  BY <1>9 DEF SetOutcome
<1>10. CASE WaitReaders
  BY <1>10 DEF WaitReaders
<1>11. CASE CallFinish
  BY <1>11 DEF CallFinish
<1>12. ASSUME NEW s \in Streams, GetLine(s) PROVE Control'
  BY <1>12 DEF GetLine
<1>13. ASSUME NEW s \in Streams, EndOfStream(s) PROVE Control'
  BY <1>13 DEF EndOfStream
<1>14. ASSUME NEW s \in Streams, AppendLine(s) PROVE Control'
  BY <1>14 DEF AppendLine, Other
<1>15. ASSUME NEW s \in Streams, EveryLine(s) PROVE Control'
  BY <1>15 DEF EveryLine
<1>16. ASSUME NEW s \in Streams, ResetPipe(s) PROVE Control'
  BY <1>16 DEF ResetPipe
<1>17. ASSUME NEW s \in Streams, CountRead(s) PROVE Control'
  BY <1>17 DEF CountRead
<1>18. ASSUME NEW c \in Clients, ExecuteSpawn(c) PROVE Control'
  <2>1. ControlTypes' /\ Places'
    BY <1>18 DEF ExecuteSpawn
  <2>2. OwnerOnly'
    BY <1>18 DEF ExecuteSpawn
  <2>3. NotLaunched'
    BY <1>18 DEF ExecuteSpawn
  <2>4. Pushed'
    BY <1>18 DEF ExecuteSpawn
  <2>5. WaiterKnows' /\ Counted'
    BY <1>18 DEF ExecuteSpawn
  <2>6. StopHolds'
    BY <1>18 DEF ExecuteSpawn
  <2>7. Hosted' /\ Reported' /\ NothingOutlives'
    BY <1>18 DEF ExecuteSpawn
  <2> QED
    BY <2>1, <2>2, <2>3, <2>4, <2>5, <2>6, <2>7
<1>19. ASSUME NEW c \in Clients, ExecuteRunning(c) PROVE Control'
  <2>1. ControlTypes' /\ Places'
    BY <1>19 DEF ExecuteRunning
  <2>2. OwnerOnly'
    BY <1>19 DEF ExecuteRunning
  <2>3. NotLaunched'
    BY <1>19 DEF ExecuteRunning
  <2>4. Pushed'
    BY <1>19 DEF ExecuteRunning
  <2>5. WaiterKnows' /\ Counted'
    BY <1>19 DEF ExecuteRunning
  <2>6. StopHolds'
    BY <1>19 DEF ExecuteRunning
  <2>7. Hosted' /\ Reported' /\ NothingOutlives'
    BY <1>19 DEF ExecuteRunning
  <2> QED
    BY <2>1, <2>2, <2>3, <2>4, <2>5, <2>6, <2>7
<1>20. ASSUME NEW c \in Clients, ExecuteNotify(c) PROVE Control'
  BY <1>20 DEF ExecuteNotify
<1>21. ASSUME NEW c \in Clients, WaitForStart(c) PROVE Control'
  BY <1>21 DEF WaitForStart
<1>22. ASSUME NEW c \in Clients, StartCheck(c) PROVE Control'
  BY <1>22 DEF StartCheck
<1>23. ASSUME NEW c \in Clients, StartSleep(c) PROVE Control'
  BY <1>23 DEF StartSleep
<1>24. ASSUME NEW c \in Clients, SpuriousWakeup(c) PROVE Control'
  BY <1>24 DEF SpuriousWakeup
<1>25. ASSUME NEW c \in Clients, WaitForFinish(c) PROVE Control'
  BY <1>25 DEF WaitForFinish
<1>26. ASSUME NEW c \in Clients, FinishJoined(c) PROVE Control'
  BY <1>26 DEF FinishJoined
<1>27. ASSUME NEW c \in Clients, WriteInput(c) PROVE Control'
  BY <1>27 DEF WriteInput
<1>60. ASSUME NEW c \in Clients, WriteCheck(c) PROVE Control'
  BY <1>60 DEF WriteCheck
<1>28. ASSUME NEW c \in Clients, WriteStep(c) PROVE Control'
  BY <1>28 DEF WriteStep
<1>29. ASSUME NEW c \in Clients, CloseInputPipe(c) PROVE Control'
  BY <1>29 DEF CloseInputPipe
<1>30. ASSUME NEW c \in Clients, Stop(c) PROVE Control'
  BY <1>30 DEF Stop
<1>31. ASSUME NEW c \in Clients, StopSet(c) PROVE Control'
  BY <1>31 DEF StopSet
<1>32. ASSUME NEW c \in Clients, StopSignal(c) PROVE Control'
  BY <1>32 DEF StopSignal
<1>33. ASSUME NEW c \in Clients, StopClose(c) PROVE Control'
  BY <1>33 DEF StopClose
<1>34. ASSUME NEW c \in Clients, StopTerminate(c) PROVE Control'
  BY <1>34 DEF StopTerminate
<1>35. ASSUME NEW c \in Clients, StopRunning(c) PROVE Control'
  BY <1>35 DEF StopRunning
<1>36. ASSUME NEW c \in Clients, StopInterrupt(c) PROVE Control'
  <2>1. ControlTypes' /\ Places'
    <3>1. Current(c) \in Threads
      BY DEF Current
    <3>2. interrupted' \subseteq Threads /\ pc' \in [Clients -> ClientPlaces]
      BY <1>36, <3>1 DEF StopInterrupt
    <3> QED
      BY <1>36, <3>2 DEF StopInterrupt
  <2>2. OwnerOnly'
    BY <1>36 DEF StopInterrupt, Current
  <2>3. NotLaunched'
    BY <1>36 DEF StopInterrupt, Current
  <2>4. Pushed'
    BY <1>36 DEF StopInterrupt, Current
  <2>5. WaiterKnows' /\ Counted'
    BY <1>36 DEF StopInterrupt, Current
  <2>6. StopHolds'
    BY <1>36 DEF StopInterrupt, Current
  <2>7. Hosted' /\ Reported' /\ NothingOutlives'
    BY <1>36 DEF StopInterrupt, Current
  <2> QED
    BY <2>1, <2>2, <2>3, <2>4, <2>5, <2>6, <2>7
<1>37. ASSUME NEW c \in Clients, StopJoin(c) PROVE Control'
  BY <1>37 DEF StopJoin, Current
<1>49. ASSUME NEW c \in Clients, JoinThrows(c) PROVE Control'
  <2>1. Current(c) \in Threads
    BY DEF Current
  <2>2. c # Owner
    BY <1>49, <2>1 DEF JoinThrows
  <2> QED
    BY <1>49, <2>2 DEF JoinThrows
<1>38. ASSUME NEW c \in Clients, StopNotify(c) PROVE Control'
  BY <1>38 DEF StopNotify
<1>39. ASSUME NEW c \in Clients, Destroy(c) PROVE Control'
  BY <1>39 DEF Destroy
<1>40. ASSUME NEW c \in Clients, DestroyStop(c) PROVE Control'
  BY <1>40 DEF DestroyStop
<1>41. ASSUME NEW c \in Clients, DestroyJoined(c) PROVE Control'
  BY <1>41 DEF DestroyJoined
<1>42. ASSUME NEW c \in Clients, ExecutePush(c) PROVE Control'
  <2>1. ControlTypes' /\ Places'
    <3>1. CASE Push(c, "ex_start", "start", "fire", "ex_notify")
      BY <3>1 DEF Push
    <3>2. CASE Push(c, "ex_out", "out", "getline", "ex_err")
      BY <3>2 DEF Push
    <3>3. CASE Push(c, "ex_err", "err", "getline", "ex_wait")
      BY <3>3 DEF Push
    <3>4. CASE Push(c, "ex_wait", "wait", "wait", "idle")
      BY <3>4 DEF Push
    <3> QED
      BY <1>42, <3>1, <3>2, <3>3, <3>4 DEF ExecutePush
  <2>2. OwnerOnly'
    BY <1>42 DEF ExecutePush, Push
  <2>3. NotLaunched'
    BY <1>42 DEF ExecutePush, Push
  <2>4. Pushed'
    BY <1>42 DEF ExecutePush, Push
  <2>5. WaiterKnows' /\ Counted'
    BY <1>42 DEF ExecutePush, Push
  <2>6. StopHolds'
    BY <1>42 DEF ExecutePush, Push
  <2>7. Hosted' /\ Reported' /\ NothingOutlives'
    BY <1>42 DEF ExecutePush, Push
  <2> QED
    BY <2>1, <2>2, <2>3, <2>4, <2>5, <2>6, <2>7
<1>43. ASSUME NEW c \in Clients, NEW s \in Streams, ClosePipe(c, s) PROVE Control'
  BY <1>43 DEF ClosePipe, CloseCall, Closing
<1>44. ASSUME NEW c \in Clients, NEW s \in Streams, CloseStep(c, s) PROVE Control'
  BY <1>44 DEF CloseStep, Closing
<1>45. CASE UNCHANGED vars
  BY <1>45 DEF vars
<1> HIDE DEF Control, Up, Goto, Step, OnlyPc, MayBegin
<1>46. CASE ChildProgress \/ ChildFail
  BY <1>1, <1>2, <1>3, <1>4, <1>5, <1>46 DEF ChildProgress
<1>47. ASSUME CallStart \/ WaiterStep \/ \E s \in Streams : ReaderStep(s) PROVE Control'
  BY <1>6, <1>7, <1>8, <1>9, <1>10, <1>11, <1>12, <1>13, <1>14, <1>15, <1>16, <1>17,
     <1>47
  DEF ReaderStep, WaiterStep
<1>48. ASSUME NEW c \in Clients, CallStep(c) \/ BeginCall(c) \/ SpuriousWakeup(c)
      PROVE  Control'
  BY <1>60, <1>18, <1>19, <1>20, <1>21, <1>22, <1>23, <1>24, <1>25, <1>26, <1>27, <1>28, <1>29,
     <1>30, <1>31, <1>32, <1>33, <1>34, <1>35, <1>36, <1>37, <1>38, <1>39, <1>40, <1>41,
     <1>42, <1>43, <1>44, <1>48, <1>49
  DEF CallStep, BeginCall, Execute, StopStep
<1> QED
  BY <1>45, <1>46, <1>47, <1>48 DEF Next, Over

\* Steps that leave the lines alone, and take no reader to or from a
\* place that the lines are judged by.
Quiet ==
  /\ UNCHANGED <<written, taken, pipe, cut, output, error>>
  /\ child = "exited" => child' = "exited"
  /\ \A s \in Streams :
       /\ tpc'[s] \in {"reset", "count", "done"} => tpc[s] \in {"reset", "count", "done"}
       /\ tpc'[s] \in {"append", "aborted"} <=> tpc[s] \in {"append", "aborted"}

\* They preserve what is said of the lines.
LEMMA QuietStep == Data /\ Quiet => Data'
  BY DEF Data, DataTypes, Drained, ErrorStored, OutputStored, Stored, Quiet, Streams

\* So does every other step: of the child that writes, of the readers, of
\* execute() and of a client that closes a pipe.
LEMMA DataStep == Control /\ Data /\ [Next]_vars => Data'
<1> SUFFICES ASSUME Control, Data, [Next]_vars PROVE Data'
  OBVIOUS
<1> USE ConstantsAssumption
    DEF Control, ControlTypes, Places, NotLaunched, WaiterKnows, Streams, Threads,
        ReaderPlaces, WaiterPlaces, Up, Goto, Step, OnlyPc,
        childVars, pipeVars, dataVars, clientVars, historyVars
<1>1. ASSUME NEW s \in Streams, ChildWrite(s) PROVE Data'
  <2>1. DataTypes'
    BY <1>1 DEF ChildWrite, Data, DataTypes
  <2>2. Drained'
    BY <1>1 DEF ChildWrite, Data, DataTypes, Drained
  <2>3. UNCHANGED <<taken, tpc, output, error>>
    BY <1>1 DEF ChildWrite
  <2>4. ErrorStored' /\ OutputStored'
    BY <2>3 DEF Data, ErrorStored, OutputStored, Stored
  <2> QED
    BY <2>1, <2>2, <2>4 DEF Data
<1>2. ASSUME NEW s \in Streams, GetLine(s) PROVE Data'
  <2>1. DataTypes'
    <3>1. taken[s] < written[s] /\ taken' = [taken EXCEPT ![s] = @ + 1]
      BY <1>2 DEF GetLine, Data, DataTypes
    <3>2. UNCHANGED <<written, pipe, cut, output, error>>
      BY <1>2 DEF GetLine
    <3> QED
      BY <3>1, <3>2 DEF Data, DataTypes
  <2>2. Drained'
    BY <1>2 DEF GetLine, Data, DataTypes, Drained
  <2>3. \A r \in Streams : Stored(r)' = Stored(r)
    BY <1>2 DEF GetLine, Data, DataTypes, Stored
  <2>4. ErrorStored' /\ OutputStored'
    BY <1>2, <2>3 DEF GetLine, Data, ErrorStored, OutputStored
  <2> QED
    BY <2>1, <2>2, <2>4 DEF Data
<1>3. ASSUME NEW s \in Streams, EndOfStream(s) PROVE Data'
  <2>1. DataTypes'
    BY <1>3 DEF EndOfStream, Data, DataTypes
  <2>2. Drained'
    BY <1>3 DEF EndOfStream, Data, DataTypes, Drained
  <2>3. \A r \in Streams : Stored(r)' = Stored(r)
    BY <1>3 DEF EndOfStream, Data, DataTypes, Stored
  <2>4. ErrorStored' /\ OutputStored'
    BY <1>3, <2>3 DEF EndOfStream, Data, ErrorStored, OutputStored
  <2> QED
    BY <2>1, <2>2, <2>4 DEF Data
<1>4. ASSUME NEW s \in Streams, AppendLine(s) PROVE Data'
  <2>1. output' \in Seq(Streams \X Nat)
    <3>1. taken[s] \in Nat /\ output \in Seq(Streams \X Nat)
      BY DEF Data, DataTypes
    <3>2. <<s, taken[s]>> \in Streams \X Nat
      BY <3>1
    <3> HIDE DEF Streams
    <3>3. Append(output, <<s, taken[s]>>) \in Seq(Streams \X Nat)
      BY <3>1, <3>2
    <3> QED
      BY <1>4, <3>1, <3>3 DEF AppendLine
  <2>0. error' \in Seq(Nat)
    BY <1>4 DEF AppendLine, Data, DataTypes
  <2>2. ErrorStored'
    <3>1. CASE s = "err"
      <4>1. taken["err"] \in Nat /\ taken["err"] - 1 \in Nat
        BY <1>4, <3>1 DEF AppendLine, Data, DataTypes, Drained
      <4> QED
        BY <1>4, <3>1, <4>1, AppendNext DEF AppendLine, Data, ErrorStored, Stored
    <3>2. CASE s = "out"
      BY <1>4, <3>2 DEF AppendLine, Data, ErrorStored, Stored
    <3> QED
      BY <3>1, <3>2
  <2>4. OutputStored'
    <3>1. \A r \in Streams : tpc[r] = "append" => Lines[r] # 0
      BY DEF Data, DataTypes, Drained
    <3>2. taken[s] \in Nat /\ taken[s] - 1 \in Nat /\ taken' = taken
      BY <1>4 DEF AppendLine, Data, DataTypes, Drained
    <3>3. ASSUME NEW r \in Streams, Lines[Other(r)] = 0
          PROVE  output' = [i \in Stored(r)' |-> <<r, i>>]
      <4>1. tpc[s] = "append" /\ tpc' = [tpc EXCEPT ![s] = "signal"]
        BY <1>4 DEF AppendLine
      <4>2. r = s
        BY <3>1, <3>3, <4>1 DEF Other
      <4>3. output' = Append(output, <<s, taken[s]>>)
        <5>1. tpc[Other(s)] # "append"
          BY <3>1, <3>3, <4>2 DEF Other
        <5> QED
          BY <1>4, <5>1 DEF AppendLine
      <4>4. Stored(r)' = 1..taken[s]
        BY <3>2, <4>1, <4>2 DEF Stored
      <4>5. Stored(r) = 1..(taken[s] - 1)
        BY <4>1, <4>2 DEF Stored
      <4>6. output = [i \in 1..(taken[s] - 1) |-> <<s, i>>]
        BY <3>3, <4>2, <4>5 DEF Data, OutputStored
      <4> QED
        BY <3>2, <4>2, <4>3, <4>4, <4>6, AppendNext
    <3> QED
      BY <3>3 DEF OutputStored
  <2>3. Drained'
    BY <1>4 DEF AppendLine, Data, Drained
  <2> QED
    BY <1>4, <2>0, <2>1, <2>2, <2>3, <2>4 DEF AppendLine, Data, DataTypes
<1>5. ASSUME NEW s \in Streams, ResetPipe(s) PROVE Data'
  <2>1. DataTypes'
    BY <1>5 DEF ResetPipe, Data, DataTypes
  <2>2. Drained'
    BY <1>5 DEF ResetPipe, Data, DataTypes, Drained
  <2>3. \A r \in Streams : Stored(r)' = Stored(r)
    BY <1>5 DEF ResetPipe, Data, DataTypes, Stored
  <2>4. ErrorStored' /\ OutputStored'
    BY <1>5, <2>3 DEF ResetPipe, Data, ErrorStored, OutputStored
  <2> QED
    BY <2>1, <2>2, <2>4 DEF Data
<1>6. ASSUME NEW c \in Clients, ExecuteSpawn(c) PROVE Data'
  <2>1. DataTypes'
    BY <1>6 DEF ExecuteSpawn, Data, DataTypes
  <2>2. Drained'
    BY <1>6 DEF ExecuteSpawn, Data, DataTypes, Drained
  <2>3. ErrorStored' /\ OutputStored'
    BY <1>6 DEF ExecuteSpawn, Data, DataTypes, Drained, ErrorStored, OutputStored, Stored
  <2> QED
    BY <2>1, <2>2, <2>3 DEF Data
<1>7. ASSUME NEW c \in Clients, NEW s \in Streams, CloseStep(c, s) PROVE Data'
  BY <1>7 DEF CloseStep, Data, DataTypes, Drained, ErrorStored, OutputStored, Stored
<1>8. ASSUME NEW c \in Clients, NEW s \in Streams, ClosePipe(c, s) PROVE Quiet
  BY <1>8 DEF ClosePipe, Quiet
<1>9. ASSUME ChildFinish PROVE Quiet
  BY <1>9 DEF ChildFinish, Exit, Quiet
<1>10. ASSUME ChildBroken PROVE Quiet
  BY <1>10 DEF ChildBroken, Exit, Quiet
<1>11. ASSUME ChildFail PROVE Quiet
  BY <1>11 DEF ChildFail, Exit, Quiet
<1>12. ASSUME ChildKilled PROVE Quiet
  BY <1>12 DEF ChildKilled, Exit, Quiet
<1>13. ASSUME CallStart PROVE Quiet
  BY <1>13 DEF CallStart, Quiet
<1>14. ASSUME WaitChild PROVE Quiet
  BY <1>14 DEF WaitChild, Quiet
<1>15. ASSUME CheckStopped PROVE Quiet
  BY <1>15 DEF CheckStopped, Quiet
<1>16. ASSUME SetOutcome PROVE Quiet
  BY <1>16 DEF SetOutcome, Quiet
<1>17. ASSUME WaitReaders PROVE Quiet
  BY <1>17 DEF WaitReaders, Quiet
<1>18. ASSUME CallFinish PROVE Quiet
  BY <1>18 DEF CallFinish, Quiet
<1>19. ASSUME NEW s \in Streams, EveryLine(s) PROVE Quiet
  BY <1>19 DEF EveryLine, Quiet
<1>20. ASSUME NEW s \in Streams, CountRead(s) PROVE Quiet
  BY <1>20 DEF CountRead, Quiet
<1>21. ASSUME NEW c \in Clients, ExecuteRunning(c) PROVE Quiet
  BY <1>21 DEF ExecuteRunning, Quiet
<1>22. ASSUME NEW c \in Clients, ExecutePush(c) PROVE Quiet
  BY <1>22 DEF ExecutePush, Quiet, Push
<1>23. ASSUME NEW c \in Clients, ExecuteNotify(c) PROVE Quiet
  BY <1>23 DEF ExecuteNotify, Quiet
<1>24. ASSUME NEW c \in Clients, WaitForStart(c) PROVE Quiet
  BY <1>24 DEF WaitForStart, Quiet
<1>25. ASSUME NEW c \in Clients, StartCheck(c) PROVE Quiet
  BY <1>25 DEF StartCheck, Quiet
<1>26. ASSUME NEW c \in Clients, StartSleep(c) PROVE Quiet
  BY <1>26 DEF StartSleep, Quiet
<1>27. ASSUME NEW c \in Clients, SpuriousWakeup(c) PROVE Quiet
  BY <1>27 DEF SpuriousWakeup, Quiet
<1>28. ASSUME NEW c \in Clients, WaitForFinish(c) PROVE Quiet
  BY <1>28 DEF WaitForFinish, Quiet
<1>29. ASSUME NEW c \in Clients, FinishJoined(c) PROVE Quiet
  BY <1>29 DEF FinishJoined, Quiet
<1>30. ASSUME NEW c \in Clients, WriteInput(c) PROVE Quiet
  BY <1>30 DEF WriteInput, Quiet
<1>60. ASSUME NEW c \in Clients, WriteCheck(c) PROVE Quiet
  BY <1>60 DEF WriteCheck, Quiet
<1>31. ASSUME NEW c \in Clients, WriteStep(c) PROVE Quiet
  BY <1>31 DEF WriteStep, Quiet
<1>32. ASSUME NEW c \in Clients, CloseInputPipe(c) PROVE Quiet
  BY <1>32 DEF CloseInputPipe, Quiet
<1>33. ASSUME NEW c \in Clients, Stop(c) PROVE Quiet
  BY <1>33 DEF Stop, Quiet
<1>34. ASSUME NEW c \in Clients, StopSet(c) PROVE Quiet
  BY <1>34 DEF StopSet, Quiet
<1>35. ASSUME NEW c \in Clients, StopSignal(c) PROVE Quiet
  BY <1>35 DEF StopSignal, Quiet
<1>36. ASSUME NEW c \in Clients, StopClose(c) PROVE Quiet
  BY <1>36 DEF StopClose, Quiet
<1>37. ASSUME NEW c \in Clients, StopTerminate(c) PROVE Quiet
  BY <1>37 DEF StopTerminate, Quiet
<1>38. ASSUME NEW c \in Clients, StopRunning(c) PROVE Quiet
  BY <1>38 DEF StopRunning, Quiet
<1>39. ASSUME NEW c \in Clients, StopInterrupt(c) PROVE Quiet
  BY <1>39 DEF StopInterrupt, Quiet
<1>40. ASSUME NEW c \in Clients, StopJoin(c) PROVE Quiet
  BY <1>40 DEF StopJoin, Quiet
<1>49. ASSUME NEW c \in Clients, JoinThrows(c) PROVE Quiet
  BY <1>49 DEF JoinThrows, Quiet
<1>41. ASSUME NEW c \in Clients, StopNotify(c) PROVE Quiet
  BY <1>41 DEF StopNotify, Quiet
<1>42. ASSUME NEW c \in Clients, Destroy(c) PROVE Quiet
  BY <1>42 DEF Destroy, Quiet
<1>43. ASSUME NEW c \in Clients, DestroyStop(c) PROVE Quiet
  BY <1>43 DEF DestroyStop, Quiet
<1>44. ASSUME NEW c \in Clients, DestroyJoined(c) PROVE Quiet
  BY <1>44 DEF DestroyJoined, Quiet
<1>45. ASSUME UNCHANGED vars PROVE Quiet
  BY <1>45 DEF vars, Quiet
<1> HIDE DEF Control, Up, Goto, Step, OnlyPc, Streams
<1>46. ASSUME ChildProgress \/ ChildFail PROVE Data'
  BY <1>1, <1>9, <1>10, <1>11, <1>12, <1>46, QuietStep DEF ChildProgress
<1>47. ASSUME CallStart \/ WaiterStep \/ \E s \in Streams : ReaderStep(s) PROVE Data'
  BY <1>2, <1>3, <1>4, <1>5, <1>13, <1>14, <1>15, <1>16, <1>17, <1>18, <1>19, <1>20,
     <1>47, QuietStep
  DEF ReaderStep, WaiterStep
<1>48. ASSUME NEW c \in Clients, CallStep(c) \/ BeginCall(c) \/ SpuriousWakeup(c)
      PROVE  Data'
  BY <1>60, <1>6, <1>7, <1>8, <1>21, <1>22, <1>23, <1>24, <1>25, <1>26, <1>27, <1>28, <1>29,
     <1>30, <1>31, <1>32, <1>33, <1>34, <1>35, <1>36, <1>37, <1>38, <1>39, <1>40, <1>41,
     <1>42, <1>43, <1>44, <1>48, <1>49, QuietStep
  DEF CallStep, BeginCall, Execute, StopStep
<1> QED
  BY <1>45, <1>46, <1>47, <1>48, QuietStep DEF Next, Over

-----------------------------------------------------------------------------
(***************************************************************************)
(* The two parts together are an invariant of the engine.                  *)
(***************************************************************************)
THEOREM Invariance == Spec => []IInv
<1>1. Init => IInv
  BY ControlInit, DataInit DEF IInv
<1>2. IInv /\ [Next]_vars => IInv'
  BY ControlStep, DataStep DEF IInv
<1> QED
  BY <1>1, <1>2, PTL DEF Spec

(***************************************************************************)
(* Every variable keeps its type: in particular _counter_read never passes *)
(* 2, and on_finish is called once.                                        *)
(***************************************************************************)
THEOREM TypeCorrect == Spec => []TypeOK
<1>1. IInv => TypeOK
  BY DEF IInv, Control, Data, ControlTypes, DataTypes, TypeOK
<1> QED
  BY Invariance, <1>1, PTL

(***************************************************************************)
(* When on_finish is called the child is dead, both readers have ended at  *)
(* the end of their streams (or a client cut them off), and _error holds   *)
(* every line taken: the thread that calls it knows this from              *)
(* _counter_read alone.                                                    *)
(***************************************************************************)
THEOREM FinishIsComplete == Spec => []FinishSeesAll
<1>1. IInv => FinishSeesAll
  <2> SUFFICES ASSUME IInv, tpc["wait"] = "fire"
               PROVE  /\ child = "exited"
                      /\ \A s \in Streams :
                           tpc[s] = "done" /\ (s \notin cut => taken[s] = written[s])
                      /\ error = [i \in 1..taken["err"] |-> i]
    BY DEF FinishSeesAll
  <2>1. child = "exited"
    BY DEF IInv, Control, WaiterKnows
  <2>2. tpc["out"] = "done" /\ tpc["err"] = "done"
    BY DEF IInv, Control, Counted
  <2>3. \A s \in Streams : s \notin cut => taken[s] = written[s]
    BY <2>2 DEF IInv, Data, Drained, Streams
  <2>4. error = [i \in 1..taken["err"] |-> i]
    BY <2>2 DEF IInv, Data, DataTypes, ErrorStored, Stored, Streams
  <2> QED
    BY <2>1, <2>2, <2>3, <2>4 DEF Streams
<1> QED
  BY Invariance, <1>1, PTL

(***************************************************************************)
(* Of a child that writes to one stream only, _output holds every line by  *)
(* then: the appends of the two readers, which no lock keeps apart, do not *)
(* meet.                                                                   *)
(***************************************************************************)
THEOREM OutputIsComplete == Spec => []OutputComplete
<1>1. IInv => OutputComplete
  <2> SUFFICES ASSUME IInv, NEW s \in Streams, Lines[Other(s)] = 0, tpc["wait"] = "fire"
               PROVE  output = [i \in 1..taken[s] |-> <<s, i>>]
    BY DEF OutputComplete
  <2>1. tpc[s] = "done"
    BY DEF IInv, Control, Counted, Streams
  <2>2. taken[s] \in Nat
    BY DEF IInv, Data, DataTypes
  <2>3. Stored(s) = 1..taken[s]
    BY <2>1, <2>2 DEF Stored
  <2> QED
    BY <2>3 DEF IInv, Data, OutputStored
<1> QED
  BY Invariance, <1>1, PTL

(***************************************************************************)
(* The thread that spins on _counter_read never spins for a reader that    *)
(* stop() has interrupted, so the loop and the joins behind it can end.    *)
(***************************************************************************)
THEOREM DrainIsSafe == Spec => []DrainNotAborted
<1>1. IInv => DrainNotAborted
  BY DEF IInv, Control, StopHolds, Doomed, DrainNotAborted
<1> QED
  BY Invariance, <1>1, PTL

(***************************************************************************)
(* When the destructor is over no thread of the library runs any more, and *)
(* the child has ended.                                                    *)
(***************************************************************************)
THEOREM DestroyedIsQuiet == Spec => []NothingOutlives
<1>1. IInv => NothingOutlives
  BY DEF IInv, Control
<1> QED
  BY Invariance, <1>1, PTL

\* Only execute() makes a process run, and only before it ever ran.
LEMMA OnlyExecuteRuns ==
  ASSUME Control, [Next]_vars, state \notin {"not_launched", "running"}
  PROVE  state' # "running"
  BY
  DEF Control, ExecutePlaces, OwnerOnly, Pushed, Next, Over, vars, ChildProgress,
      ReaderStep, WaiterStep, CallStep, BeginCall, Execute, StopStep,
      ChildWrite, ChildFinish, ChildBroken, ChildFail, ChildKilled, Exit, CallStart, GetLine,
      EndOfStream, AppendLine, EveryLine, ResetPipe, CountRead, WaitChild, CheckStopped,
      SetOutcome, WaitReaders, CallFinish, ExecuteSpawn, ExecuteRunning, ExecutePush, Push,
      ExecuteNotify, Woken, WaitForStart, StartCheck, StartSleep, SpuriousWakeup, WaitForFinish,
      FinishJoined, WriteInput, WriteCheck, WriteStep, CloseInputPipe, ClosePipe, CloseStep, Closing, Stop,
      StopSet, StopSignal, StopClose, StopTerminate, StopRunning, StopInterrupt, StopJoin, JoinThrows,
      StopNotify, Destroy, DestroyStop, DestroyJoined, Up, Goto, Step, OnlyPc, clientVars

\* A client leaves wait_for_finish() when every thread has been joined.
LEMMA OnlyJoinLeaves ==
  ASSUME Control, [Next]_vars, NEW c \in Clients, pc[c] = "wf_join", pc'[c] # pc[c]
  PROVE  \A t \in Threads : Joinable(t)
  BY
  DEF Control, ControlTypes, Next, Over, vars, ChildProgress, ReaderStep, WaiterStep,
      CallStep, BeginCall, Execute, StopStep,
      ChildWrite, ChildFinish, ChildBroken, ChildFail, ChildKilled, Exit, CallStart, GetLine,
      EndOfStream, AppendLine, EveryLine, ResetPipe, CountRead, WaitChild, CheckStopped,
      SetOutcome, WaitReaders, CallFinish, ExecuteSpawn, ExecuteRunning, ExecutePush, Push,
      ExecuteNotify, Woken, WaitForStart, StartCheck, StartSleep, SpuriousWakeup, WaitForFinish,
      FinishJoined, WriteInput, WriteCheck, WriteStep, CloseInputPipe, ClosePipe, CloseStep, Closing, Stop,
      StopSet, StopSignal, StopClose, StopTerminate, StopRunning, StopInterrupt, StopJoin, JoinThrows,
      StopNotify, Destroy, DestroyStop, DestroyJoined, Up, Goto, Step, OnlyPc, clientVars

(***************************************************************************)
(* After stop() and wait_for_finish() return the process does not run.     *)
(***************************************************************************)
THEOREM StopIsFinal == Spec => ReturnsNotRunning
<1>1. ASSUME IInv, [Next]_vars,
             NEW c \in Clients, pc'[c] # pc[c],
             (pc[c] = "wf_join" /\ tpc["wait"] # "none") \/ pc[c] = "st_notify"
      PROVE  state' # "running"
  <2>1. state \notin {"not_launched", "running"}
    <3>1. CASE pc[c] = "st_notify"
      BY <1>1, <3>1 DEF IInv, Control, StopHolds, StopPlaces
    <3>2. CASE pc[c] = "wf_join" /\ tpc["wait"] # "none"
      <4>1. \A t \in Threads : Joinable(t)
        BY <1>1, <3>2, OnlyJoinLeaves DEF IInv
      <4>2. tpc["wait"] = "done"
        BY <1>1, <3>2, <4>1
        DEF Threads, Joinable, Ended, IInv, Control, Places, WaiterPlaces
      <4> QED
        BY <1>1, <4>2, <3>2 DEF IInv, Control, WaiterKnows, NotLaunched, Threads
    <3> QED
      BY <1>1, <3>1, <3>2
  <2> QED
    BY <1>1, <2>1, OnlyExecuteRuns DEF IInv
<1>2. IInv /\ [Next]_vars =>
        [\A c \in Clients :
           (pc[c] = "wf_join" /\ tpc["wait"] # "none") \/ pc[c] = "st_notify" =>
             (pc'[c] # pc[c] => state' # "running")]_vars
  BY <1>1
<1> QED
  BY Invariance, <1>2, PTL DEF Spec, ReturnsNotRunning

-----------------------------------------------------------------------------
(***************************************************************************)
(* The engine implements the abstract process.  Each step is either one of *)
(* its steps or leaves the mapped variables alone.                         *)
(***************************************************************************)

\* A process that was not launched is an abstract one that was not.
LEMMA LifecycleInit == Init => Lifecycle!Init
  BY ConstantsAssumption DEF Init, Lifecycle!Init, WaiterAt, StopperAt, Threads

\* Each action, with the abstract action it implements.
LEMMA LifecycleStep == Control /\ [Next]_vars => [Lifecycle!Next]_(Lifecycle!vars)
<1> SUFFICES ASSUME Control, [Next]_vars PROVE [Lifecycle!Next]_(Lifecycle!vars)
  OBVIOUS
<1> USE ConstantsAssumption
    DEF Control, ControlTypes, Places, OwnerOnly, NotLaunched, Pushed, WaiterKnows, Reported,
        Streams, Threads, ReaderPlaces, WaiterPlaces, StopPlaces, ClientPlaces,
        ExecutePlaces, Up, Goto, Step, OnlyPc, Lifecycle!vars, WaiterAt, StopperAt,
        childVars, pipeVars, dataVars, clientVars, historyVars
<1>1. ASSUME NEW s \in Streams, ChildWrite(s) PROVE UNCHANGED Lifecycle!vars
  BY <1>1 DEF ChildWrite
<1>2. ASSUME ChildFinish PROVE Lifecycle!Die \/ UNCHANGED Lifecycle!vars
  BY <1>2 DEF ChildFinish, Exit, Lifecycle!Die
<1>3. ASSUME ChildBroken PROVE Lifecycle!Die \/ UNCHANGED Lifecycle!vars
  BY <1>3 DEF ChildBroken, Exit, Lifecycle!Die
<1>4. ASSUME ChildFail PROVE Lifecycle!Die \/ UNCHANGED Lifecycle!vars
  BY <1>4 DEF ChildFail, Exit, Lifecycle!Die
<1>5. ASSUME ChildKilled PROVE UNCHANGED Lifecycle!vars
  BY <1>5 DEF ChildKilled, Exit
<1>6. ASSUME CallStart PROVE UNCHANGED Lifecycle!vars
  BY <1>6 DEF CallStart
<1>7. ASSUME WaitChild PROVE UNCHANGED Lifecycle!vars
  BY <1>7 DEF WaitChild
<1>8. ASSUME WaitReaders PROVE UNCHANGED Lifecycle!vars
  BY <1>8 DEF WaitReaders
<1>9. ASSUME CheckStopped PROVE Lifecycle!Decide
  BY <1>9 DEF CheckStopped, Lifecycle!Decide
<1>10. ASSUME SetOutcome PROVE Lifecycle!Record
  BY <1>10 DEF SetOutcome, Lifecycle!Record
<1>11. ASSUME CallFinish PROVE Lifecycle!Report
  BY <1>11 DEF CallFinish, Lifecycle!Report
<1>12. ASSUME NEW s \in Streams, GetLine(s) PROVE UNCHANGED Lifecycle!vars
  BY <1>12 DEF GetLine
<1>13. ASSUME NEW s \in Streams, EndOfStream(s) PROVE UNCHANGED Lifecycle!vars
  BY <1>13 DEF EndOfStream
<1>14. ASSUME NEW s \in Streams, AppendLine(s) PROVE UNCHANGED Lifecycle!vars
  BY <1>14 DEF AppendLine
<1>15. ASSUME NEW s \in Streams, EveryLine(s) PROVE UNCHANGED Lifecycle!vars
  BY <1>15 DEF EveryLine
<1>16. ASSUME NEW s \in Streams, ResetPipe(s) PROVE UNCHANGED Lifecycle!vars
  BY <1>16 DEF ResetPipe
<1>17. ASSUME NEW s \in Streams, CountRead(s) PROVE UNCHANGED Lifecycle!vars
  BY <1>17 DEF CountRead
<1>18. ASSUME NEW c \in Clients, ExecuteSpawn(c) PROVE UNCHANGED Lifecycle!vars
  BY <1>18 DEF ExecuteSpawn
<1>19. ASSUME NEW c \in Clients, ExecuteRunning(c) PROVE Lifecycle!Launch
  BY <1>19 DEF ExecuteRunning, Lifecycle!Launch
<1>20. ASSUME NEW c \in Clients, ExecutePush(c)
      PROVE  Lifecycle!StartWaiter \/ UNCHANGED Lifecycle!vars
  BY <1>20 DEF ExecutePush, Push, Lifecycle!StartWaiter
<1>21. ASSUME NEW c \in Clients, ExecuteNotify(c) PROVE UNCHANGED Lifecycle!vars
  BY <1>21 DEF ExecuteNotify, Woken
<1>22. ASSUME NEW c \in Clients, WaitForStart(c) PROVE UNCHANGED Lifecycle!vars
  BY <1>22 DEF WaitForStart
<1>23. ASSUME NEW c \in Clients, StartCheck(c) PROVE UNCHANGED Lifecycle!vars
  BY <1>23 DEF StartCheck
<1>24. ASSUME NEW c \in Clients, StartSleep(c) PROVE UNCHANGED Lifecycle!vars
  BY <1>24 DEF StartSleep
<1>25. ASSUME NEW c \in Clients, SpuriousWakeup(c) PROVE UNCHANGED Lifecycle!vars
  BY <1>25 DEF SpuriousWakeup
<1>26. ASSUME NEW c \in Clients, WaitForFinish(c) PROVE UNCHANGED Lifecycle!vars
  BY <1>26 DEF WaitForFinish
<1>27. ASSUME NEW c \in Clients, FinishJoined(c) PROVE UNCHANGED Lifecycle!vars
  BY <1>27 DEF FinishJoined
<1>28. ASSUME NEW c \in Clients, WriteInput(c) PROVE UNCHANGED Lifecycle!vars
  BY <1>28 DEF WriteInput
<1>60. ASSUME NEW c \in Clients, WriteCheck(c) PROVE UNCHANGED Lifecycle!vars
  BY <1>60 DEF WriteCheck
<1>29. ASSUME NEW c \in Clients, WriteStep(c) PROVE UNCHANGED Lifecycle!vars
  BY <1>29 DEF WriteStep
<1>30. ASSUME NEW c \in Clients, CloseInputPipe(c) PROVE UNCHANGED Lifecycle!vars
  BY <1>30 DEF CloseInputPipe, MayBegin
<1>31. ASSUME NEW c \in Clients, Stop(c) PROVE Lifecycle!StopCheck(c)
  BY <1>31 DEF Stop, Lifecycle!StopCheck
<1>32. ASSUME NEW c \in Clients, StopSet(c) PROVE Lifecycle!StopStore(c)
  BY <1>32 DEF StopSet, Lifecycle!StopStore
<1>33. ASSUME NEW c \in Clients, StopSignal(c) PROVE Lifecycle!StopReport(c)
  BY <1>33 DEF StopSignal, Lifecycle!StopReport
<1>34. ASSUME NEW c \in Clients, StopClose(c) PROVE UNCHANGED Lifecycle!vars
  BY <1>34 DEF StopClose
<1>35. ASSUME NEW c \in Clients, StopTerminate(c)
      PROVE  Lifecycle!Die \/ UNCHANGED Lifecycle!vars
  BY <1>35 DEF StopTerminate, Lifecycle!Die
<1>36. ASSUME NEW c \in Clients, StopRunning(c) PROVE UNCHANGED Lifecycle!vars
  BY <1>36 DEF StopRunning
<1>37. ASSUME NEW c \in Clients, StopInterrupt(c) PROVE UNCHANGED Lifecycle!vars
  BY <1>37 DEF StopInterrupt
<1>38. ASSUME NEW c \in Clients, StopJoin(c) PROVE UNCHANGED Lifecycle!vars
  BY <1>38 DEF StopJoin
<1>49. ASSUME NEW c \in Clients, JoinThrows(c) PROVE UNCHANGED Lifecycle!vars
  BY <1>49 DEF JoinThrows
<1>39. ASSUME NEW c \in Clients, StopNotify(c) PROVE UNCHANGED Lifecycle!vars
  BY <1>39 DEF StopNotify, Woken
<1>40. ASSUME NEW c \in Clients, Destroy(c) PROVE UNCHANGED Lifecycle!vars
  BY <1>40 DEF Destroy
<1>41. ASSUME NEW c \in Clients, DestroyStop(c)
      PROVE  Lifecycle!StopCheck(c) \/ UNCHANGED Lifecycle!vars
  BY <1>41 DEF DestroyStop, Lifecycle!StopCheck
<1>42. ASSUME NEW c \in Clients, DestroyJoined(c) PROVE UNCHANGED Lifecycle!vars
  BY <1>42 DEF DestroyJoined
<1>43. ASSUME NEW c \in Clients, NEW s \in Streams, ClosePipe(c, s)
      PROVE  UNCHANGED Lifecycle!vars
  BY <1>43 DEF ClosePipe, Closing
<1>44. ASSUME NEW c \in Clients, NEW s \in Streams, CloseStep(c, s)
      PROVE  UNCHANGED Lifecycle!vars
  BY <1>44 DEF CloseStep, Closing
<1>45. ASSUME UNCHANGED vars PROVE UNCHANGED Lifecycle!vars
  BY <1>45 DEF vars
<1> HIDE DEF Control, Up, Goto, Step, OnlyPc, Streams, Lifecycle!vars
<1>46. ASSUME ChildProgress \/ ChildFail PROVE [Lifecycle!Next]_(Lifecycle!vars)
  BY <1>1, <1>2, <1>3, <1>4, <1>5, <1>46 DEF ChildProgress, Lifecycle!Next
<1>47. ASSUME CallStart \/ WaiterStep \/ \E s \in Streams : ReaderStep(s)
      PROVE  [Lifecycle!Next]_(Lifecycle!vars)
  BY <1>6, <1>7, <1>8, <1>9, <1>10, <1>11, <1>12, <1>13, <1>14, <1>15, <1>16, <1>17,
     <1>47
  DEF ReaderStep, WaiterStep, Lifecycle!Next
<1>48. ASSUME NEW c \in Clients, CallStep(c) \/ BeginCall(c) \/ SpuriousWakeup(c)
      PROVE  [Lifecycle!Next]_(Lifecycle!vars)
  BY <1>60, <1>18, <1>19, <1>20, <1>21, <1>22, <1>23, <1>24, <1>25, <1>26, <1>27, <1>28, <1>29,
     <1>30, <1>31, <1>32, <1>33, <1>34, <1>35, <1>36, <1>37, <1>38, <1>39, <1>40, <1>41,
     <1>42, <1>43, <1>44, <1>48, <1>49
  DEF CallStep, BeginCall, Execute, StopStep, Lifecycle!Next
<1> QED
  BY <1>45, <1>46, <1>47, <1>48 DEF Next, Over

(***************************************************************************)
(* process_impl.cpp keeps the promise of ProcessLifecycle.                 *)
(***************************************************************************)
THEOREM Refinement == Spec => ImplementsLifecycle
<1>1. Spec => []Control
  <2>1. IInv => Control
    BY DEF IInv
  <2> QED
    BY Invariance, <2>1, PTL
<1> QED
  BY <1>1, LifecycleInit, LifecycleStep, PTL DEF Spec, ImplementsLifecycle, Lifecycle!Spec

\* The contract again, with its theorems, under the same mapping.
Contract == INSTANCE ProcessLifecycleProofs WITH
  Stoppers <- Clients,
  alive    <- state # "not_launched" /\ child = "alive",
  waiter   <- WaiterAt(tpc["wait"]),
  stopper  <- [c \in Clients |-> StopperAt(pc[c])]

(***************************************************************************)
(* So what the contract guarantees holds of the engine: a process whose    *)
(* waiting thread is over was reported, or is about to be.                 *)
(***************************************************************************)
THEOREM EndIsReported == Spec => []AtLeastOneReport
<1>1. Lifecycle!Init => Contract!Init
  BY DEF Lifecycle!Init, Contract!Init
<1>2. [Lifecycle!Next]_(Lifecycle!vars) => [Contract!Next]_(Contract!vars)
  BY DEF Lifecycle!Next, Lifecycle!vars, Lifecycle!Launch, Lifecycle!StartWaiter,
         Lifecycle!Die, Lifecycle!Decide, Lifecycle!Record, Lifecycle!Report,
         Lifecycle!StopCheck, Lifecycle!StopStore, Lifecycle!StopReport,
         Contract!Next, Contract!vars, Contract!Launch, Contract!StartWaiter,
         Contract!Die, Contract!Decide, Contract!Record, Contract!Report,
         Contract!StopCheck, Contract!StopStore, Contract!StopReport
<1>3. Contract!AtLeastOneReport => AtLeastOneReport
  BY DEF AtLeastOneReport, Lifecycle!AtLeastOneReport, Contract!AtLeastOneReport
<1> QED
  BY <1>1, <1>2, <1>3, Refinement, Contract!Reported, PTL
  DEF ImplementsLifecycle, Lifecycle!Spec, Contract!Spec

=============================================================================
