--------------------------- MODULE OwnershipProofs ---------------------------
(***************************************************************************)
(* The properties of Ownership for any number of objects and any memory.   *)
(***************************************************************************)
EXTENDS Ownership, TLAPS

(***************************************************************************)
(* TypeOK and OwnedOnce are inductive together: that a cell taken from     *)
(* fresh memory is nobody's follows from every pointer being to memory in  *)
(* use.  EnginesOwned and CallbacksFindProcess each need both: deleting    *)
(* the engine of one process must not free that of another.                *)
(***************************************************************************)
IInv == TypeOK /\ OwnedOnce

\* Taking a pointer away from one object and giving it to another, which has
\* none or whose own is deleted or forgotten, leaves it with one owner.
LEMMA TakeKeepsOwner ==
  ASSUME IInv, NEW h \in Handles, NEW g \in made, Class[h] = Class[g],
         Take(h, g), made' = made \cup {h}, captured' \subseteq captured,
         \/ live' = live
         \/ h # g /\ live' = live \ {ptr[h]}
  PROVE  IInv'
<1> USE DEF IInv, TypeOK, Take
<1>1. /\ ptr' \in [Handles -> Cells \cup {Null}]
      /\ \A x \in Handles : ptr'[x] = IF x = g THEN Null ELSE IF x = h THEN ptr[g] ELSE ptr[x]
  OBVIOUS
<1>2. TypeOK'
  BY <1>1
<1>3. OwnedOnce'
  BY <1>1 DEF OwnedOnce
<1> QED
  BY <1>2, <1>3

\* A fresh cell given to an object, which has none or forgets its own.
LEMMA FreshKeepsOwner ==
  ASSUME IInv, NEW h \in Handles, NEW c \in Fresh(Class[h]),
         made' = made \cup {h}, ptr' = [ptr EXCEPT ![h] = c],
         live' = live \cup {c}, UNCHANGED captured
  PROVE  IInv'
<1> USE DEF IInv, TypeOK, Fresh
<1>1. TypeOK'
  OBVIOUS
<1>2. OwnedOnce'
  BY DEF OwnedOnce
<1> QED
  BY <1>1, <1>2

\* Nothing is made, alive or captured at the start.
LEMMA InvariantInit == Init => IInv
  BY DEF Init, IInv, TypeOK, OwnedOnce

\* Every constructor, assignment and destructor preserves IInv.
LEMMA InvariantStep == IInv /\ [Next]_vars => IInv'
<1> SUFFICES ASSUME IInv, [Next]_vars PROVE IInv'
  OBVIOUS
<1>1. ASSUME NEW h \in Handles, Construct(h) PROVE IInv'
  BY <1>1, FreshKeepsOwner DEF Construct
<1>2. ASSUME NEW h \in Handles, ConstructLog(h) PROVE IInv'
  BY <1>2 DEF ConstructLog, Vacant, IInv, TypeOK, OwnedOnce
<1>3. ASSUME NEW h \in Handles, ParseStats(h) PROVE IInv'
  BY <1>3, FreshKeepsOwner DEF ParseStats, Vacant
<1>4. ASSUME NEW h \in Handles, SetStats(h) PROVE IInv'
  <2>1. made' = made \cup {h}
    BY <1>4 DEF SetStats, Made
  <2> QED
    BY <1>4, <2>1, FreshKeepsOwner DEF SetStats, Made
<1>5. ASSUME NEW h \in Handles, NEW g \in Handles, CopyConstruct(h, g) PROVE IInv'
  <2>1. CASE ptr[g] = Null
    BY <1>5, <2>1 DEF CopyConstruct, Vacant, IInv, TypeOK, OwnedOnce
  <2>2. CASE ptr[g] # Null
    BY <1>5, <2>2, FreshKeepsOwner DEF CopyConstruct, Vacant
  <2> QED
    BY <2>1, <2>2
<1>6. ASSUME NEW h \in Handles, NEW g \in Handles, CopyAssign(h, g) PROVE IInv'
  <2>1. made' = made \cup {h}
    BY <1>6 DEF CopyAssign, Made
  <2> QED
    BY <1>6, <2>1, FreshKeepsOwner DEF CopyAssign, Made
<1>7. ASSUME NEW h \in Handles, NEW g \in Handles, MoveConstruct(h, g) PROVE IInv'
  BY <1>7, TakeKeepsOwner DEF MoveConstruct
<1>8. ASSUME NEW h \in Handles, NEW g \in Handles, MoveAssignProcess(h, g) PROVE IInv'
  <2>1. made' = made \cup {h} /\ captured' \subseteq captured /\ live' = live \ {ptr[h]}
    BY <1>8 DEF MoveAssignProcess, Made, Delete
  <2> QED
    BY <1>8, <2>1, TakeKeepsOwner DEF MoveAssignProcess, Made
<1>9. ASSUME NEW h \in Handles, NEW g \in Handles,
             MoveAssignPool(h, g) \/ MoveAssignLog(h, g)
      PROVE IInv'
  <2>1. /\ g \in made /\ Class[h] = Class[g] /\ Take(h, g)
        /\ made' = made \cup {h} /\ captured' \subseteq captured /\ live' = live
    BY <1>9 DEF MoveAssignPool, MoveAssignLog, Made
  <2> QED
    BY <2>1, TakeKeepsOwner
<1>10. ASSUME NEW h \in Handles, Destroy(h) PROVE IInv'
  BY <1>10 DEF Destroy, Delete, IInv, TypeOK, OwnedOnce
<1>11. ASSUME NEW h \in Handles, Connect(h) PROVE IInv'
  <2>1. ptr[h] \in Cells \cap Processes /\ h \in Handles \cap Processes
    BY <1>11, ConstantsAssumption DEF Connect, Made, IInv, TypeOK, Processes
  <2> QED
    BY <1>11, <2>1 DEF Connect, IInv, TypeOK, OwnedOnce
<1>12. CASE UNCHANGED vars
  BY <1>12 DEF vars, IInv, TypeOK, OwnedOnce
<1> QED
  BY <1>1, <1>2, <1>3, <1>4, <1>5, <1>6, <1>7, <1>8, <1>9, <1>10, <1>11, <1>12 DEF Next

-----------------------------------------------------------------------------
\* EnginesOwned for a process that takes the engine of another.
LEMMA TakeKeepsEngines ==
  ASSUME IInv, EnginesOwned, NEW h \in Handles, NEW g \in made,
         Take(h, g), made' = made \cup {h},
         \/ live' = live /\ (ptr[h] = Null \/ Class[h] # "process")
         \/ h # g /\ live' = live \ {ptr[h]}
  PROVE  EnginesOwned'
<1> SUFFICES ASSUME NEW c \in live' \cap Processes PROVE \E x \in made' : ptr'[x] = c
  BY DEF EnginesOwned
<1>1. c # ptr[h]
  BY ConstantsAssumption DEF IInv, TypeOK, Processes
<1>2. PICK x \in made : ptr[x] = c
  BY DEF EnginesOwned
<1>3. CASE x = g
  BY <1>1, <1>2, <1>3 DEF IInv, TypeOK, Take
<1>4. CASE x # g
  BY <1>1, <1>2, <1>4 DEF IInv, TypeOK, Take
<1> QED
  BY <1>3, <1>4

\* No engine is lost by a step.
LEMMA EnginesStep == IInv /\ EnginesOwned /\ [Next]_vars => EnginesOwned'
<1> SUFFICES ASSUME IInv, EnginesOwned, [Next]_vars PROVE EnginesOwned'
  OBVIOUS
<1>1. ASSUME NEW h \in Handles, Construct(h) PROVE EnginesOwned'
  BY <1>1 DEF Construct, Fresh, EnginesOwned, IInv, TypeOK
<1>2. ASSUME NEW h \in Handles, ConstructLog(h) PROVE EnginesOwned'
  BY <1>2 DEF ConstructLog, EnginesOwned
<1>3. ASSUME NEW h \in Handles, NEW c \in Fresh("json_log"), Class[h] = "json_log",
             made \subseteq made', ptr' = [ptr EXCEPT ![h] = c], live' = live \cup {c}
      PROVE EnginesOwned'
  BY <1>3, ConstantsAssumption DEF Fresh, EnginesOwned, Processes, IInv, TypeOK
<1>4. ASSUME NEW h \in Handles, NEW g \in Handles,
             ParseStats(h) \/ SetStats(h) \/ CopyConstruct(h, g) \/ CopyAssign(h, g)
      PROVE EnginesOwned'
  <2>1. CASE UNCHANGED <<ptr, live>> /\ made \subseteq made'
    BY <2>1 DEF EnginesOwned
  <2>2. CASE ~(UNCHANGED <<ptr, live>> /\ made \subseteq made')
    BY <1>3, <1>4, <2>2
    DEF ParseStats, SetStats, CopyConstruct, CopyAssign, Vacant, Made
  <2> QED
    BY <2>1, <2>2
<1>5. ASSUME NEW h \in Handles, NEW g \in Handles, MoveConstruct(h, g) PROVE EnginesOwned'
  <2>1. ptr[h] = Null
    BY <1>5 DEF MoveConstruct, IInv, TypeOK
  <2> QED
    BY <1>5, <2>1, TakeKeepsEngines DEF MoveConstruct
<1>6. ASSUME NEW h \in Handles, NEW g \in Handles, MoveAssignProcess(h, g) PROVE EnginesOwned'
  <2>1. made' = made \cup {h} /\ live' = live \ {ptr[h]}
    BY <1>6 DEF MoveAssignProcess, Made, Delete
  <2> QED
    BY <1>6, <2>1, TakeKeepsEngines DEF MoveAssignProcess, Made
<1>7. ASSUME NEW h \in Handles, NEW g \in Handles,
             MoveAssignPool(h, g) \/ MoveAssignLog(h, g)
      PROVE EnginesOwned'
  <2>1. /\ g \in made /\ Class[h] # "process" /\ Take(h, g)
        /\ made' = made \cup {h} /\ live' = live
    BY <1>7 DEF MoveAssignPool, MoveAssignLog, Made
  <2> QED
    BY <2>1, TakeKeepsEngines
<1>8. ASSUME NEW h \in Handles, Destroy(h) PROVE EnginesOwned'
  BY <1>8 DEF Destroy, Delete, EnginesOwned, IInv, TypeOK
<1>9. ASSUME NEW h \in Handles, Connect(h) PROVE EnginesOwned'
  BY <1>9 DEF Connect, EnginesOwned
<1>10. CASE UNCHANGED vars
  BY <1>10 DEF vars, EnginesOwned
<1> QED
  BY <1>1, <1>2, <1>4, <1>5, <1>6, <1>7, <1>8, <1>9, <1>10 DEF Next

\* A callback keeps finding its process.
LEMMA CallbacksStep ==
  ASSUME ~MoveConnected
  PROVE  IInv /\ CallbacksFindProcess /\ [Next]_vars => CallbacksFindProcess'
<1> SUFFICES ASSUME IInv, CallbacksFindProcess, [Next]_vars PROVE CallbacksFindProcess'
  OBVIOUS
<1> USE DEF IInv, TypeOK, CallbacksFindProcess, Processes
<1>1. ASSUME NEW h \in Handles, \A k \in captured : k[2] # h,
             captured' \subseteq captured, made \subseteq made',
             \A x \in Handles \ {h} : ptr'[x] = ptr[x]
      PROVE CallbacksFindProcess'
  BY <1>1
<1>2. ASSUME NEW h \in Handles, h \notin made \/ Class[h] # "process"
      PROVE \A k \in captured : k[2] # h
  BY <1>2
<1>3. ASSUME NEW h \in Handles,
             Construct(h) \/ ConstructLog(h) \/ ParseStats(h) \/ SetStats(h)
      PROVE CallbacksFindProcess'
  BY <1>1, <1>2, <1>3 DEF Construct, ConstructLog, ParseStats, SetStats, Vacant, Made
<1>4. ASSUME NEW h \in Handles, NEW g \in Handles, CopyConstruct(h, g) \/ CopyAssign(h, g)
      PROVE CallbacksFindProcess'
  BY <1>1, <1>2, <1>4 DEF CopyConstruct, CopyAssign, Vacant, Made
<1>5. ASSUME NEW h \in Handles, NEW g \in Handles, MoveConstruct(h, g)
      PROVE CallbacksFindProcess'
  <2>1. \A k \in captured : k[2] # h /\ k[2] # g
    BY <1>2, <1>5 DEF MoveConstruct, Movable
  <2> QED
    BY <1>5, <2>1 DEF MoveConstruct, Take
<1>6. ASSUME NEW h \in Handles, NEW g \in Handles, MoveAssignProcess(h, g)
      PROVE CallbacksFindProcess'
  <2>1. \A k \in captured' : k \in captured /\ k[2] # h /\ k[2] # g
    BY <1>6 DEF MoveAssignProcess, Movable, Delete
  <2> QED
    BY <1>6, <2>1 DEF MoveAssignProcess, Take
<1>7. ASSUME NEW h \in Handles, NEW g \in Handles,
             MoveAssignPool(h, g) \/ MoveAssignLog(h, g)
      PROVE CallbacksFindProcess'
  <2>1. \A k \in captured : k[2] # h /\ k[2] # g
    BY <1>2, <1>7 DEF MoveAssignPool, MoveAssignLog, Made
  <2> QED
    BY <1>7, <2>1 DEF MoveAssignPool, MoveAssignLog, Take
<1>8. ASSUME NEW h \in Handles, Destroy(h) PROVE CallbacksFindProcess'
  BY <1>8 DEF Destroy, Delete
<1>9. ASSUME NEW h \in Handles, Connect(h) PROVE CallbacksFindProcess'
  BY <1>9 DEF Connect, Made
<1>10. CASE UNCHANGED vars
  BY <1>10 DEF vars
<1> QED
  BY <1>3, <1>4, <1>5, <1>6, <1>7, <1>8, <1>9, <1>10 DEF Next

-----------------------------------------------------------------------------
(***************************************************************************)
(* Every pointer is null or to memory of its class, and only an object     *)
(* that exists has one.                                                    *)
(***************************************************************************)
THEOREM TypeCorrect == Spec => []TypeOK
<1>1. IInv => TypeOK
  BY DEF IInv
<1> QED
  BY InvariantInit, InvariantStep, <1>1, PTL DEF Spec

(***************************************************************************)
(* No engine and no statistics have two owners, and none is used after it  *)
(* was deleted, whatever is copied, moved, assigned and destroyed.         *)
(***************************************************************************)
THEOREM DeletedOnce == Spec => []OwnedOnce
<1>1. IInv => OwnedOnce
  BY DEF IInv
<1> QED
  BY InvariantInit, InvariantStep, <1>1, PTL DEF Spec

(***************************************************************************)
(* The engine of a process always has a process that will delete it.       *)
(***************************************************************************)
THEOREM NoEngineLost == Spec => []EnginesOwned
<1>1. Init => EnginesOwned
  BY DEF Init, EnginesOwned
<1> QED
  BY InvariantInit, InvariantStep, <1>1, EnginesStep, PTL DEF Spec

(***************************************************************************)
(* Callbacks find their process if none is moved once it has callbacks.    *)
(***************************************************************************)
THEOREM CallbacksSafe == ~MoveConnected => (Spec => []CallbacksFindProcess)
<1> SUFFICES ASSUME ~MoveConnected PROVE Spec => []CallbacksFindProcess
  OBVIOUS
<1>1. Init => CallbacksFindProcess
  BY DEF Init, CallbacksFindProcess
<1>2. IInv /\ CallbacksFindProcess /\ [Next]_vars => CallbacksFindProcess'
  BY CallbacksStep
<1> QED
  BY InvariantInit, InvariantStep, <1>1, <1>2, PTL DEF Spec
=============================================================================
