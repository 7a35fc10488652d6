------------------------ MODULE ProcessCommandProofs ------------------------
(***************************************************************************)
(* What commands() says of a process, and what a process runs, for any     *)
(* processes, commands and options.  The words of the options are put on   *)
(* a line by recursive functions; Recursion has what they are proved by.   *)
(***************************************************************************)
EXTENDS ProcessCommand, Recursion, TLAPS

-----------------------------------------------------------------------------
(***************************************************************************)
(* The inductive invariant.  What commands() said of a process that was    *)
(* not launched is its command line still, or is forgotten; _args of one   *)
(* that was launched, and given no other command, is what it runs.         *)
(***************************************************************************)
PerProcess(f) == f = [p \in Processes |-> f[p]]

Shapes ==
  /\ launched \subseteq Processes
  /\ PerProcess(args) /\ PerProcess(local) /\ PerProcess(useGlobal)
  /\ PerProcess(ran) /\ PerProcess(told)

Foretold ==
  prog = "up" =>
    \A p \in Processes \ launched : told[p] \in {Unknown, CommandLine(p, useGlobal[p])}

Recalled ==
  \A p \in launched : p \notin rebuilt => args[p] = ran[p] /\ told[p] \in {Unknown, ran[p]}

IInv == Shapes /\ Foretold /\ Recalled

\* The first state is in the invariant.
LEMMA InvariantInit == Init => IInv
  BY DEF Init, IInv, Shapes, PerProcess, Foretold, Recalled

\* The command line of a process is put together from these.
LEMMA SameLine ==
  ASSUME NEW p \in Processes, args'[p] = args[p], local'[p] = local[p],
         useGlobal'[p] = useGlobal[p], global' = global
  PROVE  CommandLine(p, useGlobal[p])' = CommandLine(p, useGlobal[p])
  BY DEF CommandLine

\* A step that leaves a process alone, or makes what was said of it unknown.
LEMMA OtherStep ==
  ASSUME Foretold, Recalled, prog = "up", launched \subseteq Processes,
         launched' = launched, ran' = ran, rebuilt \subseteq rebuilt',
         \A p \in Processes :
           \/ told'[p] = Unknown /\ (p \in launched => p \in rebuilt' \/ args'[p] = args[p])
           \/ /\ told'[p] = told[p] /\ args'[p] = args[p]
              /\ p \notin launched =>
                   local'[p] = local[p] /\ useGlobal'[p] = useGlobal[p] /\ global' = global
  PROVE  Foretold' /\ Recalled'
<1>1. Recalled'
  BY DEF Recalled
<1>2. ASSUME NEW p \in Processes \ launched
      PROVE  told'[p] \in {Unknown, CommandLine(p, useGlobal[p])'}
  <2>1. CASE told'[p] = Unknown
    BY <2>1
  <2>2. CASE told'[p] # Unknown
    <3>1. /\ told'[p] = told[p] /\ args'[p] = args[p] /\ local'[p] = local[p]
          /\ useGlobal'[p] = useGlobal[p] /\ global' = global
      BY <2>2
    <3>2. CommandLine(p, useGlobal[p])' = CommandLine(p, useGlobal[p])
      BY <3>1, SameLine
    <3> QED
      BY <3>1, <3>2 DEF Foretold
  <2> QED
    BY <2>1, <2>2
<1> QED
  BY <1>1, <1>2 DEF Foretold

-----------------------------------------------------------------------------
\* execute(): what runs is the command line that commands() would tell.
LEMMA ExecuteStep ==
  ASSUME IInv, NEW p \in Processes, NEW with \in BOOLEAN, Execute(p, with)
  PROVE  IInv'
<1> DEFINE line == CommandLine(p, with)
<1>1. /\ prog = "up"
      /\ useGlobal' = [useGlobal EXCEPT ![p] = with]
      /\ UNCHANGED <<global, local, rebuilt>>
      /\ \A q \in Processes \ {p} : told'[q] = told[q]
      /\ told'[p] = IF p \notin launched /\ with # useGlobal[p] THEN Unknown ELSE told[p]
      /\ PerProcess(told')
  BY DEF Execute, Run, Use, staticVars, IInv, Shapes, PerProcess
<1>2. /\ args' = [args EXCEPT ![p] = IF p \in launched THEN args[p] ELSE line]
      /\ \/ /\ p \notin launched /\ launched' = launched \cup {p} /\ prog' = prog
            /\ ran' = [ran EXCEPT ![p] = line]
         \/ /\ launched' = launched /\ ran' = ran
            /\ p \notin launched => prog' = "exit"
  BY DEF Execute, Run, CommandLine
<1>3. Shapes'
  BY <1>1, <1>2 DEF IInv, Shapes, PerProcess
<1>4. \A q \in Processes \ {p} :
        /\ args'[q] = args[q] /\ local'[q] = local[q] /\ useGlobal'[q] = useGlobal[q]
        /\ ran'[q] = ran[q]
  BY <1>1, <1>2 DEF IInv, Shapes, PerProcess
<1>5. Foretold'
  <2> SUFFICES ASSUME prog' = "up", NEW q \in Processes \ launched'
               PROVE  told'[q] \in {Unknown, CommandLine(q, useGlobal[q])'}
    BY DEF Foretold
  <2>1. q # p /\ q \notin launched
    BY <1>2
  <2>2. CommandLine(q, useGlobal[q])' = CommandLine(q, useGlobal[q])
    BY <1>1, <1>4, <2>1, SameLine
  <2> QED
    BY <1>1, <2>1, <2>2 DEF IInv, Foretold
<1>6. Recalled'
  <2> SUFFICES ASSUME NEW q \in launched', q \notin rebuilt'
               PROVE  args'[q] = ran'[q] /\ told'[q] \in {Unknown, ran'[q]}
    BY DEF Recalled
  <2>1. CASE q # p
    BY <1>1, <1>2, <1>4, <2>1 DEF IInv, Recalled, Shapes
  <2>2. CASE q = p /\ p \in launched
    BY <1>1, <1>2, <2>2 DEF IInv, Recalled, Shapes, PerProcess
  <2>3. CASE q = p /\ p \notin launched
    <3>1. args'[p] = line /\ ran'[p] = line
      BY <1>2, <2>3 DEF IInv, Shapes, PerProcess
    <3>2. with = useGlobal[p] => told[p] \in {Unknown, line}
      BY <1>1, <2>3 DEF IInv, Foretold
    <3> QED
      BY <1>1, <2>3, <3>1, <3>2
  <2> QED
    BY <2>1, <2>2, <2>3
<1> QED
  BY <1>3, <1>5, <1>6 DEF IInv

\* config_create's execute(): nobody was told of its command.
LEMMA ExecuteCreateStep ==
  ASSUME IInv, NEW p \in Processes, ExecuteCreate(p)
  PROVE  IInv'
<1> DEFINE command == CreateCommand(p)
           line == AddOptionsToVector(local[p], command)
<1>1. /\ prog = "up"
      /\ useGlobal' = [useGlobal EXCEPT ![p] = FALSE]
      /\ UNCHANGED <<global, local>>
      /\ told' = [told EXCEPT ![p] = Unknown]
      /\ rebuilt' = IF p \in launched THEN rebuilt \cup {p} ELSE rebuilt
  BY DEF ExecuteCreate, Run, Use, staticVars
<1>2. /\ args' = [args EXCEPT ![p] = IF p \in launched THEN command ELSE line]
      /\ \/ /\ p \notin launched /\ launched' = launched \cup {p}
            /\ ran' = [ran EXCEPT ![p] = line]
         \/ launched' = launched /\ ran' = ran
  BY DEF ExecuteCreate, Run
<1> HIDE DEF command, line
<1>3. Shapes'
  BY <1>1, <1>2 DEF IInv, Shapes, PerProcess
<1>4. /\ told'[p] = Unknown
      /\ \A q \in Processes \ {p} :
           /\ args'[q] = args[q] /\ local'[q] = local[q] /\ useGlobal'[q] = useGlobal[q]
           /\ ran'[q] = ran[q] /\ told'[q] = told[q]
  BY <1>1, <1>2 DEF IInv, Shapes, PerProcess
<1>5. Foretold'
  <2> SUFFICES ASSUME NEW q \in Processes \ launched', q # p
               PROVE  told'[q] \in {Unknown, CommandLine(q, useGlobal[q])'}
    BY <1>4 DEF Foretold
  <2>1. q \notin launched
    BY <1>2
  <2>2. CommandLine(q, useGlobal[q])' = CommandLine(q, useGlobal[q])
    BY <1>1, <1>4, SameLine
  <2> QED
    BY <1>1, <1>4, <2>1, <2>2 DEF IInv, Foretold
<1>6. Recalled'
  <2>1. ASSUME NEW q \in launched', q \notin rebuilt', q # p
        PROVE  args'[q] = ran'[q] /\ told'[q] \in {Unknown, ran'[q]}
    BY <1>1, <1>2, <1>4, <2>1 DEF IInv, Recalled, Shapes
  <2>2. ASSUME p \in launched', p \notin rebuilt'
        PROVE  args'[p] = ran'[p]
    BY <1>1, <1>2, <2>2 DEF IInv, Shapes, PerProcess
  <2> QED
    BY <1>4, <2>1, <2>2 DEF Recalled
<1> QED
  BY <1>3, <1>5, <1>6 DEF IInv

-----------------------------------------------------------------------------
\* The invariant is inductive.
LEMMA InvariantStep == IInv /\ [Next]_vars => IInv'
<1> SUFFICES ASSUME IInv, [Next]_vars PROVE IInv'
  OBVIOUS
<1> USE DEF IInv, Shapes, PerProcess, staticVars, objectVars, historyVars, Use
<1>1. ASSUME NEW x \in Paths, Initialize(x) PROVE IInv'
  BY <1>1, OtherStep DEF Initialize
<1>2. ASSUME NEW o \in Options, AddGlobalOption(o) PROVE IInv'
  BY <1>2, OtherStep DEF AddGlobalOption, ChangeGlobal
<1>3. ASSUME ClearGlobalOptions PROVE IInv'
  BY <1>3, OtherStep DEF ClearGlobalOptions, ChangeGlobal
<1>4. ASSUME NEW p \in Processes, Construct(p) PROVE IInv'
  BY <1>4, OtherStep DEF Construct
<1>5. ASSUME NEW p \in Processes, WithGlobalOptions(p) PROVE IInv'
  BY <1>5, OtherStep DEF WithGlobalOptions
<1>6. ASSUME NEW p \in Processes, AskCommands(p) PROVE IInv'
  <2>1. Shapes' /\ launched' = launched /\ UNCHANGED <<args, local, useGlobal, global, ran, rebuilt, prog>>
    BY <1>6 DEF AskCommands
  <2>2. told'[p] = CommandsOf(p) /\ \A q \in Processes \ {p} : told'[q] = told[q]
    BY <1>6 DEF AskCommands
  <2>3. Foretold'
    BY <2>1, <2>2 DEF Foretold, CommandsOf, CommandLine
  <2>4. Recalled'
    BY <2>1, <2>2 DEF Recalled, CommandsOf
  <2> QED
    BY <2>1, <2>3, <2>4
<1>7. ASSUME NEW p \in Processes, NEW c \in Commands, NEW f \in Files, Build(p, c, f) PROVE IInv'
  BY <1>7, OtherStep DEF Build, SetArgs
<1>8. ASSUME NEW p \in Processes, NEW f \in Files, NEW g \in Files, Check(p, f, g) PROVE IInv'
  BY <1>8, OtherStep DEF Check, SetArgs
<1>9. ASSUME NEW p \in Processes, NEW o \in Options, AddOption(p, o) PROVE IInv'
  BY <1>9, OtherStep DEF AddOption
<1>10. ASSUME NEW p \in Processes, NEW with \in BOOLEAN, Execute(p, with) PROVE IInv'
  BY <1>10, ExecuteStep
<1>11. ASSUME NEW p \in Processes, NEW c, SetCreator(p, c) PROVE IInv'
  BY <1>11, OtherStep DEF SetCreator
<1>12. ASSUME NEW p \in Processes, GetProcess(p) PROVE IInv'
  BY <1>12, OtherStep DEF GetProcess, SetArgs
<1>13. ASSUME NEW p \in Processes, ExecuteCreate(p) PROVE IInv'
  BY <1>13, ExecuteCreateStep
<1>14. CASE UNCHANGED vars
  BY <1>14 DEF vars, Foretold, Recalled, CommandLine
<1> QED
  BY <1>1, <1>2, <1>3, <1>4, <1>5, <1>6, <1>7, <1>8, <1>9, <1>10, <1>11, <1>12, <1>13, <1>14
  DEF Next, ConfigCreate, SetName, SetType, AddParam, Over

(***************************************************************************)
(* commands() foretells what execute() runs and recalls what it ran, for   *)
(* any processes, commands, operands and options, however they are mixed.  *)
(***************************************************************************)
THEOREM CommandsAreTrue == Spec => []CommandsTell
<1>1. IInv => CommandsTell
  BY DEF IInv, Recalled, CommandsTell
<1> QED
  BY <1>1, InvariantInit, InvariantStep, PTL DEF Spec

-----------------------------------------------------------------------------
(***************************************************************************)
(* Command lines.  Options only add words at the end of a line, and a line *)
(* that has no command begins with an option's own word, never with a      *)
(* command's.                                                              *)
(***************************************************************************)
Extends(line, vector) ==
  Len(vector) <= Len(line) /\ \A k \in 1..Len(vector) : line[k] = vector[k]

\* a line that is empty, or that begins with an option
Optional(line) == line # <<>> => line[1] \notin Keywords

Lines(vector) ==
  {line \in Seq(STRING) :
     Extends(line, vector) /\ (OptionsBegin /\ Optional(vector) => Optional(line))}

\* Sequences written out.
LEMMA Written ==
  ASSUME NEW S, NEW a \in S, NEW b \in S, NEW c \in S
  PROVE  /\ <<a>> \in Seq(S) /\ <<a, b>> \in Seq(S) /\ <<a, b, c>> \in Seq(S)
         /\ Len(<<a, b, c>>) = 3
         /\ <<a, b, c>>[1] = a /\ <<a, b, c>>[2] = b /\ <<a, b, c>>[3] = c
  OBVIOUS

\* Words that a command line may hold.
LEMMA Strings ==
  /\ "check" \in STRING /\ "create" \in STRING /\ Unknown \in Seq(STRING)
  /\ Commands \subseteq STRING /\ Files \subseteq STRING
  /\ Names \subseteq STRING /\ Params \subseteq STRING /\ "" \in Names
<1>1. {"check", "create", "unknown"} \cup Commands \cup Files \cup Names \cup Params \subseteq STRING
  BY ConstantsAssumption, Zenon DEF ConstantsAssumption
<1>2. "unknown" \in STRING
  BY <1>1, Zenon
<1>3. Unknown \in Seq(STRING)
  BY <1>2, Written, Zenon DEF Unknown
<1> QED
  BY <1>1, <1>3, ConstantsAssumption, Zenon DEF ConstantsAssumption

\* A word that is added goes to the end.
LEMMA AddedWord ==
  ASSUME NEW w \in Seq(STRING), NEW x \in STRING
  PROVE  /\ AddWord(w, x) \in Seq(STRING) /\ Extends(AddWord(w, x), w)
         /\ w # <<>> => AddWord(w, x) # <<>>
         /\ w = <<>> /\ x # "" => AddWord(w, x) # <<>> /\ AddWord(w, x)[1] = x
<1>1. /\ Append(w, x) \in Seq(STRING) /\ Len(Append(w, x)) = Len(w) + 1
      /\ \A k \in 1..Len(w) : Append(w, x)[k] = w[k]
      /\ Append(w, x)[Len(w) + 1] = x
      /\ Append(w, x) # <<>>
      /\ Len(w) \in Nat /\ (w = <<>> <=> Len(w) = 0)
  BY Appended
<1>2. CASE x = ""
  <2>1. AddWord(w, x) = w
    BY <1>2, Zenon DEF AddWord
  <2>2. Extends(w, w)
    BY <1>1 DEF Extends
  <2> QED
    BY <1>2, <2>1, <2>2, Zenon
<1>3. CASE x # ""
  <2> DEFINE a == Append(w, x)
  <2>1. AddWord(w, x) = a
    BY <1>3, Zenon DEF AddWord
  <2> HIDE DEF a
  <2>2. Extends(a, w)
    BY <1>1 DEF Extends, a
  <2>3. w = <<>> => a[1] = x
    <3>1. Len(w) = 0 => a[1] = x
      BY <1>1 DEF a
    <3> QED
      BY <1>1, <3>1
  <2> QED
    BY <1>1, <1>3, <2>1, <2>2, <2>3, Zenon DEF a
<1> QED
  BY <1>2, <1>3

\* Extending is transitive.
LEMMA ExtendsTwice ==
  ASSUME NEW S, NEW u \in Seq(S), NEW v \in Seq(S), NEW w \in Seq(S), Extends(v, u), Extends(w, v)
  PROVE  Extends(w, u)
<1>1. Len(u) \in Nat /\ Len(v) \in Nat /\ Len(w) \in Nat
  OBVIOUS
<1> QED
  BY <1>1 DEF Extends

\* The words of an option follow those that are there.
LEMMA OneOption ==
  ASSUME NEW vector \in Seq(STRING), NEW o \in Options
  PROVE  AddOptionToVector(vector, o) \in Lines(vector)
<1> DEFINE words == Words[o]
           N == Len(words)
           Solves(g) == g = [n \in 0..N |-> IF n = 0 THEN vector ELSE AddWord(g[n - 1], words[n])]
           f == CHOOSE g : Solves(g)
<1>1. words \in Seq(STRING) /\ N \in Nat /\ \A n \in 1..N : words[n] \in STRING
  <2>1. words \in Seq(STRING)
    BY ConstantsAssumption DEF ConstantsAssumption
  <2> HIDE DEF words
  <2> QED
    BY <2>1
<1>2. OptionsBegin /\ N > 0 => words[1] # "" /\ words[1] \notin Keywords
  <2>1. OptionsBegin /\ words # <<>> => words[1] # "" /\ words[1] \notin Keywords
    BY DEF OptionsBegin
  <2>2. N > 0 => words # <<>>
    OBVIOUS
  <2> QED
    BY <2>1, <2>2, Zenon
<1>3. AddOptionToVector(vector, o) = f[N]
  BY DEF AddOptionToVector
<1> HIDE DEF words, N
<1> DEFINE V == Seq(STRING)
           step == [n \in 1..N |-> [w \in V |-> AddWord(w, words[n])]]
<1>4. \E g : Solves(g)
  <2>1. step \in [1..N -> [V -> V]]
    BY <1>1, AddedWord
  <2>2. PICK g : Steps(g, N, V, vector, step)
    <3> HIDE DEF V, step
    <3> QED
      BY <1>1, <2>1, RecursionExists DEF V
  <2>3. \A n \in 1..N : g[n - 1] \in V
    BY <1>1, <2>2 DEF Steps
  <2>4. \A n \in 1..N : g[n] = AddWord(g[n - 1], words[n])
    BY <2>2, <2>3 DEF Steps
  <2>5. Solves(g)
    BY <1>1, <2>2, <2>4 DEF Steps
  <2> QED
    BY <2>5
<1>5. f[0] = vector /\ \A n \in 1..N : f[n] = AddWord(f[n - 1], words[n])
  <2>1. Solves(f)
    BY <1>4
  <2> HIDE DEF f
  <2> QED
    BY <1>1, <2>1
<1> HIDE DEF f
<1> DEFINE Begun(n) == OptionsBegin /\ Optional(vector) /\ n > 0 => f[n] # <<>> /\ Optional(f[n])
           Good == {n \in 0..N : f[n] \in Seq(STRING) /\ Extends(f[n], vector) /\ Begun(n)}
<1>6. 0 \in Good
  BY <1>1, <1>5 DEF Extends
<1>7. ASSUME NEW n \in 0..(N - 1), n \in Good PROVE n + 1 \in Good
  <2> DEFINE w == f[n]
             x == words[n + 1]
  <2>1. f[n + 1] = AddWord(w, x) /\ n + 1 \in 1..N /\ x \in STRING
    BY <1>1, <1>5
  <2>2. w \in Seq(STRING) /\ Extends(w, vector) /\ Begun(n)
    BY <1>7
  <2>3. OptionsBegin /\ n = 0 => w = vector /\ x # "" /\ x \notin Keywords
    <3>1. n = 0 => n + 1 = 1 /\ N > 0
      BY <1>1
    <3> QED
      BY <1>2, <1>5, <3>1, Zenon
  <2>8. Begun(n + 1) <=> (OptionsBegin /\ Optional(vector) => f[n + 1] # <<>> /\ Optional(f[n + 1]))
    OBVIOUS
  <2>9. OptionsBegin /\ n # 0 /\ Optional(vector) => w # <<>> /\ Optional(w)
    BY <2>2
  <2> HIDE DEF w, x
  <2>4. /\ AddWord(w, x) \in Seq(STRING) /\ Extends(AddWord(w, x), w)
        /\ w # <<>> => AddWord(w, x) # <<>>
        /\ w = <<>> /\ x # "" => AddWord(w, x) # <<>> /\ AddWord(w, x)[1] = x
    BY <2>1, <2>2, AddedWord
  <2>5. Extends(AddWord(w, x), vector)
    BY <2>2, <2>4, ExtendsTwice
  <2>6. w # <<>> => AddWord(w, x)[1] = w[1]
    <3>1. Len(w) \in Nat /\ (w # <<>> => Len(w) # 0)
      BY <2>2, EmptySeq
    <3>2. PICK a : a = AddWord(w, x)
      OBVIOUS
    <3>3. Extends(a, w)
      BY <2>4, <3>2, Zenon
    <3>4. Len(w) # 0 => a[1] = w[1]
      BY <3>1, <3>3 DEF Extends
    <3> QED
      BY <3>1, <3>2, <3>4, Zenon
  <2>7. Begun(n + 1)
    <3> HIDE DEF Begun
    <3> QED
      BY <2>1, <2>3, <2>4, <2>6, <2>8, <2>9, Zenon DEF Optional
  <2>10. n + 1 \in 0..N
    BY <1>1
  <2>11. f[n + 1] \in Seq(STRING) /\ Extends(f[n + 1], vector)
    BY <2>1, <2>4, <2>5, Zenon
  <2> HIDE DEF Begun
  <2> QED
    BY <2>7, <2>10, <2>11, Zenon
<1>8. \A n \in 0..N : n \in Good
  <2> HIDE DEF Good
  <2> QED
    BY <1>1, <1>6, <1>7, UpTo
<1>9. N \in Good
  BY <1>1, <1>8
<1> QED
  BY <1>1, <1>3, <1>5, <1>9 DEF Lines

\* So do the words of a number of options.
LEMMA AllOptions ==
  ASSUME NEW vector \in Seq(STRING), NEW options \in Seq(Options)
  PROVE  AddOptionsToVector(options, vector) \in Lines(vector)
<1> DEFINE N == Len(options)
           Solves(g) == g = [n \in 0..N |->
                               IF n = 0 THEN vector ELSE AddOptionToVector(g[n - 1], options[n])]
           f == CHOOSE g : Solves(g)
           V == Seq(STRING)
           step == [n \in 1..N |-> [w \in V |-> AddOptionToVector(w, options[n])]]
<1>1. N \in Nat /\ \A n \in 1..N : options[n] \in Options
  OBVIOUS
<1>2. AddOptionsToVector(options, vector) = f[N]
  BY DEF AddOptionsToVector
<1> HIDE DEF N
<1>3. \A n \in 1..N : \A w \in V : AddOptionToVector(w, options[n]) \in Lines(w)
  BY <1>1, OneOption
<1>4. \E g : Solves(g)
  <2>1. step \in [1..N -> [V -> V]]
    BY <1>3 DEF Lines
  <2>2. PICK g : Steps(g, N, V, vector, step)
    <3> HIDE DEF V, step
    <3> QED
      BY <1>1, <2>1, RecursionExists DEF V
  <2>3. \A n \in 1..N : g[n - 1] \in V
    BY <1>1, <2>2 DEF Steps
  <2>4. \A n \in 1..N : g[n] = AddOptionToVector(g[n - 1], options[n])
    BY <2>2, <2>3 DEF Steps
  <2>5. Solves(g)
    BY <1>1, <2>2, <2>4 DEF Steps
  <2> QED
    BY <2>5
<1>5. f[0] = vector /\ \A n \in 1..N : f[n] = AddOptionToVector(f[n - 1], options[n])
  <2>1. Solves(f)
    BY <1>4
  <2> HIDE DEF f
  <2> QED
    BY <1>1, <2>1
<1> HIDE DEF f
<1> DEFINE Good == {n \in 0..N : f[n] \in Lines(vector)}
<1>6. 0 \in Good
  BY <1>1, <1>5 DEF Extends, Lines
<1>7. ASSUME NEW n \in 0..(N - 1), n \in Good PROVE n + 1 \in Good
  <2>1. f[n] \in Seq(STRING) /\ f[n] \in Lines(vector) /\ n + 1 \in 1..N /\ n + 1 \in 0..N
    BY <1>1, <1>7 DEF Lines
  <2>2. f[n + 1] \in Lines(f[n])
    BY <1>3, <1>5, <2>1
  <2>3. Extends(f[n + 1], vector) /\ f[n + 1] \in Seq(STRING)
    BY <2>1, <2>2, ExtendsTwice DEF Lines
  <2> QED
    BY <2>1, <2>2, <2>3 DEF Lines
<1>8. \A n \in 0..N : n \in Good
  <2> HIDE DEF Good
  <2> QED
    BY <1>1, <1>6, <1>7, UpTo
<1>9. N \in Good
  BY <1>1, <1>8
<1> QED
  BY <1>2, <1>9

-----------------------------------------------------------------------------
(***************************************************************************)
(* The state has its type, as functions of the processes.                  *)
(***************************************************************************)
Typed ==
  /\ path \in Paths \cup {NoPath} /\ initialized \in BOOLEAN
  /\ global \in Seq(Options)
  /\ made \subseteq Processes /\ launched \subseteq made
  /\ local \in [Processes -> Seq(Options)]
  /\ useGlobal \in [Processes -> BOOLEAN]
  /\ args \in [Processes -> Seq(STRING)]
  /\ ran \in [Processes -> Seq(STRING)]
  /\ told \in [Processes -> Seq(STRING)]
  /\ creator \in [Processes -> [name : Names, type : Names, params : Seq(Params)]]
  /\ prog \in {"up", "terminate", "exit"}
  /\ rebuilt \subseteq launched

\* A new creator is one.
LEMMA NewCreatorTyped ==
  NewCreator \in [name : Names, type : Names, params : Seq(Params)]
<1>1. PICK c : c = [name |-> "", type |-> "", params |-> <<>>]
  OBVIOUS
<1>2. PICK n \in Names : c = [name |-> n, type |-> n, params |-> <<>>]
  BY <1>1, Strings, Zenon
<1>3. c \in [name : Names, type : Names, params : Seq(Params)]
  BY <1>2
<1> QED
  BY <1>1, <1>3, Zenon DEF NewCreator

\* The first state has its type.
LEMMA TypedInit == Init => Typed
<1> SUFFICES ASSUME Init PROVE Typed
  OBVIOUS
<1>1. PICK c : c = NewCreator
  OBVIOUS
<1>3. c \in [name : Names, type : Names, params : Seq(Params)]
  BY <1>1, NewCreatorTyped
<1>4. creator = [p \in Processes |-> c]
  BY <1>1, Zenon DEF Init
<1>5. path = NoPath /\ prog = "up"
  BY Zenon DEF Init
<1>8. /\ initialized = FALSE /\ global = <<>>
      /\ made = {} /\ launched = {} /\ rebuilt = {}
      /\ args = [p \in Processes |-> <<>>] /\ local = [p \in Processes |-> <<>>]
      /\ useGlobal = [p \in Processes |-> FALSE]
      /\ ran = [p \in Processes |-> <<>>] /\ told = [p \in Processes |-> Unknown]
  BY Zenon DEF Init
<1>9. Unknown \in Seq(STRING)
  BY Strings, Zenon
<1>6. /\ args \in [Processes -> Seq(STRING)] /\ ran \in [Processes -> Seq(STRING)]
      /\ told \in [Processes -> Seq(STRING)]
      /\ local \in [Processes -> Seq(Options)] /\ global \in Seq(Options)
      /\ useGlobal \in [Processes -> BOOLEAN]
  BY <1>8, <1>9
<1>7. creator \in [Processes -> [name : Names, type : Names, params : Seq(Params)]]
  BY <1>3, <1>4
<1> QED
  BY <1>5, <1>6, <1>7, <1>8, Zenon DEF Typed

\* The commands that a process is given are sequences of words.
LEMMA CommandsTyped ==
  ASSUME Typed, NEW p \in Processes
  PROVE  /\ CreateCommand(p) \in Seq(STRING)
         /\ Len(CreateCommand(p)) >= 3
         /\ CreateCommand(p)[1] = "create"
         /\ CreateCommand(p)[2] = creator[p].name
         /\ CreateCommand(p)[3] = creator[p].type
<1> DEFINE first == <<"create", creator[p].name, creator[p].type>>
           params == creator[p].params
<1>1. creator[p] \in [name : Names, type : Names, params : Seq(Params)]
  BY DEF Typed
<1>2. Names \subseteq STRING /\ Params \subseteq STRING /\ "create" \in STRING
  BY Strings
<1>3. first \in Seq(STRING) /\ Len(first) = 3
      /\ first[1] = "create" /\ first[2] = creator[p].name /\ first[3] = creator[p].type
  <2>1. creator[p].name \in STRING /\ creator[p].type \in STRING
    BY <1>1, <1>2
  <2>2. \A a, b, c \in STRING :
          <<a, b, c>> \in Seq(STRING) /\ Len(<<a, b, c>>) = 3
          /\ <<a, b, c>>[1] = a /\ <<a, b, c>>[2] = b /\ <<a, b, c>>[3] = c
    BY Written
  <2> QED
    BY <1>2, <2>1, <2>2, Zenon
<1>4. params \in Seq(STRING)
  BY <1>1, <1>2, SeqMonotonic
<1>5. CreateCommand(p) = first \o params
  BY DEF CreateCommand
<1> HIDE DEF first, params
<1>8. first \in Seq(STRING)
  BY <1>3
<1>6. /\ first \o params \in Seq(STRING)
      /\ Len(first \o params) = Len(first) + Len(params)
      /\ \A i \in 1..Len(first) : (first \o params)[i] = first[i]
  BY <1>4, <1>8, Joined
<1>7. Len(params) \in Nat
  BY <1>4
<1> QED
  BY <1>3, <1>5, <1>6, <1>7

\* What a process runs is a sequence of words.
LEMMA LinesTyped ==
  ASSUME Typed, NEW p \in Processes, NEW command \in Seq(STRING), NEW with \in BOOLEAN
  PROVE  AddOptionsToVector(local[p], IF with THEN AddOptionsToVector(global, command) ELSE command)
           \in Seq(STRING)
<1>1. local[p] \in Seq(Options) /\ global \in Seq(Options)
  BY DEF Typed
<1>2. AddOptionsToVector(global, command) \in Seq(STRING)
  BY <1>1, AllOptions DEF Lines
<1> DEFINE base == IF with THEN AddOptionsToVector(global, command) ELSE command
<1>3. base \in Seq(STRING)
  BY <1>2
<1> HIDE DEF base
<1>4. AddOptionsToVector(local[p], base) \in Seq(STRING)
  BY <1>1, <1>3, AllOptions DEF Lines
<1> QED
  BY <1>4 DEF base

\* Every step keeps the types.
LEMMA TypedStep == Typed /\ [Next]_vars => Typed'
<1> SUFFICES ASSUME Typed, [Next]_vars PROVE Typed'
  OBVIOUS
<1> USE DEF Typed, staticVars, objectVars, historyVars
<1>0. Unknown \in Seq(STRING)
  BY Strings
<1>1. ASSUME NEW x \in Paths, Initialize(x) PROVE Typed'
  <2>1. initialized' \in BOOLEAN
    BY <1>1 DEF Initialize
  <2> QED
    BY <1>1, <2>1 DEF Initialize
<1>2. ASSUME NEW o \in Options, AddGlobalOption(o) PROVE Typed'
  BY <1>0, <1>2 DEF AddGlobalOption, ChangeGlobal
<1>3. ASSUME ClearGlobalOptions PROVE Typed'
  BY <1>0, <1>3 DEF ClearGlobalOptions, ChangeGlobal
<1>4. ASSUME NEW p \in Processes, Construct(p) PROVE Typed'
  BY <1>4 DEF Construct
<1>5. ASSUME NEW p \in Processes, WithGlobalOptions(p) PROVE Typed'
  BY <1>0, <1>5 DEF WithGlobalOptions
<1>6. ASSUME NEW p \in Processes, AskCommands(p) PROVE Typed'
  <2>1. CommandsOf(p) \in Seq(STRING)
    BY LinesTyped DEF CommandsOf, CommandLine
  <2> QED
    BY <1>6, <2>1 DEF AskCommands
<1>7. ASSUME NEW p \in Processes, NEW c \in Commands, NEW f \in Files, Build(p, c, f) PROVE Typed'
  <2>1. <<c, f>> \in Seq(STRING)
    BY Strings, Written, Zenon
  <2> QED
    BY <1>0, <1>7, <2>1 DEF Build, SetArgs
<1>8. ASSUME NEW p \in Processes, NEW f \in Files, NEW g \in Files, Check(p, f, g) PROVE Typed'
  <2>0. CheckOptions \in Seq(Options)
    BY ConstantsAssumption DEF ConstantsAssumption
  <2>1. <<"check", f, g>> \in Seq(STRING)
    BY Strings, Written, Zenon
  <2>2. local[p] \o CheckOptions \in Seq(Options)
    BY <2>0
  <2> QED
    BY <1>0, <1>8, <2>1, <2>2 DEF Check, SetArgs
<1>9. ASSUME NEW p \in Processes, NEW o \in Options, AddOption(p, o) PROVE Typed'
  BY <1>0, <1>9 DEF AddOption
<1>10. ASSUME NEW p \in Processes, NEW with \in BOOLEAN, Execute(p, with) PROVE Typed'
  <2> DEFINE line == AddOptionsToVector(local[p],
                       IF with THEN AddOptionsToVector(global, args[p]) ELSE args[p])
  <2>1. args[p] \in Seq(STRING)
    OBVIOUS
  <2>2. line \in Seq(STRING)
    BY <2>1, LinesTyped
  <2> HIDE DEF line
  <2>3. /\ useGlobal' = [useGlobal EXCEPT ![p] = with]
        /\ args' = [args EXCEPT ![p] = IF p \in launched THEN args[p] ELSE line]
        /\ ran' \in {ran, [ran EXCEPT ![p] = line]}
        /\ launched' \in {launched, launched \cup {p}}
        /\ prog' \in {prog, "exit"}
        /\ p \in made /\ told' \in {told, [told EXCEPT ![p] = Unknown]}
        /\ UNCHANGED <<staticVars, made, local, creator, rebuilt>>
    <3>1. /\ Run(p, args[p], with)
          /\ told' = IF p \notin launched /\ with # useGlobal[p]
                     THEN [told EXCEPT ![p] = Unknown] ELSE told
          /\ p \in made /\ UNCHANGED <<staticVars, made, local, creator, rebuilt>>
      BY <1>10, Zenon DEF Execute, Use
    <3> QED
      BY <3>1 DEF Run, line
  <2>4. args' \in [Processes -> Seq(STRING)] /\ ran' \in [Processes -> Seq(STRING)]
    <3> DEFINE left == IF p \in launched THEN args[p] ELSE line
    <3>1. left \in Seq(STRING)
      BY <2>1, <2>2
    <3>2. args' = [args EXCEPT ![p] = left] /\ ran' \in {ran, [ran EXCEPT ![p] = line]}
      BY <2>3
    <3> HIDE DEF left
    <3>3. args' \in [Processes -> Seq(STRING)]
      BY <3>1, <3>2
    <3>4. ran' \in [Processes -> Seq(STRING)]
      BY <2>2, <3>2
    <3> QED
      BY <3>3, <3>4
  <2>5. told' \in [Processes -> Seq(STRING)] /\ useGlobal' \in [Processes -> BOOLEAN]
    <3>1. told \in [Processes -> Seq(STRING)] /\ [told EXCEPT ![p] = Unknown] \in [Processes -> Seq(STRING)]
      BY <1>0
    <3> QED
      BY <2>3, <3>1
  <2>6. launched' \subseteq made' /\ rebuilt' \subseteq launched' /\ made' \subseteq Processes
    BY <2>3
  <2>7. prog' \in {"up", "terminate", "exit"}
    BY <2>3
  <2>8. UNCHANGED <<staticVars, local, creator>>
    BY <2>3
  <2> QED
    BY <2>4, <2>5, <2>6, <2>7, <2>8
<1>11. ASSUME NEW p \in Processes, NEW n \in Names, SetName(p, n) \/ SetType(p, n) PROVE Typed'
  <2> DEFINE Creators == [name : Names, type : Names, params : Seq(Params)]
  <2>1. creator[p] \in Creators
    OBVIOUS
  <2>2. /\ [creator[p] EXCEPT !.name = n] \in Creators
        /\ [creator[p] EXCEPT !.type = n] \in Creators
    BY <2>1
  <2>3. PICK c \in Creators : SetCreator(p, c)
    BY <1>11, <2>2, Zenon DEF SetName, SetType
  <2> HIDE DEF Creators
  <2>4. creator \in [Processes -> Creators]
    BY DEF Creators
  <2>5. creator' \in [Processes -> Creators]
    BY <2>3, <2>4 DEF SetCreator
  <2>6. UNCHANGED <<staticVars, made, launched, args, local, useGlobal, prog, historyVars>>
    BY <2>3 DEF SetCreator
  <2> QED
    BY <2>5, <2>6 DEF Creators
<1>16. ASSUME NEW p \in Processes, ConfigCreate(p) PROVE Typed'
  <2> PICK c : c = NewCreator
    OBVIOUS
  <2>1. c \in [name : Names, type : Names, params : Seq(Params)]
    BY NewCreatorTyped
  <2>2. SetCreator(p, c)
    BY <1>16 DEF ConfigCreate
  <2> QED
    BY <2>1, <2>2 DEF SetCreator
<1>12. ASSUME NEW p \in Processes, NEW x \in Params, AddParam(p, x) PROVE Typed'
  <2>1. Append(creator[p].params, x) \in Seq(Params)
    OBVIOUS
  <2> QED
    BY <1>12, <2>1 DEF AddParam, SetCreator
<1>13. ASSUME NEW p \in Processes, GetProcess(p) PROVE Typed'
  BY <1>0, <1>13, CommandsTyped DEF GetProcess, SetArgs
<1>14. ASSUME NEW p \in Processes, ExecuteCreate(p) PROVE Typed'
  <2> DEFINE line == AddOptionsToVector(local[p],
                       IF FALSE THEN AddOptionsToVector(global, CreateCommand(p)) ELSE CreateCommand(p))
  <2>1. CreateCommand(p) \in Seq(STRING)
    BY CommandsTyped
  <2>2. line \in Seq(STRING)
    BY <2>1, LinesTyped
  <2> HIDE DEF line
  <2>3. /\ useGlobal' = [useGlobal EXCEPT ![p] = FALSE]
        /\ args' = [args EXCEPT ![p] = IF p \in launched THEN CreateCommand(p) ELSE line]
        /\ ran' \in {ran, [ran EXCEPT ![p] = line]}
        /\ launched' \in {launched, launched \cup {p}}
        /\ prog' \in {prog, "exit"}
        /\ p \in made /\ told' = [told EXCEPT ![p] = Unknown]
        /\ rebuilt' = IF p \in launched THEN rebuilt \cup {p} ELSE rebuilt
        /\ UNCHANGED <<staticVars, made, local, creator>>
    BY <1>14 DEF ExecuteCreate, Run, Use, line
  <2>4. args' \in [Processes -> Seq(STRING)] /\ ran' \in [Processes -> Seq(STRING)]
    <3> DEFINE left == IF p \in launched THEN CreateCommand(p) ELSE line
    <3>1. left \in Seq(STRING)
      BY <2>1, <2>2
    <3>2. args' = [args EXCEPT ![p] = left] /\ ran' \in {ran, [ran EXCEPT ![p] = line]}
      BY <2>3
    <3> HIDE DEF left
    <3>3. args' \in [Processes -> Seq(STRING)]
      BY <3>1, <3>2
    <3>4. ran' \in [Processes -> Seq(STRING)]
      BY <2>2, <3>2
    <3> QED
      BY <3>3, <3>4
  <2>5. told' \in [Processes -> Seq(STRING)] /\ useGlobal' \in [Processes -> BOOLEAN]
    <3>1. told \in [Processes -> Seq(STRING)] /\ [told EXCEPT ![p] = Unknown] \in [Processes -> Seq(STRING)]
      BY <1>0
    <3> QED
      BY <2>3, <3>1
  <2>6. launched' \subseteq made' /\ rebuilt' \subseteq launched' /\ made' \subseteq Processes
    BY <2>3
  <2>7. prog' \in {"up", "terminate", "exit"}
    BY <2>3
  <2>8. UNCHANGED <<staticVars, local, creator>>
    BY <2>3
  <2> QED
    BY <2>4, <2>5, <2>6, <2>7, <2>8
<1>15. CASE UNCHANGED vars
  BY <1>15 DEF vars
<1> HIDE DEF Typed, staticVars, objectVars, historyVars
<1> QED
  BY <1>1, <1>2, <1>3, <1>4, <1>5, <1>6, <1>7, <1>8, <1>9, <1>10, <1>11, <1>12, <1>13, <1>14, <1>15, <1>16
  DEF Next, Over

\* The state is of its type.
THEOREM CommandTypes == Spec => []TypeOK
<1>1. Typed => TypeOK
  BY DEF Typed, TypeOK
<1> QED
  BY <1>1, TypedInit, TypedStep, PTL DEF Spec

-----------------------------------------------------------------------------
(***************************************************************************)
(* What is asked of a command, of the words of any process.                *)
(***************************************************************************)
Sound(c) == c # <<>> =>
  /\ c[1] \in DirCommands => Len(c) >= 2 /\ IsDir[c[2]]
  /\ c[1] = "check" => Len(c) >= 3 /\ IsDir[c[2]] /\ IsDir[c[3]]
  /\ c[1] = "create" => Len(c) >= 3 /\ c[2] # "" /\ c[3] # ""

Formed == \A p \in Processes : Sound(args[p]) /\ Sound(ran[p])

\* Options leave a sound command sound.
LEMMA SoundLine ==
  ASSUME OptionsBegin, NEW c \in Seq(STRING), Sound(c), NEW line \in Lines(c)
  PROVE  Sound(line)
<1>1. line \in Seq(STRING) /\ Extends(line, c) /\ (Optional(c) => Optional(line))
  BY Zenon DEF Lines
<1>2. CASE c = <<>>
  <2>1. Optional(line)
    BY <1>1, <1>2, Zenon DEF Optional
  <2> QED
    BY <2>1, Zenon DEF Optional, Sound, Keywords
<1>3. CASE c # <<>>
  <2>1. Len(c) \in Nat /\ Len(line) \in Nat /\ Len(c) # 0
    BY <1>1, <1>3, EmptySeq
  <2>2. Len(c) <= Len(line) /\ line[1] = c[1]
    BY <1>1, <2>1 DEF Extends
  <2>3. Len(c) >= 2 => line[2] = c[2] /\ Len(line) >= 2
    BY <1>1, <2>1 DEF Extends
  <2>4. Len(c) >= 3 => line[2] = c[2] /\ line[3] = c[3] /\ Len(line) >= 3
    BY <1>1, <2>1 DEF Extends
  <2> QED
    BY <1>3, <2>2, <2>3, <2>4, Zenon DEF Sound
<1> QED
  BY <1>2, <1>3

\* What a process runs is sound if its command is.
LEMMA SoundRun ==
  ASSUME OptionsBegin, Typed, NEW p \in Processes, NEW command \in Seq(STRING), Sound(command),
         NEW with \in BOOLEAN
  PROVE  Sound(AddOptionsToVector(local[p],
                 IF with THEN AddOptionsToVector(global, command) ELSE command))
<1>1. local[p] \in Seq(Options) /\ global \in Seq(Options)
  BY DEF Typed
<1> DEFINE base == IF with THEN AddOptionsToVector(global, command) ELSE command
<1>2. AddOptionsToVector(global, command) \in Lines(command)
  BY <1>1, AllOptions
<1>3. base \in Seq(STRING) /\ Sound(base)
  <2>1. CASE with
    <3>1. base = AddOptionsToVector(global, command)
      BY <2>1
    <3>2. AddOptionsToVector(global, command) \in Seq(STRING)
      BY <1>2, Zenon DEF Lines
    <3> QED
      BY <1>2, <3>1, <3>2, SoundLine, Zenon
  <2>2. CASE ~with
    BY <2>2, Zenon
  <2> QED
    BY <2>1, <2>2
<1> HIDE DEF base
<1>4. AddOptionsToVector(local[p], base) \in Lines(base)
  BY <1>1, <1>3, AllOptions
<1>5. Sound(AddOptionsToVector(local[p], base))
  BY <1>3, <1>4, SoundLine
<1> QED
  BY <1>5 DEF base

\* The commands of the builders and of the creator are sound.
LEMMA SoundCommands ==
  /\ \A c \in Commands, f \in Files : (c \in DirCommands => IsDir[f]) => Sound(<<c, f>>)
  /\ \A f, g \in Files : IsDir[f] /\ IsDir[g] => Sound(<<"check", f, g>>)
  /\ Typed => \A p \in Processes : CheckAttributes(p) => Sound(CreateCommand(p))
<1>1. \A c \in Commands : c # "check" /\ c # "create"
  BY ConstantsAssumption, Zenon DEF ConstantsAssumption
<1>2. "check" \notin DirCommands /\ "create" \notin DirCommands /\ "check" # "create"
  BY ConstantsAssumption, Zenon DEF ConstantsAssumption
<1>3. ASSUME NEW c \in Commands, NEW f \in Files, c \in DirCommands => IsDir[f]
      PROVE  Sound(<<c, f>>)
  <2>1. Len(<<c, f>>) >= 2 /\ <<c, f>>[1] = c /\ <<c, f>>[2] = f
    OBVIOUS
  <2> QED
    BY <1>1, <1>3, <2>1, Zenon DEF Sound
<1>4. ASSUME NEW f \in Files, NEW g \in Files, IsDir[f], IsDir[g]
      PROVE  Sound(<<"check", f, g>>)
  <2>1. \A a : Len(<<a, f, g>>) >= 3 /\ <<a, f, g>>[1] = a /\ <<a, f, g>>[2] = f /\ <<a, f, g>>[3] = g
    OBVIOUS
  <2> QED
    BY <1>2, <1>4, <2>1, Zenon DEF Sound
<1>5. ASSUME Typed, NEW p \in Processes, CheckAttributes(p) PROVE Sound(CreateCommand(p))
  BY <1>2, <1>5, CommandsTyped, Zenon DEF CheckAttributes, Sound
<1> QED
  BY <1>3, <1>4, <1>5

\* Every step keeps the commands sound.
LEMMA FormedStep == OptionsBegin /\ Typed /\ Formed /\ [Next]_vars => Formed'
<1> SUFFICES ASSUME OptionsBegin, Typed, Formed, [Next]_vars PROVE Formed'
  OBVIOUS
<1> USE DEF staticVars, objectVars, historyVars
<1>0. args \in [Processes -> Seq(STRING)] /\ ran \in [Processes -> Seq(STRING)]
  BY DEF Typed
<1>1. ASSUME NEW p \in Processes, NEW command, Sound(command), SetArgs(p, command), ran' = ran
      PROVE  Formed'
  BY <1>0, <1>1 DEF Formed, SetArgs
<1>2. ASSUME NEW p \in Processes, NEW command \in Seq(STRING), Sound(command), NEW with \in BOOLEAN,
             Run(p, command, with)
      PROVE  Formed'
  <2> DEFINE line == AddOptionsToVector(local[p],
                       IF with THEN AddOptionsToVector(global, command) ELSE command)
  <2>1. Sound(line)
    BY <1>2, SoundRun
  <2> HIDE DEF line
  <2>2. /\ args' \in {[args EXCEPT ![p] = command], [args EXCEPT ![p] = line]}
        /\ ran' \in {ran, [ran EXCEPT ![p] = line]}
    BY <1>2 DEF Run, line
  <2> QED
    BY <1>0, <1>2, <2>1, <2>2 DEF Formed
<1>3. ASSUME NEW p \in Processes, NEW c \in Commands, NEW f \in Files, Build(p, c, f) PROVE Formed'
  <2>1. Sound(<<c, f>>)
    BY <1>3, SoundCommands, Zenon DEF Build
  <2> QED
    BY <1>1, <1>3, <2>1, Zenon DEF Build
<1>4. ASSUME NEW p \in Processes, NEW f \in Files, NEW g \in Files, Check(p, f, g) PROVE Formed'
  <2>1. Sound(<<"check", f, g>>)
    BY <1>4, SoundCommands, Zenon DEF Check
  <2> QED
    BY <1>1, <1>4, <2>1, Zenon DEF Check
<1>5. ASSUME NEW p \in Processes, GetProcess(p) PROVE Formed'
  <2>1. Sound(CreateCommand(p))
    BY <1>5, SoundCommands, Zenon DEF GetProcess
  <2> QED
    BY <1>1, <1>5, <2>1, Zenon DEF GetProcess
<1>6. ASSUME NEW p \in Processes, NEW with \in BOOLEAN, Execute(p, with) PROVE Formed'
  <2>1. args[p] \in Seq(STRING) /\ Sound(args[p])
    BY <1>0 DEF Formed
  <2> QED
    BY <1>2, <1>6, <2>1, Zenon DEF Execute
<1>7. ASSUME NEW p \in Processes, ExecuteCreate(p) PROVE Formed'
  <2>1. CreateCommand(p) \in Seq(STRING) /\ Sound(CreateCommand(p))
    BY <1>7, CommandsTyped, SoundCommands, Zenon DEF ExecuteCreate
  <2> QED
    BY <1>2, <1>7, <2>1, Zenon DEF ExecuteCreate
<1>8. ASSUME UNCHANGED <<args, ran>> PROVE Formed'
  BY <1>8 DEF Formed
<1>9. ASSUME NEW x \in Paths, Initialize(x) PROVE Formed'
  BY <1>8, <1>9 DEF Initialize
<1>10. ASSUME NEW o \in Options, AddGlobalOption(o) PROVE Formed'
  BY <1>8, <1>10 DEF AddGlobalOption, ChangeGlobal
<1>11. ASSUME ClearGlobalOptions PROVE Formed'
  BY <1>8, <1>11 DEF ClearGlobalOptions, ChangeGlobal
<1>12. ASSUME NEW p \in Processes, Construct(p) PROVE Formed'
  BY <1>8, <1>12 DEF Construct
<1>13. ASSUME NEW p \in Processes, WithGlobalOptions(p) PROVE Formed'
  BY <1>8, <1>13 DEF WithGlobalOptions
<1>14. ASSUME NEW p \in Processes, AskCommands(p) PROVE Formed'
  BY <1>8, <1>14 DEF AskCommands
<1>15. ASSUME NEW p \in Processes, NEW o \in Options, AddOption(p, o) PROVE Formed'
  BY <1>8, <1>15 DEF AddOption
<1>16. ASSUME NEW p \in Processes, NEW c, SetCreator(p, c) PROVE Formed'
  BY <1>8, <1>16 DEF SetCreator
<1>17. CASE UNCHANGED vars
  BY <1>8, <1>17 DEF vars
<1> HIDE DEF staticVars, objectVars, historyVars
<1> QED
  BY <1>3, <1>4, <1>5, <1>6, <1>7, <1>9, <1>10, <1>11, <1>12, <1>13, <1>14, <1>15, <1>16, <1>17, Zenon
  DEF Next, Over, ConfigCreate, SetName, SetType, AddParam

\* What runs is well formed.
THEOREM WhatRunsIsWellFormed == OptionsBegin => (Spec => []WellFormed)
<1> SUFFICES ASSUME OptionsBegin PROVE Spec => []WellFormed
  OBVIOUS
<1>1. Init => Typed /\ Formed
  BY TypedInit DEF Init, Formed, Sound
<1>2. Typed /\ Formed /\ [Next]_vars => Typed' /\ Formed'
  BY TypedStep, FormedStep
<1>3. Typed /\ Formed => WellFormed
  <2> SUFFICES ASSUME Typed, Formed, NEW p \in launched, ran[p] # <<>>
               PROVE  /\ Head(ran[p]) \in DirCommands => IsDir[ran[p][2]]
                      /\ Head(ran[p]) = "check" => IsDir[ran[p][2]] /\ IsDir[ran[p][3]]
                      /\ Head(ran[p]) = "create" => Len(ran[p]) >= 3 /\ "" \notin {ran[p][2], ran[p][3]}
    BY Zenon DEF WellFormed
  <2>1. p \in Processes /\ ran[p] \in Seq(STRING)
    BY DEF Typed
  <2>2. Head(ran[p]) = ran[p][1]
    BY <2>1
  <2>3. Sound(ran[p])
    BY <2>1, Zenon DEF Formed
  <2> QED
    BY <2>2, <2>3, Zenon DEF Sound
<1> QED
  BY <1>1, <1>2, <1>3, PTL DEF Spec
=============================================================================
