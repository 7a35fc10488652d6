--------------------------- MODULE ProcessCommand ---------------------------
(***************************************************************************)
(* What iridium::rclone::process hands to the child: the command line that *)
(* the builders of src/src/process/process.cpp, the options, the global    *)
(* options shared by all processes and config_create put together, what    *)
(* commands() says of it, and what execute() runs in the end.              *)
(*                                                                         *)
(* A command and its operands are values; an option contributes words.     *)
(* The calls are made by one thread: nothing here is guarded by a lock.    *)
(***************************************************************************)
EXTENDS Naturals, Sequences

CONSTANTS
  Processes,    \* the processes the application makes
  Commands,     \* commands with one operand: "lsf", "copyto", "about", ...
  DirCommands,  \* those that take a directory only: ls, lsl, lsd, lsf, lsjson
  Files,        \* operands
  IsDir,        \* IsDir[f]: is f a directory?
  Options,      \* options an application may add
  Words,        \* Words[o]: what o contributes, its value included
  CheckOptions, \* what check() adds: use_json_log, log_level
  Names,        \* names and types of remotes; "" among them
  Params,       \* parameters of config_create
  Paths,        \* arguments of initialize()
  Usable,       \* Usable[p]: "runs", "fails" (it exits with an error), "missing"
  MaxOptions    \* (bound) options in each vector, and parameters

ASSUME ConstantsAssumption ==
  /\ DirCommands \subseteq Commands
  /\ {"check", "create"} \cap Commands = {}
  /\ {"check", "create", "unknown"} \cup Commands \cup Files \cup Names \cup Params \subseteq STRING
  /\ "" \in Names
  /\ IsDir \in [Files -> BOOLEAN]
  /\ Words \in [Options -> Seq(STRING)]
  /\ CheckOptions \in Seq(Options)
  /\ Usable \in [Paths -> {"runs", "fails", "missing"}]
  /\ MaxOptions \in Nat

VARIABLES
  path,         \* _path_rclone
  initialized,  \* _is_initialized
  global,       \* _global_options
  made,         \* processes constructed so far
  launched,     \* processes whose state is no longer not_launched
  args,         \* _args of each process
  local,        \* _local_options of each process
  useGlobal,    \* use_global_options of each process
  creator,      \* the config_create of each process
  prog,         \* the program: up, or how it ended
  ran,          \* (history) the arguments each child was started with
  told,         \* (history) what commands() said, if nothing changed since
  rebuilt       \* (history) processes given a command after they were launched

staticVars  == <<path, initialized, global>>
objectVars  == <<made, launched, args, local, useGlobal, creator>>
historyVars == <<ran, told, rebuilt>>
vars == <<staticVars, objectVars, prog, historyVars>>

Unknown == <<"unknown">>
NoPath == "none"
NewCreator == [name |-> "", type |-> "", params |-> <<>>]

Init ==
  /\ path = NoPath /\ initialized = FALSE /\ global = <<>>
  /\ made = {} /\ launched = {}
  /\ args = [p \in Processes |-> <<>>]
  /\ local = [p \in Processes |-> <<>>]
  /\ useGlobal = [p \in Processes |-> FALSE]
  /\ creator = [p \in Processes |-> NewCreator]
  /\ prog = "up"
  /\ ran = [p \in Processes |-> <<>>]
  /\ told = [p \in Processes |-> Unknown] /\ rebuilt = {}

\* a mistake: a process may be used as soon as a path was given, made or not
Use_NotMade(p) == prog = "up" /\ path # NoPath

Use(p) == prog = "up" /\ p \in made

-----------------------------------------------------------------------------
(***************************************************************************)
(* add_option_to_vector() leaves out empty words; add_options_to_vector()  *)
(* appends the options in order.                                           *)
(***************************************************************************)
AddWord(line, w) == IF w = "" THEN line ELSE Append(line, w)

AddOptionToVector(vector, o) ==
  LET With[n \in 0..Len(Words[o])] ==    \* with the first n words
        IF n = 0 THEN vector ELSE AddWord(With[n - 1], Words[o][n])
  IN  With[Len(Words[o])]

AddOptionsToVector(options, vector) ==
  LET With[n \in 0..Len(options)] ==     \* with the first n options
        IF n = 0 THEN vector ELSE AddOptionToVector(With[n - 1], options[n])
  IN  With[Len(options)]

\* a mistake: commands() and execute() disagree on the order
CommandLine_Swapped(p, with) ==
  IF with THEN AddOptionsToVector(global, AddOptionsToVector(local[p], args[p]))
          ELSE AddOptionsToVector(local[p], args[p])

\* the command line: the command, the global options if asked for, the local ones
CommandLine(p, with) ==
  AddOptionsToVector(local[p],
    IF with THEN AddOptionsToVector(global, args[p]) ELSE args[p])

-----------------------------------------------------------------------------
(***************************************************************************)
(* initialize(): the path is stored before it is tried.  An executable     *)
(* that fails reaches a "throw;" outside any handler.                      *)
(***************************************************************************)
Initialize(x) ==
  /\ prog = "up" /\ path # x
  /\ path' = x
  /\ initialized' = (initialized \/ Usable[x] = "runs")
  /\ prog' = IF Usable[x] = "fails" THEN "terminate" ELSE prog
  /\ UNCHANGED <<global, objectVars, historyVars>>

Construct(p) ==
  /\ prog = "up" /\ initialized /\ p \notin made
  /\ made' = made \cup {p}
  /\ UNCHANGED <<staticVars, launched, args, local, useGlobal, creator, prog, historyVars>>

\* _args is given a command: nothing keeps a launched process from that
SetArgs(p, command) ==
  /\ args' = [args EXCEPT ![p] = command]
  /\ told' = [told EXCEPT ![p] = Unknown]
  /\ rebuilt' = IF p \in launched THEN rebuilt \cup {p} ELSE rebuilt

\* a builder throws, and changes nothing, when it wants a directory
Build(p, command, f) ==
  /\ Use(p)
  /\ command \in DirCommands => IsDir[f]
  /\ SetArgs(p, <<command, f>>)
  /\ UNCHANGED <<staticVars, made, launched, local, useGlobal, creator, prog, ran>>

\* check() adds options, which the builder of a later command leaves there
Check(p, f, g) ==
  /\ Use(p) /\ IsDir[f] /\ IsDir[g]
  /\ Len(local[p]) + Len(CheckOptions) <= MaxOptions
  /\ SetArgs(p, <<"check", f, g>>)
  /\ local' = [local EXCEPT ![p] = @ \o CheckOptions]
  /\ UNCHANGED <<staticVars, made, launched, useGlobal, creator, prog, ran>>

AddOption(p, o) ==
  /\ Use(p) /\ Len(local[p]) < MaxOptions
  /\ local' = [local EXCEPT ![p] = Append(@, o)]
  /\ told' = IF p \in launched THEN told ELSE [told EXCEPT ![p] = Unknown]
  /\ UNCHANGED <<staticVars, made, launched, args, useGlobal, creator, prog, ran,
                 rebuilt>>

\* what commands() said of a process not launched yet is out of date
ChangeGlobal(options) ==
  /\ prog = "up"
  /\ global' = options
  /\ told' = [p \in Processes |-> IF p \in launched THEN told[p] ELSE Unknown]
  /\ UNCHANGED <<path, initialized, objectVars, prog, ran, rebuilt>>

AddGlobalOption(o) == Len(global) < MaxOptions /\ ChangeGlobal(Append(global, o))

ClearGlobalOptions == global # <<>> /\ ChangeGlobal(<<>>)

WithGlobalOptions(p) ==
  /\ Use(p)
  /\ useGlobal' = [useGlobal EXCEPT ![p] = TRUE]
  /\ told' = IF p \in launched THEN told ELSE [told EXCEPT ![p] = Unknown]
  /\ UNCHANGED <<staticVars, made, launched, args, local, creator, prog, ran, rebuilt>>

-----------------------------------------------------------------------------
\* commands(): what will run, or, once launched, what _args holds
CommandsOf(p) == IF p \in launched THEN args[p] ELSE CommandLine(p, useGlobal[p])

AskCommands(p) ==
  /\ Use(p) /\ told[p] # CommandsOf(p)
  /\ told' = [told EXCEPT ![p] = CommandsOf(p)]
  /\ UNCHANGED <<staticVars, objectVars, prog, ran, rebuilt>>

(***************************************************************************)
(* execute(with_global_opt) on _args = command: it overwrites the flag     *)
(* that with_global_options() set, and throws if the process was launched. *)
(* A child that cannot be started ends the program.                        *)
(***************************************************************************)
Run(p, command, with) ==
  LET line == AddOptionsToVector(local[p],
                IF with THEN AddOptionsToVector(global, command) ELSE command)
      starts == p \notin launched /\ Usable[path] # "missing"
  IN  /\ useGlobal' = [useGlobal EXCEPT ![p] = with]
      /\ args' = [args EXCEPT ![p] = IF p \in launched THEN command ELSE line]
      /\ ran' = IF starts THEN [ran EXCEPT ![p] = line] ELSE ran
      /\ launched' = IF starts THEN launched \cup {p} ELSE launched
      /\ prog' = IF p \in launched \/ starts THEN prog ELSE "exit"

\* what commands() said holds as long as execute() is given the flag it saw
Execute(p, with) ==
  /\ Use(p)
  /\ Run(p, args[p], with)
  /\ told' = IF p \notin launched /\ with # useGlobal[p]
             THEN [told EXCEPT ![p] = Unknown] ELSE told
  /\ UNCHANGED <<staticVars, made, local, creator, rebuilt>>

-----------------------------------------------------------------------------
(***************************************************************************)
(* config_create: a name, a type and parameters, in any order and as often *)
(* as one likes; get_process() and execute() want a name and a type.       *)
(***************************************************************************)
SetCreator(p, c) ==
  /\ Use(p) /\ c # creator[p]
  /\ creator' = [creator EXCEPT ![p] = c]
  /\ UNCHANGED <<staticVars, made, launched, args, local, useGlobal, prog, historyVars>>

\* config_create(): a creator of its own for each call, of which the last is used
ConfigCreate(p) == SetCreator(p, NewCreator)

SetName(p, n) == SetCreator(p, [creator[p] EXCEPT !.name = n])
SetType(p, n) == SetCreator(p, [creator[p] EXCEPT !.type = n])
AddParam(p, x) ==
  /\ Len(creator[p].params) < MaxOptions
  /\ SetCreator(p, [creator[p] EXCEPT !.params = Append(@, x)])

\* a mistake: a name is enough
CheckAttributes_NoType(p) == creator[p].name # ""

CheckAttributes(p) == creator[p].name # "" /\ creator[p].type # ""

CreateCommand(p) == <<"create", creator[p].name, creator[p].type>> \o creator[p].params

GetProcess(p) ==
  /\ Use(p) /\ CheckAttributes(p)
  /\ SetArgs(p, CreateCommand(p))
  /\ UNCHANGED <<staticVars, made, launched, local, useGlobal, creator, prog, ran>>

\* _args is overwritten even if execute() throws
ExecuteCreate(p) ==
  /\ Use(p) /\ CheckAttributes(p)
  /\ Run(p, CreateCommand(p), FALSE)
  /\ told' = [told EXCEPT ![p] = Unknown]
  /\ rebuilt' = IF p \in launched THEN rebuilt \cup {p} ELSE rebuilt
  /\ UNCHANGED <<staticVars, made, local, creator>>

-----------------------------------------------------------------------------
\* the program is over
Over == prog # "up" /\ UNCHANGED vars

Next ==
  \/ \E x \in Paths : Initialize(x)
  \/ \E o \in Options : AddGlobalOption(o)
  \/ ClearGlobalOptions
  \/ \E p \in Processes :
       \/ Construct(p) \/ WithGlobalOptions(p) \/ AskCommands(p)
       \/ \E c \in Commands, f \in Files : Build(p, c, f)
       \/ \E f, g \in Files : Check(p, f, g)
       \/ \E o \in Options : AddOption(p, o)
       \/ \E with \in BOOLEAN : Execute(p, with)
       \/ \E n \in Names : SetName(p, n) \/ SetType(p, n)
       \/ \E x \in Params : AddParam(p, x)
       \/ ConfigCreate(p) \/ GetProcess(p) \/ ExecuteCreate(p)
  \/ Over

Spec == Init /\ [][Next]_vars

-----------------------------------------------------------------------------
(***************************************************************************)
(* How applications spell options: none of them begins with an empty word, *)
(* or is the name of a command that has requirements.                      *)
(***************************************************************************)
Keywords == DirCommands \cup {"check", "create"}

OptionsBegin ==
  \A o \in Options : Words[o] # <<>> => Words[o][1] # "" /\ Words[o][1] \notin Keywords

TypeOK ==
  /\ path \in Paths \cup {NoPath} /\ initialized \in BOOLEAN
  /\ global \in Seq(Options)
  /\ made \subseteq Processes /\ launched \subseteq made
  /\ local \in [Processes -> Seq(Options)]
  /\ useGlobal \in [Processes -> BOOLEAN]
  /\ \A p \in Processes :
       /\ {args[p], ran[p], told[p]} \subseteq Seq(STRING)
       /\ {creator[p].name, creator[p].type} \subseteq Names
       /\ creator[p].params \in Seq(Params)
  /\ prog \in {"up", "terminate", "exit"}
  /\ rebuilt \subseteq launched

(***************************************************************************)
(* commands() of a process that is still to be launched foretells what is  *)
(* run, word for word, and of one that was launched recalls it: whatever   *)
(* was called on it and on other processes before, between and after,      *)
(* execute() with the flag that commands() saw included, and execute()     *)
(* again.                                                                  *)
(***************************************************************************)
CommandsTell ==
  \A p \in launched : p \notin rebuilt => told[p] \in {Unknown, ran[p]}

(***************************************************************************)
(* What runs is well formed, in whatever order the builders, the creator   *)
(* and the options were used: a listing or a check has directories for     *)
(* operands, and a creation has a name and a type.                         *)
(***************************************************************************)
WellFormed ==
  \A p \in launched : ran[p] # <<>> =>
    /\ Head(ran[p]) \in DirCommands => IsDir[ran[p][2]]
    /\ Head(ran[p]) = "check" => IsDir[ran[p][2]] /\ IsDir[ran[p][3]]
    /\ Head(ran[p]) = "create" => Len(ran[p]) >= 3 /\ "" \notin {ran[p][2], ran[p][3]}

=============================================================================
