-------------------------- MODULE MCProcessCommand --------------------------
(***************************************************************************)
(* An instance of ProcessCommand for TLC: one process (the global options, *)
(* all that processes share, change at any time anyway), a command that    *)
(* takes any file and one that takes a directory, an option with a value   *)
(* and one with an empty word, and paths that run, fail, and are missing.  *)
(***************************************************************************)
EXTENDS ProcessCommand

OneProcess   == {"p"}
SomeCommands == {"lsf", "copyto"}
Listings     == {"lsf"}
SomeFiles    == {"file", "dir"}
DirOnly      == [f \in SomeFiles |-> f = "dir"]
SomeOptions  == {"json", "level"}
OptionWords  ==
  [o \in SomeOptions |-> IF o = "json" THEN <<"--json", "">> ELSE <<"--level", "info">>]
LogOptions   == <<"json">>
SomeNames    == {"", "gdrive"}
SomeParams   == {"token"}
AllPaths     == {"rclone", "wrong", "nothing"}
UsablePaths  ==
  [x \in AllPaths |-> CASE x = "rclone" -> "runs" [] x = "wrong" -> "fails" [] OTHER -> "missing"]

ASSUME OptionsAreSpelled == OptionsBegin
=============================================================================
