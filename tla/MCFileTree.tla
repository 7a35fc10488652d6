----------------------------- MODULE MCFileTree -----------------------------
(***************************************************************************)
(* Instances of FileTree for TLC: two listings with the same names in      *)
(* different places, so that an entry put in the wrong place can be told,  *)
(* applications that edit a small tree, on one thread or two, and others   *)
(* that copy, move or remove files of a tree while it is listed.           *)
(***************************************************************************)
EXTENDS FileTree

CONSTANTS t1, t2

TwoThreads == {t1, t2}

\* one thread parses lsjson, the other lsl, into one tree
ListUse   == [t \in TwoThreads |-> IF t = t1 THEN {"json"} ELSE {"lsl"}]
JsonPaths == {<<"a">>, <<"a", "b">>, <<"a", "f">>, <<"a", "b", "f">>}
LslPaths  == {<<"c", "f">>, <<"c", "b", "f">>, <<"c", "b", "g">>}
Listings  == [t \in TwoThreads |-> IF t = t1 THEN JsonPaths ELSE LslPaths]
Dirs      == {<<"a">>, <<"a", "b">>}

\* two threads add files that do not exist, and remove them
RaceUse   == [t \in TwoThreads |-> {"add_if", "remove"}]
NewNames  == {"f", "g"}

\* one thread adds files it has at hand, and removes them
EditUse   == [t \in TwoThreads |-> IF t = t1 THEN {"remove", "add"} ELSE {}]

\* one thread parses lsjson, and copies, moves and assigns files meanwhile
MoveUse   == [t \in TwoThreads |-> IF t = t1 THEN {"json", "copy", "move", "assign"} ELSE {}]

\* one thread removes files, and directories, that the other is listing
RemoveUse == [t \in TwoThreads |-> IF t = t1 THEN {"remove"} ELSE {"lsl"}]

EachUse   == {ListUse, RaceUse, EditUse, MoveUse, RemoveUse}

\* no remote, one of no type, a whole remote, a directory of one
Remote(colon, type, path) == [name |-> "gdrive", colon |-> colon, type |-> type, path |-> path]
SomeRemotes ==
  {Remote(FALSE, "none", <<>>), Remote(FALSE, "none", <<"/", "dir">>),
   Remote(FALSE, "drive", <<>>), Remote(TRUE, "drive", <<"dir", "/">>)}

ASSUME UsesAreUsual == PathsHaveNames /\ DirectoriesAreListed /\ ListedAlone /\ ListedOnce
=============================================================================
