------------------------------ MODULE FileTree ------------------------------
(***************************************************************************)
(* The tree of iridium::rclone::entities::file                             *)
(* (src/src/entities/file.cpp) and the two ways file_parser                *)
(* (src/src/parsers/file_parser.cpp) grows it from the lines of a listing: *)
(* "lsjson", whose lines name directories too, and "lsl", whose lines name *)
(* files only, so that the directories of a path are made when missing.    *)
(*                                                                         *)
(* A line is the path of an entry, a sequence of names.  Several processes *)
(* may list into one tree, each parsing on the thread that reads its       *)
(* output; _mutex of a file is held while a child is pushed, not while the *)
(* children are looked through.                                            *)
(***************************************************************************)
EXTENDS Naturals, Sequences, FiniteSets, SequencesExt

CONSTANTS
  Threads,       \* threads that use the tree
  Uses,          \* ways to use it: what each thread does with it
  Listing,       \* Listing[t]: the paths in the output thread t parses
  Directories,   \* the paths that are directories
  ParentsFirst,  \* does a directory come before what is in it?
  Names,         \* names of files an application adds or removes itself
  RootNames,     \* what the root of the tree may be called
  Orphans,       \* how many files an application makes with no parent
  Remotes,       \* what the remote of the root may be
  MoveDirectories,  \* does an application move directories, or assign to them?
  MaxFiles,      \* (bound) files ever made
  MaxMade,       \* (bound) files up to which an application makes more
  MaxCopied,     \* (bound) files up to which an application copies or moves one
  MaxAdded       \* (bound) children of a file up to which files at hand are added

ASSUME ConstantsAssumption ==
  /\ {ParentsFirst, MoveDirectories} \subseteq BOOLEAN
  /\ {MaxFiles, MaxMade, MaxCopied, MaxAdded} \subseteq Nat /\ Orphans \in 0..(MaxFiles - 1)
  /\ MaxCopied <= MaxFiles
  /\ Listing \in [Threads -> SUBSET (Seq(STRING) \ {<<>>})] /\ Names \subseteq STRING
  /\ Remotes \subseteq [name : STRING, colon : BOOLEAN, type : STRING, path : Seq(STRING)]

ASSUME UsesAssumption ==
  /\ IsFiniteSet(Threads)
  /\ Uses \subseteq
       [Threads -> SUBSET {"json", "lsl", "add_if", "remove", "add", "copy", "move", "assign"}]

ASSUME RootNamesAssumption == RootNames \subseteq {"/", ""}

VARIABLES
  uses,      \* what each thread does
  file,      \* the files made: name, is it a directory, size and time, _parent
  children,  \* _children of each file
  lines,     \* the lines each thread has still to parse
  pc,        \* where each thread is
  at,        \* the file a thread has come to
  rest,      \* what a thread has left of the path, or the name it adds
  entry,     \* the line a thread is parsing
  prog,      \* the program: up, or undefined after a race or a dangling pointer
  listed     \* (history) the line each file came from

threadVars == <<lines, pc, at, rest, entry>>
vars == <<uses, file, children, threadVars, prog, listed>>

Root == 1
Null == 0
Unlisted == <<>>
Stamps == {"none", "dir", "file"}   \* size and mod_time, as far as == tells them apart

MakeFile(name, isDir, stamp, parent) ==
  [name |-> name, dir |-> isDir, stamp |-> stamp, parent |-> parent]

\* what is left of a file moved from: it has no name, no parent and no mutex
MovedFrom == MakeFile("", FALSE, "none", Null)

Init ==
  /\ uses \in Uses
  /\ \E name \in RootNames :
       file = <<MakeFile(name, TRUE, "dir", Null)>>
                \o [i \in 1..Orphans |-> MakeFile("orphan", TRUE, "dir", Null)]
  /\ children = [i \in 1..MaxFiles |-> <<>>]
  /\ lines = [t \in Threads |-> IF uses[t] \cap {"json", "lsl"} # {} THEN Listing[t] ELSE {}]
  /\ pc = [t \in Threads |-> "idle"]
  /\ at = [t \in Threads |-> Root]
  /\ rest = [t \in Threads |-> <<>>] /\ entry = [t \in Threads |-> <<>>]
  /\ prog = "up"
  /\ listed = [i \in 1..MaxFiles |-> Unlisted]

Goto(t, from, to) ==
  prog = "up" /\ pc[t] = from /\ pc' = [pc EXCEPT ![t] = to] /\ UNCHANGED uses

\* the children of i, in whatever order
Links(i) == {children[i][k] : k \in DOMAIN children[i]}

\* operator==: everything but the parent and the children; the files of a tree
\* share one remote, which is left out
SameFile(i, f) ==
  file[i].name = f.name /\ file[i].dir = f.dir /\ file[i].stamp = f.stamp

\* json_parse() looks for a directory of that name
SameDirectory(i, f) == file[i].name = f.name /\ file[i].dir = f.dir

\* dir_is_in_parent(): the first child that is equal to f, or, with the predicate
\* of json_parse(), the first that is the same directory; else Null
FirstChild(parent, f, equal) ==
  LET Hit(c) == IF equal THEN SameFile(c, f) ELSE SameDirectory(c, f)
      hits   == {k \in DOMAIN children[parent] : Hit(children[parent][k])}
  IN  IF hits = {} THEN Null ELSE children[parent][Min(hits)]

-----------------------------------------------------------------------------
(***************************************************************************)
(* A directory owns its children: what is removed is destroyed, with all   *)
(* that is below it, unless the application keeps it.  A parser that has   *)
(* come to it goes on with a pointer that may dangle.                      *)
(***************************************************************************)
Alive ==
  LET Reach[n \in 0..MaxFiles] ==    \* no more than n below the root
        IF n = 0 THEN {Root} ELSE LET above == Reach[n - 1] IN above \cup UNION {Links(i) : i \in above}
  IN  Reach[MaxFiles]

Dangles(t) == pc[t] \in {"walk", "make"} /\ at[t] \notin Alive

\* Another thread looks through the children of i, without _mutex, meanwhile.
Reader(t, i) ==
  \E u \in Threads \ {t} :
    at[u] = i /\ (pc[u] = "scan" \/ (pc[u] = "walk" /\ Len(rest[u]) > 1))

\* add_child() of a file just made with that parent, whose mutex must be there
Push(t, f, line) ==
  LET new == Len(file) + 1 IN
  /\ new <= MaxFiles
  /\ file' = Append(file, f)
  /\ children' = [children EXCEPT ![f.parent] = Append(@, new)]
  /\ listed' = [listed EXCEPT ![new] = line]
  /\ prog' \in IF file[f.parent] = MovedFrom THEN {"undefined"}
               ELSE IF Reader(t, f.parent) \/ Dangles(t) THEN {"up", "undefined"} ELSE {"up"}

\* a line comes; a directory may be bound to come before what is in it
NextLine(t) ==
  \E path \in lines[t] :
    /\ ParentsFirst => \A q \in lines[t] : ~IsStrictPrefix(q, path)
    /\ Goto(t, "idle", "walk")
    /\ lines' = [lines EXCEPT ![t] = @ \ {path}]
    /\ at' = [at EXCEPT ![t] = Root]
    /\ rest' = [rest EXCEPT ![t] = path] /\ entry' = [entry EXCEPT ![t] = path]
    /\ UNCHANGED <<file, children, prog, listed>>

Touch(t) == prog' \in IF Dangles(t) THEN {"up", "undefined"} ELSE {"up"}

\* a mistake: each directory is looked for at the top
WalkJson_FromRoot(t) ==
  LET dir == FirstChild(Root, MakeFile(Head(rest[t]), TRUE, "dir", at[t]), FALSE)
  IN  /\ "json" \in uses[t] /\ Len(rest[t]) > 1
      /\ Goto(t, "walk", "walk")
      /\ at' = [at EXCEPT ![t] = IF dir # Null THEN dir ELSE @]
      /\ rest' = [rest EXCEPT ![t] = Tail(@)]
      /\ Touch(t) /\ UNCHANGED <<file, children, lines, entry, listed>>

\* json_parse(): a directory that is not there is skipped
WalkJson(t) ==
  LET dir == FirstChild(at[t], MakeFile(Head(rest[t]), TRUE, "dir", at[t]), FALSE)
  IN  /\ "json" \in uses[t] /\ Len(rest[t]) > 1
      /\ Goto(t, "walk", "walk")
      /\ at' = [at EXCEPT ![t] = IF dir # Null THEN dir ELSE @]
      /\ rest' = [rest EXCEPT ![t] = Tail(@)]
      /\ Touch(t) /\ UNCHANGED <<file, children, lines, entry, listed>>

\* a mistake: the directory made is not the one looked for the next time
NewDirectory_Stamped(t) == MakeFile(Head(rest[t]), TRUE, "dir", at[t])

\* what lsl_parse() looks for, and makes when it is not there
NewDirectory(t) == MakeFile(Head(rest[t]), TRUE, "none", at[t])

\* a mistake: the directory looked for is taken whether it is there or not
WalkLsl_Always(t) ==
  LET dir == FirstChild(at[t], MakeFile(Head(rest[t]), TRUE, "none", at[t]), TRUE)
  IN  /\ "lsl" \in uses[t] /\ Len(rest[t]) > 1
      /\ Goto(t, "walk", "walk")
      /\ at' = [at EXCEPT ![t] = dir]
      /\ rest' = [rest EXCEPT ![t] = Tail(@)]
      /\ Touch(t) /\ UNCHANGED <<file, children, lines, entry, listed>>

\* lsl_parse(): a directory that is not there is made
WalkLsl(t) ==
  LET dir == FirstChild(at[t], MakeFile(Head(rest[t]), TRUE, "none", at[t]), TRUE)
  IN  /\ "lsl" \in uses[t] /\ Len(rest[t]) > 1
      /\ Goto(t, "walk", IF dir # Null THEN "walk" ELSE "make")
      /\ at' = [at EXCEPT ![t] = IF dir # Null THEN dir ELSE @]
      /\ rest' = [rest EXCEPT ![t] = IF dir # Null THEN Tail(@) ELSE @]
      /\ Touch(t) /\ UNCHANGED <<file, children, lines, entry, listed>>

\* a mistake: the directory that is made is not added to its parent
MakeDirectory_NotAdded(t) ==
  /\ Goto(t, "make", "walk")
  /\ file' = Append(file, NewDirectory(t)) /\ Len(file) < MaxFiles
  /\ at' = [at EXCEPT ![t] = Len(file) + 1]
  /\ rest' = [rest EXCEPT ![t] = Tail(@)]
  /\ UNCHANGED <<children, lines, entry, prog, listed>>

MakeDirectory(t) ==
  /\ Goto(t, "make", "walk")
  /\ Push(t, NewDirectory(t), Unlisted)
  /\ at' = [at EXCEPT ![t] = Len(file) + 1]
  /\ rest' = [rest EXCEPT ![t] = Tail(@)]
  /\ UNCHANGED <<lines, entry>>

\* the end of the path: the entry itself
AddEntry(t) ==
  LET isDir == "json" \in uses[t] /\ entry[t] \in Directories IN
  /\ Len(rest[t]) = 1
  /\ Goto(t, "walk", "idle")
  /\ Push(t, MakeFile(Last(entry[t]), isDir, IF isDir THEN "dir" ELSE "file", at[t]), entry[t])
  /\ UNCHANGED <<lines, at, rest, entry>>

-----------------------------------------------------------------------------
\* the directories of the tree an application edits
Here(i) == i \in DOMAIN file /\ file[i].dir

Added(t) == MakeFile(rest[t][1], FALSE, "file", at[t])

\* add_child_if_not_exist(): the children are looked through, then add_child()
AddIfNotExist(t, i, n) ==
  /\ "add_if" \in uses[t] /\ Here(i) /\ Len(file) < MaxMade
  /\ Goto(t, "idle", "scan")
  /\ at' = [at EXCEPT ![t] = i] /\ rest' = [rest EXCEPT ![t] = <<n>>]
  /\ UNCHANGED <<file, children, lines, entry, prog, listed>>

\* a mistake: the last child is not looked at
Scan_NotLast(t) ==
  LET hits == {i \in DOMAIN children[at[t]] :
                 i < Len(children[at[t]]) /\ SameFile(children[at[t]][i], Added(t))}
  IN  /\ Goto(t, "scan", IF hits = {} THEN "push" ELSE "idle")
      /\ UNCHANGED <<file, children, lines, at, rest, entry, prog, listed>>

Scan(t) ==
  /\ Goto(t, "scan",
          IF \E c \in Links(at[t]) : SameFile(c, Added(t)) THEN "idle" ELSE "push")
  /\ UNCHANGED <<file, children, lines, at, rest, entry, prog, listed>>

PushNew(t) ==
  /\ Goto(t, "push", "idle")
  /\ Push(t, Added(t), Unlisted)
  /\ UNCHANGED <<lines, at, rest, entry>>

\* the files of s that are not equal to f, in their order
Keep(kept, c, f) == IF SameFile(c, f) THEN kept ELSE Append(kept, c)

Without(s, f) ==
  LET Kept[n \in 0..Len(s)] ==    \* of the first n
        IF n = 0 THEN <<>> ELSE Keep(Kept[n - 1], s[n], f)
  IN  Kept[Len(s)]

\* remove_child(): every child equal to one of them, of which the application
\* may keep some (see Alive)
RemoveChild(t, i, k) ==
  /\ "remove" \in uses[t] /\ Here(i) /\ k \in DOMAIN children[i]
  /\ Goto(t, "idle", "idle")
  /\ children' = [children EXCEPT ![i] = Without(@, file[@[k]])]
  /\ prog' \in IF Reader(t, i) THEN {"up", "undefined"} ELSE {"up"}
  /\ UNCHANGED <<file, lines, at, rest, entry, listed>>

\* add_child() of any other file: it is pushed before its parent is looked at, and
\* stays a child when that makes add_child() throw
AddChild(t, i, c) ==
  /\ "add" \in uses[t] /\ Here(i) /\ c \in DOMAIN file \ {i} /\ Len(children[i]) < MaxAdded
  /\ Goto(t, "idle", "idle")
  /\ children' = [children EXCEPT ![i] = Append(@, c)]
  /\ file' = [file EXCEPT ![c].parent = IF @ = Null THEN i ELSE @]
  /\ prog' \in IF Reader(t, i) THEN {"up", "undefined"} ELSE {"up"}
  /\ UNCHANGED <<lines, at, rest, entry, listed>>

-----------------------------------------------------------------------------
(***************************************************************************)
(* Files that are copied, moved and assigned: "to" becomes what "from" is, *)
(* the pointer to the parent included.  No child is told that its parent   *)
(* is somewhere else.                                                      *)
(***************************************************************************)
Transfer(t, to, from, moves) ==
  LET Take(f, left) ==
        [i \in DOMAIN f \cup {to} |->
           IF i = to THEN f[from] ELSE IF moves /\ i = from THEN left ELSE f[i]]
  IN  /\ Goto(t, "idle", "idle")
      /\ file' = Take(file, MovedFrom)
      /\ children' = Take(children, <<>>)
      /\ listed' = Take(listed, Unlisted)
      /\ prog' \in IF Reader(t, to) \/ Reader(t, from) THEN {"up", "undefined"} ELSE {"up"}
      /\ UNCHANGED <<lines, at, rest, entry>>

Movable(i) == MoveDirectories \/ ~file[i].dir

CopyFile(t, i) ==
  /\ "copy" \in uses[t] /\ Len(file) < MaxCopied
  /\ Transfer(t, Len(file) + 1, i, FALSE)

MoveFile(t, i) ==
  /\ "move" \in uses[t] /\ Movable(i) /\ Len(file) < MaxCopied
  /\ Transfer(t, Len(file) + 1, i, TRUE)

AssignFile(t, i, j, moves) ==
  /\ "assign" \in uses[t] /\ Movable(i) /\ Movable(j) /\ i # j
  /\ Transfer(t, i, j, moves)

-----------------------------------------------------------------------------
\* every line is parsed and nobody has anything to do, or the program is over
Over ==
  /\ \/ prog # "up"
     \/ \A t \in Threads : pc[t] = "idle" /\ lines[t] = {}
  /\ UNCHANGED vars

Next ==
  \/ \E t \in Threads :
       \/ NextLine(t) \/ WalkJson(t) \/ WalkLsl(t) \/ MakeDirectory(t) \/ AddEntry(t)
       \/ Scan(t) \/ PushNew(t)
       \/ \E i \in DOMAIN file :
            \/ \E n \in Names : AddIfNotExist(t, i, n)
            \/ \E k \in DOMAIN children[i] : RemoveChild(t, i, k)
            \/ CopyFile(t, i) \/ MoveFile(t, i)
            \/ \E c \in DOMAIN file :
                 \/ AddChild(t, i, c)
                 \/ \E moves \in BOOLEAN : AssignFile(t, i, c, moves)
  \/ Over

Spec == Init /\ [][Next]_vars

-----------------------------------------------------------------------------
(***************************************************************************)
(* How applications use a tree that is listed.  Listings have names of     *)
(* their own; lsjson lists a directory, before what is in it; and nobody   *)
(* adds to the tree files that are in it, or removes a directory of a      *)
(* lsjson listing that is still to be filled.                              *)
(***************************************************************************)
PathsHaveNames ==
  \A t \in Threads : \A path \in Listing[t] :
    \A k \in DOMAIN path : path[k] \notin {"", "/"}

Lists(use, t) == use[t] \cap {"json", "lsl"} # {}

DirectoriesAreListed ==
  \A use \in Uses, t \in Threads : "json" \in use[t] =>
    /\ ParentsFirst
    /\ \A path \in Listing[t] : \A k \in 1..(Len(path) - 1) :
         SubSeq(path, 1, k) \in Listing[t] \cap Directories

ListedAlone ==
  \A use \in Uses, t \in Threads :
    /\ ~({"json", "lsl"} \subseteq use[t])
    /\ Lists(use, t) => \A u \in Threads : "add" \notin use[u]
    /\ "json" \in use[t] => \A u \in Threads : "remove" \notin use[u]

Above(path) == {SubSeq(path, 1, k) : k \in 1..(Len(path) - 1)}

\* the directories that thread t makes, if it lists
DirectoriesOf(use, t) ==
  IF "json" \in use[t] THEN Listing[t] \cap Directories
                       ELSE UNION {Above(path) : path \in Listing[t]}

\* no two threads list the same directory
ListedOnce ==
  \A use \in Uses, t, u \in Threads : t # u /\ Lists(use, t) /\ Lists(use, u) =>
    DirectoriesOf(use, t) \cap DirectoriesOf(use, u) = {}

\* what nobody does
Nobody(does) == \A t \in Threads : uses[t] \cap does = {}

Ids == 1..MaxFiles

TypeOK ==
  /\ Len(file) <= MaxFiles
  /\ \A i \in DOMAIN file : file[i].dir \in BOOLEAN /\ file[i].stamp \in Stamps
                            /\ file[i].parent \in {Null} \cup DOMAIN file
  /\ children \in [Ids -> Seq(Ids)]
  /\ \A i \in Ids : Links(i) \subseteq DOMAIN file
                    /\ (children[i] # <<>> => i \in DOMAIN file /\ file[i].dir)
  /\ \A t \in Threads : lines[t] \subseteq Listing[t]
  /\ pc \in [Threads -> {"idle", "walk", "make", "scan", "push"}]
  /\ at \in [Threads -> Ids]
  /\ prog \in {"up", "undefined"}

\* set_name(), path() and absolute_path() leave one slash where there are several
OneSlash(words, w) == IF w = "/" /\ words # <<>> /\ Last(words) = "/" THEN words ELSE Append(words, w)

Collapse(words) ==
  LET Kept[n \in 0..Len(words)] ==    \* of the first n
        IF n = 0 THEN <<>> ELSE OneSlash(Kept[n - 1], words[n])
  IN  Kept[Len(words)]

\* a name, alone or after a slash: the root may have none
Alone(name) == IF name = "" THEN <<>> ELSE <<name>>
AfterSlash(name) == <<"/">> \o Alone(name)

\* path() of every file; n bounds the recursion
PathWords[n \in 0..MaxFiles] ==
  [i \in 0..Len(file) |->
     IF i = Null \/ n = 0 THEN <<>>
     ELSE PathWords[n - 1][file[i].parent] \o AfterSlash(file[i].name)]

Path(i) == Collapse(PathWords[MaxFiles][i])

\* a remote: its name, the ":" with it or not, its type, its path
RootPath(r) == IF ~r.colon /\ r.type = "none" THEN <<>> ELSE <<r.name, ":">>
FullPath(r) == RootPath(r) \o r.path

\* a mistake: a slash, whether the parent has a name or not
AbsoluteWords_AlwaysSlash(f, above, r) ==
  IF f.parent # Null THEN above \o AfterSlash(f.name)
  ELSE FullPath(r) \o (IF r.path = <<>> THEN Alone(f.name) ELSE AfterSlash(f.name))

\* absolute_path() under a root whose remote is r: only that of the root counts;
\* no remote reads as one of no type and no path
AbsoluteWords(f, above, r) ==
  IF f.parent # Null
  THEN above \o (IF file[f.parent].name = "" THEN Alone(f.name) ELSE AfterSlash(f.name))
  ELSE FullPath(r) \o (IF r.path = <<>> THEN Alone(f.name) ELSE AfterSlash(f.name))

AbsolutePath(i, r) ==
  LET Words[n \in 0..MaxFiles] ==
        [j \in 0..Len(file) |->
           IF j = Null \/ n = 0 THEN <<>> ELSE AbsoluteWords(file[j], Words[n - 1][file[j].parent], r)]
  IN  Collapse(Words[MaxFiles][i])

\* the path of a line, written out
Written(path) == [k \in 1..(2 * Len(path)) |-> IF k % 2 = 1 THEN "/" ELSE path[k \div 2]]

\* the entries whose directory is still there
Entries == LET alive == Alive IN {i \in DOMAIN file : listed[i] # Unlisted /\ file[i].parent \in alive}

(***************************************************************************)
(* "returne the path of the file withou the remote path": path() of an     *)
(* entry is the path in its line.  The lines were parsed one by one, by    *)
(* walking down a tree that earlier lines, of this process or of another,  *)
(* have built.  The path goes with an entry that is copied, moved or       *)
(* assigned, as long as no directory is moved or assigned to.              *)
(***************************************************************************)
PathsAreListed == \A i \in Entries : Path(i) = Written(listed[i])

(***************************************************************************)
(* "returne the absolute path of the file with the remote path": wherever  *)
(* the root is, on a remote or in a directory of one, and however that and *)
(* the root are written, the path a command is given for an entry is the   *)
(* place of the root followed by the path in the line, whose first slash   *)
(* is left out where it would follow the ":" under a root that has no name *)
(* ("TestRemote:parent.jpeg").                                             *)
(***************************************************************************)
BelowRoot(path, r) ==
  IF file[Root].name = "" /\ r.path = <<>> THEN Tail(Written(path)) ELSE Written(path)

AbsolutePathsAreListed ==
  \A i \in Entries, r \in Remotes :
    AbsolutePath(i, r) = Collapse(FullPath(r) \o BelowRoot(listed[i], r))

(***************************************************************************)
(* A directory is in the tree once, however many lines name something in   *)
(* it: a parser that makes the directories of a path finds them again, as  *)
(* long as nobody removes them.                                            *)
(***************************************************************************)
DirectoriesOnce ==
  LET dirs == {i \in DOMAIN file : file[i].dir /\ (i = Root \/ \E j \in Ids : i \in Links(j))}
  IN  Nobody({"remove"}) => Cardinality({Path(i) : i \in dirs}) = Cardinality(dirs)

\* what one comes to from the root, through children of the names of the path
Found(path) ==
  LET Level[n \in 0..Len(path)] ==    \* after the first n names
        IF n = 0 THEN {Root}
        ELSE {c \in UNION {Links(i) : i \in Level[n - 1]} : file[c].name = path[n]}
  IN  Level[Len(path)]

\* the lines that were parsed
Parsed(t) ==
  {path \in Listing[t] : Lists(uses, t) /\ path \notin lines[t]
                         /\ ~(pc[t] \in {"walk", "make"} /\ entry[t] = path)}

(***************************************************************************)
(* No line is lost: the entry of every line that was parsed is found from  *)
(* the root, child by child, under its path, whoever else pushes to the    *)
(* tree in the meantime, as long as nobody removes, moves or assigns.      *)
(* (path() goes up by _parent; this goes down by _children.)               *)
(***************************************************************************)
EntriesAreThere ==
  Nobody({"remove", "move", "assign"}) =>
    \A t \in Threads : \A path \in Parsed(t) : \E i \in Found(path) : listed[i] = path

\* the children of i that add_child_if_not_exist() made with that name
Twins(i, n) == {k \in DOMAIN children[i] : SameFile(children[i][k], MakeFile(n, FALSE, "file", i))}

Adders == {t \in Threads : "add_if" \in uses[t]}

(***************************************************************************)
(* What the race of add_child_if_not_exist() can do at worst: the look     *)
(* through the children is not locked, so threads that add the same file   *)
(* at the same time may each add it, but a directory never has more of one *)
(* file than there are threads that add, whatever was added and removed    *)
(* before and in between; with one thread, "child already exists, no new   *)
(* child added".                                                           *)
(***************************************************************************)
AddedOncePerThread ==
  (\A t \in Threads : uses[t] \subseteq {"add_if", "remove"}) =>
    \A i \in Ids, n \in Names : Cardinality(Twins(i, n)) <= Cardinality(Adders)

=============================================================================
