--------------------------- MODULE FileTreeProofs ---------------------------
(***************************************************************************)
(* What one can count on, for any files, any names, any lines and any      *)
(* number of steps.  Whoever reads a listing: that path() and              *)
(* absolute_path() of an entry are those of its line, that no line is lost *)
(* and that no directory is in the tree twice.  Whoever adds files that do *)
(* not exist: that each is added once by each thread at most.              *)
(***************************************************************************)
EXTENDS FileTree, Recursion, TLAPS

-----------------------------------------------------------------------------
(***************************************************************************)
(* A thread is at work only if it uses the tree.                           *)
(***************************************************************************)
Busy ==
  /\ uses \in Uses
  /\ uses \in [Threads -> SUBSET {"json", "lsl", "add_if", "remove", "add", "copy", "move", "assign"}]
  /\ pc \in [Threads -> {"idle", "walk", "make", "scan", "push"}]
  /\ lines \in [Threads -> SUBSET UNION {Listing[t] : t \in Threads}]
  /\ \A t \in Threads :
       /\ pc[t] # "idle" \/ lines[t] # {} => uses[t] # {}
       /\ pc[t] \in {"scan", "push"} => "add_if" \in uses[t]

\* Who is at work uses the tree.
LEMMA BusyStep == Busy /\ [Next]_vars => Busy'
<1> SUFFICES ASSUME Busy, [Next]_vars PROVE Busy'
  OBVIOUS
<1> USE DEF Busy, Goto
<1>1. ASSUME NEW t \in Threads, NextLine(t) PROVE Busy'
  BY <1>1 DEF NextLine
<1>2. ASSUME NEW t \in Threads, WalkJson(t) PROVE Busy'
  BY <1>2 DEF WalkJson
<1>3. ASSUME NEW t \in Threads, WalkLsl(t) PROVE Busy'
  BY <1>3 DEF WalkLsl
<1>4. ASSUME NEW t \in Threads, MakeDirectory(t) PROVE Busy'
  BY <1>4 DEF MakeDirectory
<1>5. ASSUME NEW t \in Threads, AddEntry(t) PROVE Busy'
  BY <1>5 DEF AddEntry
<1>6. ASSUME NEW t \in Threads, Scan(t) PROVE Busy'
  BY <1>6 DEF Scan
<1>7. ASSUME NEW t \in Threads, PushNew(t) PROVE Busy'
  BY <1>7 DEF PushNew
<1>8. ASSUME NEW t \in Threads, NEW i, NEW n, AddIfNotExist(t, i, n) PROVE Busy'
  BY <1>8 DEF AddIfNotExist
<1>9. ASSUME NEW t \in Threads, NEW i, NEW k, RemoveChild(t, i, k) PROVE Busy'
  BY <1>9 DEF RemoveChild
<1>10. ASSUME NEW t \in Threads, NEW i, NEW c, AddChild(t, i, c) PROVE Busy'
  BY <1>10 DEF AddChild
<1>11. ASSUME NEW t \in Threads, NEW i, NEW j, NEW moves, Transfer(t, i, j, moves) PROVE Busy'
  BY <1>11 DEF Transfer
<1>12. CASE UNCHANGED vars
  BY <1>12 DEF vars, threadVars
<1> QED
  BY <1>1, <1>2, <1>3, <1>4, <1>5, <1>6, <1>7, <1>8, <1>9, <1>10, <1>11, <1>12
  DEF Next, Over, CopyFile, MoveFile, AssignFile

-----------------------------------------------------------------------------
(***************************************************************************)
(* The types.  A thread at work is at a directory, and while no directory  *)
(* is moved it stays one.                                                  *)
(***************************************************************************)
Text == STRING \cup {"/", "", "orphan"}

FileType == [name : Text, dir : BOOLEAN, stamp : Stamps, parent : Nat]

IsDirectory(i) == i \in DOMAIN file /\ file[i].dir

Tree ==
  /\ file \in Seq(FileType) /\ Len(file) \in 1..MaxFiles /\ file[Root].dir
  /\ \A i \in DOMAIN file : file[i].parent \in {Null} \cup DOMAIN file
  /\ children \in [Ids -> Seq(Ids)]
  /\ \A i \in Ids : Links(i) \subseteq DOMAIN file /\ (children[i] # <<>> => IsDirectory(i))
  /\ listed \in [Ids -> Seq(Text)]

AtWork ==
  /\ lines \in [Threads -> SUBSET Seq(Text)]
  /\ at \in [Threads -> Ids]
  /\ rest \in [Threads -> Seq(Text)] /\ entry \in [Threads -> Seq(Text)]
  /\ \A t \in Threads :
       /\ lines[t] \subseteq Listing[t]
       /\ pc[t] # "idle" => IsDirectory(at[t]) /\ Len(rest[t]) > 0
       /\ pc[t] = "make" => Len(rest[t]) > 1
       /\ pc[t] \in {"walk", "make"} => entry[t] \in Listing[t]

\* directories stay directories, other files other files
SameKinds ==
  \A i \in DOMAIN file : i \in DOMAIN file' /\ file'[i].dir = file[i].dir

\* The names that are written out.
LEMMA Texts ==
  /\ "/" \in Text /\ "" \in Text /\ "orphan" \in Text /\ STRING \subseteq Text
  /\ "none" \in Stamps /\ "dir" \in Stamps /\ "file" \in Stamps
  BY Zenon DEF Text, Stamps

\* The names of the root.
LEMMA RootNameTexts ==
  /\ \A name \in RootNames : name \in Text
  /\ \A name \in RootNames : name = "/" \/ name = ""
<1>1. \A name \in RootNames : name = "/" \/ name = ""
  BY RootNamesAssumption, Zenon DEF RootNamesAssumption
<1> QED
  BY <1>1, Texts, Zenon

\* A file that is made.
LEMMA FileMade ==
  ASSUME NEW name \in Text, NEW dir \in BOOLEAN, NEW stamp \in Stamps, NEW parent \in Nat
  PROVE  /\ MakeFile(name, dir, stamp, parent) \in FileType
         /\ MakeFile(name, dir, stamp, parent).name = name
         /\ MakeFile(name, dir, stamp, parent).dir <=> dir
         /\ MakeFile(name, dir, stamp, parent).stamp = stamp
         /\ MakeFile(name, dir, stamp, parent).parent = parent
  BY DEF MakeFile, FileType

\* The files that there are.
LEMMA FileIds ==
  ASSUME Tree
  PROVE  /\ DOMAIN file = 1..Len(file) /\ Len(file) \in Nat /\ Len(file) + 1 \notin DOMAIN file
         /\ DOMAIN file \subseteq Ids
<1>1. Len(file) \in 1..MaxFiles /\ DOMAIN file = 1..Len(file) /\ MaxFiles \in Nat
  BY ConstantsAssumption DEF ConstantsAssumption, Tree
<1> QED
  BY <1>1 DEF Ids

\* The first tree.
LEMMA TreeInit == Init => Tree
<1> SUFFICES ASSUME Init PROVE Tree
  OBVIOUS
<1>0. PICK name \in RootNames :
        file = <<MakeFile(name, TRUE, "dir", Null)>>
                 \o [i \in 1..Orphans |-> MakeFile("orphan", TRUE, "dir", Null)]
  BY DEF Init
<1> DEFINE root == MakeFile(name, TRUE, "dir", Null)
           orphan == MakeFile("orphan", TRUE, "dir", Null)
<1>1. /\ root \in FileType /\ orphan \in FileType
      /\ root.parent = Null /\ orphan.parent = Null /\ root.dir
  <2>1. \A n \in Text, stamp \in Stamps :
          /\ MakeFile(n, TRUE, stamp, Null) \in FileType
          /\ MakeFile(n, TRUE, stamp, Null).parent = Null
          /\ MakeFile(n, TRUE, stamp, Null).dir
    BY DEF MakeFile, FileType, Null
  <2>2. name \in Text
    BY RootNameTexts
  <2> QED
    BY <2>1, <2>2, Texts, Zenon
<1>3. file = <<root>> \o [i \in 1..Orphans |-> orphan]
  BY <1>0
<1>4. MaxFiles \in Nat /\ Orphans \in 0..(MaxFiles - 1)
  BY ConstantsAssumption DEF ConstantsAssumption
<1> HIDE DEF root, orphan
<1>5. /\ file \in Seq(FileType) /\ Len(file) = 1 + Orphans /\ file[1] = root
      /\ \A i \in DOMAIN file : file[i] \in {root, orphan}
  BY <1>1, <1>3, <1>4
<1>6. children = [i \in 1..MaxFiles |-> <<>>] /\ listed = [i \in 1..MaxFiles |-> <<>>]
  BY DEF Init, Unlisted
<1>7. \A i \in Ids : Links(i) = {} /\ children[i] = <<>>
  BY <1>6 DEF Links, Ids
<1>8. children \in [Ids -> Seq(Ids)] /\ listed \in [Ids -> Seq(Text)]
  BY <1>6 DEF Ids
<1> QED
  BY <1>1, <1>4, <1>5, <1>7, <1>8 DEF Tree, Root, IsDirectory

\* A file that is pushed is the last one, and a child of its parent.
LEMMA TreePush ==
  ASSUME Tree, NEW t \in Threads, NEW f \in FileType, NEW line \in Seq(Text),
         Push(t, f, line), IsDirectory(f.parent)
  PROVE  /\ Tree' /\ SameKinds
         /\ Len(file) + 1 \in Ids /\ Len(file') = Len(file) + 1
         /\ DOMAIN file' = DOMAIN file \cup {Len(file) + 1}
         /\ \A i \in DOMAIN file : file'[i] = file[i]
         /\ file'[Len(file) + 1] = f
         /\ f.parent \in Ids
         /\ children' = [children EXCEPT ![f.parent] = Append(children[f.parent], Len(file) + 1)]
         /\ listed' = [listed EXCEPT ![Len(file) + 1] = line]
<1> DEFINE new == Len(file) + 1
           parent == f.parent
<1>1. /\ Len(file) \in Nat /\ DOMAIN file = 1..Len(file)
      /\ \A i \in DOMAIN file : file[i] \in FileType
      /\ file \in Seq(FileType)
  BY DEF Tree
<1>2. new \in Ids /\ MaxFiles \in Nat /\ DOMAIN file \subseteq Ids /\ parent \in Ids
  BY <1>1, ConstantsAssumption DEF ConstantsAssumption, Push, Ids, IsDirectory, Tree
<1>3. /\ file' \in Seq(FileType) /\ Len(file') = new
      /\ \A i \in DOMAIN file : file'[i] = file[i]
      /\ file'[new] = f
      /\ DOMAIN file' = DOMAIN file \cup {new}
  <2>1. file' = Append(file, f)
    BY DEF Push
  <2>2. /\ Append(file, f) \in Seq(FileType) /\ Len(Append(file, f)) = Len(file) + 1
        /\ \A i \in 1..Len(file) : Append(file, f)[i] = file[i]
        /\ Append(file, f)[Len(file) + 1] = f
    BY <1>1, Appended
  <2> HIDE DEF Tree
  <2> QED
    BY <1>1, <2>1, <2>2
<1>4. /\ children' = [children EXCEPT ![parent] = Append(children[parent], new)]
      /\ listed' = [listed EXCEPT ![new] = line]
  BY <1>2 DEF Push, Tree
<1>5. children' \in [Ids -> Seq(Ids)] /\ listed' \in [Ids -> Seq(Text)]
  BY <1>2, <1>4 DEF Tree
<1>6. SameKinds
  BY <1>3 DEF SameKinds
<1>7. Len(file') \in 1..MaxFiles /\ file'[Root].dir
  <2>1. Root \in DOMAIN file /\ file[Root].dir
    BY <1>1 DEF Tree, Root
  <2>2. Len(file') \in 1..MaxFiles
    BY <1>2, <1>3 DEF Ids
  <2> QED
    BY <1>3, <2>1, <2>2
<1>8. \A i \in DOMAIN file' : file'[i].parent \in {Null} \cup DOMAIN file'
  BY <1>3 DEF Tree, IsDirectory
<1>9. ASSUME NEW i \in Ids
      PROVE  /\ Links(i)' \subseteq DOMAIN file'
             /\ children'[i] # <<>> => i \in DOMAIN file' /\ file'[i].dir
  <2>1. CASE i = parent
    <3>1. children'[i] = Append(children[i], new) /\ children[i] \in Seq(Ids)
      BY <1>4, <2>1 DEF Tree
    <3>2. \A k \in DOMAIN children'[i] : children'[i][k] \in Links(i) \cup {new}
      BY <3>1, <1>2 DEF Links
    <3> QED
      BY <1>3, <2>1, <3>2 DEF Tree, Links, IsDirectory
  <2>2. CASE i # parent
    <3>1. children'[i] = children[i]
      BY <1>4, <2>2 DEF Tree
    <3> QED
      BY <1>3, <3>1 DEF Tree, Links, IsDirectory
  <2> QED
    BY <2>1, <2>2
<1>10. Tree'
  BY <1>3, <1>5, <1>7, <1>8, <1>9 DEF Tree, IsDirectory
<1> QED
  BY <1>2, <1>3, <1>4, <1>6, <1>10

\* What is left, child by child.
LEMMA WithoutIs ==
  ASSUME NEW A, NEW s \in Seq(A), NEW f
  PROVE  \E kept : /\ kept[0] = <<>> /\ \A n \in 0..Len(s) : kept[n] \in Seq(A)
                   /\ \A n \in 1..Len(s) : kept[n] = Keep(kept[n - 1], s[n], f)
                   /\ Without(s, f) = kept[Len(s)]
<1> PICK none : none = <<>>
  OBVIOUS
<1> DEFINE N == Len(s)
           Solves(g) == g = [n \in 0..N |-> IF n = 0 THEN none ELSE Keep(g[n - 1], s[n], f)]
           kept == CHOOSE g : Solves(g)
           V == Seq(A)
           step == [n \in 1..N |-> [w \in V |-> Keep(w, s[n], f)]]
<1>1. N \in Nat /\ (\A n \in 1..N : s[n] \in A) /\ none \in V
  OBVIOUS
<1>2. Without(s, f) = kept[N]
  BY DEF Without
<1> HIDE DEF N
<1>3. \A n \in 1..N : \A w \in V : Keep(w, s[n], f) \in V
  BY <1>1 DEF Keep
<1>4. \E g : Solves(g)
  <2>1. step \in [1..N -> [V -> V]]
    BY <1>3
  <2>2. PICK g : Steps(g, N, V, none, step)
    <3> HIDE DEF V, step
    <3> QED
      BY <1>1, <2>1, RecursionExists
  <2>3. \A n \in 1..N : g[n - 1] \in V
    BY <1>1, <2>2 DEF Steps
  <2>4. \A n \in 1..N : g[n] = Keep(g[n - 1], s[n], f)
    BY <2>2, <2>3 DEF Steps
  <2>5. Solves(g)
    BY <1>1, <2>2, <2>4 DEF Steps
  <2> QED
    BY <2>5
<1>5. kept[0] = none /\ \A n \in 1..N : kept[n] = Keep(kept[n - 1], s[n], f)
  <2>1. Solves(kept)
    BY <1>4
  <2> HIDE DEF kept
  <2> QED
    BY <1>1, <2>1
<1> HIDE DEF kept, V
<1> DEFINE Good == {n \in 0..N : kept[n] \in V}
<1>6. 0 \in Good
  BY <1>1, <1>5
<1>7. ASSUME NEW n \in 0..(N - 1), n \in Good PROVE n + 1 \in Good
  <2>1. kept[n] \in V /\ n + 1 \in 1..N /\ (n + 1) - 1 = n /\ n + 1 \in 0..N
    BY <1>1, <1>7
  <2>2. kept[n + 1] = Keep(kept[n], s[n + 1], f)
    BY <1>5, <2>1
  <2> QED
    BY <1>3, <2>1, <2>2
<1>8. \A n \in 0..N : n \in Good
  <2> HIDE DEF Good
  <2> QED
    BY <1>1, <1>6, <1>7, UpTo
<1> QED
  BY <1>1, <1>2, <1>5, <1>8 DEF V, N

\* What is left of the children is some of them.
LEMMA SomeLeft ==
  ASSUME NEW A, NEW s \in Seq(A), NEW f
  PROVE  Without(s, f) \in Seq(A)
<1>1. PICK kept : (\A n \in 0..Len(s) : kept[n] \in Seq(A)) /\ Without(s, f) = kept[Len(s)]
  BY WithoutIs
<1>2. Len(s) \in 0..Len(s)
  OBVIOUS
<1> QED
  BY <1>1, <1>2

\* Children are removed.
LEMMA TreeRemove ==
  ASSUME Tree, NEW t \in Threads, NEW i \in DOMAIN file, NEW k \in DOMAIN children[i],
         RemoveChild(t, i, k)
  PROVE  Tree' /\ SameKinds /\ UNCHANGED <<file, listed>>
         /\ \A j \in Ids : Links(j)' \subseteq Links(j)
<1> DEFINE left == Without(children[i], file[children[i][k]])
<1>1. i \in Ids /\ children[i] \in Seq(Ids) /\ IsDirectory(i)
  <2>1. Len(file) \in 1..MaxFiles /\ DOMAIN file = 1..Len(file) /\ MaxFiles \in Nat
    BY ConstantsAssumption DEF ConstantsAssumption, Tree
  <2>2. i \in Ids /\ IsDirectory(i)
    BY <2>1 DEF RemoveChild, Here, IsDirectory, Ids
  <2> QED
    BY <2>2 DEF Tree
<1>2. children[i] \in Seq(Links(i) \cap Ids)
  BY <1>1 DEF Links
<1>3. left \in Seq(Links(i) \cap Ids)
  BY <1>2, SomeLeft
<1> HIDE DEF left
<1>4. children' = [children EXCEPT ![i] = left] /\ UNCHANGED <<file, listed>>
  BY DEF RemoveChild, left
<1>5. children' \in [Ids -> Seq(Ids)]
  <2>1. left \in Seq(Ids)
    BY <1>3
  <2> QED
    BY <1>4, <2>1 DEF Tree
<1>6. ASSUME NEW j \in Ids PROVE Links(j)' \subseteq Links(j) /\ (children'[j] # <<>> => IsDirectory(j))
  <2>1. CASE j = i
    <3>1. children'[j] = left
      BY <1>1, <1>4, <2>1 DEF Tree
    <3>2. \A l \in DOMAIN left : left[l] \in Links(j)
      BY <1>3, <2>1
    <3> QED
      BY <1>1, <2>1, <3>1, <3>2 DEF Links
  <2>2. CASE j # i
    <3>1. children'[j] = children[j]
      BY <1>4, <2>2 DEF Tree
    <3> QED
      BY <3>1 DEF Links, Tree
  <2> QED
    BY <2>1, <2>2
<1> QED
  BY <1>4, <1>5, <1>6 DEF Tree, SameKinds, IsDirectory

\* Any file may be added to the children of a directory.
LEMMA TreeAdd ==
  ASSUME Tree, NEW t \in Threads, NEW i \in DOMAIN file, NEW c \in DOMAIN file, AddChild(t, i, c)
  PROVE  Tree' /\ SameKinds
<1> DEFINE parent == IF file[c].parent = Null THEN i ELSE file[c].parent
           f == [file[c] EXCEPT !.parent = parent]
<1>1. /\ Len(file) \in Nat /\ DOMAIN file = 1..Len(file) /\ DOMAIN file \subseteq Ids
      /\ \A j \in DOMAIN file : file[j] \in FileType
      /\ file \in Seq(FileType) /\ file[i].dir
  BY ConstantsAssumption DEF ConstantsAssumption, Tree, Ids, AddChild, Here
<1>2. parent \in DOMAIN file
  BY DEF Tree
<1> HIDE DEF parent
<1>3. f \in FileType /\ f.parent = parent /\ f.dir = file[c].dir
  <2>1. file[c] \in FileType /\ parent \in Nat
    BY <1>1, <1>2
  <2> QED
    BY <2>1 DEF FileType
<1>4. file' = [file EXCEPT ![c] = f]
  BY DEF AddChild, f, parent
<1> HIDE DEF f
<1>5. /\ file' \in Seq(FileType) /\ Len(file') = Len(file)
      /\ \A j \in 1..Len(file) : file'[j] = IF j = c THEN f ELSE file[j]
  BY <1>1, <1>3, <1>4, ExceptSeq
<1>6. DOMAIN file' = DOMAIN file
  BY <1>1, <1>5
<1>7. SameKinds
  BY <1>1, <1>3, <1>5, <1>6 DEF SameKinds
<1>8. children' = [children EXCEPT ![i] = Append(children[i], c)] /\ listed' = listed
  BY DEF AddChild
<1>9. i \in Ids /\ c \in Ids
  BY <1>1
<1>10. children' \in [Ids -> Seq(Ids)]
  BY <1>8, <1>9 DEF Tree
<1>11. ASSUME NEW j \in Ids
       PROVE  Links(j)' \subseteq DOMAIN file /\ (children'[j] # <<>> => j \in DOMAIN file /\ file[j].dir)
  <2>1. CASE j = i
    <3>1. children'[j] = Append(children[j], c) /\ children[j] \in Seq(Ids)
      BY <1>8, <2>1 DEF Tree
    <3>2. \A k \in DOMAIN children'[j] : children'[j][k] \in Links(j) \cup {c}
      BY <1>9, <3>1 DEF Links
    <3> QED
      BY <1>1, <2>1, <3>2 DEF Tree, Links
  <2>2. CASE j # i
    <3>1. children'[j] = children[j]
      BY <1>8, <2>2 DEF Tree
    <3> QED
      BY <3>1 DEF Links, Tree, IsDirectory
  <2> QED
    BY <2>1, <2>2
<1>12. \A j \in DOMAIN file' : file'[j].parent \in {Null} \cup DOMAIN file'
  BY <1>1, <1>2, <1>3, <1>5, <1>6 DEF Tree
<1>13. file'[Root].dir
  <2>1. Root \in DOMAIN file /\ file[Root].dir
    BY <1>1 DEF Tree, Root
  <2> QED
    BY <1>7, <2>1 DEF SameKinds
<1> QED
  BY <1>5, <1>6, <1>7, <1>8, <1>10, <1>11, <1>12, <1>13 DEF Tree, SameKinds, IsDirectory

\* A file becomes another, and the other is left, or moved from.
Becomes(to, from, moves) ==
  /\ DOMAIN file' = DOMAIN file \cup {to}
  /\ file'[to] = file[from] /\ listed'[to] = listed[from]
  /\ \A i \in DOMAIN file \ {to} :
       \/ file'[i] = file[i] /\ listed'[i] = listed[i]
       \/ ~file[i].dir /\ file'[i] = MovedFrom /\ listed'[i] = Unlisted
  /\ \A i \in DOMAIN file :
       file[i].dir => file'[i] = file[i] /\ children'[i] = children[i] /\ listed'[i] = listed[i]
  /\ \A i \in DOMAIN listed \ DOMAIN file' : listed'[i] = listed[i]

\* Files that are no directories are copied, moved and assigned; directories only copied.
LEMMA TreeTransfer ==
  ASSUME Tree, NEW t \in Threads, NEW to \in Ids, NEW from \in DOMAIN file, NEW moves \in BOOLEAN,
         to # from, to \in 1..(Len(file) + 1), moves => ~file[from].dir,
         to \in DOMAIN file => ~file[to].dir /\ ~file[from].dir,
         Transfer(t, to, from, moves)
  PROVE  Tree' /\ SameKinds /\ Becomes(to, from, moves) /\ Len(file') >= Len(file)
<1>1. /\ Len(file) \in Nat /\ DOMAIN file = 1..Len(file) /\ DOMAIN file \subseteq Ids
      /\ \A j \in DOMAIN file : file[j] \in FileType
      /\ Root \in DOMAIN file /\ MaxFiles \in Nat
  BY SMTT(60), ConstantsAssumption DEF ConstantsAssumption, Tree, Ids, Root
<1>2. MovedFrom \in FileType /\ MovedFrom.parent = Null /\ ~MovedFrom.dir
  <2>1. \A name \in Text, stamp \in Stamps :
          /\ MakeFile(name, FALSE, stamp, Null) \in FileType
          /\ MakeFile(name, FALSE, stamp, Null).parent = Null
          /\ ~MakeFile(name, FALSE, stamp, Null).dir
    BY DEF MakeFile, FileType, Null
  <2> QED
    BY <2>1, Texts, Zenon DEF MovedFrom
<1> PICK f : f = MovedFrom
  OBVIOUS
<1>3. file' = [i \in DOMAIN file \cup {to} |->
                 IF i = to THEN file[from] ELSE IF moves /\ i = from THEN f ELSE file[i]]
  BY DEF Transfer
<1>4. /\ children' = [i \in DOMAIN children \cup {to} |->
                        IF i = to THEN children[from]
                        ELSE IF moves /\ i = from THEN <<>> ELSE children[i]]
      /\ listed' = [i \in DOMAIN listed \cup {to} |->
                      IF i = to THEN listed[from]
                      ELSE IF moves /\ i = from THEN Unlisted ELSE listed[i]]
  BY DEF Transfer
<1>5. DOMAIN children = Ids /\ DOMAIN listed = Ids
  BY DEF Tree
<1>6. Becomes(to, from, moves)
  BY <1>1, <1>3, <1>4, <1>5 DEF Becomes, Tree
<1>7. SameKinds
  <2>1. \A i \in DOMAIN file : file[i].dir \in BOOLEAN
    BY <1>1 DEF FileType
  <2>2. ASSUME NEW i \in DOMAIN file PROVE file'[i].dir = file[i].dir
    <3>1. CASE i = to
      BY <1>3, <2>1, <3>1
    <3>2. CASE i # to /\ moves /\ i = from
      <4>1. file'[i].dir = FALSE
        BY <1>2, <1>3, <3>2
      <4> QED
        BY <2>1, <3>2, <4>1
    <3>3. CASE i # to /\ ~(moves /\ i = from)
      BY <1>3, <3>3
    <3> QED
      BY <3>1, <3>2, <3>3
  <2> QED
    BY <1>3, <2>2 DEF SameKinds
<1>8. PICK n \in 1..MaxFiles : DOMAIN file' = 1..n /\ n >= Len(file)
  <2>1. CASE to = Len(file) + 1
    BY <1>1, <1>3, <2>1 DEF Ids
  <2>2. CASE to # Len(file) + 1
    <3>1. to \in DOMAIN file /\ DOMAIN file' = DOMAIN file
      BY <1>1, <1>3, <2>2
    <3>2. Len(file) \in 1..MaxFiles /\ DOMAIN file' = 1..Len(file) /\ Len(file) >= Len(file)
      BY <1>1, <3>1 DEF Tree
    <3> QED
      BY <3>2, Zenon
  <2> QED
    BY <2>1, <2>2
<1>9. \A i \in DOMAIN file' : file'[i] \in FileType /\ file'[i].parent \in {Null} \cup DOMAIN file'
  BY <1>1, <1>2, <1>3 DEF Tree
<1>10. file' \in Seq(FileType) /\ Len(file') = n
  <2>1. file' \in [1..n -> FileType]
    BY <1>3, <1>8, <1>9
  <2> QED
    BY <1>8, <2>1, SeqDef
<1>11. children' \in [Ids -> Seq(Ids)] /\ listed' \in [Ids -> Seq(Text)]
  BY <1>1, <1>4, <1>5 DEF Tree, Unlisted
<1>12. ASSUME NEW i \in Ids
       PROVE  Links(i)' \subseteq DOMAIN file' /\ (children'[i] # <<>> => IsDirectory(i)')
  <2>1. CASE i = to
    <3>1. children'[i] = children[from] /\ file'[i] = file[from] /\ i \in DOMAIN file'
      BY <1>3, <1>4, <1>5, <2>1
    <3>2. Links(i)' = Links(from)
      BY <3>1 DEF Links
    <3>3. Links(from) \subseteq DOMAIN file /\ (children[from] # <<>> => file[from].dir)
      BY <1>1 DEF Tree, IsDirectory
    <3> QED
      BY <1>3, <3>1, <3>2, <3>3 DEF IsDirectory
  <2>2. CASE i # to /\ moves /\ i = from
    <3>1. children'[i] = <<>>
      BY <1>4, <1>5, <2>2
    <3> QED
      BY <3>1 DEF Links
  <2>3. CASE i # to /\ ~(moves /\ i = from)
    <3>1. children'[i] = children[i] /\ (i \in DOMAIN file => file'[i] = file[i])
      BY <1>3, <1>4, <1>5, <2>3
    <3>2. Links(i)' = Links(i)
      BY <3>1 DEF Links
    <3>3. Links(i) \subseteq DOMAIN file /\ (children[i] # <<>> => i \in DOMAIN file /\ file[i].dir)
      BY DEF Tree, IsDirectory
    <3> QED
      BY <1>3, <3>1, <3>2, <3>3 DEF IsDirectory
  <2> QED
    BY <2>1, <2>2, <2>3
<1>13. file'[Root].dir
  BY <1>1, <1>7 DEF SameKinds, Tree
<1> QED
  BY <1>6, <1>7, <1>8, <1>9, <1>10, <1>11, <1>12, <1>13 DEF Tree

-----------------------------------------------------------------------------
\* The least of some numbers.
LEMMA LeastIsMin ==
  ASSUME NEW S, S \subseteq Nat, S # {}
  PROVE  Min(S) \in S /\ \A k \in S : Min(S) <= k
<1>1. \E k \in S : \A l \in S : k <= l
  BY LeastMember
<1> QED
  BY <1>1 DEF Min

\* The first child that is looked for is one of the children, or there is none.
LEMMA First ==
  ASSUME Tree, NEW i \in Ids, NEW f, NEW equal,
         FirstChild(i, f, equal) # Null
  PROVE  /\ FirstChild(i, f, equal) \in Links(i)
         /\ ~equal => SameDirectory(FirstChild(i, f, equal), f)
         /\ equal => SameFile(FirstChild(i, f, equal), f)
<1> DEFINE Hit(c) == IF equal THEN SameFile(c, f) ELSE SameDirectory(c, f)
           hits == {k \in DOMAIN children[i] : Hit(children[i][k])}
<1>1. hits # {} /\ FirstChild(i, f, equal) = children[i][Min(hits)]
  BY DEF FirstChild
<1>2. hits \subseteq Nat
  BY DEF Tree
<1>3. Min(hits) \in hits /\ \A k \in hits : Min(hits) <= k
  <2> HIDE DEF hits
  <2> QED
    BY <1>1, <1>2, LeastIsMin
<1> QED
  BY <1>1, <1>3 DEF Links

\* The paths of a listing.
LEMMA PathTypes ==
  ASSUME NEW t \in Threads, NEW path \in Listing[t]
  PROVE  path \in Seq(Text) /\ path \in Seq(STRING) /\ path # <<>> /\ Len(path) \in Nat /\ Len(path) > 0
<1>1. path \in Seq(STRING) /\ path # <<>>
  BY ConstantsAssumption DEF ConstantsAssumption
<1>2. path \in Seq(Text)
  BY <1>1, Texts, SeqMonotonic
<1> QED
  BY <1>1, <1>2

\* A thread goes on; the others are where they were.
LEMMA Onward ==
  ASSUME AtWork, SameKinds, NEW t \in Threads, NEW from, NEW to, Goto(t, from, to), Busy,
         lines' \in [Threads -> SUBSET Seq(Text)], \A u \in Threads : lines'[u] \subseteq lines[u],
         \E i \in Ids : at' = [at EXCEPT ![t] = i],
         \E r \in Seq(Text) : rest' = [rest EXCEPT ![t] = r],
         \E e \in Seq(Text) : entry' = [entry EXCEPT ![t] = e],
         to # "idle" => IsDirectory(at[t])' /\ Len(rest'[t]) > 0,
         to = "make" => Len(rest'[t]) > 1,
         to \in {"walk", "make"} => entry'[t] \in Listing[t]
  PROVE  AtWork'
<1>1. pc' = [pc EXCEPT ![t] = to] /\ t \in DOMAIN pc /\ DOMAIN pc = Threads
  BY DEF Goto, Busy
<1>2. at' \in [Threads -> Ids] /\ rest' \in [Threads -> Seq(Text)] /\ entry' \in [Threads -> Seq(Text)]
  BY DEF AtWork
<1>3. ASSUME NEW u \in Threads
      PROVE  /\ lines'[u] \subseteq Listing[u]
             /\ pc'[u] # "idle" => IsDirectory(at[u])' /\ Len(rest'[u]) > 0
             /\ pc'[u] = "make" => Len(rest'[u]) > 1
             /\ pc'[u] \in {"walk", "make"} => entry'[u] \in Listing[u]
  <2>1. CASE u = t
    BY <1>1, <2>1 DEF AtWork
  <2>2. CASE u # t
    <3>1. pc'[u] = pc[u] /\ at'[u] = at[u] /\ rest'[u] = rest[u] /\ entry'[u] = entry[u]
      BY <1>1, <2>2 DEF AtWork
    <3> QED
      BY <3>1 DEF AtWork, SameKinds, IsDirectory
  <2> QED
    BY <2>1, <2>2
<1> QED
  BY <1>2, <1>3 DEF AtWork, IsDirectory

\* The tree is left alone.
LEMMA TreeSame ==
  ASSUME Tree, UNCHANGED <<file, children, listed>>
  PROVE  Tree' /\ SameKinds
  BY DEF Tree, SameKinds, IsDirectory, Links

\* the file has this name
Named(i, name) == file[i].name = name

\* The directory that is looked for is one, if it is there.
LEMMA DirectoryFound ==
  ASSUME Tree, NEW i \in Ids, NEW name, NEW stamp, NEW parent, NEW equal \in BOOLEAN,
         NEW d, d = FirstChild(i, MakeFile(name, TRUE, stamp, parent), equal), d # Null
  PROVE  d \in Ids /\ IsDirectory(d) /\ d \in Links(i) /\ Named(d, name)
<1> DEFINE f == MakeFile(name, TRUE, stamp, parent)
<1>1. f.dir = TRUE /\ f.name = name
  BY DEF MakeFile
<1> HIDE DEF f
<1>2. d = FirstChild(i, f, equal)
  BY DEF f
<1>3. d \in Links(i) /\ (~equal => SameDirectory(d, f)) /\ (equal => SameFile(d, f))
  BY <1>2, First
<1>4. d \in DOMAIN file /\ DOMAIN file \subseteq Ids
  <2>1. Len(file) \in 1..MaxFiles /\ DOMAIN file = 1..Len(file) /\ MaxFiles \in Nat
    BY ConstantsAssumption DEF ConstantsAssumption, Tree
  <2>2. DOMAIN file \subseteq Ids
    BY <2>1 DEF Ids
  <2>3. Links(i) \subseteq DOMAIN file
    BY DEF Tree
  <2> QED
    BY <1>3, <2>2, <2>3
<1> QED
  BY <1>1, <1>3, <1>4 DEF IsDirectory, SameDirectory, SameFile, Named

\* Every step keeps the types, and what is a directory.
LEMMA TypesStep ==
  ASSUME ~MoveDirectories \/ Nobody({"move", "assign"}), Busy, Tree, AtWork, [Next]_vars
  PROVE  Tree' /\ AtWork' /\ SameKinds
<1> DEFINE Goal == Tree' /\ AtWork' /\ SameKinds
<1>0. /\ \A t \in Threads : at[t] \in Ids /\ rest[t] \in Seq(Text) /\ entry[t] \in Seq(Text)
      /\ \A t \in Threads : /\ at = [at EXCEPT ![t] = at[t]]
                            /\ rest = [rest EXCEPT ![t] = rest[t]]
                            /\ entry = [entry EXCEPT ![t] = entry[t]]
      /\ \A t \in Threads : lines[t] \in SUBSET Seq(Text)
      /\ lines \in [Threads -> SUBSET Seq(Text)]
  BY DEF AtWork
<1>1. /\ Root \in Ids /\ IsDirectory(Root) /\ DOMAIN file \subseteq Ids
      /\ DOMAIN file = 1..Len(file) /\ Len(file) \in Nat /\ MaxFiles \in Nat
  <2>1. Len(file) \in 1..MaxFiles /\ DOMAIN file = 1..Len(file) /\ file[Root].dir /\ MaxFiles \in Nat
    BY ConstantsAssumption DEF ConstantsAssumption, Tree
  <2> QED
    BY <2>1 DEF Ids, Root, IsDirectory
<1>2. ASSUME NEW t \in Threads, NextLine(t) PROVE Goal
  <2>1. PICK path \in lines[t] :
          /\ Goto(t, "idle", "walk") /\ lines' = [lines EXCEPT ![t] = lines[t] \ {path}]
          /\ at' = [at EXCEPT ![t] = Root]
          /\ rest' = [rest EXCEPT ![t] = path] /\ entry' = [entry EXCEPT ![t] = path]
          /\ UNCHANGED <<file, children, listed>>
    BY <1>2 DEF NextLine
  <2>2. path \in Listing[t]
    BY DEF AtWork
  <2>3. path \in Seq(Text) /\ Len(path) > 0
    BY <2>2, PathTypes
  <2>4. Tree' /\ SameKinds
    BY <2>1, TreeSame
  <2>5. lines' \in [Threads -> SUBSET Seq(Text)] /\ \A u \in Threads : lines'[u] \subseteq lines[u]
    BY <1>0, <2>1
  <2>6. at'[t] = Root /\ rest'[t] = path /\ entry'[t] = path /\ IsDirectory(at[t])'
    BY <1>1, <2>1, <2>4 DEF AtWork, IsDirectory, SameKinds
  <2> QED
    BY <1>1, <2>1, <2>2, <2>3, <2>4, <2>5, <2>6, Onward
<1>3. ASSUME NEW t \in Threads, NEW i \in Ids, IsDirectory(i), NEW to \in {"walk", "make"},
             NEW r \in Seq(Text), Len(r) > 0, to = "make" => Len(r) > 1,
             Goto(t, "walk", to), at' = [at EXCEPT ![t] = i], rest' = [rest EXCEPT ![t] = r],
             UNCHANGED <<file, children, listed, lines, entry>>
      PROVE  Goal
  <2>1. Tree' /\ SameKinds
    BY <1>3, TreeSame
  <2>2. at'[t] = i /\ rest'[t] = r /\ entry'[t] = entry[t] /\ IsDirectory(at[t])'
    BY <1>3, <2>1 DEF AtWork, IsDirectory, SameKinds
  <2>3. entry[t] \in Listing[t]
    BY <1>3 DEF AtWork, Goto
  <2> QED
    BY <1>0, <1>3, <2>1, <2>2, <2>3, Onward
<1>4. ASSUME NEW t \in Threads, WalkJson(t) PROVE Goal
  <2> DEFINE dir == FirstChild(at[t], MakeFile(Head(rest[t]), TRUE, "dir", at[t]), FALSE)
             i == IF dir # Null THEN dir ELSE at[t]
  <2>1. dir # Null => dir \in Ids /\ IsDirectory(dir)
    BY <1>0, DirectoryFound
  <2>2. /\ Goto(t, "walk", "walk") /\ Len(rest[t]) > 1
        /\ at' = [at EXCEPT ![t] = i] /\ rest' = [rest EXCEPT ![t] = Tail(rest[t])]
        /\ UNCHANGED <<file, children, listed, lines, entry>>
    BY <1>4 DEF WalkJson
  <2> HIDE DEF dir
  <2>3. IsDirectory(at[t])
    BY <2>2 DEF AtWork, Goto
  <2>4. i \in Ids /\ IsDirectory(i)
    BY <1>0, <2>1, <2>3
  <2>5. Tail(rest[t]) \in Seq(Text) /\ Len(Tail(rest[t])) > 0
    BY <1>0, <2>2, Lefts
  <2> QED
    BY <1>3, <2>2, <2>4, <2>5
<1>5. ASSUME NEW t \in Threads, WalkLsl(t) PROVE Goal
  <2> DEFINE dir == FirstChild(at[t], MakeFile(Head(rest[t]), TRUE, "none", at[t]), TRUE)
  <2>1. dir # Null => dir \in Ids /\ IsDirectory(dir)
    BY <1>0, DirectoryFound
  <2>2. /\ Goto(t, "walk", IF dir # Null THEN "walk" ELSE "make") /\ Len(rest[t]) > 1
        /\ at' = [at EXCEPT ![t] = IF dir # Null THEN dir ELSE at[t]]
        /\ rest' = [rest EXCEPT ![t] = IF dir # Null THEN Tail(rest[t]) ELSE rest[t]]
        /\ UNCHANGED <<file, children, listed, lines, entry>>
    BY <1>5 DEF WalkLsl
  <2> HIDE DEF dir
  <2>3. IsDirectory(at[t])
    BY <2>2 DEF AtWork, Goto
  <2>4. Tail(rest[t]) \in Seq(Text) /\ Len(Tail(rest[t])) > 0 /\ Len(rest[t]) > 0
    BY <1>0, <2>2, Lefts
  <2>5. CASE dir # Null
    BY <1>3, <2>1, <2>2, <2>4, <2>5
  <2>6. CASE dir = Null
    BY <1>0, <1>3, <2>2, <2>3, <2>4, <2>6
  <2> QED
    BY <2>5, <2>6
<1>6. ASSUME NEW t \in Threads, NEW from, from # "idle", NEW to \in {"idle", "walk"}, Goto(t, from, to),
             NEW f \in FileType, f.parent = at[t], NEW line \in Seq(Text), Push(t, f, line),
             to = "walk" => from = "make" /\ f.dir,
             at' = [at EXCEPT ![t] = IF to = "walk" THEN Len(file) + 1 ELSE at[t]],
             rest' = [rest EXCEPT ![t] = IF to = "walk" THEN Tail(rest[t]) ELSE rest[t]],
             UNCHANGED <<lines, entry>>
      PROVE  Goal
  <2>1. IsDirectory(at[t])
    BY <1>6 DEF AtWork, Goto
  <2>2. /\ Tree' /\ SameKinds /\ Len(file) + 1 \in Ids /\ Len(file) + 1 \in DOMAIN file'
        /\ file'[Len(file) + 1] = f
    BY <1>6, <2>1, TreePush
  <2>3. CASE to = "walk"
    <3>1. pc[t] = "make" /\ Len(rest[t]) > 1 /\ entry[t] \in Listing[t]
      BY <1>6, <2>3 DEF AtWork, Goto
    <3>2. Tail(rest[t]) \in Seq(Text) /\ Len(Tail(rest[t])) > 0
      BY <1>0, <3>1, Lefts
    <3>3. at' = [at EXCEPT ![t] = Len(file) + 1] /\ rest' = [rest EXCEPT ![t] = Tail(rest[t])]
      BY <1>6, <2>3
    <3>4. /\ at'[t] = Len(file) + 1 /\ rest'[t] = Tail(rest[t]) /\ entry'[t] = entry[t]
          /\ IsDirectory(at[t])'
      BY <1>6, <2>2, <2>3, <3>3 DEF AtWork, IsDirectory
    <3>5. /\ Goto(t, from, to) /\ lines' = lines
          /\ \E j \in Ids : at' = [at EXCEPT ![t] = j]
          /\ \E r \in Seq(Text) : rest' = [rest EXCEPT ![t] = r]
          /\ \E e \in Seq(Text) : entry' = [entry EXCEPT ![t] = e]
      BY <1>0, <1>6, <2>2, <3>2, <3>3
    <3>6. lines' \in [Threads -> SUBSET Seq(Text)] /\ \A u \in Threads : lines'[u] \subseteq lines[u]
      BY <1>0, <3>5
    <3>7. /\ IsDirectory(at[t])' /\ Len(rest'[t]) > 0 /\ entry'[t] \in Listing[t]
          /\ to # "make"
      BY <2>3, <3>1, <3>2, <3>4
    <3>8. AtWork'
      BY <2>2, <3>5, <3>6, <3>7, Onward
    <3> QED
      BY <2>2, <3>8
  <2>4. CASE to = "idle"
    <3>1. at' = [at EXCEPT ![t] = at[t]] /\ rest' = [rest EXCEPT ![t] = rest[t]]
      BY <1>6, <2>4
    <3> QED
      BY <1>0, <1>6, <2>2, <2>4, <3>1, Onward
  <2> QED
    BY <1>6, <2>3, <2>4
<1>7. ASSUME NEW t \in Threads, MakeDirectory(t) PROVE Goal
  <2>1. /\ Goto(t, "make", "walk") /\ Push(t, NewDirectory(t), Unlisted)
        /\ at' = [at EXCEPT ![t] = Len(file) + 1] /\ rest' = [rest EXCEPT ![t] = Tail(rest[t])]
        /\ UNCHANGED <<lines, entry>>
    BY <1>7 DEF MakeDirectory
  <2>2. pc[t] = "make" /\ IsDirectory(at[t]) /\ Len(rest[t]) > 1
    BY <2>1 DEF AtWork, Goto
  <2>3. Head(rest[t]) \in Text
    BY <1>0, <2>2, Lefts
  <2>4. at[t] \in Nat
    BY <1>0 DEF Ids
  <2>5. NewDirectory(t) \in FileType /\ NewDirectory(t).parent = at[t] /\ NewDirectory(t).dir
    <3>1. \A stamp \in Stamps :
            /\ MakeFile(Head(rest[t]), TRUE, stamp, at[t]) \in FileType
            /\ MakeFile(Head(rest[t]), TRUE, stamp, at[t]).parent = at[t]
            /\ MakeFile(Head(rest[t]), TRUE, stamp, at[t]).dir
      BY <2>3, <2>4 DEF MakeFile, FileType
    <3> QED
      BY <3>1, Texts, Zenon DEF NewDirectory
  <2>6. Unlisted \in Seq(Text)
    BY DEF Unlisted
  <2> QED
    BY <1>6, <2>1, <2>5, <2>6
<1>8. ASSUME NEW t \in Threads, AddEntry(t) PROVE Goal
  <2> DEFINE isDir == "json" \in uses[t] /\ entry[t] \in Directories
             stamp == IF isDir THEN "dir" ELSE "file"
             f == MakeFile(Last(entry[t]), isDir, stamp, at[t])
  <2>1. /\ Goto(t, "walk", "idle") /\ Push(t, f, entry[t])
        /\ UNCHANGED <<lines, at, rest, entry>>
    BY <1>8 DEF AddEntry
  <2>2. entry[t] \in Listing[t]
    BY <2>1 DEF AtWork, Goto
  <2>3. Last(entry[t]) \in Text
    <3>1. entry[t] \in Seq(Text) /\ Len(entry[t]) \in Nat /\ Len(entry[t]) > 0
      BY <2>2, PathTypes
    <3> QED
      BY <3>1 DEF Last
  <2>4. at[t] \in Nat
    BY <1>0 DEF Ids
  <2>6. isDir \in BOOLEAN /\ stamp \in Stamps
    BY Texts, Zenon
  <2> HIDE DEF isDir, stamp
  <2>5. f \in FileType /\ f.parent = at[t]
    BY <2>3, <2>4, <2>6, FileMade
  <2> HIDE DEF f
  <2> QED
    BY <1>0, <1>6, <2>1, <2>5
<1>9. ASSUME NEW t \in Threads, PushNew(t) PROVE Goal
  <2>1. /\ Goto(t, "push", "idle") /\ Push(t, Added(t), Unlisted)
        /\ UNCHANGED <<lines, at, rest, entry>>
    BY <1>9 DEF PushNew
  <2>2. rest[t][1] \in Text
    <3>1. Len(rest[t]) > 0
      BY <2>1 DEF AtWork, Goto
    <3> QED
      BY <1>0, <3>1, Lefts
  <2>3. at[t] \in Nat
    BY <1>0 DEF Ids
  <2>4. Added(t) \in FileType /\ Added(t).parent = at[t]
    <3>1. \A stamp \in Stamps :
            /\ MakeFile(rest[t][1], FALSE, stamp, at[t]) \in FileType
            /\ MakeFile(rest[t][1], FALSE, stamp, at[t]).parent = at[t]
      BY <2>2, <2>3 DEF MakeFile, FileType
    <3> QED
      BY <3>1, Texts, Zenon DEF Added
  <2>5. Unlisted \in Seq(Text)
    BY DEF Unlisted
  <2> QED
    BY <1>0, <1>6, <2>1, <2>4, <2>5
<1>20. ASSUME NEW t \in Threads, NEW from, NEW to \in {"idle", "scan", "push"}, Goto(t, from, to),
              NEW i \in Ids, IsDirectory(i), NEW r \in Seq(Text), Len(r) > 0,
              at' = [at EXCEPT ![t] = i], rest' = [rest EXCEPT ![t] = r],
              UNCHANGED <<file, children, listed, lines, entry>>
       PROVE  Goal
  <2>1. Tree' /\ SameKinds
    BY <1>20, TreeSame
  <2>2. at'[t] = i /\ rest'[t] = r /\ IsDirectory(at[t])'
    BY <1>20, <2>1 DEF AtWork, IsDirectory, SameKinds
  <2> QED
    BY <1>0, <1>20, <2>1, <2>2, Onward
<1>10. ASSUME NEW t \in Threads, Scan(t) PROVE Goal
  <2>1. IsDirectory(at[t]) /\ Len(rest[t]) > 0
    BY <1>10 DEF AtWork, Scan, Goto
  <2>2. PICK to \in {"idle", "push"} : Goto(t, "scan", to)
    BY <1>10 DEF Scan
  <2>3. UNCHANGED <<file, children, listed, lines, at, rest, entry>>
    BY <1>10 DEF Scan
  <2> QED
    BY <1>0, <1>20, <2>1, <2>2, <2>3
<1>11. ASSUME NEW t \in Threads, NEW i \in DOMAIN file, NEW n \in Names, AddIfNotExist(t, i, n)
       PROVE  Goal
  <2>1. n \in Text
    BY Texts, ConstantsAssumption DEF ConstantsAssumption
  <2>2. <<n>> \in Seq(Text) /\ Len(<<n>>) > 0
    BY <2>1
  <2>3. i \in Ids /\ IsDirectory(i)
    BY <1>1, <1>11 DEF AddIfNotExist, Here, IsDirectory
  <2>4. /\ Goto(t, "idle", "scan") /\ at' = [at EXCEPT ![t] = i] /\ rest' = [rest EXCEPT ![t] = <<n>>]
        /\ UNCHANGED <<file, children, listed, lines, entry>>
    BY <1>11 DEF AddIfNotExist
  <2> QED
    BY <1>20, <2>2, <2>3, <2>4
<1>12. ASSUME NEW t \in Threads, Tree', SameKinds, Goto(t, "idle", "idle"),
              UNCHANGED <<lines, at, rest, entry>>
       PROVE  Goal
  <2>1. /\ lines' \in [Threads -> SUBSET Seq(Text)] /\ \A u \in Threads : lines'[u] \subseteq lines[u]
        /\ at' = [at EXCEPT ![t] = at[t]] /\ rest' = [rest EXCEPT ![t] = rest[t]]
        /\ entry' = [entry EXCEPT ![t] = entry[t]]
    BY <1>0, <1>12
  <2>2. at[t] \in Ids /\ rest[t] \in Seq(Text) /\ entry[t] \in Seq(Text)
    BY <1>0
  <2>3. AtWork'
    BY <1>12, <2>1, <2>2, Onward
  <2> QED
    BY <1>12, <2>3
<1>13. ASSUME NEW t \in Threads, NEW i \in DOMAIN file, NEW k \in DOMAIN children[i],
              RemoveChild(t, i, k)
       PROVE  Goal
  BY <1>12, <1>13, TreeRemove DEF RemoveChild
<1>14. ASSUME NEW t \in Threads, NEW i \in DOMAIN file, NEW c \in DOMAIN file, AddChild(t, i, c)
       PROVE  Goal
  BY <1>12, <1>14, TreeAdd DEF AddChild
<1>21. ASSUME NEW t \in Threads, NEW from \in DOMAIN file, NEW to \in Ids, NEW moves \in BOOLEAN,
              to # from, to \in 1..(Len(file) + 1), moves => ~file[from].dir,
              to \in DOMAIN file => ~file[to].dir /\ ~file[from].dir,
              Transfer(t, to, from, moves)
       PROVE  Goal
  <2>1. Tree' /\ SameKinds
    BY <1>21, TreeTransfer
  <2>2. Goto(t, "idle", "idle") /\ UNCHANGED <<lines, at, rest, entry>>
    BY <1>21 DEF Transfer
  <2> QED
    BY <1>12, <2>1, <2>2
<1>22. Len(file) < MaxCopied =>
         Len(file) + 1 \in Ids /\ Len(file) + 1 \in 1..(Len(file) + 1) /\ Len(file) + 1 \notin DOMAIN file
  BY <1>1, ConstantsAssumption DEF ConstantsAssumption, Ids
<1>15. ASSUME NEW t \in Threads, NEW i \in DOMAIN file, CopyFile(t, i) PROVE Goal
  <2>1. Len(file) < MaxCopied /\ Transfer(t, Len(file) + 1, i, FALSE)
    BY <1>15 DEF CopyFile
  <2> QED
    BY <1>21, <1>22, <2>1
<1>16. ASSUME NEW t \in Threads, NEW i \in DOMAIN file, MoveFile(t, i) PROVE Goal
  <2>1. Len(file) < MaxCopied /\ ~file[i].dir /\ Transfer(t, Len(file) + 1, i, TRUE)
    BY <1>16 DEF MoveFile, Movable, Nobody
  <2> QED
    BY <1>21, <1>22, <2>1
<1>17. ASSUME NEW t \in Threads, NEW i \in DOMAIN file, NEW j \in DOMAIN file, NEW moves \in BOOLEAN,
              AssignFile(t, i, j, moves)
       PROVE  Goal
  <2>1. ~file[i].dir /\ ~file[j].dir /\ i # j /\ Transfer(t, i, j, moves)
    BY <1>17 DEF AssignFile, Movable, Nobody
  <2>2. i \in Ids /\ i \in 1..(Len(file) + 1)
    BY <1>1
  <2> QED
    BY <1>21, <2>1, <2>2
<1>18. ASSUME UNCHANGED vars PROVE Goal
  <2>1. Tree' /\ SameKinds
    BY <1>18, TreeSame DEF vars
  <2>2. UNCHANGED <<lines, at, rest, entry, pc, file>>
    BY <1>18 DEF vars, threadVars
  <2>3. AtWork'
    BY <2>2 DEF AtWork, IsDirectory
  <2> QED
    BY <2>1, <2>3
<1> HIDE DEF Goal
<1>23. ASSUME NEW t \in Threads, NEW i \in DOMAIN file,
              \/ \E n \in Names : AddIfNotExist(t, i, n)
              \/ \E k \in DOMAIN children[i] : RemoveChild(t, i, k)
              \/ CopyFile(t, i) \/ MoveFile(t, i)
              \/ \E c \in DOMAIN file :
                   \/ AddChild(t, i, c)
                   \/ \E moves \in BOOLEAN : AssignFile(t, i, c, moves)
       PROVE  Goal
  BY <1>11, <1>13, <1>14, <1>15, <1>16, <1>17, <1>23, Zenon
<1>19. Goal
  <2>1. ASSUME NEW t \in Threads,
               \/ NextLine(t) \/ WalkJson(t) \/ WalkLsl(t) \/ MakeDirectory(t) \/ AddEntry(t)
               \/ Scan(t) \/ PushNew(t)
        PROVE  Goal
    BY <1>2, <1>4, <1>5, <1>7, <1>8, <1>9, <1>10, <2>1, Zenon
  <2> QED
    BY <1>18, <1>23, <2>1, Zenon DEF Next, Over
<1> QED
  BY <1>19 DEF Goal

\* The first state has its types.
LEMMA TypesInit == Init => Busy /\ Tree /\ AtWork
<1> SUFFICES ASSUME Init PROVE Busy /\ AtWork
  BY TreeInit
<1>1. Busy
  BY ConstantsAssumption, UsesAssumption DEF ConstantsAssumption, UsesAssumption, Init, Busy
<1>2. /\ at = [t \in Threads |-> Root] /\ rest = [t \in Threads |-> <<>>]
      /\ entry = [t \in Threads |-> <<>>]
      /\ lines = [t \in Threads |-> IF uses[t] \cap {"json", "lsl"} # {} THEN Listing[t] ELSE {}]
  BY Zenon DEF Init
<1>3. \A t \in Threads : pc[t] = "idle"
  BY DEF Init
<1>4. Root \in Ids
  BY ConstantsAssumption DEF ConstantsAssumption, Ids, Root
<1>5. \A t \in Threads : lines[t] \subseteq Listing[t]
  BY <1>2
<1>6. \A t \in Threads : Listing[t] \in SUBSET Seq(Text)
  BY PathTypes
<1>7. lines \in [Threads -> SUBSET Seq(Text)]
  <2>1. \A t \in Threads : lines[t] \in SUBSET Seq(Text)
    BY <1>5, <1>6
  <2>2. DOMAIN lines = Threads /\ lines = [t \in Threads |-> lines[t]]
    BY <1>2
  <2> QED
    BY <2>1, <2>2
<1>8. \A t \in Threads : pc[t] # "make" /\ pc[t] \notin {"walk", "make"}
  BY <1>3
<1>9. /\ at \in [Threads -> Ids] /\ rest \in [Threads -> Seq(Text)]
      /\ entry \in [Threads -> Seq(Text)]
  BY <1>2, <1>4
<1> QED
  BY <1>1, <1>3, <1>5, <1>7, <1>8, <1>9, Zenon DEF AtWork

(***************************************************************************)
(* The state is of its type, as long as no directory is moved.             *)
(***************************************************************************)
THEOREM TreeTypes == ~MoveDirectories => (Spec => []TypeOK)
<1> SUFFICES ASSUME ~MoveDirectories PROVE Spec => []TypeOK
  OBVIOUS
<1> DEFINE Up == prog \in {"up", "undefined"}
<1>1. Init => Busy /\ Tree /\ AtWork /\ Up
  BY TypesInit DEF Init
<1>2. Busy /\ Tree /\ AtWork /\ [Next]_vars => (Busy /\ Tree /\ AtWork)'
  BY BusyStep, TypesStep
<1>3. Up /\ [Next]_vars => Up'
  <2> USE DEF Goto
  <2>1. ASSUME UNCHANGED vars, Up PROVE Up'
    BY <2>1 DEF vars
  <2>2. ASSUME Up, NEW t \in Threads,
               \/ NextLine(t) \/ WalkJson(t) \/ WalkLsl(t) \/ MakeDirectory(t) \/ AddEntry(t)
               \/ Scan(t) \/ PushNew(t)
        PROVE  Up'
    BY <2>2 DEF NextLine, WalkJson, WalkLsl, MakeDirectory, AddEntry, Scan, PushNew,
       Push, Touch
  <2>3. ASSUME Up, NEW t \in Threads, NEW i, NEW n, NEW k, NEW moves,
               \/ AddIfNotExist(t, i, n) \/ RemoveChild(t, i, n) \/ AddChild(t, i, n)
               \/ Transfer(t, i, k, moves)
        PROVE  Up'
    BY <2>3 DEF AddIfNotExist, RemoveChild, AddChild, Transfer
  <2> HIDE DEF Up
  <2> QED
    BY <2>1, <2>2, <2>3 DEF Next, Over, CopyFile, MoveFile, AssignFile
<1>4. Busy /\ Tree /\ AtWork /\ Up => TypeOK
  <2> SUFFICES ASSUME Busy, Tree, AtWork, Up PROVE TypeOK
    OBVIOUS
  <2>1. \A i \in DOMAIN file :
          file[i].dir \in BOOLEAN /\ file[i].stamp \in Stamps /\ file[i].parent \in {Null} \cup DOMAIN file
    <3>1. \A i \in DOMAIN file : file[i] \in FileType
      BY DEF Tree
    <3> QED
      BY <3>1 DEF FileType, Tree
  <2>2. Len(file) <= MaxFiles
    BY ConstantsAssumption DEF ConstantsAssumption, Tree
  <2> QED
    BY <2>1, <2>2, Zenon DEF TypeOK, Busy, Tree, AtWork, IsDirectory
<1> QED
  BY <1>1, <1>2, <1>3, <1>4, PTL DEF Spec

-----------------------------------------------------------------------------
(***************************************************************************)
(* Where things are.  P has the directories below the root, as far as      *)
(* parsers may come to them, and the path of each.                         *)
(***************************************************************************)
PathNames == STRING \ {"", "/"}

PlacedTree(P) ==
  /\ DOMAIN P \subseteq DOMAIN file
  /\ Root \in DOMAIN P /\ P[Root] = <<>> /\ file[Root].name \in RootNames /\ file[Root].parent = Null
  /\ \A d \in DOMAIN P : file[d].dir /\ P[d] \in Seq(PathNames)
  /\ \A d \in DOMAIN P \ {Root} :
       /\ file[d].parent \in DOMAIN P /\ file[d].parent < d
       /\ file[d].name \in PathNames
       /\ P[d] = Append(P[file[d].parent], file[d].name)
  /\ \A i \in DOMAIN P : \A c \in Links(i) :
       file[c].dir => c \in DOMAIN P \ {Root} /\ file[c].parent = i
  /\ \A i \in DOMAIN file : listed[i] # Unlisted =>
       /\ file[i].parent \in DOMAIN P /\ file[i].parent < Len(file)
       /\ file[i].name \in PathNames
       /\ listed[i] = Append(P[file[i].parent], file[i].name)

\* a thread that walks has come to the directory that is the path so far
PlacedThread(P, t) ==
  pc[t] \in {"walk", "make"} =>
    at[t] \in DOMAIN P /\ rest[t] \in Seq(PathNames) /\ entry[t] = P[at[t]] \o rest[t]

\* Directories stay what they are, nothing is added to them, and what is listed
\* is what was listed, or a copy of it.
LEMMA PlacedTreeStays ==
  ASSUME Tree, SameKinds, NEW P, PlacedTree(P),
         \A i \in DOMAIN file : file[i].dir => file'[i] = file[i],
         \A i \in DOMAIN P : Links(i)' \subseteq Links(i),
         Len(file) \in Nat, Len(file') \in Nat, Len(file') >= Len(file),
         \A i \in DOMAIN file' :
           \/ listed'[i] = Unlisted
           \/ \E j \in DOMAIN file : file'[i] = file[j] /\ listed'[i] = listed[j]
  PROVE  PlacedTree(P)'
<1>1. \A d \in DOMAIN P : d \in DOMAIN file /\ d \in DOMAIN file' /\ file'[d] = file[d]
  BY DEF PlacedTree, SameKinds
<1>2. ASSUME NEW i \in DOMAIN P, NEW c \in Links(i)', file'[c].dir
      PROVE  c \in DOMAIN P \ {Root} /\ file'[c].parent = i
  <2>1. c \in Links(i) /\ i \in Ids /\ c \in DOMAIN file
    BY <1>1, ConstantsAssumption DEF ConstantsAssumption, Tree, Ids
  <2>2. file[c].dir
    BY <1>2, <2>1 DEF SameKinds
  <2> QED
    BY <1>1, <2>1, <2>2 DEF PlacedTree
<1>3. ASSUME NEW i \in DOMAIN file', listed'[i] # Unlisted
      PROVE  /\ file'[i].parent \in DOMAIN P /\ file'[i].parent < Len(file')
             /\ file'[i].name \in PathNames
             /\ listed'[i] = Append(P[file'[i].parent], file'[i].name)
  <2>1. PICK j \in DOMAIN file : file'[i] = file[j] /\ listed'[i] = listed[j]
    BY <1>3
  <2>2. /\ file[j].parent \in DOMAIN P /\ file[j].parent < Len(file)
        /\ file[j].name \in PathNames
        /\ listed[j] = Append(P[file[j].parent], file[j].name)
    BY <1>3, <2>1 DEF PlacedTree
  <2>3. file[j].parent \in Nat
    <3>1. file[j] \in FileType
      BY DEF Tree
    <3> QED
      BY <3>1 DEF FileType
  <2> QED
    BY <2>1, <2>2, <2>3
<1>4. /\ Root \in DOMAIN P /\ P[Root] = <<>> /\ file'[Root].name \in RootNames /\ file'[Root].parent = Null
  BY <1>1, Zenon DEF PlacedTree
<1>5. /\ \A d \in DOMAIN P : file'[d].dir /\ P[d] \in Seq(PathNames)
      /\ \A d \in DOMAIN P \ {Root} :
           /\ file'[d].parent \in DOMAIN P /\ file'[d].parent < d
           /\ file'[d].name \in PathNames
           /\ P[d] = Append(P[file'[d].parent], file'[d].name)
  BY <1>1 DEF PlacedTree
<1>6. DOMAIN P \subseteq DOMAIN file'
  BY <1>1
<1> QED
  BY <1>2, <1>3, <1>4, <1>5, <1>6, Zenon DEF PlacedTree

\* The paths with one more directory in them.
With(P, d, path) == [i \in DOMAIN P \cup {d} |-> IF i = d THEN path ELSE P[i]]

\* A file is pushed; if it is a directory it has its place.
LEMMA PlacedTreeGrows ==
  ASSUME Tree, NEW P, PlacedTree(P), NEW t \in Threads, NEW f \in FileType, NEW line \in Seq(Text),
         Push(t, f, line), IsDirectory(f.parent),
         f.dir => f.parent \in DOMAIN P /\ f.name \in PathNames,
         line # Unlisted =>
           f.parent \in DOMAIN P /\ f.name \in PathNames /\ line = Append(P[f.parent], f.name),
         NEW Q, ~f.dir => Q = P,
         f.dir => Q = With(P, Len(file) + 1, Append(P[f.parent], f.name))
  PROVE  PlacedTree(Q)'
<1> DEFINE new == Len(file) + 1
           parent == f.parent
           path == Append(P[parent], f.name)
<1>1. /\ Tree' /\ SameKinds
      /\ new \in Ids /\ Len(file') = new
      /\ DOMAIN file' = DOMAIN file \cup {new}
      /\ \A i \in DOMAIN file : file'[i] = file[i]
      /\ file'[new] = f
      /\ parent \in Ids
      /\ children' = [children EXCEPT ![parent] = Append(children[parent], new)]
      /\ listed' = [listed EXCEPT ![new] = line]
  BY TreePush
<1>2. /\ Len(file) \in Nat /\ DOMAIN file = 1..Len(file) /\ new \notin DOMAIN file /\ new # Root
      /\ DOMAIN P \subseteq DOMAIN file /\ Root \in DOMAIN P /\ parent \in DOMAIN file
      /\ DOMAIN file \subseteq Ids
  <2>1. /\ Len(file) \in 1..MaxFiles /\ MaxFiles \in Nat /\ DOMAIN file = 1..Len(file)
        /\ DOMAIN P \subseteq DOMAIN file /\ Root \in DOMAIN P
    BY ConstantsAssumption DEF ConstantsAssumption, Tree, PlacedTree
  <2>2. new \notin DOMAIN file /\ new # Root /\ DOMAIN file \subseteq Ids
    BY <2>1 DEF Ids, Root
  <2> QED
    BY <2>1, <2>2 DEF IsDirectory
<1>3. /\ DOMAIN Q = DOMAIN P \cup (IF f.dir THEN {new} ELSE {})
      /\ \A d \in DOMAIN P : Q[d] = P[d]
      /\ f.dir => new \in DOMAIN Q /\ Q[new] = path
  <2>1. DOMAIN With(P, new, path) = DOMAIN P \cup {new}
        /\ With(P, new, path)[new] = path
        /\ \A d \in DOMAIN P : d # new => With(P, new, path)[d] = P[d]
    BY DEF With
  <2>2. \A d \in DOMAIN P : d # new
    BY <1>2
  <2> QED
    BY <2>1, <2>2
<1>4. f.dir => path \in Seq(PathNames)
  BY DEF PlacedTree
<1>5. \A d \in DOMAIN P : file'[d] = file[d]
  BY <1>1, <1>2
<1>6. ASSUME NEW d \in DOMAIN Q, d # Root
      PROVE  /\ file'[d].parent \in DOMAIN Q /\ file'[d].parent < d
             /\ file'[d].name \in PathNames
             /\ Q[d] = Append(Q[file'[d].parent], file'[d].name)
  <2>1. CASE d \in DOMAIN P
    <3>1. /\ file[d].parent \in DOMAIN P /\ file[d].parent < d /\ file[d].name \in PathNames
          /\ P[d] = Append(P[file[d].parent], file[d].name)
      BY <1>6, <2>1 DEF PlacedTree
    <3>2. file'[d] = file[d] /\ Q[d] = P[d] /\ Q[file[d].parent] = P[file[d].parent]
      BY <1>3, <1>5, <2>1, <3>1
    <3> QED
      BY <1>3, <3>1, <3>2
  <2>2. CASE d = new /\ f.dir
    BY <1>1, <1>2, <1>3, <2>2
  <2> QED
    BY <1>3, <1>6, <2>1, <2>2
<1>7. ASSUME NEW i \in DOMAIN Q, NEW c \in Links(i)', file'[c].dir
      PROVE  c \in DOMAIN Q \ {Root} /\ file'[c].parent = i
  <2>1. CASE i = parent /\ c = new
    BY <1>1, <1>2, <1>3, <1>7, <2>1
  <2>2. CASE i \in DOMAIN file /\ c \in Links(i)
    <3>1. c \in DOMAIN file /\ i \in DOMAIN P
      BY <1>2, <1>3, <2>2 DEF Tree
    <3> QED
      BY <1>1, <1>3, <1>7, <2>2, <3>1 DEF PlacedTree
  <2>3. \/ i = parent /\ c = new
        \/ i \in DOMAIN file /\ c \in Links(i)
    <3>1. PICK k \in DOMAIN children'[i] : c = children'[i][k]
      BY <1>7 DEF Links
    <3>2. CASE i = parent
      <4>1. children'[i] = Append(children[i], new) /\ children[i] \in Seq(Ids)
        BY <1>1, <3>2 DEF Tree
      <4> QED
        BY <1>1, <1>2, <3>1, <3>2, <4>1 DEF Links
    <3>3. CASE i # parent /\ i \in DOMAIN file
      BY <1>1, <1>2, <3>1, <3>3 DEF Tree, Links
    <3>4. CASE i # parent /\ i = new
      <4>1. children'[i] = children[i] /\ children[i] = <<>>
        BY <1>1, <1>2, <3>4 DEF Tree, IsDirectory
      <4> QED
        BY <3>1, <4>1
    <3> QED
      BY <1>2, <1>3, <3>2, <3>3, <3>4
  <2> QED
    BY <2>1, <2>2, <2>3
<1>8. ASSUME NEW i \in DOMAIN file', listed'[i] # Unlisted
      PROVE  /\ file'[i].parent \in DOMAIN Q /\ file'[i].parent < Len(file')
             /\ file'[i].name \in PathNames
             /\ listed'[i] = Append(Q[file'[i].parent], file'[i].name)
  <2>1. CASE i = new
    <3>1. listed'[i] = line /\ file'[i] = f
      BY <1>1, <2>1 DEF Tree
    <3>2. f.parent < new
      BY <1>2
    <3> QED
      BY <1>1, <1>3, <1>8, <3>1, <3>2
  <2>2. CASE i # new
    <3>1. i \in DOMAIN file /\ listed'[i] = listed[i] /\ file'[i] = file[i]
      BY <1>1, <1>2, <2>2 DEF Tree
    <3>2. /\ file[i].parent \in DOMAIN P /\ file[i].parent < Len(file)
          /\ file[i].name \in PathNames
          /\ listed[i] = Append(P[file[i].parent], file[i].name)
      BY <1>8, <3>1 DEF PlacedTree
    <3>3. file[i].parent \in Nat
      <4>1. file[i] \in FileType
        BY <3>1 DEF Tree
      <4> QED
        BY <4>1 DEF FileType
    <3> QED
      BY <1>1, <1>2, <1>3, <3>1, <3>2, <3>3
  <2> QED
    BY <2>1, <2>2
<1>9. Root \in DOMAIN Q /\ Q[Root] = <<>> /\ file'[Root].name \in RootNames /\ file'[Root].parent = Null
  <2>1. Root \in DOMAIN Q /\ Q[Root] = P[Root] /\ file'[Root] = file[Root]
    BY <1>2, <1>3, <1>5
  <2> QED
    BY <2>1, Zenon DEF PlacedTree
<1>10. \A d \in DOMAIN Q : file'[d].dir /\ Q[d] \in Seq(PathNames)
  <2>1. ASSUME NEW d \in DOMAIN P PROVE file'[d].dir /\ Q[d] \in Seq(PathNames)
    BY <1>3, <1>5 DEF PlacedTree
  <2>2. f.dir => file'[new].dir /\ Q[new] \in Seq(PathNames)
    BY <1>1, <1>3, <1>4
  <2> QED
    BY <1>3, <2>1, <2>2
<1>11. DOMAIN Q \subseteq DOMAIN file'
  BY <1>1, <1>2, <1>3
<1> QED
  BY <1>6, <1>7, <1>8, <1>9, <1>10, <1>11, Zenon DEF PlacedTree

-----------------------------------------------------------------------------
(***************************************************************************)
(* What json_parse() finds: the first directory of that name.  M has, for  *)
(* the directories of the lines parsed so far, where it comes to.          *)
(***************************************************************************)
Hits(i, n) == {k \in DOMAIN children[i] : file[children[i][k]].name = n /\ file[children[i][k]].dir = TRUE}

Down(i, n) == IF Hits(i, n) = {} THEN Null ELSE children[i][Min(Hits(i, n))]

\* This is what json_parse() looks for.
LEMMA DownIsFirst ==
  ASSUME NEW i, NEW n, NEW stamp, NEW parent
  PROVE  FirstChild(i, MakeFile(n, TRUE, stamp, parent), FALSE) = Down(i, n)
<1> DEFINE f == MakeFile(n, TRUE, stamp, parent)
<1>1. f.name = n /\ f.dir = TRUE
  BY DEF MakeFile
<1> HIDE DEF f
<1>2. \A c : SameDirectory(c, f) <=> file[c].name = n /\ file[c].dir = TRUE
  BY <1>1 DEF SameDirectory
<1>3. {k \in DOMAIN children[i] : IF FALSE THEN SameFile(children[i][k], f)
                                           ELSE SameDirectory(children[i][k], f)} = Hits(i, n)
  BY <1>2 DEF Hits
<1>4. FirstChild(i, f, FALSE) = Down(i, n)
  BY <1>3 DEF FirstChild, Down
<1> QED
  BY <1>4 DEF f

\* A directory that is there is found there again, whatever is added after it.
LEMMA DownStays ==
  ASSUME Tree, SameKinds, NEW i \in Ids, NEW n, Down(i, n) # Null,
         \A c \in DOMAIN file : file[c].dir => file'[c] = file[c],
         \/ children'[i] = children[i]
         \/ \E c \in Ids : children'[i] = Append(children[i], c)
  PROVE  Down(i, n)' = Down(i, n)
<1> DEFINE s == children[i]
<1>1. s \in Seq(Ids) /\ Len(s) \in Nat /\ DOMAIN s = 1..Len(s)
  BY DEF Tree
<1>2. /\ DOMAIN s \subseteq DOMAIN children'[i] /\ DOMAIN children'[i] \subseteq Nat
      /\ \A k \in DOMAIN s : children'[i][k] = s[k]
      /\ \A k \in DOMAIN children'[i] \ DOMAIN s : \A l \in DOMAIN s : l <= k
  <2>1. CASE children'[i] = s
    BY <1>1, <2>1
  <2>2. ASSUME NEW c \in Ids, children'[i] = Append(s, c)
        PROVE  /\ DOMAIN s \subseteq DOMAIN children'[i] /\ DOMAIN children'[i] \subseteq Nat
               /\ \A k \in DOMAIN s : children'[i][k] = s[k]
               /\ \A k \in DOMAIN children'[i] \ DOMAIN s : \A l \in DOMAIN s : l <= k
    <3>1. /\ Append(s, c) \in Seq(Ids) /\ Len(Append(s, c)) = Len(s) + 1
          /\ \A k \in 1..Len(s) : Append(s, c)[k] = s[k]
      BY <1>1, Appended
    <3>2. DOMAIN children'[i] = 1..(Len(s) + 1)
      BY <2>2, <3>1
    <3> QED
      BY <1>1, <2>2, <3>1, <3>2
  <2> QED
    BY <2>1, <2>2
<1>3. \A k \in DOMAIN s : k \in Hits(i, n)' <=> k \in Hits(i, n)
  <2> SUFFICES ASSUME NEW k \in DOMAIN s PROVE k \in Hits(i, n)' <=> k \in Hits(i, n)
    OBVIOUS
  <2>1. s[k] \in DOMAIN file
    BY DEF Tree, Links
  <2>2. file'[s[k]].dir = file[s[k]].dir /\ (file[s[k]].dir => file'[s[k]] = file[s[k]])
    BY <2>1 DEF SameKinds
  <2> QED
    BY <1>2, <2>2 DEF Hits
<1>4. Hits(i, n) # {} /\ Hits(i, n) \subseteq DOMAIN s /\ Hits(i, n)' \subseteq DOMAIN children'[i]
  BY DEF Down, Hits
<1>5. Hits(i, n)' # {} /\ Hits(i, n) \subseteq Nat /\ Hits(i, n)' \subseteq Nat
  BY <1>1, <1>2, <1>3, <1>4
<1>6. Min(Hits(i, n)) \in Hits(i, n) /\ \A k \in Hits(i, n) : Min(Hits(i, n)) <= k
  BY <1>4, <1>5, LeastIsMin
<1>7. Min(Hits(i, n)') \in Hits(i, n)' /\ \A k \in Hits(i, n)' : Min(Hits(i, n)') <= k
  BY <1>5, LeastIsMin
<1>8. Min(Hits(i, n)') = Min(Hits(i, n))
  <2> DEFINE a == Min(Hits(i, n))
             b == Min(Hits(i, n)')
  <2>1. a \in DOMAIN s /\ a \in Hits(i, n)' /\ b <= a /\ a \in Nat /\ b \in Nat
    BY <1>3, <1>4, <1>5, <1>6, <1>7
  <2>2. CASE b \in DOMAIN s
    <3>1. b \in Hits(i, n)
      BY <1>3, <1>7, <2>2
    <3>2. a <= b
      BY <1>6, <3>1
    <3> QED
      BY <2>1, <3>2
  <2>3. CASE b \notin DOMAIN s
    <3>1. a <= b
      BY <1>2, <1>4, <1>7, <2>1, <2>3
    <3> QED
      BY <2>1, <3>1
  <2> QED
    BY <2>2, <2>3
<1>9. Down(i, n) = s[Min(Hits(i, n))] /\ Down(i, n)' = children'[i][Min(Hits(i, n)')]
  BY <1>4, <1>5 DEF Down
<1> QED
  BY <1>2, <1>4, <1>6, <1>8, <1>9

FoundTree(P, M) ==
  /\ <<>> \in DOMAIN M /\ M[<<>>] = Root
  /\ \A q \in DOMAIN M : q \in Seq(PathNames) /\ M[q] \in DOMAIN P /\ P[M[q]] = q
  /\ \A q \in Seq(PathNames), n \in PathNames : Append(q, n) \in DOMAIN M =>
       q \in DOMAIN M /\ M[Append(q, n)] = Down(M[q], n)

\* The directories of the lines that were parsed are found, and so is the one
\* that the thread has come to; the others are still to come, but none that is
\* above the line that is being parsed.
FoundThread(P, M, t) ==
  "json" \in uses[t] =>
    /\ \A q \in Listing[t] \cap Directories :
         q \in lines[t] \/ (pc[t] = "walk" /\ entry[t] = q) \/ q \in DOMAIN M
    /\ pc[t] = "walk" => P[at[t]] \in DOMAIN M /\ M[P[at[t]]] = at[t]
    /\ pc[t] = "walk" => \A q \in lines[t] : ~IsStrictPrefix(q, entry[t])
    /\ pc[t] # "make"

\* What was found is still found when directories are added.
LEMMA FoundTreeStays ==
  ASSUME Tree, NEW P, NEW Q, NEW M, PlacedTree(P), FoundTree(P, M),
         \A d \in DOMAIN P : d \in DOMAIN Q /\ Q[d] = P[d],
         \A i \in DOMAIN P : \A n \in PathNames : Down(i, n) # Null => Down(i, n)' = Down(i, n)
  PROVE  FoundTree(Q, M)'
<1>1. <<>> \in DOMAIN M /\ M[<<>>] = Root
  BY DEF FoundTree
<1>2. \A q \in DOMAIN M : q \in Seq(PathNames) /\ M[q] \in DOMAIN Q /\ Q[M[q]] = q
  BY DEF FoundTree
<1>3. ASSUME NEW q \in Seq(PathNames), NEW n \in PathNames, Append(q, n) \in DOMAIN M
      PROVE  q \in DOMAIN M /\ M[Append(q, n)] = Down(M[q], n)'
  <2>1. q \in DOMAIN M /\ M[Append(q, n)] = Down(M[q], n) /\ M[q] \in DOMAIN P
    BY <1>3 DEF FoundTree
  <2>2. M[Append(q, n)] \in DOMAIN P
    BY <1>3 DEF FoundTree
  <2>3. Null \notin DOMAIN P
    BY DEF PlacedTree, Tree, Null
  <2> QED
    BY <2>1, <2>2, <2>3
<1> QED
  BY <1>1, <1>2, <1>3, Zenon DEF FoundTree

\* A directory that is now there is found.
LEMMA FoundTreeGrows ==
  ASSUME NEW P, NEW M, FoundTree(P, M)', NEW q \in DOMAIN M, NEW n \in PathNames,
         NEW d \in DOMAIN P, d = Down(M[q], n)', P[d] = Append(q, n),
         Append(q, n) \notin DOMAIN M
  PROVE  FoundTree(P, With(M, Append(q, n), d))'
<1> DEFINE path == Append(q, n)
           N == With(M, path, d)
<1>1. q \in Seq(PathNames) /\ path \in Seq(PathNames) /\ path # <<>>
  <2>1. q \in Seq(PathNames)
    BY DEF FoundTree
  <2> QED
    BY <2>1, Appended
<1> HIDE DEF path
<1>2. DOMAIN N = DOMAIN M \cup {path} /\ N[path] = d /\ \A r \in DOMAIN M : N[r] = M[r]
  BY DEF With, path
<1> HIDE DEF N
<1>3. ASSUME NEW r \in Seq(PathNames), NEW m \in PathNames, Append(r, m) \in DOMAIN N
      PROVE  r \in DOMAIN N /\ N[Append(r, m)] = Down(N[r], m)'
  <2>1. CASE Append(r, m) \in DOMAIN M
    BY <1>2, <2>1 DEF FoundTree
  <2>2. CASE Append(r, m) = path
    <3>1. r = q /\ m = n
      BY <1>1, <2>2, AppendInjective DEF path
    <3> QED
      BY <1>2, <2>2, <3>1
  <2> QED
    BY <1>2, <1>3, <2>1, <2>2
<1>4. <<>> \in DOMAIN N /\ N[<<>>] = Root
  BY <1>2 DEF FoundTree
<1>5. \A r \in DOMAIN N : r \in Seq(PathNames) /\ N[r] \in DOMAIN P /\ P[N[r]] = r
  BY <1>1, <1>2 DEF FoundTree, path
<1>6. FoundTree(P, N)'
  BY <1>3, <1>4, <1>5, Zenon DEF FoundTree
<1> QED
  BY <1>6 DEF N, path

-----------------------------------------------------------------------------
(***************************************************************************)
(* The steps.                                                              *)
(***************************************************************************)
Known(P, M) ==
  /\ PlacedTree(P) /\ FoundTree(P, M)
  /\ \A t \in Threads : PlacedThread(P, t) /\ FoundThread(P, M, t)

Usual == ~MoveDirectories /\ PathsHaveNames /\ DirectoriesAreListed /\ ListedAlone

\* One name after another.
LEMMA OneMore ==
  ASSUME NEW S, NEW p \in Seq(S), NEW r \in Seq(S), Len(r) > 0
  PROVE  /\ p \o r = Append(p, Head(r)) \o Tail(r)
         /\ Len(r) = 1 => p \o r = Append(p, Head(r)) /\ Last(p \o r) = Head(r)
         /\ Len(r) > 1 => /\ IsStrictPrefix(Append(p, Head(r)), p \o r)
                          /\ SubSeq(p \o r, 1, Len(p) + 1) = Append(p, Head(r))
                          /\ Len(p) + 1 \in 1..(Len(p \o r) - 1)
<1>1. /\ Head(r) \in S /\ Head(r) = r[1] /\ Tail(r) \in Seq(S) /\ Len(Tail(r)) = Len(r) - 1
      /\ Len(r) \in Nat /\ Len(p) \in Nat
  BY Lefts
<1> DEFINE a == Append(p, Head(r))
           b == p \o r
<1>2. /\ a \in Seq(S) /\ Len(a) = Len(p) + 1 /\ (\A k \in 1..Len(p) : a[k] = p[k])
      /\ a[Len(p) + 1] = Head(r)
  BY <1>1, Appended
<1>3. /\ b \in Seq(S) /\ Len(b) = Len(p) + Len(r)
      /\ \A k \in 1..Len(p) : b[k] = p[k]
      /\ \A k \in 1..Len(r) : b[Len(p) + k] = r[k]
  BY Joined
<1>4. b = a \o Tail(r)
  BY <1>1
<1> HIDE DEF a, b
<1>5. \A k \in 1..Len(a) : b[k] = a[k]
  BY <1>1, <1>2, <1>3
<1>6. ASSUME Len(r) = 1 PROVE b = a /\ Last(b) = Head(r)
  <2>1. Len(b) = Len(a) /\ \A k \in 1..Len(b) : b[k] = a[k]
    BY <1>1, <1>2, <1>3, <1>5, <1>6
  <2>2. b = a
    BY <1>2, <1>3, <2>1, SeqEqual
  <2> QED
    BY <1>2, <2>1, <2>2 DEF Last
<1>7. ASSUME Len(r) > 1
      PROVE  IsStrictPrefix(a, b) /\ SubSeq(b, 1, Len(p) + 1) = a /\ Len(p) + 1 \in 1..(Len(b) - 1)
  <2>1. Len(a) <= Len(b) /\ Len(a) # Len(b) /\ Len(p) + 1 \in 1..(Len(b) - 1)
    BY <1>1, <1>2, <1>3, <1>7
  <2>2. SubSeq(b, 1, Len(a)) = a
    BY <1>2, <1>3, <1>5, <2>1, SubSeqIs
  <2>3. SubSeq(a, 1, Len(a)) = a
    BY <1>2, SubSeqIs
  <2>4. IsStrictPrefix(a, b)
    BY <2>1, <2>2, <2>3 DEF IsStrictPrefix, IsPrefix
  <2> QED
    BY <1>2, <2>1, <2>2, <2>4
<1> QED
  BY <1>4, <1>6, <1>7, Zenon DEF a, b

\* The other threads are where they were, with more places and more that is found.
LEMMA OthersKnow ==
  ASSUME NEW P, NEW Q, NEW M, NEW N, NEW u \in Threads,
         PlacedThread(P, u), FoundThread(P, M, u), uses' = uses,
         \A d \in DOMAIN P : d \in DOMAIN Q /\ Q[d] = P[d],
         "json" \in uses[u] => \A q \in DOMAIN M : q \in DOMAIN N /\ N[q] = M[q],
         lines'[u] = lines[u], pc'[u] = pc[u], at'[u] = at[u], rest'[u] = rest[u],
         entry'[u] = entry[u]
  PROVE  PlacedThread(Q, u)' /\ FoundThread(Q, N, u)'
<1>1. PlacedThread(Q, u)'
  BY DEF PlacedThread
<1>2. FoundThread(Q, N, u)'
  <2>1. "json" \in uses[u] /\ pc[u] = "walk" => at[u] \in DOMAIN P
    BY DEF PlacedThread
  <2> QED
    BY <2>1 DEF FoundThread
<1> QED
  BY <1>1, <1>2

\* A thread goes on from where it is, and no file is touched.
LEMMA KnownOnward ==
  ASSUME NEW P, NEW M, Known(P, M), Busy, AtWork, NEW t \in Threads, NEW from, NEW to,
         Goto(t, from, to), UNCHANGED <<file, children, listed>>,
         \A u \in Threads \ {t} : /\ lines'[u] = lines[u] /\ at'[u] = at[u]
                                  /\ rest'[u] = rest[u] /\ entry'[u] = entry[u],
         PlacedThread(P, t)', FoundThread(P, M, t)'
  PROVE  Known(P, M)'
<1>1. PlacedTree(P)'
  BY DEF Known, PlacedTree, Links
<1>2. FoundTree(P, M)'
  <2>1. \A i, n : Down(i, n)' = Down(i, n)
    BY DEF Down, Hits
  <2> QED
    BY <2>1 DEF Known, FoundTree
<1>3. uses' = uses /\ \A u \in Threads \ {t} : pc'[u] = pc[u]
  BY DEF Goto, Busy
<1>4. ASSUME NEW u \in Threads, u # t PROVE PlacedThread(P, u)' /\ FoundThread(P, M, u)'
  <2>1. /\ lines'[u] = lines[u] /\ at'[u] = at[u] /\ rest'[u] = rest[u] /\ entry'[u] = entry[u]
        /\ pc'[u] = pc[u] /\ uses' = uses
    BY <1>3, <1>4
  <2>2. PlacedThread(P, u) /\ FoundThread(P, M, u)
    BY DEF Known
  <2> QED
    BY <2>1, <2>2, OthersKnow
<1> QED
  BY <1>1, <1>2, <1>4, Zenon DEF Known

\* A thread that parses nothing just now.
LEMMA NotWalking ==
  ASSUME NEW P, NEW M, NEW t \in Threads, FoundThread(P, M, t), uses' = uses,
         pc[t] # "walk", lines'[t] = lines[t], pc'[t] \notin {"walk", "make"}
  PROVE  PlacedThread(P, t)' /\ FoundThread(P, M, t)'
<1>1. PlacedThread(P, t)'
  BY DEF PlacedThread
<1>2. FoundThread(P, M, t)'
  BY DEF FoundThread
<1> QED
  BY <1>1, <1>2

\* What is used as usual.
LEMMA AsUsual ==
  ASSUME Usual, Busy, NEW t \in Threads
  PROVE  /\ ~("json" \in uses[t] /\ "lsl" \in uses[t])
         /\ "json" \in uses[t] =>
              /\ ParentsFirst
              /\ \A path \in Listing[t] : \A k \in 1..(Len(path) - 1) :
                   SubSeq(path, 1, k) \in Listing[t] \cap Directories
              /\ \A u \in Threads : "remove" \notin uses[u]
         /\ Lists(uses, t) => \A u \in Threads : "add" \notin uses[u]
<1>1. uses \in Uses
  BY DEF Busy
<1>2. /\ ~({"json", "lsl"} \subseteq uses[t])
      /\ Lists(uses, t) => \A u \in Threads : "add" \notin uses[u]
      /\ "json" \in uses[t] => \A u \in Threads : "remove" \notin uses[u]
  BY <1>1, Zenon DEF Usual, ListedAlone
<1>3. "json" \in uses[t] =>
              /\ ParentsFirst
              /\ \A path \in Listing[t] : \A k \in 1..(Len(path) - 1) :
                   SubSeq(path, 1, k) \in Listing[t] \cap Directories
  BY <1>1, Zenon DEF Usual, DirectoriesAreListed
<1> QED
  BY <1>2, <1>3

\* The names of a path.
LEMMA NamesOfPath ==
  ASSUME Usual, NEW t \in Threads, NEW path \in Listing[t]
  PROVE  path \in Seq(PathNames)
<1>1. path \in Seq(STRING)
  BY PathTypes
<1>2. \A k \in DOMAIN path : path[k] \notin {"", "/"}
  BY Zenon DEF Usual, PathsHaveNames
<1>3. \A k \in DOMAIN path : path[k] \in STRING
  BY <1>1
<1>4. \A k \in DOMAIN path : path[k] \in PathNames
  BY <1>2, <1>3, Zenon DEF PathNames
<1> QED
  BY <1>1, <1>4

\* A line comes: the walk begins at the root.
LEMMA KnownNextLine ==
  ASSUME Usual, Busy, AtWork, NEW P, NEW M, Known(P, M), NEW t \in Threads, NextLine(t)
  PROVE  Known(P, M)'
<1>1. PICK path \in lines[t] :
        /\ ParentsFirst => \A q \in lines[t] : ~IsStrictPrefix(q, path)
        /\ Goto(t, "idle", "walk") /\ lines' = [lines EXCEPT ![t] = lines[t] \ {path}]
        /\ at' = [at EXCEPT ![t] = Root]
        /\ rest' = [rest EXCEPT ![t] = path] /\ entry' = [entry EXCEPT ![t] = path]
        /\ UNCHANGED <<file, children, listed>>
  BY DEF NextLine
<1>2. path \in Listing[t]
  BY DEF AtWork
<1>3. path \in Seq(PathNames)
  BY <1>2, NamesOfPath
<1>4. /\ lines'[t] = lines[t] \ {path} /\ at'[t] = Root /\ rest'[t] = path /\ entry'[t] = path
      /\ pc'[t] = "walk" /\ pc[t] = "idle" /\ uses' = uses
  BY <1>1 DEF AtWork, Goto, Busy
<1>5. \A u \in Threads \ {t} : /\ lines'[u] = lines[u] /\ at'[u] = at[u]
                               /\ rest'[u] = rest[u] /\ entry'[u] = entry[u]
  BY <1>1 DEF AtWork
<1>6. Root \in DOMAIN P /\ P[Root] = <<>> /\ <<>> \in DOMAIN M /\ M[<<>>] = Root
  BY DEF Known, PlacedTree, FoundTree
<1>7. PlacedThread(P, t)'
  BY <1>3, <1>4, <1>6 DEF PlacedThread
<1>8. FoundThread(P, M, t)'
  <2> SUFFICES ASSUME "json" \in uses[t] PROVE FoundThread(P, M, t)'
    BY <1>4 DEF FoundThread
  <2>1. ParentsFirst
    BY AsUsual
  <2>2. \A q \in Listing[t] \cap Directories : q \in lines[t] \/ q \in DOMAIN M
    BY <1>4 DEF Known, FoundThread
  <2> QED
    BY <1>1, <1>4, <1>6, <2>1, <2>2 DEF FoundThread
<1> QED
  BY <1>1, <1>5, <1>7, <1>8, KnownOnward

\* json_parse() goes down: every directory on the way is in an earlier line.
LEMMA KnownWalkJson ==
  ASSUME Usual, Busy, Tree, AtWork, NEW P, NEW M, Known(P, M), NEW t \in Threads, WalkJson(t)
  PROVE  Known(P, M)'
<1> DEFINE n == Head(rest[t])
           q == Append(P[at[t]], n)
           dir == FirstChild(at[t], MakeFile(n, TRUE, "dir", at[t]), FALSE)
<1>1. /\ "json" \in uses[t] /\ Len(rest[t]) > 1 /\ Goto(t, "walk", "walk")
      /\ at' = [at EXCEPT ![t] = IF dir # Null THEN dir ELSE at[t]]
      /\ rest' = [rest EXCEPT ![t] = Tail(rest[t])]
      /\ UNCHANGED <<file, children, listed, lines, entry>>
  BY DEF WalkJson
<1>2. pc[t] = "walk" /\ pc'[t] = "walk" /\ uses' = uses
  BY <1>1 DEF Goto, Busy
<1>3. /\ at[t] \in DOMAIN P /\ rest[t] \in Seq(PathNames) /\ entry[t] = P[at[t]] \o rest[t]
      /\ P[at[t]] \in Seq(PathNames) /\ entry[t] \in Listing[t]
      /\ P[at[t]] \in DOMAIN M /\ M[P[at[t]]] = at[t]
      /\ \A p \in lines[t] : ~IsStrictPrefix(p, entry[t])
      /\ \A p \in Listing[t] \cap Directories : p \in lines[t] \/ entry[t] = p \/ p \in DOMAIN M
  BY <1>1, <1>2 DEF Known, PlacedThread, PlacedTree, FoundThread, AtWork
<1>4. /\ n \in PathNames /\ Tail(rest[t]) \in Seq(PathNames) /\ Len(rest[t]) > 0
      /\ entry[t] = q \o Tail(rest[t])
      /\ IsStrictPrefix(q, entry[t])
      /\ SubSeq(entry[t], 1, Len(P[at[t]]) + 1) = q
      /\ Len(P[at[t]]) + 1 \in 1..(Len(entry[t]) - 1)
  <2>1. Len(rest[t]) > 0 /\ n \in PathNames /\ Tail(rest[t]) \in Seq(PathNames)
    BY <1>1, <1>3, Lefts
  <2>2. PICK p \in Seq(PathNames), r \in Seq(PathNames) : p = P[at[t]] /\ r = rest[t]
    BY <1>3
  <2>3. /\ p \o r = Append(p, Head(r)) \o Tail(r)
        /\ IsStrictPrefix(Append(p, Head(r)), p \o r)
        /\ SubSeq(p \o r, 1, Len(p) + 1) = Append(p, Head(r))
        /\ Len(p) + 1 \in 1..(Len(p \o r) - 1)
    BY <1>1, <2>1, <2>2, OneMore
  <2> QED
    BY <1>3, <2>1, <2>2, <2>3
<1>5. q \in Listing[t] \cap Directories
  BY <1>1, <1>3, <1>4, AsUsual
<1>6. q # entry[t] /\ q \notin lines[t]
  BY <1>3, <1>4 DEF IsStrictPrefix
<1>7. q \in DOMAIN M
  BY <1>3, <1>5, <1>6
<1>8. M[q] = Down(at[t], n) /\ M[q] \in DOMAIN P /\ P[M[q]] = q
  <2>1. FoundTree(P, M)
    BY DEF Known
  <2>2. M[q] = Down(M[P[at[t]]], n) /\ M[q] \in DOMAIN P /\ P[M[q]] = q
    BY <1>3, <1>4, <1>7, <2>1 DEF FoundTree
  <2> QED
    BY <1>3, <2>2
<1>9. dir = M[q] /\ dir # Null
  <2>1. dir = Down(at[t], n)
    BY DownIsFirst
  <2>2. Null \notin DOMAIN P
    BY DEF Known, PlacedTree, Tree, Null
  <2> QED
    BY <1>8, <2>1, <2>2
<1> HIDE DEF dir, q
<1>10. at'[t] = dir /\ rest'[t] = Tail(rest[t]) /\ lines'[t] = lines[t] /\ entry'[t] = entry[t]
  BY <1>1, <1>9 DEF AtWork
<1>11. \A u \in Threads \ {t} : /\ lines'[u] = lines[u] /\ at'[u] = at[u]
                                /\ rest'[u] = rest[u] /\ entry'[u] = entry[u]
  BY <1>1 DEF AtWork
<1>12. PlacedThread(P, t)'
  BY <1>4, <1>8, <1>9, <1>10 DEF PlacedThread
<1>13. FoundThread(P, M, t)'
  BY <1>2, <1>3, <1>7, <1>8, <1>9, <1>10 DEF FoundThread
<1> QED
  BY <1>1, <1>11, <1>12, <1>13, KnownOnward

\* lsl_parse() goes down, or stops to make a directory.
LEMMA KnownWalkLsl ==
  ASSUME Usual, Busy, Tree, AtWork, NEW P, NEW M, Known(P, M), NEW t \in Threads, WalkLsl(t)
  PROVE  Known(P, M)'
<1> DEFINE n == Head(rest[t])
           dir == FirstChild(at[t], MakeFile(n, TRUE, "none", at[t]), TRUE)
<1>1. /\ "lsl" \in uses[t] /\ Len(rest[t]) > 1
      /\ Goto(t, "walk", IF dir # Null THEN "walk" ELSE "make")
      /\ at' = [at EXCEPT ![t] = IF dir # Null THEN dir ELSE at[t]]
      /\ rest' = [rest EXCEPT ![t] = IF dir # Null THEN Tail(rest[t]) ELSE rest[t]]
      /\ UNCHANGED <<file, children, listed, lines, entry>>
  BY DEF WalkLsl
<1>2. /\ at[t] \in Ids /\ at[t] \in DOMAIN P /\ rest[t] \in Seq(PathNames)
      /\ entry[t] = P[at[t]] \o rest[t] /\ P[at[t]] \in Seq(PathNames)
  BY <1>1 DEF Known, PlacedThread, PlacedTree, AtWork, Goto
<1>3. dir # Null => dir \in DOMAIN P /\ P[dir] = Append(P[at[t]], n)
  <2> SUFFICES ASSUME dir # Null PROVE dir \in DOMAIN P /\ P[dir] = Append(P[at[t]], n)
    OBVIOUS
  <2>1. IsDirectory(dir) /\ dir \in Links(at[t]) /\ file[dir].name = n
    <3>1. IsDirectory(dir) /\ dir \in Links(at[t]) /\ Named(dir, n)
      BY <1>2, DirectoryFound
    <3> HIDE DEF dir
    <3> QED
      BY <3>1 DEF Named
  <2> HIDE DEF dir
  <2>2. dir \in DOMAIN P \ {Root} /\ file[dir].parent = at[t]
    BY <1>2, <2>1 DEF Known, PlacedTree, IsDirectory
  <2> QED
    BY <2>1, <2>2 DEF Known, PlacedTree
<1> HIDE DEF dir
<1>4. entry[t] = Append(P[at[t]], n) \o Tail(rest[t]) /\ Tail(rest[t]) \in Seq(PathNames)
  <2>1. Len(rest[t]) > 0 /\ Tail(rest[t]) \in Seq(PathNames)
    BY <1>1, <1>2, Lefts
  <2>2. P[at[t]] \o rest[t] = Append(P[at[t]], n) \o Tail(rest[t])
    BY <1>2, <2>1, OneMore
  <2> QED
    BY <1>2, <2>1, <2>2
<1>5. /\ lines'[t] = lines[t] /\ entry'[t] = entry[t] /\ uses' = uses
      /\ dir # Null => at'[t] = dir /\ rest'[t] = Tail(rest[t])
      /\ dir = Null => at'[t] = at[t] /\ rest'[t] = rest[t]
  BY <1>1 DEF AtWork, Goto
<1>6. \A u \in Threads \ {t} : /\ lines'[u] = lines[u] /\ at'[u] = at[u]
                               /\ rest'[u] = rest[u] /\ entry'[u] = entry[u]
  BY <1>1 DEF AtWork
<1>7. PlacedThread(P, t)'
  BY <1>2, <1>3, <1>4, <1>5 DEF PlacedThread
<1>8. FoundThread(P, M, t)'
  <2>1. "json" \notin uses[t]
    BY <1>1, AsUsual
  <2> QED
    BY <1>5, <2>1 DEF FoundThread
<1> QED
  BY <1>1, <1>6, <1>7, <1>8, KnownOnward

\* A thread looks through the children of a directory.
LEMMA KnownScan ==
  ASSUME Busy, AtWork, NEW P, NEW M, Known(P, M), NEW t \in Threads,
         Scan(t) \/ \E i, n : AddIfNotExist(t, i, n)
  PROVE  Known(P, M)'
<1>1. PICK from \in {"idle", "scan"}, to \in {"idle", "scan", "push"} : Goto(t, from, to)
  BY DEF Scan, AddIfNotExist
<1>2. UNCHANGED <<file, children, listed, lines, entry>>
  BY DEF Scan, AddIfNotExist
<1>3. \A u \in Threads \ {t} : /\ lines'[u] = lines[u] /\ at'[u] = at[u]
                               /\ rest'[u] = rest[u] /\ entry'[u] = entry[u]
  BY DEF Scan, AddIfNotExist, AtWork
<1>4. pc[t] # "walk" /\ pc'[t] \notin {"walk", "make"} /\ uses' = uses
  BY <1>1 DEF Goto, Busy
<1>5. PlacedThread(P, t)' /\ FoundThread(P, M, t)'
  BY <1>2, <1>4, NotWalking DEF Known
<1> QED
  BY <1>1, <1>2, <1>3, <1>5, KnownOnward

\* Nobody looks for directories that a removed one may have been: what was found is forgotten.
LEMMA KnownRemove ==
  ASSUME Usual, Busy, Tree, AtWork, NEW P, NEW M, Known(P, M), NEW t \in Threads,
         NEW i \in DOMAIN file, NEW k \in DOMAIN children[i], RemoveChild(t, i, k)
  PROVE  \E N : Known(P, N)'
<1> PICK none : none = <<>>
  OBVIOUS
<1> DEFINE N == [q \in {none} |-> Root]
<1>1. /\ "remove" \in uses[t] /\ Goto(t, "idle", "idle")
      /\ UNCHANGED <<file, lines, at, rest, entry, listed>>
  BY DEF RemoveChild
<1>2. uses' = uses /\ \A u \in Threads : "json" \notin uses[u] /\ pc'[u] = pc[u]
  BY <1>1, AsUsual DEF Goto, Busy
<1>3. Tree' /\ SameKinds /\ \A j \in Ids : Links(j)' \subseteq Links(j)
  BY TreeRemove
<1>4. PlacedTree(P)'
  <2>1. PlacedTree(P) /\ Len(file) \in Nat /\ Len(file') \in Nat /\ Len(file') >= Len(file)
    <3>1. Len(file) \in Nat /\ Len(file') = Len(file) /\ PlacedTree(P)
      BY <1>1 DEF Known, Tree
    <3> QED
      BY <3>1
  <2>2. \A j \in DOMAIN P : Links(j)' \subseteq Links(j)
    <3>1. DOMAIN P \subseteq Ids
      BY FileIds DEF Known, PlacedTree
    <3> QED
      BY <1>3, <3>1
  <2> QED
    BY <1>1, <1>3, <2>1, <2>2, PlacedTreeStays
<1>5. FoundTree(P, N)'
  <2>1. DOMAIN N = {none} /\ N[none] = Root
    OBVIOUS
  <2> HIDE DEF N
  <2>2. Root \in DOMAIN P /\ P[Root] = none /\ none \in Seq(PathNames)
    BY DEF Known, PlacedTree
  <2>3. \A q \in Seq(PathNames), n \in PathNames : Append(q, n) \notin DOMAIN N
    BY <2>1, Appended
  <2>4. none \in DOMAIN N /\ N[none] = Root
    BY <2>1
  <2>5. \A q \in DOMAIN N : q \in Seq(PathNames) /\ N[q] \in DOMAIN P /\ P[N[q]] = q
    BY <2>1, <2>2
  <2> QED
    BY <2>3, <2>4, <2>5 DEF FoundTree
<1> HIDE DEF N
<1>6. ASSUME NEW u \in Threads PROVE PlacedThread(P, u)' /\ FoundThread(P, N, u)'
  <2>1. PlacedThread(P, u) /\ pc'[u] = pc[u] /\ uses' = uses /\ "json" \notin uses[u]
    BY <1>2 DEF Known
  <2> QED
    BY <1>1, <2>1 DEF PlacedThread, FoundThread
<1>7. Known(P, N)'
  BY <1>4, <1>5, <1>6, Zenon DEF Known
<1> QED
  BY <1>7

\* A file is copied, moved or assigned: the directories are where they were.
LEMMA KnownTransfer ==
  ASSUME Usual, Busy, Tree, AtWork, NEW P, NEW M, Known(P, M), NEW t \in Threads,
         NEW to \in Ids, NEW from \in DOMAIN file, NEW moves \in BOOLEAN,
         to # from, to \in 1..(Len(file) + 1), moves => ~file[from].dir,
         to \in DOMAIN file => ~file[to].dir /\ ~file[from].dir,
         Transfer(t, to, from, moves)
  PROVE  Known(P, M)'
<1>1. Goto(t, "idle", "idle") /\ UNCHANGED <<lines, at, rest, entry>>
  BY DEF Transfer
<1>2. uses' = uses /\ \A u \in Threads : pc'[u] = pc[u]
  BY <1>1 DEF Goto, Busy
<1>3. Tree' /\ SameKinds /\ Becomes(to, from, moves) /\ Len(file') >= Len(file)
  BY TreeTransfer
<1>4. /\ Len(file) \in Nat /\ Len(file') \in Nat
      /\ PlacedTree(P) /\ FoundTree(P, M) /\ DOMAIN P \subseteq DOMAIN file /\ DOMAIN file \subseteq Ids
      /\ \A d \in DOMAIN P : file[d].dir
  <2>1. PlacedTree(P) /\ FoundTree(P, M)
    BY DEF Known
  <2>2. DOMAIN P \subseteq DOMAIN file /\ \A d \in DOMAIN P : file[d].dir
    BY <2>1 DEF PlacedTree
  <2>3. Len(file') \in Nat
    BY <1>3 DEF Tree
  <2> QED
    BY <2>1, <2>2, <2>3, FileIds
<1>5. /\ \A i \in DOMAIN file : file[i].dir => file'[i] = file[i]
      /\ \A i \in DOMAIN P : children'[i] = children[i] /\ Links(i)' = Links(i)
  <2>1. \A i \in DOMAIN P : children'[i] = children[i]
    BY <1>3, <1>4 DEF Becomes
  <2> QED
    BY <1>3, <2>1 DEF Becomes, Links
<1>6. PlacedTree(P)'
  <2>1. ASSUME NEW i \in DOMAIN file'
        PROVE  \/ listed'[i] = Unlisted
               \/ \E j \in DOMAIN file : file'[i] = file[j] /\ listed'[i] = listed[j]
    BY <1>3 DEF Becomes
  <2> QED
    BY <1>3, <1>4, <1>5, <2>1, PlacedTreeStays
<1>7. FoundTree(P, M)'
  <2>1. ASSUME NEW i \in DOMAIN P, NEW n \in PathNames, Down(i, n) # Null
        PROVE  Down(i, n)' = Down(i, n)
    <3>1. i \in Ids /\ children'[i] = children[i]
      BY <1>4, <1>5
    <3> QED
      BY <1>3, <1>5, <2>1, <3>1, DownStays
  <2> QED
    BY <1>4, <2>1, FoundTreeStays
<1>8. ASSUME NEW u \in Threads PROVE PlacedThread(P, u)' /\ FoundThread(P, M, u)'
  <2>1. PlacedThread(P, u) /\ FoundThread(P, M, u)
    BY DEF Known
  <2> QED
    BY <1>1, <1>2, <2>1, OthersKnow
<1> QED
  BY <1>6, <1>7, <1>8, Zenon DEF Known

\* Everything that was found, and maybe more.
FindsMore(M, N) == \A q \in DOMAIN M : q \in DOMAIN N /\ N[q] = M[q]

\* A file that has a place, and the places with it.
Fits(P, f, line) ==
  /\ f.dir => f.parent \in DOMAIN P /\ f.name \in PathNames
  /\ line # Unlisted =>
       f.parent \in DOMAIN P /\ f.name \in PathNames /\ line = Append(P[f.parent], f.name)

Placed(P, f, new) == IF f.dir THEN With(P, new, Append(P[f.parent], f.name)) ELSE P

\* The same places, and maybe the new file's.
Grows(P, Q) ==
  /\ DOMAIN Q \subseteq DOMAIN P \cup {Len(file) + 1}
  /\ \A d \in DOMAIN P : d \in DOMAIN Q /\ Q[d] = P[d]

\* A file is pushed: what the other threads know stays true, with what is now there.
LEMMA KnownPush ==
  ASSUME Busy, Tree, AtWork, NEW P, NEW M, Known(P, M), NEW t \in Threads, NEW f \in FileType,
         NEW line \in Seq(Text), NEW from, NEW to, Goto(t, from, to), Push(t, f, line), IsDirectory(f.parent),
         Fits(P, f, line), NEW Q, Q = Placed(P, f, Len(file) + 1),
         \A u \in Threads \ {t} : /\ lines'[u] = lines[u] /\ at'[u] = at[u]
                                  /\ rest'[u] = rest[u] /\ entry'[u] = entry[u]
  PROVE  /\ PlacedTree(Q)' /\ FoundTree(Q, M)' /\ Grows(P, Q)
         /\ f.dir => Len(file) + 1 \in DOMAIN Q /\ Q[Len(file) + 1] = Append(P[f.parent], f.name)
         /\ \A N : FindsMore(M, N) =>
                   \A u \in Threads \ {t} : PlacedThread(Q, u)' /\ FoundThread(Q, N, u)'
<1> DEFINE new == Len(file) + 1
<1>1. PlacedTree(P) /\ FoundTree(P, M)
  BY DEF Known
<1>2. PlacedTree(Q)'
  BY <1>1, PlacedTreeGrows DEF Fits, Placed
<1>3. /\ Tree' /\ SameKinds /\ new \in Ids /\ f.parent \in Ids
      /\ \A i \in DOMAIN file : file'[i] = file[i]
      /\ children' = [children EXCEPT ![f.parent] = Append(children[f.parent], new)]
  BY TreePush
<1>4. /\ \A d \in DOMAIN P : d # new
      /\ DOMAIN P \subseteq Ids
  <2>1. DOMAIN P \subseteq DOMAIN file
    BY <1>1 DEF PlacedTree
  <2> QED
    BY <2>1, FileIds
<1>5. /\ \A d \in DOMAIN P : d \in DOMAIN Q /\ Q[d] = P[d]
      /\ DOMAIN Q \subseteq DOMAIN P \cup {new}
      /\ f.dir => new \in DOMAIN Q /\ Q[new] = Append(P[f.parent], f.name)
  <2> DEFINE path == Append(P[f.parent], f.name)
  <2>1. DOMAIN With(P, new, path) = DOMAIN P \cup {new}
        /\ With(P, new, path)[new] = path
        /\ \A d \in DOMAIN P : d # new => With(P, new, path)[d] = P[d]
    BY DEF With
  <2> QED
    BY <1>4, <2>1 DEF Placed
<1>6. FoundTree(Q, M)'
  <2>1. ASSUME NEW i \in DOMAIN P, NEW n \in PathNames, Down(i, n) # Null
        PROVE  Down(i, n)' = Down(i, n)
    <3>1. i \in Ids
      BY <1>4
    <3>2. \/ children'[i] = children[i]
          \/ \E c \in Ids : children'[i] = Append(children[i], c)
      BY <1>3, <3>1 DEF Tree
    <3> QED
      BY <1>3, <2>1, <3>1, <3>2, DownStays
  <2> QED
    BY <1>1, <1>5, <2>1, FoundTreeStays
<1>7. ASSUME NEW N, FindsMore(M, N), NEW u \in Threads, u # t
      PROVE  PlacedThread(Q, u)' /\ FoundThread(Q, N, u)'
  <2>1. PlacedThread(P, u) /\ FoundThread(P, M, u)
    BY DEF Known
  <2>2. uses' = uses /\ pc'[u] = pc[u]
    BY <1>7 DEF Goto, Busy
  <2>3. lines'[u] = lines[u] /\ at'[u] = at[u] /\ rest'[u] = rest[u] /\ entry'[u] = entry[u]
    BY <1>7
  <2> QED
    BY <1>5, <1>7, <2>1, <2>2, <2>3, OthersKnow DEF FindsMore
<1>8. Grows(P, Q)
  BY <1>5 DEF Grows
<1> QED
  BY <1>2, <1>5, <1>6, <1>7, <1>8

\* The places are known again when the thread that pushed the file knows its own.
LEMMA KnownPushed ==
  ASSUME NEW Q, NEW N, NEW t \in Threads, PlacedTree(Q)', FoundTree(Q, N)',
         PlacedThread(Q, t)', FoundThread(Q, N, t)',
         \A u \in Threads \ {t} : PlacedThread(Q, u)' /\ FoundThread(Q, N, u)'
  PROVE  Known(Q, N)'
<1>1. \A u \in Threads : PlacedThread(Q, u)' /\ FoundThread(Q, N, u)'
  OBVIOUS
<1> QED
  BY <1>1, Zenon DEF Known

\* A file that no listing names.
LEMMA KnownPushNew ==
  ASSUME Busy, Tree, AtWork, NEW P, NEW M, Known(P, M), NEW t \in Threads, PushNew(t)
  PROVE  Known(P, M)'
<1> PICK f : f = Added(t)
  OBVIOUS
<1>1. /\ Goto(t, "push", "idle") /\ Push(t, f, Unlisted)
      /\ UNCHANGED <<lines, at, rest, entry>>
  BY DEF PushNew
<1>2. /\ pc[t] = "push" /\ pc'[t] = "idle" /\ uses' = uses /\ IsDirectory(at[t]) /\ Len(rest[t]) > 0
      /\ rest[t] \in Seq(Text) /\ at[t] \in Nat
  BY <1>1 DEF AtWork, Goto, Busy, Ids
<1>3. f \in FileType /\ f.parent = at[t] /\ ~f.dir
  <2>1. rest[t][1] \in Text
    BY <1>2, Lefts
  <2>2. \A stamp \in Stamps :
          /\ MakeFile(rest[t][1], FALSE, stamp, at[t]) \in FileType
          /\ MakeFile(rest[t][1], FALSE, stamp, at[t]).parent = at[t]
          /\ ~MakeFile(rest[t][1], FALSE, stamp, at[t]).dir
    BY <1>2, <2>1 DEF MakeFile, FileType
  <2> QED
    BY <2>2, Texts, Zenon DEF Added
<1>4. Unlisted \in Seq(Text)
  BY DEF Unlisted
<1>5. /\ PlacedTree(P)' /\ FoundTree(P, M)'
      /\ \A u \in Threads \ {t} : PlacedThread(P, u)' /\ FoundThread(P, M, u)'
  <2>1. FindsMore(M, M)
    BY DEF FindsMore
  <2> QED
    <3>1. Fits(P, f, Unlisted) /\ P = Placed(P, f, Len(file) + 1) /\ IsDirectory(f.parent)
      BY <1>2, <1>3 DEF Fits, Placed
    <3> QED
      BY <1>1, <1>3, <1>4, <2>1, <3>1, KnownPush
<1>6. PlacedThread(P, t)' /\ FoundThread(P, M, t)'
  <2>1. FoundThread(P, M, t) /\ pc[t] # "walk" /\ pc'[t] \notin {"walk", "make"} /\ lines'[t] = lines[t]
    BY <1>1, <1>2 DEF Known
  <2> QED
    BY <1>2, <2>1, NotWalking
<1> QED
  BY <1>5, <1>6, KnownPushed

\* lsl_parse() makes a directory, and goes down to it.
LEMMA KnownMakeDirectory ==
  ASSUME Usual, Busy, Tree, AtWork, NEW P, NEW M, Known(P, M), NEW t \in Threads, MakeDirectory(t)
  PROVE  \E Q : Known(Q, M)' /\ Grows(P, Q)
<1> PICK f, n, new, path :
       /\ f = NewDirectory(t) /\ n = Head(rest[t]) /\ new = Len(file) + 1
       /\ path = Append(P[at[t]], n)
  OBVIOUS
<1>1. /\ Goto(t, "make", "walk") /\ Push(t, f, Unlisted)
      /\ at' = [at EXCEPT ![t] = new] /\ rest' = [rest EXCEPT ![t] = Tail(rest[t])]
      /\ UNCHANGED <<lines, entry>>
  BY DEF MakeDirectory
<1>2. /\ pc[t] = "make" /\ pc'[t] = "walk" /\ uses' = uses /\ IsDirectory(at[t]) /\ Len(rest[t]) > 1
      /\ rest[t] \in Seq(Text) /\ at[t] \in Nat
  BY <1>1 DEF AtWork, Goto, Busy, Ids
<1>3. /\ at[t] \in DOMAIN P /\ rest[t] \in Seq(PathNames) /\ entry[t] = P[at[t]] \o rest[t]
      /\ P[at[t]] \in Seq(PathNames) /\ "json" \notin uses[t]
  BY <1>2 DEF Known, PlacedThread, PlacedTree, FoundThread
<1>4. /\ n \in PathNames /\ n \in Text /\ Tail(rest[t]) \in Seq(PathNames) /\ Len(rest[t]) > 0
      /\ entry[t] = path \o Tail(rest[t])
  <2>1. /\ Len(rest[t]) > 0 /\ n \in PathNames /\ Tail(rest[t]) \in Seq(PathNames) /\ n \in Text
    BY <1>2, <1>3, Lefts
  <2>2. P[at[t]] \o rest[t] = Append(P[at[t]], n) \o Tail(rest[t])
    <3>1. PICK p, r : p = P[at[t]] /\ r = rest[t]
      OBVIOUS
    <3>2. p \in Seq(PathNames) /\ r \in Seq(PathNames) /\ Len(r) > 0
      BY <1>3, <2>1, <3>1
    <3>3. p \o r = Append(p, Head(r)) \o Tail(r)
      BY <3>2, OneMore
    <3> QED
      BY <3>1, <3>3
  <2> QED
    BY <1>3, <2>1, <2>2
<1>5. f \in FileType /\ f.parent = at[t] /\ f.name = n /\ f.dir
  <2>1. \A stamp \in Stamps :
          /\ MakeFile(n, TRUE, stamp, at[t]) \in FileType
          /\ MakeFile(n, TRUE, stamp, at[t]).parent = at[t]
          /\ MakeFile(n, TRUE, stamp, at[t]).name = n
          /\ MakeFile(n, TRUE, stamp, at[t]).dir
    BY <1>2, <1>4 DEF MakeFile, FileType
  <2> QED
    BY <2>1, Texts, Zenon DEF NewDirectory
<1>6. Unlisted \in Seq(Text)
  BY DEF Unlisted
<1>7. \A u \in Threads \ {t} : /\ lines'[u] = lines[u] /\ at'[u] = at[u]
                               /\ rest'[u] = rest[u] /\ entry'[u] = entry[u]
  BY <1>1 DEF AtWork
<1>8. PICK Q : Q = Placed(P, f, new)
  OBVIOUS
<1>9. /\ PlacedTree(Q)' /\ FoundTree(Q, M)' /\ Grows(P, Q)
      /\ new \in DOMAIN Q /\ Q[new] = path
      /\ \A u \in Threads \ {t} : PlacedThread(Q, u)' /\ FoundThread(Q, M, u)'
  <2>1. path = Append(P[f.parent], f.name) /\ Fits(P, f, Unlisted) /\ IsDirectory(f.parent)
    BY <1>2, <1>3, <1>4, <1>5 DEF Fits
  <2>2. FindsMore(M, M)
    BY DEF FindsMore
  <2>3. /\ PlacedTree(Q)' /\ FoundTree(Q, M)' /\ Grows(P, Q)
        /\ f.dir => Len(file) + 1 \in DOMAIN Q /\ Q[Len(file) + 1] = Append(P[f.parent], f.name)
        /\ \A N : FindsMore(M, N) =>
                  \A u \in Threads \ {t} : PlacedThread(Q, u)' /\ FoundThread(Q, N, u)'
    <3>1. Goto(t, "make", "walk") /\ Push(t, f, Unlisted) /\ Q = Placed(P, f, Len(file) + 1) /\ f \in FileType
      BY <1>1, <1>5, <1>8
    <3> QED
      BY <1>6, <1>7, <2>1, <3>1, KnownPush
  <2> QED
    BY <1>5, <2>1, <2>2, <2>3
<1>10. at'[t] = new /\ rest'[t] = Tail(rest[t]) /\ entry'[t] = entry[t]
  BY <1>1 DEF AtWork
<1>11. PlacedThread(Q, t)'
  BY <1>4, <1>9, <1>10 DEF PlacedThread
<1>12. FoundThread(Q, M, t)'
  BY <1>2, <1>3 DEF FoundThread
<1>13. Known(Q, M)'
  BY <1>9, <1>11, <1>12, KnownPushed
<1> QED
  BY <1>9, <1>13

\* Where a new directory has a place under a directory that was found, one of its
\* name is found now.
LEMMA NowFound ==
  ASSUME Tree, NEW Q, NEW M, PlacedTree(Q)', FoundTree(Q, M)', NEW i \in DOMAIN Q, NEW n \in PathNames,
         NEW f \in FileType, NEW t \in Threads, NEW line \in Seq(Text),
         Push(t, f, line), IsDirectory(f.parent), f.parent = i, f.name = n, f.dir,
         Q[i] \in DOMAIN M, M[Q[i]] = i
  PROVE  \E N : FindsMore(M, N) /\ FoundTree(Q, N)' /\ Append(Q[i], n) \in DOMAIN N
<1> PICK new : new = Len(file) + 1
  OBVIOUS
<1>1. /\ Tree' /\ i \in Ids /\ new \in DOMAIN file' /\ file'[new] = f
      /\ children' = [children EXCEPT ![i] = Append(children[i], new)]
      /\ new \in Ids
  BY TreePush
<1>2. children'[i] = Append(children[i], new) /\ children[i] \in Seq(Ids)
  BY <1>1 DEF Tree
<1>3. Hits(i, n)' # {} /\ Hits(i, n)' \subseteq DOMAIN children'[i] /\ Hits(i, n)' \subseteq Nat
  <2>1. Len(children[i]) + 1 \in DOMAIN children'[i] /\ children'[i][Len(children[i]) + 1] = new
    BY <1>1, <1>2
  <2>2. file'[new].name = n /\ file'[new].dir = TRUE
    <3>1. f.dir = TRUE
      BY DEF FileType
    <3> QED
      BY <1>1, <3>1
  <2>3. DOMAIN children'[i] \subseteq Nat
    BY <1>1, <1>2
  <2> QED
    BY <2>1, <2>2, <2>3 DEF Hits
<1> PICK k : k = Min(Hits(i, n)')
  OBVIOUS
<1>4. k \in Hits(i, n)'
  BY <1>3, LeastIsMin
<1> PICK d : d = children'[i][k]
  OBVIOUS
<1>5. d = Down(i, n)' /\ d \in Links(i)' /\ Named(d, n)' /\ file'[d].dir
  BY <1>3, <1>4 DEF Down, Hits, Links, Named
<1>6. d \in DOMAIN Q \ {Root} /\ file'[d].parent = i
  BY <1>5 DEF PlacedTree
<1>7. Q[d] = Append(Q[i], n)
  BY <1>5, <1>6 DEF PlacedTree, Named
<1> PICK q : q = Q[i]
  OBVIOUS
<1>8. CASE Append(q, n) \in DOMAIN M
  <2>1. FindsMore(M, M)
    BY DEF FindsMore
  <2> QED
    BY <1>8, <2>1
<1>9. CASE Append(q, n) \notin DOMAIN M
  <2> PICK N : N = With(M, Append(q, n), d)
    OBVIOUS
  <2>1. FoundTree(Q, N)'
    BY <1>5, <1>6, <1>7, <1>9, FoundTreeGrows
  <2>2. Append(q, n) \in DOMAIN N /\ FindsMore(M, N)
    BY <1>9 DEF With, FindsMore
  <2> QED
    BY <2>1, <2>2
<1> QED
  BY <1>8, <1>9

\* The end of a path: the entry is placed, and found if it is a directory.
LEMMA KnownAddEntry ==
  ASSUME Usual, Busy, Tree, AtWork, NEW P, NEW M, Known(P, M), NEW t \in Threads, AddEntry(t)
  PROVE  \E Q, N : Known(Q, N)' /\ Grows(P, Q)
<1> PICK i, n, line : i = at[t] /\ n = Last(entry[t]) /\ line = entry[t]
  OBVIOUS
<1> PICK isDir \in BOOLEAN : isDir = ("json" \in uses[t] /\ entry[t] \in Directories)
  OBVIOUS
<1> PICK stamp : stamp = IF isDir THEN "dir" ELSE "file"
  OBVIOUS
<1> PICK f : f = MakeFile(n, isDir, stamp, i)
  OBVIOUS
<1>1. /\ Goto(t, "walk", "idle") /\ Push(t, f, line) /\ Len(rest[t]) = 1
      /\ UNCHANGED <<lines, at, rest, entry>>
  BY DEF AddEntry
<1>2. /\ pc[t] = "walk" /\ pc'[t] = "idle" /\ uses' = uses /\ IsDirectory(i)
      /\ i \in Nat /\ line \in Listing[t]
  BY <1>1 DEF AtWork, Goto, Busy, Ids
<1>3. /\ i \in DOMAIN P /\ rest[t] \in Seq(PathNames) /\ line = P[i] \o rest[t]
      /\ P[i] \in Seq(PathNames)
      /\ "json" \in uses[t] => P[i] \in DOMAIN M /\ M[P[i]] = i
      /\ "json" \in uses[t] =>
           \A q \in Listing[t] \cap Directories : q \in lines[t] \/ q = line \/ q \in DOMAIN M
  BY <1>2 DEF Known, PlacedThread, PlacedTree, FoundThread
<1>4. /\ n \in PathNames /\ n \in Text /\ line = Append(P[i], n) /\ line \in Seq(Text)
  <2>1. Len(rest[t]) > 0 /\ Head(rest[t]) \in PathNames
    BY <1>1, <1>3, Lefts
  <2>2. /\ P[i] \o rest[t] = Append(P[i], Head(rest[t]))
        /\ Last(P[i] \o rest[t]) = Head(rest[t])
    <3>1. PICK p, r : p = P[i] /\ r = rest[t]
      OBVIOUS
    <3>2. p \in Seq(PathNames) /\ r \in Seq(PathNames) /\ Len(r) = 1 /\ Len(r) > 0
      BY <1>1, <1>3, <2>1, <3>1
    <3>3. p \o r = Append(p, Head(r)) /\ Last(p \o r) = Head(r)
      BY <3>2, OneMore
    <3> QED
      BY <3>1, <3>3
  <2>3. n = Head(rest[t])
    BY <1>3, <2>2
  <2>4. PathNames \subseteq Text
    BY Texts DEF PathNames
  <2> QED
    BY <1>2, <1>3, <2>1, <2>2, <2>3, <2>4, PathTypes
<1>5. f \in FileType /\ f.parent = i /\ f.name = n /\ (f.dir <=> isDir)
  <2>1. stamp \in Stamps
    BY Texts, Zenon
  <2> QED
    BY <1>2, <1>4, <2>1 DEF MakeFile, FileType
<1>6. PICK Q : Q = Placed(P, f, Len(file) + 1)
  OBVIOUS
<1>7. \A u \in Threads \ {t} : /\ lines'[u] = lines[u] /\ at'[u] = at[u]
                               /\ rest'[u] = rest[u] /\ entry'[u] = entry[u]
  BY <1>1
<1>8. /\ PlacedTree(Q)' /\ FoundTree(Q, M)' /\ Grows(P, Q)
      /\ \A N : FindsMore(M, N) =>
           \A u \in Threads \ {t} : PlacedThread(Q, u)' /\ FoundThread(Q, N, u)'
  <2>1. IsDirectory(f.parent) /\ Fits(P, f, line)
    BY <1>2, <1>3, <1>4, <1>5 DEF Fits
  <2>2. Push(t, f, line) /\ Goto(t, "walk", "idle") /\ f \in FileType /\ line \in Seq(Text)
    BY <1>1, <1>4, <1>5
  <2> QED
    BY <1>6, <1>7, <2>1, <2>2, KnownPush
<1>9. PlacedThread(Q, t)'
  BY <1>2 DEF PlacedThread
<1>10. PICK N : /\ FindsMore(M, N) /\ FoundTree(Q, N)'
                /\ "json" \in uses[t] /\ line \in Directories => line \in DOMAIN N
  <2>1. CASE isDir
    <3>1. Q[i] = P[i] /\ i \in DOMAIN Q /\ f.dir /\ P[i] \in DOMAIN M /\ M[P[i]] = i
      BY <1>3, <1>5, <1>8, <2>1 DEF Grows
    <3>2. Push(t, f, line) /\ IsDirectory(f.parent) /\ f.parent = i /\ f.name = n
      BY <1>1, <1>2, <1>5
    <3>3. \E N : FindsMore(M, N) /\ FoundTree(Q, N)' /\ Append(Q[i], n) \in DOMAIN N
      <4>1. /\ PlacedTree(Q)' /\ FoundTree(Q, M)' /\ i \in DOMAIN Q /\ n \in PathNames
            /\ f \in FileType /\ line \in Seq(Text) /\ f.dir
            /\ Q[i] \in DOMAIN M /\ M[Q[i]] = i
        BY <1>4, <1>5, <1>8, <3>1
      <4> QED
        BY <3>2, <4>1, NowFound
    <3> QED
      BY <1>4, <3>1, <3>3
  <2>2. CASE ~isDir
    <3>1. FindsMore(M, M)
      BY DEF FindsMore
    <3> QED
      BY <1>8, <2>2, <3>1
  <2> QED
    BY <2>1, <2>2
<1>11. FoundThread(Q, N, t)'
  <2> SUFFICES ASSUME "json" \in uses[t] PROVE FoundThread(Q, N, t)'
    BY <1>2 DEF FoundThread
  <2>1. \A q \in Listing[t] \cap Directories : q \in lines'[t] \/ q \in DOMAIN N
    BY <1>1, <1>3, <1>10 DEF FindsMore
  <2> QED
    BY <1>2, <2>1 DEF FoundThread
<1>12. Known(Q, N)'
  BY <1>8, <1>9, <1>10, <1>11, KnownPushed
<1> QED
  BY <1>8, <1>12

\* A step leaves the places as they are, or adds the one it makes.
Follows(P, Q) == Q = P \/ (Grows(P, Q) /\ \E t \in Threads : MakeDirectory(t) \/ AddEntry(t))

\* Every step keeps the places known, as they are or with another.
LEMMA KnownStep ==
  ASSUME Usual, Busy, Tree, AtWork, \E t \in Threads : Lists(uses, t),
         NEW P, NEW M, Known(P, M), [Next]_vars
  PROVE  \E Q, N : Known(Q, N)' /\ Follows(P, Q)
<1> DEFINE Goal == \E Q, N : Known(Q, N)' /\ Follows(P, Q)
<1>1. ASSUME NEW N, Known(P, N)' PROVE Goal
  BY <1>1 DEF Follows
<1>2. ASSUME NEW t \in Threads,
             \/ NextLine(t) \/ WalkJson(t) \/ WalkLsl(t) \/ MakeDirectory(t) \/ AddEntry(t)
             \/ Scan(t) \/ PushNew(t)
      PROVE  Goal
  <2>1. CASE NextLine(t)
    BY <1>1, <2>1, KnownNextLine
  <2>2. CASE WalkJson(t)
    BY <1>1, <2>2, KnownWalkJson
  <2>3. CASE WalkLsl(t)
    BY <1>1, <2>3, KnownWalkLsl
  <2>4. CASE MakeDirectory(t)
    BY <2>4, KnownMakeDirectory DEF Follows
  <2>5. CASE AddEntry(t)
    BY <2>5, KnownAddEntry DEF Follows
  <2>6. CASE Scan(t)
    BY <1>1, <2>6, KnownScan
  <2>7. CASE PushNew(t)
    BY <1>1, <2>7, KnownPushNew
  <2> HIDE DEF Goal
  <2> QED
    BY <1>2, <2>1, <2>2, <2>3, <2>4, <2>5, <2>6, <2>7
<1>3. /\ \A i \in DOMAIN file : i \in Ids /\ i \in 1..(Len(file) + 1)
      /\ Len(file) < MaxCopied =>
           Len(file) + 1 \in Ids /\ Len(file) + 1 \in 1..(Len(file) + 1) /\ Len(file) + 1 \notin DOMAIN file
  BY FileIds, ConstantsAssumption DEF ConstantsAssumption, Ids
<1>4. ASSUME NEW t \in Threads, NEW i \in DOMAIN file, CopyFile(t, i) PROVE Goal
  <2>1. Len(file) < MaxCopied /\ Transfer(t, Len(file) + 1, i, FALSE)
    BY <1>4 DEF CopyFile
  <2>2. Known(P, M)'
    BY <1>3, <2>1, KnownTransfer
  <2> QED
    BY <1>1, <2>2
<1>5. ASSUME NEW t \in Threads, NEW i \in DOMAIN file, MoveFile(t, i) PROVE Goal
  <2>1. Len(file) < MaxCopied /\ ~file[i].dir /\ Transfer(t, Len(file) + 1, i, TRUE)
    BY <1>5 DEF MoveFile, Movable, Usual
  <2>2. Known(P, M)'
    BY <1>3, <2>1, KnownTransfer
  <2> QED
    BY <1>1, <2>2
<1>6. ASSUME NEW t \in Threads, NEW i \in DOMAIN file, NEW j \in DOMAIN file, NEW moves \in BOOLEAN,
             AssignFile(t, i, j, moves)
      PROVE  Goal
  <2>1. ~file[i].dir /\ ~file[j].dir /\ i # j /\ Transfer(t, i, j, moves)
    BY <1>6 DEF AssignFile, Movable, Usual
  <2>2. Known(P, M)'
    BY <1>3, <2>1, KnownTransfer
  <2> QED
    BY <1>1, <2>2
<1>7. ASSUME NEW t \in Threads, NEW i \in DOMAIN file, NEW n, AddIfNotExist(t, i, n) PROVE Goal
  BY <1>1, <1>7, KnownScan
<1>8. ASSUME NEW t \in Threads, NEW i \in DOMAIN file, NEW k \in DOMAIN children[i], RemoveChild(t, i, k)
      PROVE  Goal
  BY <1>1, <1>8, KnownRemove
<1>9. ASSUME NEW t \in Threads, NEW i \in DOMAIN file, NEW c \in DOMAIN file, AddChild(t, i, c)
      PROVE  Goal
  <2>1. "add" \in uses[t]
    BY <1>9 DEF AddChild
  <2> QED
    BY <2>1, AsUsual
<1>10. ASSUME UNCHANGED vars PROVE Goal
  <2>1. UNCHANGED <<uses, file, children, listed, lines, at, rest, entry, pc>>
    BY <1>10 DEF vars, threadVars
  <2>2. PlacedTree(P)' /\ FoundTree(P, M)'
    <3>1. \A i, n : Down(i, n)' = Down(i, n)
      BY <2>1 DEF Down, Hits
    <3> QED
      BY <2>1, <3>1 DEF Known, PlacedTree, FoundTree, Links
  <2>3. ASSUME NEW u \in Threads PROVE PlacedThread(P, u)' /\ FoundThread(P, M, u)'
    <3>1. PlacedThread(P, u) /\ FoundThread(P, M, u)
      BY DEF Known
    <3> QED
      BY <2>1, <3>1, OthersKnow
  <2>4. Known(P, M)'
    BY <2>2, <2>3, Zenon DEF Known
  <2> QED
    BY <1>1, <2>4
<1> HIDE DEF Goal
<1>11. ASSUME NEW t \in Threads, NEW i \in DOMAIN file,
              \/ \E n \in Names : AddIfNotExist(t, i, n)
              \/ \E k \in DOMAIN children[i] : RemoveChild(t, i, k)
              \/ CopyFile(t, i) \/ MoveFile(t, i)
              \/ \E c \in DOMAIN file :
                   \/ AddChild(t, i, c)
                   \/ \E moves \in BOOLEAN : AssignFile(t, i, c, moves)
       PROVE  Goal
  BY <1>4, <1>5, <1>6, <1>7, <1>8, <1>9, <1>11, Zenon
<1>12. Goal
  BY <1>2, <1>10, <1>11, Zenon DEF Next, Over
<1> QED
  BY <1>12 DEF Goal

\* The first tree has one place that is known, its root.
LEMMA KnownInit ==
  ASSUME Init PROVE \E P, M : Known(P, M) /\ DOMAIN P = {Root}
<1> PICK none : none = <<>>
  OBVIOUS
<1> PICK P : P = [i \in {Root} |-> none]
  OBVIOUS
<1> PICK M : M = [q \in {none} |-> Root]
  OBVIOUS
<1>1. Tree /\ Busy /\ AtWork
  BY TypesInit
<1>2. /\ \A t \in Threads : pc[t] = "idle"
      /\ \A t \in Threads : "json" \in uses[t] => lines[t] = Listing[t]
      /\ listed = [i \in 1..MaxFiles |-> Unlisted]
      /\ children = [i \in 1..MaxFiles |-> <<>>]
  BY DEF Init
<1>3. /\ DOMAIN P = {Root} /\ P[Root] = none /\ DOMAIN M = {none} /\ M[none] = Root
      /\ none \in Seq(PathNames)
  OBVIOUS
<1>4. PlacedTree(P)
  <2>1. PICK name \in RootNames : file[Root] = MakeFile(name, TRUE, "dir", Null)
    <3>0. PICK name \in RootNames :
            file = <<MakeFile(name, TRUE, "dir", Null)>>
                     \o [i \in 1..Orphans |-> MakeFile("orphan", TRUE, "dir", Null)]
      BY DEF Init
    <3> DEFINE root == MakeFile(name, TRUE, "dir", Null)
               orphan == MakeFile("orphan", TRUE, "dir", Null)
    <3>1. file = <<root>> \o [i \in 1..Orphans |-> orphan]
      BY <3>0
    <3>2. Orphans \in Nat
      BY ConstantsAssumption DEF ConstantsAssumption
    <3> HIDE DEF root, orphan
    <3>3. file[1] = root
      BY <3>1, <3>2
    <3> QED
      BY <3>3, Zenon DEF root, Root
  <2>2. file[Root].name \in RootNames /\ file[Root].parent = Null /\ file[Root].dir
    BY <2>1 DEF MakeFile
  <2>3. Root \in DOMAIN file /\ Links(Root) = {}
    <3>1. Root \in DOMAIN file /\ Root \in 1..MaxFiles
      BY <1>1, ConstantsAssumption DEF ConstantsAssumption, Tree, Root
    <3> QED
      BY <1>2, <3>1 DEF Links
  <2>4. \A i \in DOMAIN file : listed[i] = Unlisted
    BY <1>1, <1>2, FileIds DEF Ids
  <2> QED
    BY <1>3, <2>2, <2>3, <2>4, Zenon DEF PlacedTree
<1>5. FoundTree(P, M)
  <2>1. \A q \in Seq(PathNames), n \in PathNames : Append(q, n) \notin DOMAIN M
    BY <1>3, Appended
  <2> QED
    BY <1>3, <2>1 DEF FoundTree
<1>6. ASSUME NEW t \in Threads PROVE PlacedThread(P, t) /\ FoundThread(P, M, t)
  BY <1>2 DEF PlacedThread, FoundThread
<1>7. Known(P, M)
  BY <1>4, <1>5, <1>6, Zenon DEF Known
<1> QED
  BY <1>3, <1>7

\* Where nobody lists, nothing is listed.
NothingListed ==
  /\ \A t \in Threads : lines[t] = {} /\ pc[t] \notin {"walk", "make"}
  /\ \A i \in DOMAIN listed : listed[i] = Unlisted

\* Nobody begins to list later.
LEMMA NothingListedStep ==
  ASSUME Busy, Tree, NothingListed, [Next]_vars
  PROVE  NothingListed'
<1>1. ASSUME NEW t \in Threads, NEW from, NEW to \in {"idle", "scan", "push"}, Goto(t, from, to),
             lines' = lines, \A i \in DOMAIN listed' : listed'[i] = Unlisted
      PROVE  NothingListed'
  BY <1>1 DEF NothingListed, Goto, Busy
<1>2. ASSUME NEW t \in Threads, NextLine(t) \/ WalkJson(t) \/ WalkLsl(t) \/ MakeDirectory(t) \/ AddEntry(t)
      PROVE  NothingListed'
  BY <1>2 DEF NothingListed, NextLine, WalkJson, WalkLsl, MakeDirectory, AddEntry, Goto
<1>3. ASSUME NEW t \in Threads, Scan(t) PROVE NothingListed'
  BY <1>1, <1>3 DEF Scan, NothingListed
<1>4. ASSUME NEW t \in Threads, PushNew(t) PROVE NothingListed'
  <2>1. Goto(t, "push", "idle") /\ lines' = lines /\ \E i : listed' = [listed EXCEPT ![i] = Unlisted]
    BY <1>4 DEF PushNew, Push
  <2>2. \A i \in DOMAIN listed' : listed'[i] = Unlisted
    BY <2>1 DEF NothingListed
  <2> QED
    BY <1>1, <2>1, <2>2
<1>5. ASSUME NEW t \in Threads, NEW i, NEW n,
             AddIfNotExist(t, i, n) \/ RemoveChild(t, i, n) \/ AddChild(t, i, n)
      PROVE  NothingListed'
  BY <1>1, <1>5 DEF AddIfNotExist, RemoveChild, AddChild, NothingListed
<1>6. ASSUME NEW t \in Threads, NEW to, NEW from \in DOMAIN file, NEW moves, Transfer(t, to, from, moves)
      PROVE  NothingListed'
  <2>1. Goto(t, "idle", "idle") /\ lines' = lines
    BY <1>6 DEF Transfer
  <2>2. listed' = [i \in DOMAIN listed \cup {to} |->
                      IF i = to THEN listed[from]
                      ELSE IF moves /\ i = from THEN Unlisted ELSE listed[i]]
    BY <1>6 DEF Transfer
  <2>3. from \in DOMAIN listed
    BY FileIds DEF Tree
  <2>4. \A i \in DOMAIN listed' : listed'[i] = Unlisted
    BY <2>2, <2>3 DEF NothingListed
  <2> QED
    BY <1>1, <2>1, <2>4
<1>7. ASSUME UNCHANGED vars PROVE NothingListed'
  BY <1>7 DEF vars, threadVars, NothingListed
<1> QED
  BY <1>2, <1>3, <1>4, <1>5, <1>6, <1>7 DEF Next, Over, CopyFile, MoveFile, AssignFile

\* Nobody does anything else than before.
LEMMA UsesStay ==
  ASSUME [Next]_vars PROVE uses' = uses
<1>1. ASSUME NEW t \in Threads,
             \/ NextLine(t) \/ WalkJson(t) \/ WalkLsl(t) \/ MakeDirectory(t) \/ AddEntry(t)
             \/ Scan(t) \/ PushNew(t)
      PROVE  uses' = uses
  BY <1>1 DEF NextLine, WalkJson, WalkLsl, MakeDirectory, AddEntry, Scan, PushNew, Goto
<1>2. ASSUME NEW t \in Threads, NEW i, NEW n, NEW k, NEW moves,
             \/ AddIfNotExist(t, i, n) \/ RemoveChild(t, i, n) \/ AddChild(t, i, n)
             \/ Transfer(t, i, k, moves)
      PROVE  uses' = uses
  BY <1>2 DEF AddIfNotExist, RemoveChild, AddChild, Transfer, Goto
<1>3. UNCHANGED vars => uses' = uses
  BY DEF vars
<1> QED
  BY <1>1, <1>2, <1>3 DEF Next, Over, CopyFile, MoveFile, AssignFile

\* The inductive invariant.
Places ==
  /\ (\E t \in Threads : Lists(uses, t)) => \E P, M : Known(P, M)
  /\ (\A t \in Threads : ~Lists(uses, t)) => NothingListed

\* It holds of the first tree,
LEMMA PlacesInit == Init => Places
<1> SUFFICES ASSUME Init PROVE Places
  OBVIOUS
<1>1. (\A t \in Threads : ~Lists(uses, t)) => NothingListed
  BY DEF Init, NothingListed, Lists
<1> QED
  BY <1>1, KnownInit DEF Places

\* and every step keeps it.
LEMMA PlacesStep ==
  ASSUME Usual, Busy, Tree, AtWork, Places, [Next]_vars
  PROVE  Places'
<1>1. uses' = uses
  BY UsesStay
<1>2. (\E t \in Threads : Lists(uses, t)) => (\E P, M : Known(P, M))'
  <2> SUFFICES ASSUME \E t \in Threads : Lists(uses, t) PROVE (\E P, M : Known(P, M))'
    OBVIOUS
  <2>1. PICK P, M : Known(P, M)
    BY DEF Places
  <2> QED
    BY <2>1, KnownStep
<1>3. (\A t \in Threads : ~Lists(uses, t)) => NothingListed'
  BY NothingListedStep DEF Places
<1> QED
  BY <1>1, <1>2, <1>3 DEF Places, Lists

-----------------------------------------------------------------------------
(***************************************************************************)
(* What is written: several slashes are read as one.                       *)
(***************************************************************************)
Collapses(k, s) ==
  /\ k[0] = <<>>
  /\ \A n \in 1..Len(s) : k[n] = OneSlash(k[n - 1], s[n])

\* Collapse() is what is left of the words, taken one after another.
LEMMA CollapseIs ==
  ASSUME NEW S, NEW s \in Seq(S)
  PROVE  \E k \in [0..Len(s) -> Seq(S)] : Collapses(k, s) /\ Collapse(s) = k[Len(s)]
<1> PICK none : none = <<>>
  OBVIOUS
<1> DEFINE N == Len(s)
           Solves(g) == g = [n \in 0..N |-> IF n = 0 THEN none ELSE OneSlash(g[n - 1], s[n])]
           kept == CHOOSE g : Solves(g)
           V == Seq(S)
           step == [n \in 1..N |-> [w \in V |-> OneSlash(w, s[n])]]
<1>1. N \in Nat /\ (\A n \in 1..N : s[n] \in S) /\ none \in V
  OBVIOUS
<1>2. Collapse(s) = kept[N]
  BY DEF Collapse
<1> HIDE DEF N
<1>3. \A n \in 1..N : \A w \in V : OneSlash(w, s[n]) \in V
  BY <1>1 DEF OneSlash
<1>4. \E g : Solves(g)
  <2>1. step \in [1..N -> [V -> V]]
    BY <1>3
  <2>2. PICK g : Steps(g, N, V, none, step)
    <3> HIDE DEF V, step
    <3> QED
      BY <1>1, <2>1, RecursionExists
  <2>3. \A n \in 1..N : g[n - 1] \in V
    BY <1>1, <2>2 DEF Steps
  <2>4. \A n \in 1..N : g[n] = OneSlash(g[n - 1], s[n])
    BY <2>2, <2>3 DEF Steps
  <2>5. Solves(g)
    BY <1>1, <2>2, <2>4 DEF Steps
  <2> QED
    BY <2>5
<1>5. Solves(kept)
  BY <1>4
<1> HIDE DEF kept
<1>6. kept[0] = none /\ \A n \in 1..N : kept[n] = OneSlash(kept[n - 1], s[n])
  BY <1>1, <1>5
<1> HIDE DEF V
<1> DEFINE Good == {n \in 0..N : kept[n] \in V}
<1>7. 0 \in Good
  BY <1>1, <1>6
<1>8. ASSUME NEW n \in 0..(N - 1), n \in Good PROVE n + 1 \in Good
  <2>1. kept[n] \in V /\ n + 1 \in 1..N /\ (n + 1) - 1 = n /\ n + 1 \in 0..N
    BY <1>1, <1>8
  <2>2. kept[n + 1] = OneSlash(kept[n], s[n + 1])
    BY <1>6, <2>1
  <2> QED
    BY <1>3, <2>1, <2>2
<1>9. \A n \in 0..N : n \in Good
  <2> HIDE DEF Good
  <2> QED
    BY <1>1, <1>7, <1>8, UpTo
<1>10. kept \in [0..N -> V]
  <2>1. kept = [n \in 0..N |-> kept[n]]
    BY <1>5
  <2> QED
    BY <1>9, <2>1
<1> QED
  BY <1>2, <1>6, <1>10 DEF Collapses, N, V

\* Two sequences go on alike from where what is left of them is the same.
GoOnAlike(k, s, a, l, r, b, m) ==
  /\ Len(s) \in Nat /\ Len(r) \in Nat /\ Collapses(k, s) /\ Collapses(l, r)
  /\ a \in 0..Len(s) /\ b \in 0..Len(r) /\ k[a] = l[b]
  /\ m \in Nat /\ a + m <= Len(s) /\ b + m <= Len(r)
  /\ \A n \in 1..m : s[a + n] = r[b + n]

\* What is read stays the same as they go on.
LEMMA CollapseAlike ==
  ASSUME NEW k, NEW s, NEW a, NEW l, NEW r, NEW b, NEW m, GoOnAlike(k, s, a, l, r, b, m)
  PROVE  k[a + m] = l[b + m]
<1> DEFINE Good == {n \in 0..m : k[a + n] = l[b + n]}
<1>1. /\ Len(s) \in Nat /\ Len(r) \in Nat /\ Collapses(k, s) /\ Collapses(l, r)
      /\ a \in 0..Len(s) /\ b \in 0..Len(r) /\ k[a] = l[b]
      /\ m \in Nat /\ a + m <= Len(s) /\ b + m <= Len(r)
      /\ \A n \in 1..m : s[a + n] = r[b + n]
  BY DEF GoOnAlike
<1>2. 0 \in Good
  BY <1>1
<1>3. ASSUME NEW n \in 0..(m - 1), n \in Good PROVE n + 1 \in Good
  <2>1. /\ a + (n + 1) \in 1..Len(s) /\ (a + (n + 1)) - 1 = a + n
        /\ b + (n + 1) \in 1..Len(r) /\ (b + (n + 1)) - 1 = b + n
        /\ n + 1 \in 1..m
    BY <1>1
  <2>2. k[a + (n + 1)] = OneSlash(k[a + n], s[a + (n + 1)])
    BY <1>1, <2>1 DEF Collapses
  <2>3. l[b + (n + 1)] = OneSlash(l[b + n], r[b + (n + 1)])
    BY <1>1, <2>1 DEF Collapses
  <2>4. k[a + n] = l[b + n] /\ s[a + (n + 1)] = r[b + (n + 1)]
    BY <1>1, <1>3, <2>1
  <2>5. k[a + (n + 1)] = l[b + (n + 1)]
    BY <2>2, <2>3, <2>4
  <2> QED
    BY <2>1, <2>5
<1>4. \A n \in 0..m : n \in Good
  <2> HIDE DEF Good
  <2> QED
    BY <1>1, <1>2, <1>3, UpTo
<1> QED
  BY <1>1, <1>4

\* What is read of the first words is what they are read as.
LEMMA CollapseFirst ==
  ASSUME NEW S, NEW x \in Seq(S), NEW w \in Seq(S)
  PROVE  \E k \in [0..Len(x \o w) -> Seq(S)] :
           Collapses(k, x \o w) /\ Collapse(x \o w) = k[Len(x \o w)] /\ k[Len(x)] = Collapse(x)
<1> PICK y : y = x \o w
  OBVIOUS
<1>1. /\ y \in Seq(S) /\ Len(y) = Len(x) + Len(w)
      /\ \A n \in 1..Len(x) : y[n] = x[n]
  BY Joined
<1>2. PICK k \in [0..Len(y) -> Seq(S)] : Collapses(k, y) /\ Collapse(y) = k[Len(y)]
  BY <1>1, CollapseIs
<1>3. PICK l \in [0..Len(x) -> Seq(S)] : Collapses(l, x) /\ Collapse(x) = l[Len(x)]
  BY CollapseIs
<1>4. Len(x) \in Nat /\ Len(w) \in Nat /\ k[0] = l[0]
  BY <1>2, <1>3 DEF Collapses
<1>5. GoOnAlike(k, y, 0, l, x, 0, Len(x))
  BY <1>1, <1>2, <1>3, <1>4 DEF GoOnAlike
<1>6. k[Len(x)] = l[Len(x)]
  <2>1. k[0 + Len(x)] = l[0 + Len(x)]
    BY SMTT(60), <1>5, CollapseAlike
  <2> QED
    BY <1>4, <2>1
<1> QED
  BY <1>2, <1>3, <1>6

\* What comes after is read the same after what is read the same.
LEMMA CollapseJoined ==
  ASSUME NEW S, NEW u \in Seq(S), NEW v \in Seq(S), NEW w \in Seq(S), Collapse(u) = Collapse(v)
  PROVE  Collapse(u \o w) = Collapse(v \o w)
<1> PICK x, y : x = u \o w /\ y = v \o w
  OBVIOUS
<1>1. PICK k : Collapses(k, x) /\ Collapse(x) = k[Len(x)] /\ k[Len(u)] = Collapse(u)
  BY CollapseFirst
<1>2. PICK l : Collapses(l, y) /\ Collapse(y) = l[Len(y)] /\ l[Len(v)] = Collapse(v)
  BY CollapseFirst
<1>3. /\ x \in Seq(S) /\ Len(x) = Len(u) + Len(w) /\ (\A n \in 1..Len(w) : x[Len(u) + n] = w[n])
      /\ y \in Seq(S) /\ Len(y) = Len(v) + Len(w) /\ (\A n \in 1..Len(w) : y[Len(v) + n] = w[n])
      /\ Len(u) \in Nat /\ Len(v) \in Nat /\ Len(w) \in Nat
  BY Joined
<1>4. GoOnAlike(k, x, Len(u), l, y, Len(v), Len(w))
  BY <1>1, <1>2, <1>3 DEF GoOnAlike
<1>5. k[Len(x)] = l[Len(y)]
  BY <1>3, <1>4, CollapseAlike
<1> QED
  BY <1>1, <1>2, <1>5

\* One more word.
LEMMA CollapseOneMore ==
  ASSUME NEW S, NEW u \in Seq(S), NEW x \in S
  PROVE  Collapse(u) \in Seq(S) /\ Collapse(u \o <<x>>) = OneSlash(Collapse(u), x)
<1> PICK w, y : w = <<x>> /\ y = u \o w
  OBVIOUS
<1>1. w \in Seq(S) /\ Len(w) = 1 /\ w[1] = x
  OBVIOUS
<1>2. /\ y \in Seq(S) /\ Len(y) = Len(u) + 1 /\ Len(u) \in Nat
      /\ y[Len(u) + 1] = x
  <2>1. /\ u \o w \in Seq(S) /\ Len(u \o w) = Len(u) + Len(w) /\ Len(u) \in Nat
        /\ \A k \in 1..Len(w) : (u \o w)[Len(u) + k] = w[k]
    BY <1>1, Joined
  <2> QED
    BY <1>1, <2>1
<1>3. PICK k \in [0..Len(y) -> Seq(S)] :
        Collapses(k, y) /\ Collapse(y) = k[Len(y)] /\ k[Len(u)] = Collapse(u)
  <2>1. \E k \in [0..Len(u \o w) -> Seq(S)] :
          Collapses(k, u \o w) /\ Collapse(u \o w) = k[Len(u \o w)] /\ k[Len(u)] = Collapse(u)
    BY <1>1, CollapseFirst
  <2> QED
    BY <2>1
<1>4. k[Len(u) + 1] = OneSlash(k[Len(u)], x)
  <2>1. Len(u) + 1 \in 1..Len(y) /\ (Len(u) + 1) - 1 = Len(u)
    BY <1>2
  <2> QED
    BY <1>2, <1>3, <2>1 DEF Collapses
<1>5. Collapse(u) \in Seq(S)
  <2>1. Len(u) \in 0..Len(y)
    BY <1>2
  <2> QED
    BY <1>3, <2>1
<1> QED
  BY <1>2, <1>3, <1>4, <1>5

\* Two slashes are read as one.
LEMMA SlashTwice ==
  ASSUME NEW S, "/" \in S, NEW u \in Seq(S)
  PROVE  Collapse((u \o <<"/">>) \o <<"/">>) = Collapse(u \o <<"/">>)
<1> PICK slash : slash = "/"
  OBVIOUS
<1> PICK c, v : c = Collapse(u) /\ v = u \o <<slash>>
  OBVIOUS
<1>0. \A z \in Seq(S) : Collapse(z) \in Seq(S) /\ Collapse(z \o <<slash>>) = OneSlash(Collapse(z), slash)
  BY CollapseOneMore
<1>1. c \in Seq(S) /\ Collapse(v) = OneSlash(c, slash)
  BY <1>0
<1>2. v \in Seq(S)
  OBVIOUS
<1>3. Collapse(v \o <<slash>>) = OneSlash(OneSlash(c, slash), slash)
  BY <1>0, <1>1, <1>2
<1>4. OneSlash(OneSlash(c, slash), slash) = OneSlash(c, slash)
  <2>1. Append(c, slash) # <<>> /\ Last(Append(c, slash)) = slash
    BY <1>1, Appended DEF Last
  <2> QED
    BY <2>1 DEF OneSlash
<1> QED
  BY <1>1, <1>3, <1>4

\* Where there are no two slashes together, all is left as it is.
LEMMA NoneDouble ==
  ASSUME NEW S, NEW s \in Seq(S), \A n \in 1..(Len(s) - 1) : s[n] # "/" \/ s[n + 1] # "/"
  PROVE  Collapse(s) = s
<1> PICK slash : slash = "/"
  OBVIOUS
<1>1. PICK k \in [0..Len(s) -> Seq(S)] : Collapses(k, s) /\ Collapse(s) = k[Len(s)]
  BY CollapseIs
<1> PICK N : N = Len(s)
  OBVIOUS
<1>2. N \in Nat /\ \A n \in 1..N : s[n] \in S
  OBVIOUS
<1> DEFINE Good == {n \in 0..N : Len(k[n]) = n /\ \A m \in 1..n : k[n][m] = s[m]}
<1>3. 0 \in Good
  BY <1>1, <1>2 DEF Collapses
<1>4. ASSUME NEW n \in 0..(N - 1), n \in Good PROVE n + 1 \in Good
  <2>1. k[n] \in Seq(S) /\ Len(k[n]) = n /\ (\A m \in 1..n : k[n][m] = s[m])
    BY <1>1, <1>2, <1>4
  <2>2. n + 1 \in 1..N /\ (n + 1) - 1 = n /\ n + 1 \in 0..N /\ n \in Nat
    BY <1>2
  <2>3. k[n + 1] = OneSlash(k[n], s[n + 1])
    BY <1>1, <2>2 DEF Collapses
  <2>4. k[n + 1] = Append(k[n], s[n + 1])
    <3>1. CASE n = 0
      <4>1. k[n] = <<>>
        BY <2>1, <3>1, EmptySeq
      <4> QED
        BY <2>3, <4>1 DEF OneSlash
    <3>2. CASE n # 0
      <4>1. n \in 1..n /\ n \in 1..(Len(s) - 1)
        BY <1>2, <2>2, <3>2
      <4>2. Last(k[n]) = s[n] /\ (s[n] # slash \/ s[n + 1] # slash)
        BY <2>1, <4>1 DEF Last
      <4> QED
        BY <2>3, <4>2 DEF OneSlash
    <3> QED
      BY <3>1, <3>2
  <2>5. s[n + 1] \in S
    BY <1>2, <2>2
  <2>6. Len(k[n + 1]) = n + 1 /\ \A m \in 1..(n + 1) : k[n + 1][m] = s[m]
    <3>1. /\ Len(Append(k[n], s[n + 1])) = n + 1
          /\ \A m \in 1..n : Append(k[n], s[n + 1])[m] = s[m]
          /\ Append(k[n], s[n + 1])[n + 1] = s[n + 1]
      BY <2>1, <2>5, Appended
    <3> QED
      BY <2>2, <2>4, <3>1
  <2> QED
    BY <2>2, <2>6
<1>5. \A n \in 0..N : n \in Good
  <2> HIDE DEF Good
  <2> QED
    BY <1>2, <1>3, <1>4, UpTo
<1>6. Len(k[N]) = N /\ (\A m \in 1..N : k[N][m] = s[m]) /\ k[N] \in Seq(S)
  BY <1>1, <1>2, <1>5
<1>7. k[N] = s
  BY <1>6, SeqEqual
<1> QED
  BY <1>1, <1>7

\* The path of a line, word by word.
LEMMA WrittenIs ==
  ASSUME NEW S, PathNames \subseteq S, "/" \in S, NEW p \in Seq(PathNames)
  PROVE  /\ Written(p) \in Seq(S) /\ Len(Written(p)) = 2 * Len(p) /\ Len(p) \in Nat
         /\ \A k \in 1..Len(p) : Written(p)[2 * k - 1] = "/" /\ Written(p)[2 * k] = p[k]
<1> PICK slash \in S : slash = "/"
  OBVIOUS
<1> PICK w : w = [k \in 1..(2 * Len(p)) |-> IF k % 2 = 1 THEN slash ELSE p[k \div 2]]
  OBVIOUS
<1>1. w = Written(p)
  BY Zenon DEF Written
<1>2. Len(p) \in Nat /\ \A k \in 1..Len(p) : p[k] \in S
  <2>1. Len(p) \in Nat /\ \A k \in 1..Len(p) : p[k] \in PathNames
    OBVIOUS
  <2> QED
    BY <2>1
<1>3. \A k \in 1..(2 * Len(p)) : k % 2 = 1 \/ k \div 2 \in 1..Len(p)
  BY <1>2
<1>4. w \in [1..(2 * Len(p)) -> S]
  BY <1>2, <1>3
<1>5. w \in Seq(S) /\ Len(w) = 2 * Len(p)
  <2>1. 2 * Len(p) \in Nat
    BY <1>2
  <2> QED
    BY <1>4, <2>1, SeqDef
<1>6. ASSUME NEW k \in 1..Len(p) PROVE w[2 * k - 1] = slash /\ w[2 * k] = p[k]
  <2>1. /\ 2 * k - 1 \in 1..(2 * Len(p)) /\ 2 * k \in 1..(2 * Len(p))
        /\ (2 * k - 1) % 2 = 1 /\ (2 * k) % 2 = 0 /\ (2 * k) \div 2 = k
    BY <1>2
  <2> QED
    BY <2>1
<1> QED
  BY <1>1, <1>2, <1>5, <1>6

\* It is read as it is.
LEMMA WrittenStays ==
  ASSUME NEW p \in Seq(PathNames)
  PROVE  Collapse(Written(p)) = Written(p)
<1> PICK slash : slash = "/"
  OBVIOUS
<1> PICK S : PathNames \subseteq S /\ slash \in S
  <2>1. PathNames \subseteq PathNames \cup {slash} /\ slash \in PathNames \cup {slash}
    OBVIOUS
  <2> QED
    BY <2>1, Zenon
<1> PICK w : w = Written(p)
  OBVIOUS
<1>1. /\ w \in Seq(S) /\ Len(w) = 2 * Len(p) /\ Len(p) \in Nat
      /\ \A k \in 1..Len(p) : w[2 * k] = p[k]
  BY WrittenIs
<1>2. slash \notin PathNames
  BY Zenon DEF PathNames
<1>3. ASSUME NEW n \in 1..(Len(w) - 1) PROVE w[n] # slash \/ w[n + 1] # slash
  <2>1. PICK k \in 1..Len(p) : n = 2 * k - 1 \/ n = 2 * k
    <3>1. Len(p) \in Nat /\ n \in 1..(2 * Len(p))
      BY <1>1
    <3> QED
      BY <3>1, Halves
  <2>2. w[2 * k] = p[k] /\ p[k] \in PathNames
    BY <1>1
  <2> QED
    BY <1>2, <2>1, <2>2
<1>4. Collapse(w) = w
  BY <1>1, <1>3, NoneDouble
<1> QED
  BY <1>4

\* One more name.
LEMMA WrittenOneMore ==
  ASSUME NEW p \in Seq(PathNames), NEW x \in PathNames
  PROVE  Written(Append(p, x)) = Written(p) \o <<"/", x>>
<1> PICK slash : slash = "/"
  OBVIOUS
<1> PICK S : PathNames \subseteq S /\ slash \in S
  <2>1. PathNames \subseteq PathNames \cup {slash} /\ slash \in PathNames \cup {slash}
    OBVIOUS
  <2> QED
    BY <2>1, Zenon
<1> PICK w, q, v : w = Written(p) /\ q = Append(p, x) /\ v = Written(q)
  OBVIOUS
<1>0. PICK two : two = <<slash, x>>
  OBVIOUS
<1>1. /\ q \in Seq(PathNames) /\ Len(q) = Len(p) + 1
      /\ \A k \in 1..Len(p) : q[k] = p[k]
      /\ q[Len(p) + 1] = x
  BY Appended
<1>2. /\ w \in Seq(S) /\ Len(w) = 2 * Len(p) /\ Len(p) \in Nat
      /\ \A k \in 1..Len(p) : w[2 * k - 1] = slash /\ w[2 * k] = p[k]
  BY WrittenIs
<1>3. /\ v \in Seq(S) /\ Len(v) = 2 * Len(q)
      /\ \A k \in 1..Len(q) : v[2 * k - 1] = slash /\ v[2 * k] = q[k]
  BY <1>1, WrittenIs
<1>4. two \in Seq(S) /\ Len(two) = 2 /\ two[1] = slash /\ two[2] = x
  BY <1>0
<1>5. /\ w \o two \in Seq(S) /\ Len(w \o two) = Len(w) + 2
      /\ \A k \in 1..Len(w) : (w \o two)[k] = w[k]
      /\ \A k \in 1..2 : (w \o two)[Len(w) + k] = two[k]
  <2>1. /\ w \o two \in Seq(S) /\ Len(w \o two) = Len(w) + Len(two)
        /\ \A k \in 1..Len(w) : (w \o two)[k] = w[k]
        /\ \A k \in 1..Len(two) : (w \o two)[Len(w) + k] = two[k]
    <3>1. w \in Seq(S) /\ two \in Seq(S)
      BY <1>2, <1>4
    <3> QED
      BY <3>1, Joined
  <2> QED
    BY <1>4, <2>1
<1>6. ASSUME NEW n \in 1..Len(v) PROVE v[n] = (w \o two)[n]
  <2>1. PICK k \in 1..Len(q) : n = 2 * k - 1 \/ n = 2 * k
    <3>1. Len(q) \in Nat /\ n \in 1..(2 * Len(q))
      BY <1>1, <1>2, <1>3
    <3> QED
      BY <3>1, Halves
  <2>2. CASE k = Len(p) + 1
    <3>1. v[2 * k - 1] = slash /\ v[2 * k] = x
      BY <1>1, <1>3, <2>2
    <3>2. 2 * k - 1 = Len(w) + 1 /\ 2 * k = Len(w) + 2
      BY <1>2, <2>2
    <3>3. (w \o two)[Len(w) + 1] = slash /\ (w \o two)[Len(w) + 2] = x
      BY <1>4, <1>5
    <3>4. (w \o two)[2 * k - 1] = slash /\ (w \o two)[2 * k] = x
      BY <3>2, <3>3
    <3> QED
      BY <2>1, <3>1, <3>4
  <2>3. CASE k \in 1..Len(p)
    <3>1. 2 * k - 1 \in 1..Len(w) /\ 2 * k \in 1..Len(w)
      BY <1>2, <2>3
    <3>2. (w \o two)[2 * k - 1] = slash /\ (w \o two)[2 * k] = p[k]
      BY <1>2, <1>5, <2>3, <3>1
    <3>3. v[2 * k - 1] = slash /\ v[2 * k] = p[k]
      BY <1>1, <1>3, <2>1, <2>3
    <3> QED
      BY <2>1, <3>2, <3>3
  <2>4. k = Len(p) + 1 \/ k \in 1..Len(p)
    BY <1>1, <1>2, <2>1
  <2> QED
    BY <2>2, <2>3, <2>4
<1>7. Len(v) = Len(w \o two)
  BY <1>1, <1>2, <1>3, <1>5
<1>8. v = w \o two
  BY <1>3, <1>5, <1>6, <1>7, SeqEqual
<1> QED
  BY <1>0, <1>8

\* The path of a line begins with a slash.
LEMMA WrittenTail ==
  ASSUME NEW S, PathNames \subseteq S, "/" \in S, NEW p \in Seq(PathNames), p # <<>>
  PROVE  Tail(Written(p)) \in Seq(S) /\ Written(p) = <<"/">> \o Tail(Written(p))
<1> PICK slash \in S : slash = "/"
  OBVIOUS
<1> PICK w : w = Written(p)
  OBVIOUS
<1>1. /\ w \in Seq(S) /\ Len(w) = 2 * Len(p) /\ Len(p) \in Nat
      /\ \A k \in 1..Len(p) : w[2 * k - 1] = slash
  BY WrittenIs
<1>2. Len(p) > 0
  BY <1>1, EmptySeq
<1>3. Len(w) > 0 /\ w[1] = slash
  <2>1. 1 \in 1..Len(p) /\ 2 * 1 - 1 = 1
    BY <1>1, <1>2
  <2> QED
    BY <1>1, <1>2, <2>1
<1>4. Head(w) = w[1] /\ Tail(w) \in Seq(S) /\ w = <<Head(w)>> \o Tail(w)
  BY <1>1, <1>3, Lefts
<1> QED
  BY <1>3, <1>4

\* A slash before a path is read as none.
LEMMA SlashBefore ==
  ASSUME NEW S, PathNames \subseteq S, "/" \in S, NEW u \in Seq(S), NEW p \in Seq(PathNames), p # <<>>
  PROVE  Collapse((u \o <<"/">>) \o Written(p)) = Collapse(u \o Written(p))
<1> PICK slash \in S : slash = "/"
  OBVIOUS
<1> PICK w : w = Written(p)
  OBVIOUS
<1>0. PICK one : one = <<slash>>
  OBVIOUS
<1>1. w \in Seq(S)
  BY WrittenIs
<1>10. PICK v : v = Tail(w)
  OBVIOUS
<1>4. v \in Seq(S) /\ w = one \o v
  BY <1>0, <1>10, WrittenTail
<1>5. one \in Seq(S) /\ u \o one \in Seq(S) /\ (u \o one) \o one \in Seq(S)
  <2>1. one \in Seq(S)
    BY <1>0
  <2> QED
    BY <2>1, Joined
<1>6. Collapse((u \o one) \o one) = Collapse(u \o one)
  BY <1>0, SlashTwice
<1>9. PICK a, b : a = u \o one /\ b = a \o one
  OBVIOUS
<1>7. Collapse(b \o v) = Collapse(a \o v)
  <2>1. a \in Seq(S) /\ b \in Seq(S) /\ v \in Seq(S) /\ Collapse(b) = Collapse(a)
    BY <1>4, <1>5, <1>6, <1>9
  <2> QED
    BY <2>1, CollapseJoined
<1>8. b \o v = a \o w /\ a \o v = u \o w
  <2>1. a \in Seq(S) /\ one \in Seq(S) /\ v \in Seq(S) /\ u \in Seq(S)
    BY <1>4, <1>5, <1>9
  <2>2. (a \o one) \o v = a \o (one \o v) /\ (u \o one) \o v = u \o (one \o v)
    BY SMTT(60), <2>1, ConcatAssociative
  <2> QED
    BY <1>4, <1>9, <2>2
<1> QED
  BY <1>0, <1>7, <1>8, <1>9

\* The words of a name.
LEMMA WordsOfName ==
  ASSUME NEW S, "/" \in S, NEW name \in S
  PROVE  /\ Alone(name) \in Seq(S) /\ AfterSlash(name) \in Seq(S)
         /\ name # "" => Alone(name) = <<name>> /\ AfterSlash(name) = <<"/", name>>
         /\ name = "" => Alone(name) = <<>> /\ AfterSlash(name) = <<"/">>
<1> PICK slash \in S : slash = "/"
  OBVIOUS
<1> PICK none, one, named : none = <<>> /\ one = <<slash>> /\ named = <<name>>
  OBVIOUS
<1>1. none \in Seq(S) /\ one \in Seq(S) /\ named \in Seq(S)
  OBVIOUS
<1>2. /\ AfterSlash(name) = one \o Alone(name)
      /\ name # "" => Alone(name) = named
      /\ name = "" => Alone(name) = none
  BY Zenon DEF AfterSlash, Alone
<1>3. one \o none = one /\ one \o named = <<slash, name>> /\ one \o named \in Seq(S)
  BY <1>1, Pieces, Regroup, ZenonT(60)
<1> QED
  BY <1>1, <1>2, <1>3, Zenon

\* the words of path(), under those above
Under(above, i) == above \o AfterSlash(file[i].name)

\* path() of the files, row by row.
LEMMA PathWordsAre ==
  ASSUME Tree
  PROVE  \A n \in 0..MaxFiles, i \in 0..Len(file) :
           PathWords[n][i] = IF i = Null \/ n = 0 THEN <<>>
                             ELSE Under(PathWords[n - 1][file[i].parent], i)
<1> PICK none : none = <<>>
  OBVIOUS
<1> DEFINE Word(g, n, i) == IF i = Null \/ n = 0 THEN none ELSE Under(g[n - 1][file[i].parent], i)
           Solves(g) == g = [n \in 0..MaxFiles |-> [i \in 0..Len(file) |-> Word(g, n, i)]]
<1>1. PathWords = CHOOSE g : Solves(g)
  BY DEF PathWords, Under
<1>2. \E g : Solves(g)
  <2> DEFINE V == Seq(Text)
             I == 0..Len(file)
             J == 1..Len(file)
             parent == [i \in J |-> file[i].parent]
             up == [i \in J |-> [w \in V |-> Under(w, i)]]
  <2>1. none \in V /\ MaxFiles \in Nat /\ Len(file) \in Nat
    BY FileIds, ConstantsAssumption DEF ConstantsAssumption
  <2>2. ASSUME NEW i \in J PROVE file[i].parent \in I /\ file[i].name \in Text
    <3>1. i \in DOMAIN file /\ DOMAIN file = J
      BY FileIds
    <3>2. file[i] \in FileType /\ file[i].parent \in {Null} \cup DOMAIN file
      BY <3>1 DEF Tree
    <3>3. file[i].name \in Text
      BY <3>2 DEF FileType
    <3> QED
      BY <2>1, <3>1, <3>2, <3>3 DEF Null
  <2>3. ASSUME NEW i \in J, NEW w \in V PROVE Under(w, i) \in V
    <3>1. AfterSlash(file[i].name) \in Seq(Text)
      BY <2>2, Texts, WordsOfName
    <3> QED
      BY <3>1 DEF Under
  <2> HIDE DEF V
  <2>4. parent \in [J -> I] /\ up \in [J -> [V -> V]]
    BY <2>2, <2>3
  <2>5. \A i \in I : i \in J <=> i # Null
    BY <2>1 DEF Null
  <2>6. \A i \in J : parent[i] = file[i].parent /\ \A w \in V : up[i][w] = Under(w, i)
    OBVIOUS
  <2> HIDE DEF J, parent, up, I
  <2>7. PICK g \in [0..MaxFiles -> [I -> V]] :
          \A n \in 0..MaxFiles : \A i \in I :
            g[n][i] = IF n = 0 \/ i \notin J THEN none ELSE up[i][g[n - 1][parent[i]]]
    <3>1. PICK a, b : a = parent /\ b = up
      OBVIOUS
    <3>2. a \in [J -> I] /\ b \in [J -> [V -> V]]
      BY <2>4, <3>1
    <3>3. PICK g : Rows(g, MaxFiles, V, none, I, J, a, b)
      BY <2>1, <3>2, RowsExist
    <3> QED
      BY <3>1, <3>3 DEF Rows
  <2> USE DEF I
  <2>8. ASSUME NEW n \in 0..MaxFiles, NEW i \in I PROVE g[n][i] = Word(g, n, i)
    <3>1. CASE n # 0 /\ i \in J
      <4>1. n - 1 \in 0..MaxFiles /\ parent[i] \in I
        BY <2>1, <2>4, <3>1
      <4>2. g[n - 1][parent[i]] \in V
        BY <2>7, <4>1
      <4>3. up[i][g[n - 1][parent[i]]] = Under(g[n - 1][file[i].parent], i)
        BY <2>6, <3>1, <4>2
      <4> QED
        BY <2>5, <2>7, <3>1, <4>3
    <3>2. CASE n = 0 \/ i \notin J
      BY <2>5, <2>7, <3>2
    <3> QED
      BY <3>1, <3>2
  <2> HIDE DEF Word
  <2>9. \A n \in 0..MaxFiles : g[n] = [i \in I |-> Word(g, n, i)]
    BY <2>7, <2>8
  <2>10. Solves(g)
    BY <2>7, <2>9
  <2> QED
    BY <2>10
<1>3. Solves(PathWords)
  BY <1>1, <1>2
<1> HIDE DEF Word
<1>4. \A n \in 0..MaxFiles, i \in 0..Len(file) : PathWords[n][i] = Word(PathWords, n, i)
  <2>1. PICK p : p = PathWords
    OBVIOUS
  <2>2. p = [n \in 0..MaxFiles |-> [i \in 0..Len(file) |-> Word(p, n, i)]]
    BY <1>3, <2>1
  <2>3. ASSUME NEW n \in 0..MaxFiles, NEW i \in 0..Len(file) PROVE p[n][i] = Word(p, n, i)
    <3>1. p[n] = [j \in 0..Len(file) |-> Word(p, n, j)]
      BY <2>2
    <3> QED
      BY <3>1
  <2> QED
    BY <2>1, <2>3
<1> QED
  BY <1>4 DEF Word

\* After other words.
LEMMA WrittenOnward ==
  ASSUME NEW S, PathNames \subseteq S, "/" \in S, NEW u \in Seq(S),
         NEW p \in Seq(PathNames), NEW x \in PathNames
  PROVE  u \o Written(Append(p, x)) = (u \o Written(p)) \o <<"/", x>>
<1> PICK slash \in S : slash = "/"
  OBVIOUS
<1>1. PICK w, two : w = Written(p) /\ two = <<slash, x>>
  OBVIOUS
<1>2. w \in Seq(S)
  BY <1>1, WrittenIs
<1>3. two \in Seq(S)
  <2>1. x \in S
    OBVIOUS
  <2> QED
    BY <1>1, <2>1
<1>4. (u \o w) \o two = u \o (w \o two)
  BY <1>2, <1>3, ConcatAssociative
<1>5. Written(Append(p, x)) = w \o two
  BY <1>1, WrittenOneMore
<1> QED
  BY <1>1, <1>4, <1>5

\* The words W of the places: those of the root, and those of what is under a place.
WordsFrom(g, W, P) ==
  /\ \A n \in 1..MaxFiles : g[n][Root] = W[<<>>]
  /\ \A n \in 1..MaxFiles, i \in DOMAIN file :
       /\ i # Root /\ file[i].parent \in DOMAIN P /\ file[i].name \in PathNames
       /\ g[n - 1][file[i].parent] = W[P[file[i].parent]]
       => g[n][i] = W[Append(P[file[i].parent], file[i].name)]

\* The words of each directory are those of its place; each entry's are those of
\* its line.
LEMMA WordsOfPlaces ==
  ASSUME Tree, NEW P, PlacedTree(P), NEW g, NEW W, WordsFrom(g, W, P)
  PROVE  /\ \A d \in DOMAIN P : g[MaxFiles][d] = W[P[d]]
         /\ \A i \in DOMAIN file : listed[i] # Unlisted =>
              /\ g[MaxFiles][i] = W[listed[i]]
              /\ listed[i] \in Seq(PathNames) /\ listed[i] # <<>>
<1> PICK N : N = Len(file)
  OBVIOUS
<1>1. /\ DOMAIN file = 1..N /\ N \in Nat /\ N <= MaxFiles /\ MaxFiles \in Nat /\ N > 0
      /\ Root = 1 /\ DOMAIN P \subseteq 1..N
  <2>1. DOMAIN file = 1..N /\ Len(file) \in 1..MaxFiles /\ MaxFiles \in Nat
    BY FileIds, ConstantsAssumption DEF ConstantsAssumption, Tree
  <2> QED
    BY <2>1 DEF Root, PlacedTree
<1>2. \A d \in DOMAIN P : P[d] \in Seq(PathNames)
  BY DEF PlacedTree
<1>4. ASSUME NEW n \in 1..MaxFiles, NEW j \in DOMAIN file, NEW p,
             j # Root, file[j].parent \in DOMAIN P, file[j].name \in PathNames,
             g[n - 1][file[j].parent] = W[P[file[j].parent]],
             p = Append(P[file[j].parent], file[j].name)
      PROVE  g[n][j] = W[p]
  BY <1>4 DEF WordsFrom
<1> DEFINE Good == {d \in 1..N : d \in DOMAIN P => \A n \in d..MaxFiles : g[n][d] = W[P[d]]}
<1>5. \A d \in 1..N : d \in Good
  <2>1. ASSUME NEW d \in 1..N, \A m \in 1..(d - 1) : m \in Good, d \in DOMAIN P, NEW n \in d..MaxFiles
        PROVE  g[n][d] = W[P[d]]
    <3>1. CASE d = Root
      <4>1. n \in 1..MaxFiles
        BY <1>1
      <4>2. g[n][d] = W[<<>>]
        BY <3>1, <4>1 DEF WordsFrom
      <4>3. P[d] = <<>>
        BY <3>1 DEF PlacedTree
      <4> QED
        BY <4>2, <4>3
    <3>2. CASE d # Root
      <4>1. /\ file[d].parent \in DOMAIN P /\ file[d].parent < d /\ file[d].name \in PathNames
            /\ P[d] = Append(P[file[d].parent], file[d].name)
        BY <2>1, <3>2 DEF PlacedTree
      <4>2. file[d].parent \in 1..(d - 1) /\ n - 1 \in (file[d].parent)..MaxFiles /\ n \in 1..MaxFiles
        BY <1>1, <4>1
      <4>3. g[n - 1][file[d].parent] = W[P[file[d].parent]]
        BY <2>1, <4>1, <4>2
      <4> QED
        BY <1>1, <1>4, <3>2, <4>1, <4>2, <4>3
    <3> QED
      BY <3>1, <3>2
  <2>2. \A d \in 1..N : (\A m \in 1..(d - 1) : m \in Good) => d \in Good
    BY <2>1
  <2> HIDE DEF Good
  <2> QED
    BY <1>1, <2>2, FromSmaller
<1> HIDE DEF Good
<1>6. ASSUME NEW d \in DOMAIN P PROVE g[MaxFiles][d] = W[P[d]]
  <2>1. d \in 1..N /\ MaxFiles \in d..MaxFiles
    BY <1>1
  <2>2. d \in Good
    BY <1>5, <2>1
  <2> QED
    BY <2>1, <2>2 DEF Good
<1>7. ASSUME NEW i \in DOMAIN file, listed[i] # Unlisted
      PROVE  /\ g[MaxFiles][i] = W[listed[i]]
             /\ listed[i] \in Seq(PathNames) /\ listed[i] # <<>>
  <2>1. /\ file[i].parent \in DOMAIN P /\ file[i].parent < Len(file)
        /\ file[i].name \in PathNames
        /\ listed[i] = Append(P[file[i].parent], file[i].name)
    BY <1>7 DEF PlacedTree
  <2>2. i # Root
    <3>1. file[Root].parent = 0
      BY DEF PlacedTree, Null
    <3> QED
      BY <1>1, <2>1, <3>1
  <2>3. file[i].parent \in 1..N /\ MaxFiles - 1 \in (file[i].parent)..MaxFiles /\ MaxFiles \in 1..MaxFiles
    BY <1>1, <2>1
  <2>4. g[MaxFiles - 1][file[i].parent] = W[P[file[i].parent]]
    BY <1>5, <2>1, <2>3 DEF Good
  <2>5. g[MaxFiles][i] = W[listed[i]]
    BY <1>4, <2>1, <2>2, <2>3, <2>4
  <2>6. listed[i] \in Seq(PathNames) /\ listed[i] # <<>>
    <3>1. P[file[i].parent] \in Seq(PathNames)
      BY <1>2, <2>1
    <3>2. \A p \in Seq(PathNames), x \in PathNames : Append(p, x) \in Seq(PathNames) /\ Append(p, x) # <<>>
      BY Appended
    <3> QED
      BY <2>1, <3>1, <3>2
  <2> QED
    BY <2>5, <2>6
<1> QED
  BY <1>6, <1>7

\* what the path of a file begins with: a slash, and that in the name of the root
RootWords == AfterSlash(file[Root].name)

\* It is one slash, or two.
LEMMA RootSlashes ==
  ASSUME NEW P, PlacedTree(P)
  PROVE  /\ file[Root].name \in {"/", ""} /\ RootWords \in Seq(Text)
         /\ RootWords = <<"/">> \/ RootWords = <<"/", "/">>
<1> PICK slash, empty : slash = "/" /\ empty = ""
  OBVIOUS
<1>5. file[Root].name \in RootNames
  BY DEF PlacedTree
<1>1. file[Root].name \in {slash, empty}
  BY <1>5, RootNameTexts
<1>2. slash \in Text /\ empty \in Text /\ slash # empty
  BY Texts, Zenon
<1>3. AfterSlash(slash) = <<slash, slash>> /\ AfterSlash(slash) \in Seq(Text)
  BY <1>2, WordsOfName
<1>4. AfterSlash(empty) = <<slash>> /\ AfterSlash(empty) \in Seq(Text)
  BY <1>2, WordsOfName
<1> QED
  BY <1>1, <1>3, <1>4 DEF RootWords

\* No name, no words.
LEMMA WrittenNone ==
  Written(<<>>) = <<>>
<1> PICK none : none = <<>>
  OBVIOUS
<1>1. PathNames \subseteq Text /\ "/" \in Text
  BY Texts DEF PathNames
<1>2. none \in Seq(PathNames) /\ Len(none) = 0
  OBVIOUS
<1>3. Written(none) \in Seq(Text) /\ Len(Written(none)) = 2 * Len(none)
  BY <1>1, <1>2, WrittenIs
<1> QED
  BY <1>2, <1>3, EmptySeq

\* path() of a directory that has a place, and of an entry, is read from these words.
LEMMA PathWordsOfPlaces ==
  ASSUME Tree, NEW P, PlacedTree(P)
  PROVE  /\ \A d \in DOMAIN P : Path(d) = Collapse(RootWords \o Written(P[d]))
         /\ \A i \in DOMAIN file : listed[i] # Unlisted =>
              /\ Path(i) = Collapse(RootWords \o Written(listed[i]))
              /\ listed[i] \in Seq(PathNames) /\ listed[i] # <<>>
<1> PICK none, B : none = <<>> /\ B = RootWords
  OBVIOUS
<1>1. B \in Seq(Text) /\ PathNames \subseteq Text /\ "/" \in Text
  BY RootSlashes, Texts DEF PathNames
<1>2. PICK W : W = [p \in Seq(PathNames) |-> B \o Written(p)]
  OBVIOUS
<1>3. ASSUME NEW p \in Seq(PathNames), NEW x \in PathNames
      PROVE  Append(p, x) \in Seq(PathNames) /\ W[Append(p, x)] = W[p] \o AfterSlash(x)
  <2>1. Append(p, x) \in Seq(PathNames)
    BY Appended
  <2>2. B \o Written(Append(p, x)) = (B \o Written(p)) \o <<"/", x>>
    BY <1>1, WrittenOnward
  <2>3. x \in Text /\ x # ""
    BY <1>1, Zenon DEF PathNames
  <2>4. AfterSlash(x) = <<"/", x>>
    BY <1>1, <2>3, WordsOfName
  <2> QED
    BY <1>2, <2>1, <2>2, <2>4
<1>4. W[none] = B
  <2>1. B \o none = B /\ none \in Seq(PathNames)
    BY <1>1
  <2>2. Written(none) = none
    BY WrittenNone
  <2> QED
    BY <1>2, <2>1, <2>2
<1>5. WordsFrom(PathWords, W, P)
  <2> PICK g : g = PathWords
    OBVIOUS
  <2>1. \A n \in 0..MaxFiles, j \in 0..Len(file) :
           g[n][j] = IF j = Null \/ n = 0 THEN none ELSE Under(g[n - 1][file[j].parent], j)
    BY PathWordsAre
  <2>2. MaxFiles \in Nat /\ Len(file) \in Nat /\ DOMAIN file = 1..Len(file) /\ Null = 0
        /\ Root \in DOMAIN file /\ file[Root].parent = Null
    BY FileIds, ConstantsAssumption DEF ConstantsAssumption, Null, PlacedTree
  <2>3. ASSUME NEW n \in 1..MaxFiles, NEW j \in DOMAIN file
        PROVE  g[n][j] = Under(g[n - 1][file[j].parent], j)
    <3>1. n \in 0..MaxFiles /\ j \in 0..Len(file) /\ j # Null /\ n # 0
      BY <2>2
    <3> QED
      BY <2>1, <3>1
  <2>4. ASSUME NEW n \in 1..MaxFiles PROVE g[n][Root] = W[none]
    <3>1. g[n][Root] = Under(g[n - 1][Null], Root)
      BY <2>2, <2>3
    <3>2. n - 1 \in 0..MaxFiles /\ Null \in 0..Len(file)
      BY <2>2
    <3>3. g[n - 1][Null] = none
      BY <2>1, <3>2
    <3>4. Under(none, Root) = B
      BY <1>1 DEF Under, RootWords
    <3> QED
      BY <1>4, <3>1, <3>3, <3>4
  <2>5. ASSUME NEW n \in 1..MaxFiles, NEW j \in DOMAIN file,
               file[j].parent \in DOMAIN P, file[j].name \in PathNames,
               g[n - 1][file[j].parent] = W[P[file[j].parent]]
        PROVE  g[n][j] = W[Append(P[file[j].parent], file[j].name)]
    <3> PICK p, x : p = P[file[j].parent] /\ x = file[j].name
      OBVIOUS
    <3>1. p \in Seq(PathNames) /\ x \in PathNames
      BY <2>5 DEF PlacedTree
    <3>2. g[n][j] = W[p] \o AfterSlash(x)
      BY <2>3, <2>5 DEF Under
    <3> QED
      BY <1>3, <3>1, <3>2
  <2> QED
    BY <2>4, <2>5 DEF WordsFrom
<1>6. /\ \A d \in DOMAIN P : PathWords[MaxFiles][d] = W[P[d]]
      /\ \A i \in DOMAIN file : listed[i] # Unlisted =>
           /\ PathWords[MaxFiles][i] = W[listed[i]]
           /\ listed[i] \in Seq(PathNames) /\ listed[i] # <<>>
  BY <1>5, WordsOfPlaces
<1>7. \A d \in DOMAIN P : P[d] \in Seq(PathNames)
  BY DEF PlacedTree
<1> QED
  BY <1>2, <1>6, <1>7 DEF Path

\* The slashes of the root are read as the one that the path begins with.
LEMMA WrittenUnderRoot ==
  ASSUME NEW p \in Seq(PathNames), p # <<>>, NEW P, PlacedTree(P)
  PROVE  Collapse(RootWords \o Written(p)) = Written(p)
<1> PICK slash \in Text : slash = "/"
  BY Texts
<1> PICK none : none = <<>>
  OBVIOUS
<1>1. PICK one, two : one = <<slash>> /\ two = <<slash, slash>>
  OBVIOUS
<1>2. /\ one \in Seq(Text) /\ two \in Seq(Text) /\ none \in Seq(Text)
      /\ two = one \o one /\ one = none \o one
  BY <1>1
<1>3. PathNames \subseteq Text
  BY Texts DEF PathNames
<1>4. RootWords = one \/ RootWords = two
  BY <1>1, RootSlashes
<1>6. Collapse((none \o one) \o Written(p)) = Collapse(none \o Written(p))
  BY <1>1, <1>2, <1>3, SlashBefore
<1>7. Collapse((one \o one) \o Written(p)) = Collapse(one \o Written(p))
  BY <1>1, <1>2, <1>3, SlashBefore
<1>8. none \o Written(p) = Written(p)
  <2>1. Written(p) \in Seq(Text)
    BY <1>3, WrittenIs
  <2> QED
    BY <2>1
<1>9. Collapse(Written(p)) = Written(p)
  BY WrittenStays
<1> QED
  BY <1>2, <1>4, <1>6, <1>7, <1>8, <1>9

\* path() of an entry, where the places are known.
LEMMA PathOfListed ==
  ASSUME Tree, NEW P, PlacedTree(P), NEW i \in DOMAIN file, listed[i] # Unlisted
  PROVE  Path(i) = Written(listed[i])
<1>1. /\ Path(i) = Collapse(RootWords \o Written(listed[i]))
      /\ listed[i] \in Seq(PathNames) /\ listed[i] # <<>>
  BY PathWordsOfPlaces
<1> QED
  BY <1>1, WrittenUnderRoot

\* path() of an entry is the path in its line, whatever is listed and however
\* the lines and the applications take turns, where trees are used as usual.
THEOREM ListedPaths == Usual => (Spec => []PathsAreListed)
<1> SUFFICES ASSUME Usual PROVE Spec => []PathsAreListed
  OBVIOUS
<1>1. Init => Busy /\ Tree /\ AtWork /\ Places
  BY TypesInit, PlacesInit
<1>2. Busy /\ Tree /\ AtWork /\ Places /\ [Next]_vars => (Busy /\ Tree /\ AtWork /\ Places)'
  BY BusyStep, TypesStep, PlacesStep DEF Usual
<1>3. Busy /\ Tree /\ AtWork /\ Places => PathsAreListed
  <2> SUFFICES ASSUME Busy, Tree, AtWork, Places, NEW i \in DOMAIN file, listed[i] # Unlisted
               PROVE  Path(i) = Written(listed[i])
    BY DEF PathsAreListed, Entries
  <2>1. \E t \in Threads : Lists(uses, t)
    BY FileIds DEF Places, NothingListed, Tree
  <2>2. PICK P, M : Known(P, M)
    BY <2>1 DEF Places
  <2>3. PlacedTree(P)
    BY <2>2 DEF Known
  <2> QED
    BY <2>3, PathOfListed
<1> QED
  BY <1>1, <1>2, <1>3, PTL DEF Spec

\* The words of absolute paths.
Words == Text \cup {":"}

\* The place of the root.
LEMMA RemoteWords ==
  ASSUME NEW r \in Remotes
  PROVE  FullPath(r) \in Seq(Words)
<1> PICK colon \in Words : colon = ":"
  BY Zenon DEF Words
<1>1. r.name \in Words /\ r.path \in Seq(Words)
  <2>1. r \in [name : STRING, colon : BOOLEAN, type : STRING, path : Seq(STRING)]
    BY ConstantsAssumption DEF ConstantsAssumption
  <2>2. STRING \subseteq Words
    BY Texts DEF Words
  <2>3. \A s \in Seq(STRING) : s \in Seq(Words)
    BY <2>2, SeqMonotonic
  <2> QED
    BY <2>1, <2>2, <2>3
<1>2. PICK named, none : named = <<r.name, colon>> /\ none = <<>>
  OBVIOUS
<1>3. named \in Seq(Words) /\ none \in Seq(Words)
  BY <1>1, <1>2
<1>4. RootPath(r) \in {named, none}
  BY <1>2, Zenon DEF RootPath
<1>5. RootPath(r) \in Seq(Words)
  BY <1>3, <1>4
<1> QED
  BY <1>1, <1>5 DEF FullPath

\* A file's words, of those above it.
LEMMA AbsoluteWordsAreWords ==
  ASSUME Tree, NEW r \in Remotes, NEW i \in DOMAIN file, NEW w \in Seq(Words)
  PROVE  AbsoluteWords(file[i], w, r) \in Seq(Words)
<1> PICK slash \in Words : slash = "/"
  BY Texts DEF Words
<1>1. file[i].name \in Words
  <2>1. file[i] \in FileType
    BY DEF Tree
  <2> QED
    BY <2>1 DEF FileType, Words
<1>2. PICK b, c, d : b = Alone(file[i].name) /\ c = AfterSlash(file[i].name) /\ d = FullPath(r)
  OBVIOUS
<1>3. b \in Seq(Words) /\ c \in Seq(Words) /\ d \in Seq(Words)
  BY <1>1, <1>2, RemoteWords, WordsOfName
<1>4. w \o b \in Seq(Words) /\ w \o c \in Seq(Words) /\ d \o b \in Seq(Words) /\ d \o c \in Seq(Words)
  BY <1>3
<1>5. AbsoluteWords(file[i], w, r) \in {w \o b, w \o c, d \o b, d \o c}
  BY <1>2, Zenon DEF AbsoluteWords
<1> QED
  BY <1>4, <1>5

\* absolute_path() of the files, row by row.
LEMMA AbsoluteWordsAre ==
  ASSUME Tree, NEW r \in Remotes
  PROVE  \E g : /\ \A i : AbsolutePath(i, r) = Collapse(g[MaxFiles][i])
                /\ \A n \in 0..MaxFiles, i \in 0..Len(file) :
                     g[n][i] = IF i = Null \/ n = 0 THEN <<>>
                               ELSE AbsoluteWords(file[i], g[n - 1][file[i].parent], r)
<1> PICK none : none = <<>>
  OBVIOUS
<1> DEFINE Word(g, n, i) == IF i = Null \/ n = 0 THEN none ELSE AbsoluteWords(file[i], g[n - 1][file[i].parent], r)
           Solves(g) == g = [n \in 0..MaxFiles |-> [i \in 0..Len(file) |-> Word(g, n, i)]]
           words == CHOOSE g : Solves(g)
<1>1. \A i : AbsolutePath(i, r) = Collapse(words[MaxFiles][i])
  BY DEF AbsolutePath
<1>2. \E g : Solves(g)
  <2> DEFINE V == Seq(Words)
             I == 0..Len(file)
             J == 1..Len(file)
             parent == [i \in J |-> file[i].parent]
             up == [i \in J |-> [w \in V |-> AbsoluteWords(file[i], w, r)]]
  <2>1. none \in V /\ MaxFiles \in Nat /\ Len(file) \in Nat
    BY FileIds, ConstantsAssumption DEF ConstantsAssumption
  <2>2. ASSUME NEW i \in J PROVE file[i].parent \in I
    <3>1. i \in DOMAIN file /\ DOMAIN file = J
      BY FileIds
    <3>2. file[i].parent \in {Null} \cup DOMAIN file
      BY <3>1 DEF Tree
    <3> QED
      BY <2>1, <3>1, <3>2 DEF Null
  <2>3. ASSUME NEW i \in J, NEW w \in V PROVE AbsoluteWords(file[i], w, r) \in V
    <3>1. i \in DOMAIN file
      BY FileIds
    <3> QED
      BY <3>1, AbsoluteWordsAreWords
  <2> HIDE DEF V
  <2>4. parent \in [J -> I] /\ up \in [J -> [V -> V]]
    BY <2>2, <2>3
  <2>5. \A i \in I : i \in J <=> i # Null
    BY <2>1 DEF Null
  <2>6. \A i \in J : parent[i] = file[i].parent /\ \A w \in V : up[i][w] = AbsoluteWords(file[i], w, r)
    OBVIOUS
  <2> HIDE DEF J, parent, up, I
  <2>7. PICK g \in [0..MaxFiles -> [I -> V]] :
          \A n \in 0..MaxFiles : \A i \in I :
            g[n][i] = IF n = 0 \/ i \notin J THEN none ELSE up[i][g[n - 1][parent[i]]]
    <3>1. PICK a, b : a = parent /\ b = up
      OBVIOUS
    <3>2. a \in [J -> I] /\ b \in [J -> [V -> V]]
      BY <2>4, <3>1
    <3>3. PICK g : Rows(g, MaxFiles, V, none, I, J, a, b)
      BY <2>1, <3>2, RowsExist
    <3> QED
      BY <3>1, <3>3 DEF Rows
  <2> USE DEF I
  <2>8. ASSUME NEW n \in 0..MaxFiles, NEW i \in I PROVE g[n][i] = Word(g, n, i)
    <3>1. CASE n # 0 /\ i \in J
      <4>1. n - 1 \in 0..MaxFiles /\ parent[i] \in I
        BY <2>1, <2>4, <3>1
      <4>2. g[n - 1][parent[i]] \in V
        BY <2>7, <4>1
      <4>3. up[i][g[n - 1][parent[i]]] = AbsoluteWords(file[i], g[n - 1][file[i].parent], r)
        BY <2>6, <3>1, <4>2
      <4> QED
        BY <2>5, <2>7, <3>1, <4>3
    <3>2. CASE n = 0 \/ i \notin J
      BY <2>5, <2>7, <3>2
    <3> QED
      BY <3>1, <3>2
  <2> HIDE DEF Word
  <2>9. \A n \in 0..MaxFiles : g[n] = [i \in I |-> Word(g, n, i)]
    BY <2>7, <2>8
  <2>10. Solves(g)
    BY <2>7, <2>9
  <2> QED
    BY <2>10
<1>3. Solves(words)
  BY <1>1, <1>2
<1> HIDE DEF Word, words
<1>4. \A n \in 0..MaxFiles, i \in 0..Len(file) : words[n][i] = Word(words, n, i)
  <2>1. PICK p : p = words
    OBVIOUS
  <2>2. p = [n \in 0..MaxFiles |-> [i \in 0..Len(file) |-> Word(p, n, i)]]
    BY <1>3, <2>1
  <2>3. ASSUME NEW n \in 0..MaxFiles, NEW i \in 0..Len(file) PROVE p[n][i] = Word(p, n, i)
    <3>1. p[n] = [j \in 0..Len(file) |-> Word(p, n, j)]
      BY <2>2
    <3> QED
      BY <3>1
  <2> QED
    BY <2>1, <2>3
<1> QED
  BY <1>1, <1>4 DEF Word

\* the words of a path under the root: under a root that has no name they begin
\* with no slash
Below(p) == IF file[Root].name = "" THEN IF p = <<>> THEN <<>> ELSE Tail(Written(p)) ELSE Written(p)

\* No name, after the words of the root.
LEMMA BelowNone ==
  ASSUME NEW R \in Seq(Words)
  PROVE  R \o Below(<<>>) = R
<1> PICK none : none = <<>>
  OBVIOUS
<1>1. Written(none) = none
  BY WrittenNone
<1>2. Below(none) = none
  BY <1>1, Zenon DEF Below
<1>3. R \o none = R
  OBVIOUS
<1> QED
  BY <1>2, <1>3, Zenon

\* One more name, after the words of the root.
LEMMA BelowOnward ==
  ASSUME NEW R \in Seq(Words), NEW p \in Seq(PathNames), NEW x \in PathNames
  PROVE  /\ file[Root].name = "" /\ p = <<>> => R \o Below(Append(p, x)) = R \o Alone(x)
         /\ ~(file[Root].name = "" /\ p = <<>>)
              => R \o Below(Append(p, x)) = (R \o Below(p)) \o AfterSlash(x)
<1> PICK slash \in Words : slash = "/"
  BY Texts DEF Words
<1> PICK none, one, two, named : none = <<>> /\ one = <<slash>> /\ two = <<slash, x>> /\ named = <<x>>
  OBVIOUS
<1> PICK q, w : q = Append(p, x) /\ w = Written(p)
  OBVIOUS
<1>1. PathNames \subseteq Words /\ x \in Words /\ x # ""
  BY Texts, Zenon DEF PathNames, Words
<1>2. Alone(x) = named /\ AfterSlash(x) = two
  BY <1>1, WordsOfName
<1>3. /\ one \in Seq(Words) /\ two \in Seq(Words) /\ named \in Seq(Words) /\ none \in Seq(Words)
      /\ two = one \o named /\ none \o two = two
  BY <1>1, Pieces, Zenon
<1>5. q \in Seq(PathNames) /\ q # none /\ Append(none, x) = named
  BY Appended
<1>6. w \in Seq(Words) /\ Written(q) = w \o two /\ R \o Written(q) = (R \o w) \o two
  BY <1>1, WrittenIs, WrittenOneMore, WrittenOnward
<1>7. \A z \in Seq(Words) : Tail(one \o z) = z
  <2> SUFFICES ASSUME NEW z \in Seq(Words) PROVE Tail(one \o z) = z
    OBVIOUS
  <2>1. PICK y : y = one \o z
    OBVIOUS
  <2>2. /\ y \in Seq(Words) /\ Len(y) = 1 + Len(z) /\ Len(z) \in Nat
        /\ \A k \in 1..Len(z) : y[1 + k] = z[k]
    <3>1. /\ one \o z \in Seq(Words) /\ Len(one \o z) = Len(one) + Len(z) /\ Len(z) \in Nat
          /\ \A k \in 1..Len(z) : (one \o z)[Len(one) + k] = z[k]
      BY <1>3, Joined
    <3>2. Len(one) = 1
      OBVIOUS
    <3> QED
      BY <2>1, <3>1, <3>2
  <2>3. Tail(y) \in Seq(Words) /\ Len(Tail(y)) = Len(z) /\ \A k \in 1..Len(z) : Tail(y)[k] = y[k + 1]
    BY <2>2
  <2>4. \A k \in 1..Len(z) : Tail(y)[k] = z[k]
    BY <2>2, <2>3
  <2>5. Tail(y) = z
    BY <2>3, <2>4, SeqEqual
  <2> QED
    BY <2>1, <2>5
<1>8. CASE file[Root].name # ""
  <2>1. Below(q) = Written(q) /\ Below(p) = w
    BY <1>8 DEF Below
  <2> QED
    BY <1>2, <1>6, <1>8, <2>1
<1>9. CASE file[Root].name = "" /\ p = none
  <2>1. Below(q) = Tail(Written(q))
    BY <1>5, <1>9 DEF Below
  <2>2. Written(q) = none \o two
    BY <1>6, <1>9, WrittenNone
  <2>3. Tail(Written(q)) = named
    <3>1. Written(q) = one \o named
      BY <1>3, <2>2
    <3> QED
      BY <1>3, <1>7, <3>1
  <2> QED
    BY <1>2, <1>9, <2>1, <2>3
<1>10. CASE file[Root].name = "" /\ p # none
  <2>1. PICK v : v = Tail(w)
    OBVIOUS
  <2>2. v \in Seq(Words) /\ w = one \o v
    BY <1>1, <1>10, <2>1, WrittenTail
  <2>3. Below(q) = Tail(Written(q)) /\ Below(p) = v
    BY <1>5, <1>10, <2>1 DEF Below
  <2>4. Written(q) = one \o (v \o two)
    BY <1>3, <1>6, <2>2, ConcatAssociative
  <2>5. v \o two \in Seq(Words)
    BY <1>3, <2>2
  <2>6. Tail(Written(q)) = v \o two
    BY <1>7, <2>4, <2>5
  <2>7. R \o (v \o two) = (R \o v) \o two
    BY <1>3, <2>2, ConcatAssociative
  <2> QED
    BY <1>2, <1>10, <2>3, <2>6, <2>7
<1> QED
  BY <1>8, <1>9, <1>10

\* what the absolute path of a file begins with, under a root whose remote is r
RootPlace(r) ==
  FullPath(r) \o (IF r.path = <<>> THEN Alone(file[Root].name) ELSE AfterSlash(file[Root].name))

\* absolute_path() of an entry, word by word, where the places are known.
LEMMA AbsoluteWordsOfPlaces ==
  ASSUME Tree, NEW P, PlacedTree(P), NEW i \in DOMAIN file, listed[i] # Unlisted, NEW r \in Remotes
  PROVE  /\ AbsolutePath(i, r) = Collapse(RootPlace(r) \o Below(listed[i]))
         /\ listed[i] \in Seq(PathNames) /\ listed[i] # <<>>
<1> PICK R : R = RootPlace(r)
  OBVIOUS
<1> PICK none : none = <<>>
  OBVIOUS
<1>0. PICK empty : empty = ""
  OBVIOUS
<1>1. R \in Seq(Words)
  <2>1. file[Root].name \in Words /\ "/" \in Words
    BY RootSlashes, Texts DEF Words
  <2>2. /\ FullPath(r) \in Seq(Words) /\ Alone(file[Root].name) \in Seq(Words)
        /\ AfterSlash(file[Root].name) \in Seq(Words)
    BY <2>1, RemoteWords, WordsOfName
  <2> QED
    BY <2>2, Regroup, Zenon DEF RootPlace
<1>2. PICK W : W = [p \in Seq(PathNames) |-> R \o Below(p)]
  OBVIOUS
<1>3. PICK g : /\ \A j : AbsolutePath(j, r) = Collapse(g[MaxFiles][j])
               /\ \A n \in 0..MaxFiles, j \in 0..Len(file) :
                    g[n][j] = IF j = Null \/ n = 0 THEN <<>>
                              ELSE AbsoluteWords(file[j], g[n - 1][file[j].parent], r)
  BY AbsoluteWordsAre, Zenon
<1>4. WordsFrom(g, W, P)
  <2>1. /\ MaxFiles \in Nat /\ Len(file) \in Nat /\ DOMAIN file = 1..Len(file) /\ Null = 0
        /\ Root \in DOMAIN file /\ file[Root].parent = Null
        /\ DOMAIN P \subseteq DOMAIN file /\ P[Root] = none
    BY FileIds, ConstantsAssumption DEF ConstantsAssumption, Null, PlacedTree
  <2>2. ASSUME NEW n \in 1..MaxFiles, NEW j \in DOMAIN file
        PROVE  g[n][j] = AbsoluteWords(file[j], g[n - 1][file[j].parent], r)
    <3>1. n \in 0..MaxFiles /\ n # 0
      BY <2>1
    <3>2. j \in 0..Len(file) /\ j # Null
      BY <2>1
    <3> QED
      BY <1>3, <3>1, <3>2
  <2>3. ASSUME NEW n \in 1..MaxFiles PROVE g[n][Root] = W[none]
    <3>1. \A w : AbsoluteWords(file[Root], w, r) = R
      BY <2>1, Zenon DEF AbsoluteWords, RootPlace
    <3>2. none \in Seq(PathNames) /\ R \o Below(none) = R
      BY <1>1, BelowNone
    <3> QED
      BY <1>2, <2>1, <2>2, <3>1, <3>2
  <2>4. ASSUME NEW n \in 1..MaxFiles, NEW j \in DOMAIN file,
               file[j].parent \in DOMAIN P, file[j].name \in PathNames,
               g[n - 1][file[j].parent] = W[P[file[j].parent]]
        PROVE  g[n][j] = W[Append(P[file[j].parent], file[j].name)]
    <3> PICK k, p, x : k = file[j].parent /\ p = P[k] /\ x = file[j].name
      OBVIOUS
    <3>1. k \in DOMAIN P /\ p \in Seq(PathNames) /\ x \in PathNames /\ k # Null
      <4>1. k \in DOMAIN P /\ x \in PathNames
        BY <2>4
      <4>2. p \in Seq(PathNames)
        BY <4>1 DEF PlacedTree
      <4> QED
        BY <2>1, <4>1, <4>2
    <3>2. Append(p, x) \in Seq(PathNames)
      BY <3>1, Appended
    <3>3. W[p] = R \o Below(p) /\ W[Append(p, x)] = R \o Below(Append(p, x))
      BY <1>2, <3>1, <3>2
    <3>4. file[k].name = empty <=> file[Root].name = empty /\ p = none
      <4>1. CASE k = Root
        BY <2>1, <4>1
      <4>2. CASE k # Root
        <5>1. /\ file[k].name \in PathNames /\ p = Append(P[file[k].parent], file[k].name)
              /\ P[file[k].parent] \in Seq(PathNames)
          BY <3>1, <4>2 DEF PlacedTree
        <5>2. PICK q \in Seq(PathNames), y \in PathNames : p = Append(q, y)
          BY <5>1
        <5>4. Len(p) = Len(q) + 1 /\ Len(q) \in Nat
          BY <5>2, Appended
        <5>5. p # none
          BY <5>4
        <5>3. file[k].name # empty
          BY <1>0, <5>1, Zenon DEF PathNames
        <5> QED
          BY <5>3, <5>5
      <4> QED
        BY <4>1, <4>2
    <3>5. g[n][j] = IF file[k].name = empty THEN W[p] \o Alone(x) ELSE W[p] \o AfterSlash(x)
      <4>1. \A w : AbsoluteWords(file[j], w, r)
                   = IF file[k].name = empty THEN w \o Alone(x) ELSE w \o AfterSlash(x)
        BY <1>0, <3>1, Zenon DEF AbsoluteWords
      <4> QED
        BY <2>2, <2>4, <4>1
    <3>6. /\ file[Root].name = empty /\ p = none => R \o Below(Append(p, x)) = R \o Alone(x)
          /\ ~(file[Root].name = empty /\ p = none)
               => R \o Below(Append(p, x)) = (R \o Below(p)) \o AfterSlash(x)
      BY <1>0, <1>1, <3>1, BelowOnward, Zenon
    <3>7. CASE file[k].name = empty
      <4>1. R \o Below(Append(p, x)) = R \o Alone(x) /\ p = none
        BY <3>4, <3>6, <3>7
      <4>2. R \o Below(none) = R
        BY <1>1, BelowNone
      <4> QED
        BY <3>3, <3>5, <3>7, <4>1, <4>2
    <3>8. CASE file[k].name # empty
      <4>1. R \o Below(Append(p, x)) = (R \o Below(p)) \o AfterSlash(x)
        BY <3>4, <3>6, <3>8
      <4> QED
        BY <3>3, <3>5, <3>8, <4>1
    <3> QED
      BY <3>7, <3>8
  <2> QED
    BY <2>3, <2>4 DEF WordsFrom
<1>5. g[MaxFiles][i] = W[listed[i]] /\ listed[i] \in Seq(PathNames) /\ listed[i] # <<>>
  BY <1>4, WordsOfPlaces
<1> QED
  BY <1>2, <1>3, <1>5

\* absolute_path() of an entry, where the places are known.
LEMMA AbsolutePathOfListed ==
  ASSUME Tree, NEW P, PlacedTree(P), NEW i \in DOMAIN file, listed[i] # Unlisted, NEW r \in Remotes
  PROVE  AbsolutePath(i, r) = Collapse(FullPath(r) \o BelowRoot(listed[i], r))
<1>0. \A u, v, x \in Seq(Words) : (u \o v) \o x = u \o (v \o x)
  BY Regroup
<1> PICK slash \in Words : slash = "/"
  BY Texts DEF Words
<1> PICK none, empty : none = <<>> /\ empty = ""
  OBVIOUS
<1>1. PICK one, two, p, d, w : /\ one = <<slash>> /\ two = <<slash, slash>> /\ p = listed[i]
                               /\ d = FullPath(r) /\ w = Written(p)
  OBVIOUS
<1>2. AbsolutePath(i, r) = Collapse(RootPlace(r) \o Below(p)) /\ p \in Seq(PathNames) /\ p # none
  BY <1>1, AbsoluteWordsOfPlaces
<1>3. PathNames \subseteq Words /\ slash # empty /\ slash \in Words /\ empty \in Words
  BY Texts, Zenon DEF PathNames, Words
<1>4. d \in Seq(Words) /\ w \in Seq(Words) /\ one \in Seq(Words)
  <2>1. d \in Seq(Words)
    BY <1>1, RemoteWords
  <2>2. w \in Seq(Words)
    BY <1>1, <1>2, <1>3, WrittenIs
  <2>3. one \in Seq(Words)
    BY <1>1, Pieces, Zenon
  <2> QED
    BY <2>1, <2>2, <2>3
<1>5. CASE file[Root].name = slash
  <2>1. Alone(slash) = one /\ AfterSlash(slash) = two
    BY <1>1, <1>3, WordsOfName
  <2>2. RootPlace(r) = d \o (IF r.path = none THEN one ELSE two)
    BY <1>1, <1>5, <2>1 DEF RootPlace
  <2>3. Below(p) = w /\ BelowRoot(p, r) = w
    BY <1>1, <1>3, <1>5 DEF Below, BelowRoot
  <2>4. PICK e : e = d \o one
    OBVIOUS
  <2>5. e \in Seq(Words) /\ d \o two = e \o one
    BY <1>1, <1>4, <2>4, OneOrTwo
  <2>6. Collapse((d \o one) \o w) = Collapse(d \o w) /\ Collapse((e \o one) \o w) = Collapse(e \o w)
    BY <1>1, <1>2, <1>3, <1>4, <2>5, SlashBefore
  <2> QED
    BY <1>1, <1>2, <2>2, <2>3, <2>4, <2>5, <2>6
<1>6. CASE file[Root].name = empty
  <2>1. Alone(empty) = none /\ AfterSlash(empty) = one
    BY <1>1, <1>3, WordsOfName
  <2>2. PICK v : v = Tail(w)
    OBVIOUS
  <2>3. v \in Seq(Words) /\ w = one \o v
    BY <1>1, <1>2, <1>3, <2>2, WrittenTail
  <2>4. Below(p) = v
    BY <1>1, <1>2, <1>6, <2>2 DEF Below
  <2>5. CASE r.path = none
    <3>1. RootPlace(r) = d \o none /\ d \o none = d
      <4>1. RootPlace(r) = d \o none
        BY <1>1, <1>6, <2>1, <2>5 DEF RootPlace
      <4>2. d \o none = d
        BY <1>4, Pieces, Zenon
      <4> QED
        BY <4>1, <4>2
    <3>2. BelowRoot(p, r) = v
      BY <1>1, <1>6, <2>2, <2>5 DEF BelowRoot
    <3> QED
      BY <1>1, <1>2, <2>4, <3>1, <3>2
  <2>6. CASE r.path # none
    <3>1. RootPlace(r) = d \o one
      BY <1>1, <1>6, <2>1, <2>6 DEF RootPlace
    <3>2. BelowRoot(p, r) = w
      BY <1>1, <1>6, <2>6 DEF BelowRoot
    <3>3. (d \o one) \o v = d \o (one \o v)
      <4>1. d \in Seq(Words) /\ one \in Seq(Words) /\ v \in Seq(Words)
        BY <1>4, <2>3
      <4> QED
        BY <1>0, <4>1
    <3> QED
      BY <1>1, <1>2, <2>3, <2>4, <3>1, <3>2, <3>3
  <2> QED
    BY <2>5, <2>6
<1>7. file[Root].name = slash \/ file[Root].name = empty
  BY RootSlashes
<1> QED
  BY <1>5, <1>6, <1>7

\* absolute_path() of an entry is the place of the root, followed by the path in
\* its line, wherever the root is.
THEOREM ListedAbsolutePaths == Usual => (Spec => []AbsolutePathsAreListed)
<1> SUFFICES ASSUME Usual PROVE Spec => []AbsolutePathsAreListed
  OBVIOUS
<1>1. Init => Busy /\ Tree /\ AtWork /\ Places
  BY TypesInit, PlacesInit
<1>2. Busy /\ Tree /\ AtWork /\ Places /\ [Next]_vars => (Busy /\ Tree /\ AtWork /\ Places)'
  BY BusyStep, TypesStep, PlacesStep DEF Usual
<1>3. Busy /\ Tree /\ AtWork /\ Places => AbsolutePathsAreListed
  <2> SUFFICES ASSUME Tree, Places, NEW i \in DOMAIN file, listed[i] # Unlisted, NEW r \in Remotes
               PROVE  AbsolutePath(i, r) = Collapse(FullPath(r) \o BelowRoot(listed[i], r))
    BY DEF AbsolutePathsAreListed, Entries
  <2>1. \E t \in Threads : Lists(uses, t)
    BY FileIds DEF Places, NothingListed, Tree
  <2>2. PICK P, M : Known(P, M)
    BY <2>1 DEF Places
  <2>3. PlacedTree(P)
    BY <2>2 DEF Known
  <2> QED
    BY <2>3, AbsolutePathOfListed
<1> QED
  BY <1>1, <1>2, <1>3, PTL DEF Spec

-----------------------------------------------------------------------------
(***************************************************************************)
(* Directories are there once.  No place is taken twice; a line of lsjson  *)
(* that is still to be parsed names none that is taken; lsl_parse() finds  *)
(* each directory it has made, and makes none that is there.               *)
(***************************************************************************)
OnceTree(P) ==
  /\ \A d, e \in DOMAIN P : P[d] = P[e] => d = e
  /\ \A i \in Ids : \A c \in Links(i) : file[c].dir => c \in DOMAIN P

OnceThread(P, t) ==
  /\ "json" \in uses[t] =>
       /\ pc[t] = "walk" => entry[t] \notin lines[t]
       /\ \A q \in Listing[t] \cap Directories :
            q \in lines[t] \/ (pc[t] = "walk" /\ entry[t] = q) => \A d \in DOMAIN P : P[d] # q
  /\ "lsl" \in uses[t] => \A d \in DOMAIN P \ {Root} :
       P[d] \in DirectoriesOf(uses, t) => file[d].stamp = "none" /\ d \in Links(file[d].parent)
  /\ pc[t] = "make" =>
       "lsl" \in uses[t] /\ \A d \in DOMAIN P : P[d] # Append(P[at[t]], Head(rest[t]))

Once(P) == OnceTree(P) /\ \A t \in Threads : OnceThread(P, t)

\* Where nothing equal is found, no child is equal.
LEMMA NotFound ==
  ASSUME Tree, NEW i \in Ids, NEW f, FirstChild(i, f, TRUE) = Null, NEW c \in Links(i)
  PROVE  ~SameFile(c, f)
<1> DEFINE Hit(x) == IF TRUE THEN SameFile(x, f) ELSE SameDirectory(x, f)
           hits == {k \in DOMAIN children[i] : Hit(children[i][k])}
<1>1. hits # {} => FirstChild(i, f, TRUE) = children[i][Min(hits)]
  BY DEF FirstChild
<1>2. hits \subseteq Nat /\ hits \subseteq DOMAIN children[i]
  BY DEF Tree
<1>3. PICK k \in DOMAIN children[i] : c = children[i][k]
  BY DEF Links
<1>4. ASSUME SameFile(c, f) PROVE FALSE
  <2>1. k \in hits
    BY <1>3, <1>4
  <2> HIDE DEF hits
  <2>2. Min(hits) \in DOMAIN children[i]
    BY <1>2, <2>1, LeastIsMin
  <2>3. FirstChild(i, f, TRUE) \in Links(i)
    BY <1>1, <2>1, <2>2 DEF Links
  <2>4. Null \notin Links(i)
    BY FileIds DEF Tree, Null
  <2> QED
    BY <2>3, <2>4
<1> QED
  BY <1>4

\* A directory that lsl_parse() is to make is one of its listing.
LEMMA MakesItsOwn ==
  ASSUME AtWork, Busy, Usual, NEW P, PlacedTree(P), NEW t \in Threads, PlacedThread(P, t),
         pc[t] \in {"walk", "make"}, "lsl" \in uses[t], Len(rest[t]) > 1
  PROVE  Append(P[at[t]], Head(rest[t])) \in DirectoriesOf(uses, t)
<1> PICK p, r, e : p = P[at[t]] /\ r = rest[t] /\ e = entry[t]
  OBVIOUS
<1>1. /\ p \in Seq(PathNames) /\ r \in Seq(PathNames) /\ e = p \o r /\ Len(r) > 1 /\ Len(r) > 0
      /\ e \in Listing[t]
  BY DEF PlacedTree, PlacedThread, AtWork
<1>2. SubSeq(e, 1, Len(p) + 1) = Append(p, Head(r)) /\ Len(p) + 1 \in 1..(Len(e) - 1)
  BY <1>1, OneMore
<1>3. Append(p, Head(r)) \in Above(e)
  BY <1>2 DEF Above
<1>4. "json" \notin uses[t]
  BY AsUsual
<1> QED
  BY <1>1, <1>3, <1>4 DEF DirectoriesOf

\* What two threads list is not the same.
LEMMA ListsOnce ==
  ASSUME ListedOnce, Busy, NEW t \in Threads, Lists(uses, t), NEW u \in Threads,
         t # u, Lists(uses, u)
  PROVE  DirectoriesOf(uses, t) \cap DirectoriesOf(uses, u) = {}
<1>1. uses \in Uses
  BY DEF Busy
<1> QED
  BY <1>1 DEF ListedOnce

\* The others are where they were.
LEMMA OnceOthers ==
  ASSUME NEW P, NEW Q, NEW u \in Threads, OnceThread(P, u), PlacedTree(P), PlacedThread(P, u),
         Grows(P, Q), uses' = uses,
         lines'[u] = lines[u], pc'[u] = pc[u], at'[u] = at[u], rest'[u] = rest[u],
         entry'[u] = entry[u],
         Len(file) + 1 \notin DOMAIN P,
         \A d \in DOMAIN P : file'[d] = file[d],
         \A d \in DOMAIN P \ {Root} : Links(file[d].parent) \subseteq Links(file[d].parent)',
         Len(file) + 1 \in DOMAIN Q =>
           /\ Lists(uses, u) => Q[Len(file) + 1] \notin DirectoriesOf(uses, u)
           /\ pc[u] = "make" => Append(P[at[u]], Head(rest[u])) \in DirectoriesOf(uses, u)
  PROVE  OnceThread(Q, u)'
<1> PICK new : new = Len(file) + 1
  OBVIOUS
<1>1. /\ \A d \in DOMAIN Q : d \in DOMAIN P \/ d = new
      /\ \A d \in DOMAIN P : d \in DOMAIN Q /\ Q[d] = P[d]
  BY DEF Grows
<1>2. "json" \in uses[u] =>
       /\ pc[u] = "walk" => entry[u] \notin lines[u]
       /\ \A q \in Listing[u] \cap Directories :
            q \in lines[u] \/ (pc[u] = "walk" /\ entry[u] = q) => \A d \in DOMAIN Q : Q[d] # q
  <2> SUFFICES ASSUME "json" \in uses[u]
               PROVE  /\ pc[u] = "walk" => entry[u] \notin lines[u]
                      /\ \A q \in Listing[u] \cap Directories :
                           q \in lines[u] \/ (pc[u] = "walk" /\ entry[u] = q) => \A d \in DOMAIN Q : Q[d] # q
    OBVIOUS
  <2>1. Lists(uses, u) /\ DirectoriesOf(uses, u) = Listing[u] \cap Directories
    BY DEF Lists, DirectoriesOf
  <2>2. new \in DOMAIN Q => Q[new] \notin Listing[u] \cap Directories
    BY <2>1
  <2> QED
    BY <1>1, <2>2 DEF OnceThread
<1>3. "lsl" \in uses[u] => \A d \in DOMAIN Q \ {Root} :
        Q[d] \in DirectoriesOf(uses, u) => (file[d].stamp = "none" /\ d \in Links(file[d].parent))'
  <2> SUFFICES ASSUME "lsl" \in uses[u], NEW d \in DOMAIN Q \ {Root}, Q[d] \in DirectoriesOf(uses, u)
               PROVE  (file[d].stamp = "none" /\ d \in Links(file[d].parent))'
    OBVIOUS
  <2>1. Lists(uses, u)
    BY DEF Lists
  <2>2. d \in DOMAIN P /\ P[d] \in DirectoriesOf(uses, u)
    BY <1>1, <2>1
  <2>3. file[d].stamp = "none" /\ d \in Links(file[d].parent)
    BY <2>2 DEF OnceThread
  <2> QED
    BY <2>2, <2>3
<1>4. pc[u] = "make" =>
        "lsl" \in uses[u] /\ \A d \in DOMAIN Q : Q[d] # Append(Q[at[u]], Head(rest[u]))
  <2> SUFFICES ASSUME pc[u] = "make"
               PROVE  "lsl" \in uses[u] /\ \A d \in DOMAIN Q : Q[d] # Append(Q[at[u]], Head(rest[u]))
    OBVIOUS
  <2>1. "lsl" \in uses[u] /\ \A d \in DOMAIN P : P[d] # Append(P[at[u]], Head(rest[u]))
    BY DEF OnceThread
  <2>2. Lists(uses, u) /\ at[u] \in DOMAIN P
    BY <2>1 DEF Lists, PlacedThread
  <2>3. Q[at[u]] = P[at[u]]
    BY <1>1, <2>2
  <2> QED
    BY <1>1, <2>1, <2>2, <2>3
<1>5. DirectoriesOf(uses, u)' = DirectoriesOf(uses, u)
  BY DEF DirectoriesOf
<1> QED
  BY <1>2, <1>3, <1>4, <1>5 DEF OnceThread

\* The first tree has one directory.
LEMMA OnceInit ==
  ASSUME Init, NEW P, PlacedTree(P), DOMAIN P = {Root}
  PROVE  Once(P)
<1>1. /\ \A t \in Threads : pc[t] = "idle"
      /\ \A t \in Threads : "json" \in uses[t] => lines[t] = Listing[t]
      /\ children = [i \in 1..MaxFiles |-> <<>>]
  BY DEF Init
<1>2. \A i \in Ids : Links(i) = {}
  BY <1>1 DEF Links, Ids
<1>3. P[Root] = <<>>
  BY DEF PlacedTree
<1>4. ASSUME NEW t \in Threads PROVE OnceThread(P, t)
  <2>1. \A q \in Listing[t] : q # <<>>
    BY PathTypes
  <2> QED
    BY <1>1, <1>3, <2>1 DEF OnceThread
<1> QED
  BY <1>2, <1>4 DEF Once, OnceTree

\* What is known of a thread and its places.
LEMMA PlacesOf ==
  ASSUME NEW P, NEW M, Known(P, M), Tree
  PROVE  /\ PlacedTree(P) /\ Len(file) + 1 \notin DOMAIN P
         /\ \A t \in Threads : PlacedThread(P, t)
         /\ \A d \in DOMAIN P : d \in DOMAIN file /\ d \in Ids /\ file[d].dir
         /\ \A d \in DOMAIN P \ {Root} : file[d].parent \in DOMAIN P
         /\ P[Root] = <<>> /\ Grows(P, P)
<1>1. PlacedTree(P) /\ \A t \in Threads : PlacedThread(P, t)
  BY DEF Known
<1>2. DOMAIN P \subseteq DOMAIN file
  BY <1>1 DEF PlacedTree
<1>3. Len(file) + 1 \notin DOMAIN P
  BY <1>2, FileIds
<1>4. \A d \in DOMAIN P : d \in DOMAIN file /\ d \in Ids /\ file[d].dir
  BY <1>1, <1>2, FileIds DEF PlacedTree
<1>5. Grows(P, P)
  BY DEF Grows
<1>6. P[Root] = <<>> /\ \A d \in DOMAIN P \ {Root} : file[d].parent \in DOMAIN P
  BY <1>1 DEF PlacedTree
<1> QED
  BY <1>1, <1>3, <1>4, <1>5, <1>6

\* A thread goes on, and no file is touched.
LEMMA OnceOnward ==
  ASSUME Tree, Busy, NEW P, NEW M, Known(P, M), Once(P), NEW t \in Threads, NEW from, NEW to,
         Goto(t, from, to), UNCHANGED <<file, children>>,
         \A u \in Threads \ {t} : /\ lines'[u] = lines[u] /\ at'[u] = at[u]
                                  /\ rest'[u] = rest[u] /\ entry'[u] = entry[u],
         OnceThread(P, t)'
  PROVE  Once(P)'
<1>1. OnceTree(P)'
  BY DEF Once, OnceTree, Links
<1>2. uses' = uses /\ \A u \in Threads \ {t} : pc'[u] = pc[u]
  BY DEF Goto, Busy
<1>3. ASSUME NEW u \in Threads, u # t PROVE OnceThread(P, u)'
  <2>1. OnceThread(P, u)
    BY DEF Once
  <2>2. PlacedTree(P) /\ PlacedThread(P, u) /\ Grows(P, P) /\ Len(file) + 1 \notin DOMAIN P
    BY PlacesOf
  <2>3. \A d \in DOMAIN P : file'[d] = file[d] /\ Links(file[d].parent) \subseteq Links(file[d].parent)'
    BY DEF Links
  <2>4. /\ lines'[u] = lines[u] /\ at'[u] = at[u] /\ rest'[u] = rest[u] /\ entry'[u] = entry[u]
        /\ pc'[u] = pc[u] /\ uses' = uses
    BY <1>2, <1>3
  <2> QED
    BY <2>1, <2>2, <2>3, <2>4, OnceOthers
<1> QED
  BY <1>1, <1>3 DEF Once

\* A thread that is not on its way.
LEMMA OnceResting ==
  ASSUME NEW P, NEW t \in Threads, OnceThread(P, t), uses' = uses,
         pc'[t] \notin {"walk", "make"}, lines'[t] = lines[t],
         \A d \in DOMAIN P \ {Root} : /\ file'[d] = file[d]
                                    /\ Links(file[d].parent) \subseteq Links(file[d].parent)'
  PROVE  OnceThread(P, t)'
<1>1. DirectoriesOf(uses, t)' = DirectoriesOf(uses, t)
  BY DEF DirectoriesOf
<1>2. "lsl" \in uses[t] => \A d \in DOMAIN P \ {Root} :
        P[d] \in DirectoriesOf(uses, t) => (file[d].stamp = "none" /\ d \in Links(file[d].parent))'
  BY DEF OnceThread
<1> QED
  BY <1>1, <1>2 DEF OnceThread

\* A line comes.
LEMMA OnceNextLine ==
  ASSUME Tree, Busy, AtWork, NEW P, NEW M, Known(P, M), Once(P), NEW t \in Threads, NextLine(t)
  PROVE  Once(P)'
<1>1. PICK path \in lines[t] :
        /\ Goto(t, "idle", "walk") /\ lines' = [lines EXCEPT ![t] = lines[t] \ {path}]
        /\ at' = [at EXCEPT ![t] = Root]
        /\ rest' = [rest EXCEPT ![t] = path] /\ entry' = [entry EXCEPT ![t] = path]
        /\ UNCHANGED <<file, children>>
  BY DEF NextLine
<1>2. /\ lines'[t] = lines[t] \ {path} /\ entry'[t] = path
      /\ pc'[t] = "walk" /\ uses' = uses
  BY <1>1 DEF AtWork, Goto, Busy
<1>3. \A u \in Threads \ {t} : /\ lines'[u] = lines[u] /\ at'[u] = at[u]
                               /\ rest'[u] = rest[u] /\ entry'[u] = entry[u]
  BY <1>1 DEF AtWork
<1>4. OnceThread(P, t)'
  <2>1. OnceThread(P, t)
    BY DEF Once
  <2>2. DirectoriesOf(uses, t)' = DirectoriesOf(uses, t)
    BY <1>2 DEF DirectoriesOf
  <2>3. \A i : Links(i)' = Links(i)
    BY <1>1 DEF Links
  <2>4. "lsl" \in uses[t] => \A d \in DOMAIN P \ {Root} :
          P[d] \in DirectoriesOf(uses, t) => (file[d].stamp = "none" /\ d \in Links(file[d].parent))'
    BY <1>1, <2>1, <2>3 DEF OnceThread
  <2>5. "json" \in uses[t] =>
          \A q \in Listing[t] \cap Directories : q \in lines[t] => \A d \in DOMAIN P : P[d] # q
    BY <2>1 DEF OnceThread
  <2> QED
    BY <1>2, <2>2, <2>4, <2>5 DEF OnceThread
<1> QED
  BY <1>1, <1>3, <1>4, OnceOnward

\* json_parse() goes down.
LEMMA OnceWalkJson ==
  ASSUME Tree, Busy, AtWork, NEW P, NEW M, Known(P, M), Once(P), NEW t \in Threads, WalkJson(t)
  PROVE  Once(P)'
<1>1. /\ Goto(t, "walk", "walk") /\ UNCHANGED <<file, children, lines, entry>>
      /\ (\E i : at' = [at EXCEPT ![t] = i]) /\ (\E r : rest' = [rest EXCEPT ![t] = r])
  BY DEF WalkJson
<1>2. pc[t] = "walk" /\ pc'[t] = "walk" /\ uses' = uses
  BY <1>1 DEF Goto, Busy
<1>3. \A u \in Threads \ {t} : /\ lines'[u] = lines[u] /\ at'[u] = at[u]
                               /\ rest'[u] = rest[u] /\ entry'[u] = entry[u]
  BY <1>1 DEF AtWork
<1>4. OnceThread(P, t)'
  <2>1. OnceThread(P, t)
    BY DEF Once
  <2>2. DirectoriesOf(uses, t)' = DirectoriesOf(uses, t)
    BY <1>2 DEF DirectoriesOf
  <2>3. \A i : Links(i)' = Links(i)
    BY <1>1 DEF Links
  <2>4. "lsl" \in uses[t] => \A d \in DOMAIN P \ {Root} :
          P[d] \in DirectoriesOf(uses, t) => (file[d].stamp = "none" /\ d \in Links(file[d].parent))'
    BY <1>1, <2>1, <2>3 DEF OnceThread
  <2> QED
    BY <1>1, <1>2, <2>1, <2>2, <2>4 DEF OnceThread
<1> QED
  BY <1>1, <1>3, <1>4, OnceOnward

\* lsl_parse() goes down, or stops to make a directory that is not there.
LEMMA OnceWalkLsl ==
  ASSUME Usual, Tree, Busy, AtWork, NEW P, NEW M, Known(P, M), Once(P), NEW t \in Threads, WalkLsl(t)
  PROVE  Once(P)'
<1> DEFINE n == Head(rest[t])
           f == MakeFile(n, TRUE, "none", at[t])
           dir == FirstChild(at[t], f, TRUE)
<1>1. /\ "lsl" \in uses[t] /\ Len(rest[t]) > 1
      /\ Goto(t, "walk", IF dir # Null THEN "walk" ELSE "make")
      /\ at' = [at EXCEPT ![t] = IF dir # Null THEN dir ELSE at[t]]
      /\ rest' = [rest EXCEPT ![t] = IF dir # Null THEN Tail(rest[t]) ELSE rest[t]]
      /\ UNCHANGED <<file, children, lines, entry>>
  BY DEF WalkLsl
<1>2. /\ at[t] \in Ids /\ at[t] \in DOMAIN P /\ pc[t] = "walk" /\ uses' = uses
      /\ "json" \notin uses[t] /\ PlacedTree(P)
      /\ Append(P[at[t]], n) \in DirectoriesOf(uses, t)
      /\ P[at[t]] \in Seq(PathNames) /\ n \in PathNames
  <2>1. PlacedTree(P) /\ PlacedThread(P, t)
    BY PlacesOf
  <2>2. pc[t] = "walk" /\ uses' = uses
    BY <1>1 DEF Goto
  <2>3. Append(P[at[t]], Head(rest[t])) \in DirectoriesOf(uses, t)
    BY <1>1, <2>1, <2>2, MakesItsOwn
  <2>4. at[t] \in DOMAIN P /\ rest[t] \in Seq(PathNames)
    BY <2>1, <2>2 DEF PlacedThread
  <2>5. P[at[t]] \in Seq(PathNames) /\ n \in PathNames
    <3>1. Len(rest[t]) > 0
      BY <1>1, <2>4
    <3> QED
      BY <2>1, <2>4, <3>1, Lefts DEF PlacedTree
  <2> QED
    BY <1>1, <2>1, <2>2, <2>3, <2>4, <2>5, AsUsual DEF AtWork
<1>3. PICK none : none = "none"
  OBVIOUS
<1>4. f.name = n /\ f.dir = TRUE /\ f.stamp = none
  BY <1>3, Zenon DEF MakeFile
<1> HIDE DEF f
<1>5. ASSUME dir = Null, NEW d \in DOMAIN P, P[d] = Append(P[at[t]], n)
      PROVE  FALSE
  <2>1. d # Root
    <3>1. Append(P[at[t]], n) # <<>>
      BY <1>2, Appended
    <3> QED
      BY <1>2, <1>5, <3>1 DEF PlacedTree
  <2>2. /\ file[d].stamp = none /\ d \in Links(file[d].parent)
    <3>1. OnceThread(P, t)
      BY DEF Once
    <3> QED
      BY <1>1, <1>2, <1>3, <1>5, <2>1, <3>1 DEF OnceThread
  <2>3. /\ file[d].parent \in DOMAIN P /\ P[d] = Append(P[file[d].parent], file[d].name)
        /\ file[d].dir /\ file[d].name \in PathNames /\ d \in DOMAIN file
        /\ P[file[d].parent] \in Seq(PathNames)
    BY <1>2, <2>1 DEF PlacedTree
  <2>5. P[file[d].parent] = P[at[t]] /\ file[d].name = n
    <3>1. PICK p, q, x : p = P[file[d].parent] /\ q = P[at[t]] /\ x = file[d].name
      OBVIOUS
    <3>2. Append(p, x) = Append(q, n)
      BY <1>5, <2>3, <3>1
    <3>3. p \in Seq(PathNames) /\ q \in Seq(PathNames) /\ x \in PathNames /\ n \in PathNames
      BY <1>2, <2>3, <3>1
    <3> HIDE DEF n
    <3>4. p = q /\ x = n
      BY <3>2, <3>3, AppendInjective
    <3> QED
      BY <3>1, <3>4
  <2>6. file[d].parent = at[t]
    BY <1>2, <2>3, <2>5 DEF Once, OnceTree
  <2>7. SameFile(d, f)
    <3>1. file[d].dir = TRUE
      <4>1. file[d] \in FileType
        BY <2>3 DEF Tree
      <4> QED
        BY <2>3, <4>1 DEF FileType
    <3> QED
      BY <1>4, <2>2, <2>5, <3>1 DEF SameFile
  <2>8. ~SameFile(d, f)
    BY <1>2, <1>5, <2>2, <2>6, NotFound
  <2> QED
    BY <2>7, <2>8
<1> HIDE DEF dir
<1>6. \A u \in Threads \ {t} : /\ lines'[u] = lines[u] /\ at'[u] = at[u]
                               /\ rest'[u] = rest[u] /\ entry'[u] = entry[u]
  BY <1>1 DEF AtWork
<1>7. pc'[t] = "make" => dir = Null /\ at'[t] = at[t] /\ rest'[t] = rest[t]
  BY <1>1 DEF AtWork, Goto, Busy
<1>8. OnceThread(P, t)'
  <2>1. OnceThread(P, t)
    BY DEF Once
  <2>2. DirectoriesOf(uses, t)' = DirectoriesOf(uses, t)
    BY <1>2 DEF DirectoriesOf
  <2>3. \A i : Links(i)' = Links(i)
    BY <1>1 DEF Links
  <2>4. "lsl" \in uses[t] => \A d \in DOMAIN P \ {Root} :
          P[d] \in DirectoriesOf(uses, t) => (file[d].stamp = "none" /\ d \in Links(file[d].parent))'
    BY <1>1, <2>1, <2>3 DEF OnceThread
  <2> QED
    BY <1>1, <1>2, <1>5, <1>7, <2>2, <2>4 DEF OnceThread
<1> QED
  BY <1>1, <1>6, <1>8, OnceOnward

\* A thread looks through the children of a directory.
LEMMA OnceScan ==
  ASSUME Tree, Busy, AtWork, NEW P, NEW M, Known(P, M), Once(P), NEW t \in Threads,
         Scan(t) \/ \E i, n : AddIfNotExist(t, i, n)
  PROVE  Once(P)'
<1>1. PICK from \in {"idle", "scan"}, to \in {"idle", "scan", "push"} : Goto(t, from, to)
  BY DEF Scan, AddIfNotExist
<1>2. UNCHANGED <<file, children, lines, entry>>
  BY DEF Scan, AddIfNotExist
<1>3. \A u \in Threads \ {t} : /\ lines'[u] = lines[u] /\ at'[u] = at[u]
                               /\ rest'[u] = rest[u] /\ entry'[u] = entry[u]
  BY DEF Scan, AddIfNotExist, AtWork
<1>4. pc'[t] \notin {"walk", "make"} /\ uses' = uses
  BY <1>1 DEF Goto, Busy
<1>5. OnceThread(P, t)'
  <2>1. OnceThread(P, t) /\ lines'[t] = lines[t]
    BY <1>2 DEF Once
  <2>2. \A d \in DOMAIN P : file'[d] = file[d] /\ Links(file[d].parent) \subseteq Links(file[d].parent)'
    BY <1>2 DEF Links
  <2> QED
    BY <1>4, <2>1, <2>2, OnceResting
<1> QED
  BY <1>1, <1>2, <1>3, <1>5, OnceOnward

\* A file is copied, moved or assigned.
LEMMA OnceTransfer ==
  ASSUME Usual, Tree, Busy, AtWork, NEW P, NEW M, Known(P, M), Once(P), NEW t \in Threads,
         NEW to \in Ids, NEW from \in DOMAIN file, NEW moves \in BOOLEAN,
         to # from, to \in 1..(Len(file) + 1), moves => ~file[from].dir,
         to \in DOMAIN file => ~file[to].dir /\ ~file[from].dir,
         Transfer(t, to, from, moves)
  PROVE  Once(P)'
<1>1. Goto(t, "idle", "idle") /\ UNCHANGED <<lines, at, rest, entry>>
  BY DEF Transfer
<1>2. uses' = uses /\ \A u \in Threads : pc'[u] = pc[u]
  BY <1>1 DEF Goto, Busy
<1>3. SameKinds /\ Becomes(to, from, moves)
  BY TreeTransfer
<1>4. \A d \in DOMAIN P : d \in DOMAIN file /\ file[d].dir /\ file'[d] = file[d] /\ children'[d] = children[d]
  BY <1>3, PlacesOf DEF Becomes
<1>5. \A d \in DOMAIN P \ {Root} : Links(file[d].parent) \subseteq Links(file[d].parent)'
  BY SMTT(60), <1>4, PlacesOf DEF Links
<1>6. ASSUME NEW i \in Ids, NEW c \in Links(i)', file'[c].dir PROVE c \in DOMAIN P
  <2>1. children' = [j \in DOMAIN children \cup {to} |->
                       IF j = to THEN children[from]
                       ELSE IF moves /\ j = from THEN <<>> ELSE children[j]]
    BY DEF Transfer
  <2>2. i \in DOMAIN children /\ from \in Ids
    BY FileIds DEF Tree
  <2>3. children'[i] \in {children[from], children[i], <<>>}
    BY <2>1, <2>2
  <2>4. c \in Links(from) \/ c \in Links(i)
    BY <2>3 DEF Links
  <2>5. c \in DOMAIN file
    BY <2>2, <2>4 DEF Tree
  <2>6. file[c].dir
    BY <1>3, <1>6, <2>5 DEF SameKinds
  <2> QED
    BY <2>2, <2>4, <2>6 DEF Once, OnceTree
<1>7. OnceTree(P)'
  BY <1>6 DEF Once, OnceTree
<1>8. ASSUME NEW u \in Threads PROVE OnceThread(P, u)'
  <2>1. OnceThread(P, u)
    BY DEF Once
  <2>2. PlacedTree(P) /\ PlacedThread(P, u) /\ Grows(P, P) /\ Len(file) + 1 \notin DOMAIN P
    BY PlacesOf
  <2>3. /\ lines'[u] = lines[u] /\ at'[u] = at[u] /\ rest'[u] = rest[u] /\ entry'[u] = entry[u]
        /\ pc'[u] = pc[u] /\ uses' = uses
    BY <1>1, <1>2
  <2> QED
    BY <1>4, <1>5, <2>1, <2>2, <2>3, OnceOthers
<1> QED
  BY <1>7, <1>8 DEF Once

\* The new file is a child of its parent, and no file has lost a child.
LEMMA LinksPush ==
  ASSUME Tree, NEW t \in Threads, NEW f \in FileType, NEW line \in Seq(Text),
         Push(t, f, line), IsDirectory(f.parent)
  PROVE  /\ \A i \in Ids : Links(i) \subseteq Links(i)'
         /\ \A i \in Ids : i # f.parent => Links(i)' = Links(i)
         /\ Links(f.parent)' = Links(f.parent) \cup {Len(file) + 1}
         /\ \A d \in DOMAIN file : file[d].parent \in Ids =>
              file'[d] = file[d] /\ Links(file[d].parent) \subseteq Links(file[d].parent)'
<1> PICK new : new = Len(file) + 1
  OBVIOUS
<1>1. /\ new \in Ids /\ f.parent \in Ids
      /\ \A i \in DOMAIN file : file'[i] = file[i]
      /\ children' = [children EXCEPT ![f.parent] = Append(children[f.parent], new)]
  BY TreePush
<1>2. /\ \A i \in Ids : Links(i) \subseteq Links(i)'
      /\ \A i \in Ids : i # f.parent => Links(i)' = Links(i)
      /\ Links(f.parent)' = Links(f.parent) \cup {new}
  <2>1. /\ children'[f.parent] = Append(children[f.parent], new)
        /\ \A i \in Ids : i # f.parent => children'[i] = children[i]
    BY <1>1 DEF Tree
  <2>2. Links(f.parent)' = Links(f.parent) \cup {new}
    <3>1. PICK s : s = children[f.parent]
      OBVIOUS
    <3>2. s \in Seq(Ids)
      BY <1>1, <3>1 DEF Tree
    <3>3. /\ DOMAIN Append(s, new) = DOMAIN s \cup {Len(s) + 1} /\ Append(s, new)[Len(s) + 1] = new
          /\ \A k \in DOMAIN s : Append(s, new)[k] = s[k]
      BY <1>1, <3>2
    <3> QED
      BY <2>1, <3>1, <3>3 DEF Links
  <2>3. \A i \in Ids : i # f.parent => Links(i)' = Links(i)
    BY <2>1 DEF Links
  <2> QED
    BY <2>2, <2>3
<1>3. ASSUME NEW d \in DOMAIN file, file[d].parent \in Ids, NEW c \in Links(file[d].parent)
      PROVE  (c \in Links(file[d].parent))'
  <2>1. PICK i \in Ids : i = file[d].parent
    BY <1>3
  <2>2. c \in Links(i)'
    BY <1>2, <1>3, <2>1
  <2>3. file'[d].parent = i
    BY <1>1, <2>1
  <2> QED
    BY <2>2, <2>3 DEF Links
<1> QED
  BY <1>1, <1>2, <1>3

\* A file is pushed: if it is a directory, it is one that its thread lists, and
\* its place is free.
LEMMA OncePush ==
  ASSUME Usual, ListedOnce, Tree, Busy, AtWork, NEW P, NEW M, Known(P, M), Once(P),
         NEW t \in Threads, NEW f \in FileType, NEW line \in Seq(Text), NEW from, NEW to,
         Goto(t, from, to), Push(t, f, line), IsDirectory(f.parent),
         NEW Q, Grows(P, Q), PlacedTree(Q)',
         f.dir => f.parent \in DOMAIN P,
         Len(file) + 1 \in DOMAIN Q =>
           /\ Lists(uses, t) /\ Q[Len(file) + 1] \in DirectoriesOf(uses, t)
           /\ \A d \in DOMAIN P : P[d] # Q[Len(file) + 1],
         \A u \in Threads \ {t} : /\ lines'[u] = lines[u] /\ at'[u] = at[u]
                                  /\ rest'[u] = rest[u] /\ entry'[u] = entry[u],
         OnceThread(Q, t)'
  PROVE  Once(Q)'
<1> PICK new : new = Len(file) + 1
  OBVIOUS
<1>1. /\ new \in Ids /\ f.parent \in Ids /\ file'[new] = f
      /\ \A i \in DOMAIN file : file'[i] = file[i]
      /\ children' = [children EXCEPT ![f.parent] = Append(children[f.parent], new)]
  BY TreePush
<1>2. /\ \A d \in DOMAIN Q : d \in DOMAIN P \/ d = new
      /\ \A d \in DOMAIN P : d \in DOMAIN Q /\ Q[d] = P[d] /\ file'[d] = file[d]
  BY <1>1, PlacesOf DEF Grows
<1>3. ASSUME NEW d \in DOMAIN Q, NEW e \in DOMAIN Q, Q[d] = Q[e] PROVE d = e
  BY <1>2, <1>3 DEF Once, OnceTree
<1>4. /\ \A i \in Ids : i # f.parent => Links(i)' = Links(i)
      /\ Links(f.parent)' = Links(f.parent) \cup {new}
  BY LinksPush
<1>5. ASSUME NEW i \in Ids, NEW c \in Links(i)', file'[c].dir PROVE c \in DOMAIN Q
  <2>1. CASE c \in Links(i)
    <3>1. c \in DOMAIN file
      BY <2>1 DEF Tree
    <3>2. file[c].dir
      BY <1>1, <1>5, <3>1
    <3> QED
      BY <1>2, <2>1, <3>2 DEF Once, OnceTree
  <2>2. CASE c = new /\ i = f.parent
    <3>1. f.dir /\ f.parent \in DOMAIN Q
      BY <1>1, <1>2, <1>5, <2>2
    <3> QED
      BY <1>5, <2>2, <3>1 DEF PlacedTree
  <2> QED
    BY <1>4, <2>1, <2>2
<1>6. OnceTree(Q)'
  BY <1>3, <1>5 DEF OnceTree
<1>7. ASSUME NEW u \in Threads, u # t PROVE OnceThread(Q, u)'
  <2>1. OnceThread(P, u)
    BY DEF Once
  <2>2. PlacedTree(P) /\ PlacedThread(P, u) /\ new \notin DOMAIN P
    BY PlacesOf
  <2>3. uses' = uses /\ pc'[u] = pc[u]
    BY <1>7 DEF Goto, Busy
  <2>4. /\ lines'[u] = lines[u] /\ at'[u] = at[u] /\ rest'[u] = rest[u] /\ entry'[u] = entry[u]
    BY <1>7
  <2>5. \A d \in DOMAIN P \ {Root} : Links(file[d].parent) \subseteq Links(file[d].parent)'
    <3>1. \A d \in DOMAIN P \ {Root} : d \in DOMAIN file /\ file[d].parent \in Ids
      BY PlacesOf
    <3> QED
      BY <3>1, LinksPush
  <2>6. ASSUME new \in DOMAIN Q, Lists(uses, u) PROVE Q[new] \notin DirectoriesOf(uses, u)
    BY <1>7, <2>6, ListsOnce
  <2>7. ASSUME pc[u] = "make" PROVE Append(P[at[u]], Head(rest[u])) \in DirectoriesOf(uses, u)
    <3>1. "lsl" \in uses[u]
      BY <2>1, <2>7 DEF OnceThread
    <3>2. Len(rest[u]) > 1
      BY <2>7 DEF AtWork
    <3> QED
      BY <2>2, <2>7, <3>1, <3>2, MakesItsOwn
  <2> QED
    BY <1>2, <2>1, <2>2, <2>3, <2>4, <2>5, <2>6, <2>7, OnceOthers
<1> QED
  BY <1>6, <1>7 DEF Once

\* A file that is no directory is pushed.
LEMMA OncePushNew ==
  ASSUME Usual, ListedOnce, Tree, Busy, AtWork, NEW P, NEW M, Known(P, M), Known(P, M)', Once(P),
         NEW t \in Threads, PushNew(t)
  PROVE  Once(P)'
<1> PICK f : f = Added(t)
  OBVIOUS
<1>1. /\ Goto(t, "push", "idle") /\ Push(t, f, Unlisted)
      /\ UNCHANGED <<lines, at, rest, entry>>
  BY DEF PushNew
<1>2. /\ pc'[t] = "idle" /\ uses' = uses /\ IsDirectory(at[t]) /\ Len(rest[t]) > 0
      /\ rest[t] \in Seq(Text) /\ at[t] \in Nat
  BY <1>1 DEF AtWork, Goto, Busy, Ids
<1>3. f \in FileType /\ f.parent = at[t] /\ ~f.dir
  <2>1. rest[t][1] \in Text
    BY <1>2, Lefts
  <2>2. \A stamp \in Stamps :
          /\ MakeFile(rest[t][1], FALSE, stamp, at[t]) \in FileType
          /\ MakeFile(rest[t][1], FALSE, stamp, at[t]).parent = at[t]
          /\ ~MakeFile(rest[t][1], FALSE, stamp, at[t]).dir
    BY <1>2, <2>1 DEF MakeFile, FileType
  <2> QED
    BY <2>2, Texts, Zenon DEF Added
<1>4. Unlisted \in Seq(Text) /\ IsDirectory(f.parent)
  BY <1>2, <1>3 DEF Unlisted
<1>5. /\ Grows(P, P) /\ Len(file) + 1 \notin DOMAIN P
      /\ \A d \in DOMAIN P \ {Root} : d \in DOMAIN file /\ file[d].parent \in Ids
  BY PlacesOf
<1>6. PlacedTree(P)'
  BY DEF Known
<1>7. \A d \in DOMAIN P \ {Root} :
        file'[d] = file[d] /\ Links(file[d].parent) \subseteq Links(file[d].parent)'
  BY <1>1, <1>3, <1>4, <1>5, LinksPush
<1>8. OnceThread(P, t)'
  <2>1. OnceThread(P, t) /\ lines'[t] = lines[t]
    BY <1>1 DEF Once
  <2> QED
    BY <1>2, <1>7, <2>1, OnceResting
<1>9. \A u \in Threads \ {t} : /\ lines'[u] = lines[u] /\ at'[u] = at[u]
                               /\ rest'[u] = rest[u] /\ entry'[u] = entry[u]
  BY <1>1
<1> QED
  BY <1>1, <1>3, <1>4, <1>5, <1>6, <1>8, <1>9, OncePush

\* lsl_parse() makes a directory where it has found none, and will find it.
LEMMA OnceMakeDirectory ==
  ASSUME Usual, ListedOnce, Tree, Busy, AtWork, NEW P, NEW M, Known(P, M), Once(P),
         NEW Q, NEW N, Known(Q, N)', Grows(P, Q), NEW t \in Threads, MakeDirectory(t)
  PROVE  Once(Q)'
<1> PICK f, n, new, path, none :
       /\ f = NewDirectory(t) /\ n = Head(rest[t]) /\ new = Len(file) + 1
       /\ path = Append(P[at[t]], n) /\ none = "none"
  OBVIOUS
<1>1. /\ Goto(t, "make", "walk") /\ Push(t, f, Unlisted)
      /\ at' = [at EXCEPT ![t] = new] /\ rest' = [rest EXCEPT ![t] = Tail(rest[t])]
      /\ UNCHANGED <<lines, entry>>
  BY DEF MakeDirectory
<1>2. /\ pc[t] = "make" /\ pc'[t] = "walk" /\ uses' = uses /\ IsDirectory(at[t]) /\ Len(rest[t]) > 1
      /\ Len(rest[t]) > 0 /\ rest[t] \in Seq(Text) /\ at[t] \in Nat
  BY <1>1 DEF AtWork, Goto, Busy, Ids
<1>3. /\ PlacedTree(P) /\ PlacedThread(P, t) /\ at[t] \in DOMAIN P /\ PlacedTree(Q)'
  <2>1. PlacedTree(P) /\ PlacedThread(P, t) /\ PlacedTree(Q)'
    BY DEF Known
  <2> QED
    BY <1>2, <2>1 DEF PlacedThread
<1>4. "lsl" \in uses[t] /\ "json" \notin uses[t] /\ Lists(uses, t) /\ \A d \in DOMAIN P : P[d] # path
  <2>1. OnceThread(P, t)
    BY DEF Once
  <2>2. "lsl" \in uses[t] /\ \A d \in DOMAIN P : P[d] # path
    BY <1>2, <2>1 DEF OnceThread
  <2> QED
    BY <2>2, AsUsual DEF Lists
<1>5. path \in DirectoriesOf(uses, t)
  BY <1>2, <1>3, <1>4, MakesItsOwn
<1>6. f \in FileType /\ f.parent = at[t] /\ f.name = n /\ f.dir /\ f.stamp = none
  <2>1. n \in Text
    BY <1>2, Lefts
  <2>2. \A stamp \in Stamps :
          /\ MakeFile(n, TRUE, stamp, at[t]) \in FileType
          /\ MakeFile(n, TRUE, stamp, at[t]).parent = at[t]
          /\ MakeFile(n, TRUE, stamp, at[t]).name = n
          /\ MakeFile(n, TRUE, stamp, at[t]).dir
          /\ MakeFile(n, TRUE, stamp, at[t]).stamp = stamp
    BY <1>2, <2>1 DEF MakeFile, FileType
  <2> QED
    BY <2>2, Texts, Zenon DEF NewDirectory
<1>7. Unlisted \in Seq(Text) /\ IsDirectory(f.parent)
  BY <1>2, <1>6 DEF Unlisted
<1>8. file'[new] = f /\ new \in Ids
  BY <1>1, <1>6, <1>7, TreePush
<1>9. /\ \A d \in DOMAIN P \ {Root} : /\ file'[d] = file[d]
                                      /\ Links(file[d].parent) \subseteq Links(file[d].parent)'
      /\ Links(f.parent)' = Links(f.parent) \cup {new}
  <2>1. \A d \in DOMAIN P \ {Root} : d \in DOMAIN file /\ file[d].parent \in Ids
    BY PlacesOf
  <2> QED
    BY <1>1, <1>6, <1>7, <2>1, LinksPush
<1>10. new \in DOMAIN Q => Q[new] = path
  <2> SUFFICES ASSUME new \in DOMAIN Q PROVE Q[new] = path
    OBVIOUS
  <2>1. new # Root
    BY FileIds, <1>3 DEF PlacedTree
  <2>2. Q[new] = Append(Q[f.parent], f.name)
    <3>1. \A d \in DOMAIN Q \ {Root} : Q[d] = Append(Q[file'[d].parent], file'[d].name)
      BY <1>3 DEF PlacedTree
    <3>2. file'[new].parent = f.parent /\ file'[new].name = f.name
      BY <1>8
    <3> QED
      BY <2>1, <3>1, <3>2
  <2>3. Q[f.parent] = P[at[t]]
    BY <1>3, <1>6 DEF Grows
  <2> QED
    BY <1>6, <2>2, <2>3
<1>11. new \in DOMAIN Q => /\ Lists(uses, t) /\ Q[new] \in DirectoriesOf(uses, t)
                           /\ \A d \in DOMAIN P : P[d] # Q[new]
  BY <1>4, <1>5, <1>10
<1>12. OnceThread(Q, t)'
  <2>1. DirectoriesOf(uses, t)' = DirectoriesOf(uses, t)
    BY <1>2 DEF DirectoriesOf
  <2>2. ASSUME NEW d \in DOMAIN Q \ {Root}, Q[d] \in DirectoriesOf(uses, t)
        PROVE  (file[d].stamp = "none" /\ d \in Links(file[d].parent))'
    <3>1. CASE d = new
      <4>1. file'[d].stamp = "none" /\ file'[d].parent = f.parent
        BY <1>6, <1>8, <3>1
      <4>2. d \in Links(f.parent)'
        BY <1>9, <3>1
      <4> QED
        BY <4>1, <4>2 DEF Links
    <3>2. CASE d \in DOMAIN P
      <4>1. file[d].stamp = "none" /\ d \in Links(file[d].parent)
        BY <1>4, <2>2, <3>2 DEF Once, OnceThread, Grows
      <4> QED
        BY <1>9, <2>2, <3>2, <4>1
    <3> QED
      BY <2>2, <3>1, <3>2 DEF Grows
  <2>3. pc'[t] # "make" /\ "json" \notin uses'[t]
    BY <1>2, <1>4
  <2> QED
    BY <2>1, <2>2, <2>3 DEF OnceThread
<1>13. \A u \in Threads \ {t} : /\ lines'[u] = lines[u] /\ at'[u] = at[u]
                                /\ rest'[u] = rest[u] /\ entry'[u] = entry[u]
  BY <1>1 DEF AtWork
<1>14. f.dir => f.parent \in DOMAIN P
  BY <1>3, <1>6
<1> QED
  BY <1>1, <1>3, <1>6, <1>7, <1>11, <1>12, <1>13, <1>14, OncePush

\* The entry of a line is added: a directory where none was.
LEMMA OnceAddEntry ==
  ASSUME Usual, ListedOnce, Tree, Busy, AtWork, NEW P, NEW M, Known(P, M), Once(P),
         NEW Q, NEW N, Known(Q, N)', Grows(P, Q), NEW t \in Threads, AddEntry(t)
  PROVE  Once(Q)'
<1> PICK i, n, line, new : i = at[t] /\ n = Last(entry[t]) /\ line = entry[t] /\ new = Len(file) + 1
  OBVIOUS
<1> PICK isDir \in BOOLEAN : isDir = ("json" \in uses[t] /\ entry[t] \in Directories)
  OBVIOUS
<1> PICK stamp : stamp = IF isDir THEN "dir" ELSE "file"
  OBVIOUS
<1> PICK f : f = MakeFile(n, isDir, stamp, i)
  OBVIOUS
<1>1. /\ Goto(t, "walk", "idle") /\ Push(t, f, line) /\ Len(rest[t]) = 1
      /\ UNCHANGED <<lines, at, rest, entry>>
  BY DEF AddEntry
<1>2. /\ pc[t] = "walk" /\ pc'[t] = "idle" /\ uses' = uses /\ IsDirectory(i)
      /\ i \in Nat /\ line \in Listing[t] /\ line \in Seq(Text)
  BY <1>1 DEF AtWork, Goto, Busy, Ids
<1>3. PlacedTree(P) /\ PlacedThread(P, t) /\ PlacedTree(Q)' /\ OnceThread(P, t)
  BY DEF Known, Once
<1>4. /\ i \in DOMAIN P /\ rest[t] \in Seq(PathNames) /\ line = P[i] \o rest[t] /\ P[i] \in Seq(PathNames)
  BY <1>2, <1>3 DEF PlacedThread, PlacedTree
<1>5. n \in Text /\ line = Append(P[i], n)
  <2>1. PICK p, r : p = P[i] /\ r = rest[t]
    OBVIOUS
  <2>2. p \in Seq(PathNames) /\ r \in Seq(PathNames) /\ Len(r) = 1 /\ Len(r) > 0
    BY <1>1, <1>4, <2>1
  <2>3. p \o r = Append(p, Head(r)) /\ Last(p \o r) = Head(r)
    BY <2>2, OneMore
  <2>4. Head(r) \in PathNames
    BY <2>2, Lefts
  <2>5. PathNames \subseteq Text
    BY Texts DEF PathNames
  <2> QED
    BY <1>4, <2>1, <2>3, <2>4, <2>5
<1>6. f \in FileType /\ f.parent = i /\ f.name = n /\ (f.dir <=> isDir)
  <2>1. stamp \in Stamps
    BY Texts, Zenon
  <2> QED
    BY <1>2, <1>5, <2>1 DEF MakeFile, FileType
<1>7. IsDirectory(f.parent)
  BY <1>2, <1>6
<1>8. file'[new] = f
  BY <1>1, <1>2, <1>6, <1>7, TreePush
<1>9. \A d \in DOMAIN P \ {Root} :
        file'[d] = file[d] /\ Links(file[d].parent) \subseteq Links(file[d].parent)'
  <2>1. \A d \in DOMAIN P \ {Root} : d \in DOMAIN file /\ file[d].parent \in Ids
    BY PlacesOf
  <2> QED
    BY <1>1, <1>2, <1>6, <1>7, <2>1, LinksPush
<1>10. new \in DOMAIN Q => Q[new] = line /\ isDir
  <2> SUFFICES ASSUME new \in DOMAIN Q PROVE Q[new] = line /\ isDir
    OBVIOUS
  <2>1. new # Root
    BY FileIds, <1>3 DEF PlacedTree
  <2>2. Q[new] = Append(Q[f.parent], f.name) /\ f.dir
    <3>1. /\ \A d \in DOMAIN Q \ {Root} : Q[d] = Append(Q[file'[d].parent], file'[d].name)
          /\ \A d \in DOMAIN Q : file'[d].dir
      BY <1>3 DEF PlacedTree
    <3>2. file'[new].parent = f.parent /\ file'[new].name = f.name /\ file'[new].dir = f.dir
      BY <1>8
    <3>3. new \in DOMAIN Q \ {Root}
      BY <2>1
    <3>4. Q[new] = Append(Q[f.parent], f.name)
      BY SMTT(60), <3>1, <3>2, <3>3
    <3>5. file'[new].dir
      BY <3>1, <3>3
    <3> QED
      BY <3>2, <3>4, <3>5
  <2>3. Q[f.parent] = P[i]
    BY <1>4, <1>6 DEF Grows
  <2> QED
    BY <1>5, <1>6, <2>2, <2>3
<1>11. isDir => /\ "json" \in uses[t] /\ Lists(uses, t) /\ line \in Listing[t] \cap Directories
                /\ line \in DirectoriesOf(uses, t) /\ \A d \in DOMAIN P : P[d] # line
  <2> SUFFICES ASSUME isDir
               PROVE  /\ "json" \in uses[t] /\ Lists(uses, t) /\ line \in Listing[t] \cap Directories
                      /\ line \in DirectoriesOf(uses, t) /\ \A d \in DOMAIN P : P[d] # line
    OBVIOUS
  <2>1. "json" \in uses[t] /\ line \in Listing[t] \cap Directories
    BY <1>2
  <2>2. Lists(uses, t) /\ line \in DirectoriesOf(uses, t)
    BY <2>1 DEF Lists, DirectoriesOf
  <2>3. \A d \in DOMAIN P : P[d] # line
    BY <1>2, <1>3, <2>1 DEF OnceThread
  <2> QED
    BY <2>1, <2>2, <2>3
<1>12. new \in DOMAIN Q => /\ Lists(uses, t) /\ Q[new] \in DirectoriesOf(uses, t)
                           /\ \A d \in DOMAIN P : P[d] # Q[new]
  BY <1>10, <1>11
<1>13. OnceThread(Q, t)'
  <2>1. DirectoriesOf(uses, t)' = DirectoriesOf(uses, t)
    BY <1>2 DEF DirectoriesOf
  <2>2. /\ \A d \in DOMAIN Q : d \in DOMAIN P \/ d = new
        /\ \A d \in DOMAIN P : Q[d] = P[d]
    BY DEF Grows
  <2>3. ASSUME "json" \in uses[t], NEW q \in Listing[t] \cap Directories, q \in lines[t],
               NEW d \in DOMAIN Q
        PROVE  Q[d] # q
    <3>1. line \notin lines[t] /\ \A e \in DOMAIN P : P[e] # q
      BY <1>2, <1>3, <2>3 DEF OnceThread
    <3> QED
      BY <1>10, <2>2, <2>3, <3>1
  <2>4. ASSUME "lsl" \in uses[t], NEW d \in DOMAIN Q \ {Root}, Q[d] \in DirectoriesOf(uses, t)
        PROVE  (file[d].stamp = "none" /\ d \in Links(file[d].parent))'
    <3>1. "json" \notin uses[t]
      BY <2>4, AsUsual
    <3>2. d \in DOMAIN P /\ P[d] \in DirectoriesOf(uses, t)
      BY <1>10, <1>11, <2>2, <2>4, <3>1
    <3>3. file[d].stamp = "none" /\ d \in Links(file[d].parent)
      BY <1>3, <2>4, <3>2 DEF OnceThread
    <3> QED
      BY <1>9, <2>4, <3>2, <3>3
  <2>5. pc'[t] = "idle" /\ lines' = lines
    BY <1>1, <1>2
  <2> QED
    BY <1>2, <2>1, <2>3, <2>4, <2>5 DEF OnceThread
<1>14. \A u \in Threads \ {t} : /\ lines'[u] = lines[u] /\ at'[u] = at[u]
                                /\ rest'[u] = rest[u] /\ entry'[u] = entry[u]
  BY <1>1
<1>15. f.dir => f.parent \in DOMAIN P
  BY <1>4, <1>6
<1> QED
  BY <1>1, <1>2, <1>3, <1>6, <1>7, <1>12, <1>13, <1>14, <1>15, OncePush

\* Every step keeps every place taken once.
LEMMA OnceStep ==
  ASSUME Usual, ListedOnce, Nobody({"remove"}), Busy, Tree, AtWork,
         \E t \in Threads : Lists(uses, t), NEW P, NEW M, Known(P, M), Once(P), [Next]_vars,
         NEW Q, NEW N, Known(Q, N)', Follows(P, Q)
  PROVE  Once(Q)'
<1> DEFINE Goal == Once(Q)'
<1>1. ASSUME NEW t \in Threads, MakeDirectory(t) \/ AddEntry(t), Grows(P, Q) PROVE Goal
  BY <1>1, OnceMakeDirectory, OnceAddEntry
<1>2. SUFFICES ASSUME Q = P PROVE Goal
  BY <1>1 DEF Follows
<1>3. ASSUME Once(P)' PROVE Goal
  BY <1>2, <1>3
<1>4. ASSUME NEW t \in Threads,
             \/ NextLine(t) \/ WalkJson(t) \/ WalkLsl(t) \/ MakeDirectory(t) \/ AddEntry(t)
             \/ Scan(t) \/ PushNew(t)
      PROVE  Goal
  <2>1. CASE NextLine(t)
    BY <1>3, <2>1, OnceNextLine
  <2>2. CASE WalkJson(t)
    BY <1>3, <2>2, OnceWalkJson
  <2>3. CASE WalkLsl(t)
    BY <1>3, <2>3, OnceWalkLsl
  <2>4. CASE MakeDirectory(t) \/ AddEntry(t)
    BY <1>1, <1>2, <2>4, PlacesOf
  <2>5. CASE Scan(t)
    BY <1>3, <2>5, OnceScan
  <2>6. CASE PushNew(t)
    <3>1. Known(P, M)'
      BY <2>6, KnownPushNew
    <3> QED
      BY <1>3, <2>6, <3>1, OncePushNew
  <2> HIDE DEF Goal
  <2> QED
    BY <1>4, <2>1, <2>2, <2>3, <2>4, <2>5, <2>6
<1>5. /\ \A i \in DOMAIN file : i \in Ids /\ i \in 1..(Len(file) + 1)
      /\ Len(file) < MaxCopied =>
           Len(file) + 1 \in Ids /\ Len(file) + 1 \in 1..(Len(file) + 1) /\ Len(file) + 1 \notin DOMAIN file
  BY FileIds, ConstantsAssumption DEF ConstantsAssumption, Ids
<1>6. ASSUME NEW t \in Threads, NEW i \in DOMAIN file, CopyFile(t, i) PROVE Goal
  <2>1. Len(file) < MaxCopied /\ Transfer(t, Len(file) + 1, i, FALSE)
    BY <1>6 DEF CopyFile
  <2>2. Once(P)'
    BY <1>5, <2>1, OnceTransfer
  <2> QED
    BY <1>3, <2>2
<1>7. ASSUME NEW t \in Threads, NEW i \in DOMAIN file, MoveFile(t, i) PROVE Goal
  <2>1. Len(file) < MaxCopied /\ ~file[i].dir /\ Transfer(t, Len(file) + 1, i, TRUE)
    BY <1>7 DEF MoveFile, Movable, Usual
  <2>2. Once(P)'
    BY <1>5, <2>1, OnceTransfer
  <2> QED
    BY <1>3, <2>2
<1>8. ASSUME NEW t \in Threads, NEW i \in DOMAIN file, NEW j \in DOMAIN file, NEW moves \in BOOLEAN,
             AssignFile(t, i, j, moves)
      PROVE  Goal
  <2>1. ~file[i].dir /\ ~file[j].dir /\ i # j /\ Transfer(t, i, j, moves)
    BY <1>8 DEF AssignFile, Movable, Usual
  <2>2. Once(P)'
    BY <1>5, <2>1, OnceTransfer
  <2> QED
    BY <1>3, <2>2
<1>9. ASSUME NEW t \in Threads, NEW i \in DOMAIN file, NEW n, AddIfNotExist(t, i, n) PROVE Goal
  BY <1>3, <1>9, OnceScan
<1>10. ASSUME NEW t \in Threads, NEW i, NEW n, RemoveChild(t, i, n) \/ AddChild(t, i, n)
       PROVE  Goal
  <2>1. "remove" \in uses[t] \/ "add" \in uses[t]
    BY <1>10 DEF RemoveChild, AddChild
  <2> QED
    BY <2>1, AsUsual DEF Nobody
<1>11. ASSUME UNCHANGED vars PROVE Goal
  <2>1. UNCHANGED <<uses, file, children, lines, at, rest, entry, pc>>
    BY <1>11 DEF vars, threadVars
  <2>2. OnceTree(P)'
    BY <2>1 DEF Once, OnceTree, Links
  <2>3. ASSUME NEW u \in Threads PROVE OnceThread(P, u)'
    BY <2>1 DEF Once, OnceThread, Links, DirectoriesOf
  <2>4. Once(P)'
    BY <2>2, <2>3 DEF Once
  <2> QED
    BY <1>3, <2>4
<1> HIDE DEF Goal
<1>12. ASSUME NEW t \in Threads, NEW i \in DOMAIN file,
              \/ \E n \in Names : AddIfNotExist(t, i, n)
              \/ \E k \in DOMAIN children[i] : RemoveChild(t, i, k)
              \/ CopyFile(t, i) \/ MoveFile(t, i)
              \/ \E c \in DOMAIN file :
                   \/ AddChild(t, i, c)
                   \/ \E moves \in BOOLEAN : AssignFile(t, i, c, moves)
       PROVE  Goal
  BY <1>6, <1>7, <1>8, <1>9, <1>10, <1>12, Zenon
<1>13. Goal
  BY <1>4, <1>11, <1>12, Zenon DEF Next, Over
<1> QED
  BY <1>13 DEF Goal

\* path() of the root is a slash.
LEMMA PathOfRoot ==
  ASSUME Tree, NEW P, PlacedTree(P)
  PROVE  \E one \in Seq(Text) : Path(Root) = one /\ Len(one) = 1
<1> PICK slash \in Text : slash = "/"
  BY Texts
<1> PICK none, one, B : none = <<>> /\ one = <<slash>> /\ B = RootWords
  OBVIOUS
<1>1. /\ one \in Seq(Text) /\ none \in Seq(Text) /\ Len(one) = 1
      /\ <<slash, slash>> = (none \o one) \o one /\ none \o one = one
  OBVIOUS
<1>2. Path(Root) = Collapse(B \o Written(none)) /\ B \in Seq(Text)
  <2>1. Root \in DOMAIN P /\ P[Root] = none
    BY DEF PlacedTree
  <2>2. \A d \in DOMAIN P : Path(d) = Collapse(B \o Written(P[d]))
    BY PathWordsOfPlaces
  <2> QED
    BY <2>1, <2>2, RootSlashes
<1>3. B \o Written(none) = B
  BY <1>2, WrittenNone
<1>4. Collapse((none \o one) \o one) = Collapse(none \o one)
  BY <1>1, SlashTwice
<1>5. Collapse(one) = one
  <2>1. \A n \in 1..(Len(one) - 1) : one[n] # "/" \/ one[n + 1] # "/"
    BY <1>1
  <2> QED
    BY <1>1, <2>1, NoneDouble
<1>6. B = one \/ B = <<slash, slash>>
  BY RootSlashes
<1> QED
  BY <1>1, <1>2, <1>3, <1>4, <1>5, <1>6

\* Different paths are written differently.
LEMMA WrittenApart ==
  ASSUME NEW p \in Seq(PathNames), NEW q \in Seq(PathNames), Written(p) = Written(q)
  PROVE  p = q
<1>1. PathNames \subseteq Text /\ "/" \in Text
  BY Texts DEF PathNames
<1> PICK v, w : v = Written(p) /\ w = Written(q)
  OBVIOUS
<1>2. /\ Len(v) = 2 * Len(p) /\ Len(p) \in Nat /\ \A k \in 1..Len(p) : v[2 * k] = p[k]
      /\ Len(w) = 2 * Len(q) /\ Len(q) \in Nat /\ \A k \in 1..Len(q) : w[2 * k] = q[k]
  BY <1>1, WrittenIs
<1>3. Len(p) = Len(q)
  BY <1>2
<1>4. \A k \in 1..Len(p) : p[k] = q[k]
  BY <1>2, <1>3
<1> QED
  BY <1>3, <1>4, SeqEqual

\* No two places have the same path().
LEMMA PathsApart ==
  ASSUME Tree, NEW P, PlacedTree(P), NEW d \in DOMAIN P, NEW e \in DOMAIN P, P[d] # P[e]
  PROVE  Path(d) # Path(e)
<1>1. ASSUME NEW i \in DOMAIN P, P[i] # <<>>
      PROVE  /\ Path(i) = Written(P[i]) /\ P[i] \in Seq(PathNames)
             /\ Len(Path(i)) = 2 * Len(P[i]) /\ Len(P[i]) \in Nat
  <2>1. P[i] \in Seq(PathNames) /\ Path(i) = Collapse(RootWords \o Written(P[i]))
    BY PathWordsOfPlaces DEF PlacedTree
  <2>2. Path(i) = Written(P[i])
    BY <1>1, <2>1, WrittenUnderRoot
  <2>3. PathNames \subseteq Text /\ "/" \in Text
    BY Texts DEF PathNames
  <2>4. Len(Written(P[i])) = 2 * Len(P[i]) /\ Len(P[i]) \in Nat
    BY <2>1, <2>3, WrittenIs
  <2> QED
    BY <2>1, <2>2, <2>4
<1>2. ASSUME NEW i \in DOMAIN P, P[i] = <<>> PROVE Len(Path(i)) = 1
  <2>1. i = Root
    <3> SUFFICES ASSUME i # Root PROVE FALSE
      OBVIOUS
    <3>1. /\ P[i] = Append(P[file[i].parent], file[i].name) /\ file[i].name \in PathNames
          /\ P[file[i].parent] \in Seq(PathNames)
      BY DEF PlacedTree
    <3> QED
      BY <1>2, <3>1, Appended
  <2> QED
    BY <2>1, PathOfRoot
<1>3. CASE P[d] # <<>> /\ P[e] # <<>>
  BY <1>1, <1>3, WrittenApart
<1>4. CASE P[d] = <<>> \/ P[e] = <<>>
  <2>1. \A n \in Nat : 2 * n # 1
    OBVIOUS
  <2> QED
    BY <1>1, <1>2, <1>4, <2>1
<1> QED
  BY <1>3, <1>4

\* Where every place is taken once, every directory of the tree is there once.
LEMMA OncePaths ==
  ASSUME Tree, NEW P, PlacedTree(P), OnceTree(P)
  PROVE  DirectoriesOnce
<1> DEFINE dirs == {i \in DOMAIN file : file[i].dir /\ (i = Root \/ \E j \in Ids : i \in Links(j))}
           paths == {Path(i) : i \in dirs}
           f == [i \in dirs |-> Path(i)]
<1>1. \A i \in dirs : i \in DOMAIN P
  BY DEF PlacedTree, OnceTree
<1>2. \A i, j \in dirs : Path(i) = Path(j) => i = j
  BY <1>1, PathsApart DEF OnceTree
<1>3. IsFiniteSet(dirs)
  <2>1. DOMAIN file = 1..Len(file) /\ Len(file) \in Int /\ 1 \in Int
    BY FileIds
  <2>2. IsFiniteSet(DOMAIN file)
    BY <2>1, FS_Interval
  <2> QED
    BY <2>2, FS_Subset
<1> HIDE DEF dirs
<1>4. f \in [dirs -> paths] /\ (\A i \in dirs : f[i] = Path(i)) /\ \A w \in paths : \E i \in dirs : f[i] = w
  OBVIOUS
<1> HIDE DEF f, paths
<1>5. f \in Surjection(dirs, paths)
  BY <1>4 DEF Surjection
<1>6. f \in Injection(dirs, paths)
  BY <1>2, <1>4 DEF Injection, IsInjective
<1>7. Cardinality(paths) = Cardinality(dirs)
  BY <1>3, <1>5, <1>6, FS_Surjection
<1> QED
  BY <1>7 DEF DirectoriesOnce, dirs, paths

\* The inductive invariant.
OncePlaces ==
  (\E t \in Threads : Lists(uses, t)) /\ Nobody({"remove"}) => \E P, M : Known(P, M) /\ Once(P)

\* Every step keeps the places known, and taken once.
LEMMA OncePlacesStep ==
  ASSUME Usual, ListedOnce, Busy, Tree, AtWork, OncePlaces, [Next]_vars
  PROVE  OncePlaces'
<1> SUFFICES ASSUME \E t \in Threads : Lists(uses, t), Nobody({"remove"})
             PROVE  (\E P, M : Known(P, M) /\ Once(P))'
  BY UsesStay DEF OncePlaces, Lists, Nobody
<1>1. PICK P, M : Known(P, M) /\ Once(P)
  BY DEF OncePlaces
<1>2. PICK Q, N : Known(Q, N)' /\ Follows(P, Q)
  BY <1>1, KnownStep
<1>3. Once(Q)'
  BY <1>1, <1>2, OnceStep
<1> QED
  BY <1>2, <1>3

(***************************************************************************)
(* While listings are parsed, a directory is in the tree once, whatever    *)
(* files and lines there are and however the parsers and the applications  *)
(* take turns, where trees are used as usual and no directory is listed by *)
(* two.                                                                    *)
(***************************************************************************)
THEOREM DirectoriesListedOnce ==
  Usual /\ ListedOnce => (Spec => []((\E t \in Threads : Lists(uses, t)) => DirectoriesOnce))
<1> SUFFICES ASSUME Usual, ListedOnce
             PROVE  Spec => []((\E t \in Threads : Lists(uses, t)) => DirectoriesOnce)
  OBVIOUS
<1>1. Init => Busy /\ Tree /\ AtWork /\ OncePlaces
  <2> SUFFICES ASSUME Init PROVE OncePlaces
    BY TypesInit
  <2>1. PICK P, M : Known(P, M) /\ DOMAIN P = {Root}
    BY KnownInit
  <2>2. Once(P)
    BY <2>1, OnceInit DEF Known
  <2> QED
    BY <2>1, <2>2 DEF OncePlaces
<1>2. Busy /\ Tree /\ AtWork /\ OncePlaces /\ [Next]_vars => (Busy /\ Tree /\ AtWork /\ OncePlaces)'
  BY BusyStep, TypesStep, OncePlacesStep DEF Usual
<1>3. Tree /\ OncePlaces => ((\E t \in Threads : Lists(uses, t)) => DirectoriesOnce)
  <2>1. ~Nobody({"remove"}) => DirectoriesOnce
    BY DEF DirectoriesOnce
  <2> QED
    BY <2>1, OncePaths DEF OncePlaces, Known, Once
<1> QED
  BY <1>1, <1>2, <1>3, PTL DEF Spec

-----------------------------------------------------------------------------
(***************************************************************************)
(* Entries are there.  Where nobody removes, moves or assigns, nothing is  *)
(* lost; each directory that has a place is a child of the one above, and  *)
(* so is the entry of each line that was parsed.                           *)
(***************************************************************************)
Kept ==
  \A i \in DOMAIN file :
    /\ i \in DOMAIN file' /\ file'[i] = file[i] /\ listed'[i] = listed[i]
    /\ Links(i) \subseteq Links(i)'

\* Who pushes has a directory to push to.
LEMMA WhatIsPushed ==
  ASSUME Tree, Busy, AtWork, NEW t \in Threads, MakeDirectory(t) \/ AddEntry(t) \/ PushNew(t)
  PROVE  \E f \in FileType, line \in Seq(Text) :
           Push(t, f, line) /\ IsDirectory(f.parent) /\ (AddEntry(t) => line = entry[t])
<1>1. /\ pc[t] \in {"walk", "make", "push"} /\ IsDirectory(at[t]) /\ at[t] \in Nat
      /\ rest[t] \in Seq(Text) /\ Len(rest[t]) > 0
      /\ AddEntry(t) => pc[t] = "walk" /\ entry[t] \in Listing[t]
      /\ MakeDirectory(t) => pc[t] = "make"
      /\ PushNew(t) => pc[t] = "push"
  BY DEF MakeDirectory, AddEntry, PushNew, Goto, AtWork, Ids
<1>2. Unlisted \in Seq(Text)
  BY DEF Unlisted
<1>3. \A name \in Text, dir \in BOOLEAN, stamp \in Stamps :
        /\ MakeFile(name, dir, stamp, at[t]) \in FileType
        /\ MakeFile(name, dir, stamp, at[t]).parent = at[t]
  BY <1>1, FileMade
<1>4. Head(rest[t]) \in Text /\ rest[t][1] \in Text
  BY <1>1, Lefts
<1>5. CASE MakeDirectory(t)
  <2>1. Push(t, NewDirectory(t), Unlisted)
    BY <1>5 DEF MakeDirectory
  <2>2. NewDirectory(t) \in FileType /\ NewDirectory(t).parent = at[t]
    BY <1>3, <1>4, Texts, Zenon DEF NewDirectory
  <2>3. ~AddEntry(t)
    BY <1>1, <1>5
  <2> QED
    BY <1>1, <1>2, <2>1, <2>2, <2>3
<1>6. CASE PushNew(t)
  <2>1. Push(t, Added(t), Unlisted)
    BY <1>6 DEF PushNew
  <2>2. Added(t) \in FileType /\ Added(t).parent = at[t]
    BY <1>3, <1>4, Texts, Zenon DEF Added
  <2>3. ~AddEntry(t)
    BY <1>1, <1>6
  <2> QED
    BY <1>1, <1>2, <2>1, <2>2, <2>3
<1>7. CASE AddEntry(t)
  <2> PICK isDir \in BOOLEAN : isDir = ("json" \in uses[t] /\ entry[t] \in Directories)
    OBVIOUS
  <2> PICK stamp : stamp = IF isDir THEN "dir" ELSE "file"
    OBVIOUS
  <2>1. Push(t, MakeFile(Last(entry[t]), isDir, stamp, at[t]), entry[t])
    BY <1>7 DEF AddEntry
  <2>2. entry[t] \in Seq(Text) /\ Last(entry[t]) \in Text
    <3>1. entry[t] \in Seq(Text) /\ Len(entry[t]) > 0
      BY <1>1, <1>7, PathTypes
    <3> QED
      BY <3>1 DEF Last
  <2>3. stamp \in Stamps
    BY Texts, Zenon
  <2> QED
    BY <1>1, <1>3, <2>1, <2>2, <2>3
<1> QED
  BY <1>5, <1>6, <1>7

\* Nothing is lost where nobody removes, moves or assigns.
LEMMA NothingLost ==
  ASSUME Tree, Busy, AtWork, Nobody({"remove", "move", "assign", "add"}), [Next]_vars
  PROVE  Kept
<1>1. ASSUME UNCHANGED <<file, children, listed>> PROVE Kept
  BY <1>1 DEF Kept, Links
<1>2. ASSUME NEW t \in Threads, MakeDirectory(t) \/ AddEntry(t) \/ PushNew(t) PROVE Kept
  <2>1. PICK f \in FileType, line \in Seq(Text) : Push(t, f, line) /\ IsDirectory(f.parent)
    BY <1>2, WhatIsPushed
  <2>2. /\ DOMAIN file' = DOMAIN file \cup {Len(file) + 1}
        /\ \A i \in DOMAIN file : file'[i] = file[i]
        /\ listed' = [listed EXCEPT ![Len(file) + 1] = line]
    BY <2>1, TreePush
  <2>3. \A i \in Ids : Links(i) \subseteq Links(i)'
    BY <2>1, LinksPush
  <2>4. Len(file) + 1 \notin DOMAIN file /\ DOMAIN file \subseteq Ids /\ DOMAIN listed = Ids
    BY FileIds DEF Tree
  <2>5. \A i \in DOMAIN file : listed'[i] = listed[i]
    BY <2>2, <2>4
  <2> QED
    BY <2>2, <2>3, <2>4, <2>5 DEF Kept
<1>3. ASSUME NEW t \in Threads, NEW i \in DOMAIN file, CopyFile(t, i) PROVE Kept
  <2>1. PICK new : new = Len(file) + 1
    OBVIOUS
  <2>2. Transfer(t, new, i, FALSE)
    BY <1>3, <2>1 DEF CopyFile
  <2>3. new \notin DOMAIN file /\ DOMAIN file \subseteq Ids /\ DOMAIN listed = Ids /\ DOMAIN children = Ids
    BY <2>1, FileIds DEF Tree
  <2>4. /\ file' = [j \in DOMAIN file \cup {new} |-> IF j = new THEN file[i] ELSE file[j]]
        /\ children' = [j \in DOMAIN children \cup {new} |-> IF j = new THEN children[i] ELSE children[j]]
        /\ listed' = [j \in DOMAIN listed \cup {new} |-> IF j = new THEN listed[i] ELSE listed[j]]
    BY <2>2 DEF Transfer
  <2>5. \A j \in DOMAIN file :
          /\ j \in DOMAIN file' /\ file'[j] = file[j] /\ listed'[j] = listed[j]
          /\ children'[j] = children[j]
    BY <2>3, <2>4
  <2> QED
    BY <2>5 DEF Kept, Links
<1>4. ASSUME NEW t \in Threads,
             NextLine(t) \/ WalkJson(t) \/ WalkLsl(t) \/ Scan(t) \/ \E i, n : AddIfNotExist(t, i, n)
      PROVE  Kept
  BY <1>1, <1>4 DEF NextLine, WalkJson, WalkLsl, Scan, AddIfNotExist
<1>5. ASSUME NEW t \in Threads, NEW i, NEW k, NEW moves,
             RemoveChild(t, i, k) \/ AddChild(t, i, k) \/ MoveFile(t, i) \/ AssignFile(t, i, k, moves)
      PROVE  FALSE
  BY <1>5 DEF RemoveChild, AddChild, MoveFile, AssignFile, Nobody
<1>6. ASSUME UNCHANGED vars PROVE Kept
  BY <1>1, <1>6 DEF vars
<1> HIDE DEF Kept
<1>7. ASSUME NEW t \in Threads, NEW i \in DOMAIN file,
             \/ \E n \in Names : AddIfNotExist(t, i, n)
             \/ \E k \in DOMAIN children[i] : RemoveChild(t, i, k)
             \/ CopyFile(t, i) \/ MoveFile(t, i)
             \/ \E c \in DOMAIN file :
                  \/ AddChild(t, i, c)
                  \/ \E moves \in BOOLEAN : AssignFile(t, i, c, moves)
      PROVE  Kept
  BY <1>3, <1>4, <1>5, <1>7, Zenon
<1> QED
  BY <1>2, <1>4, <1>6, <1>7, Zenon DEF Next, Over

\* A line is parsed when its entry is added.
LEMMA ParsedStep ==
  ASSUME Busy, AtWork, [Next]_vars, NEW t \in Threads, NEW path \in Parsed(t)'
  PROVE  path \in Parsed(t) \/ (AddEntry(t) /\ path = entry[t])
<1> DEFINE Goal == path \in Parsed(t) \/ (AddEntry(t) /\ path = entry[t])
<1>0. /\ path \in Listing[t] /\ Lists(uses, t) /\ path \notin lines'[t]
      /\ ~(pc'[t] \in {"walk", "make"} /\ entry'[t] = path)
  BY UsesStay DEF Parsed, Lists
<1>1. ASSUME lines'[t] = lines[t], entry'[t] = entry[t],
             pc[t] \in {"walk", "make"} => pc'[t] \in {"walk", "make"}
      PROVE  Goal
  BY <1>0, <1>1 DEF Parsed
<1>2. ASSUME NEW u \in Threads, NEW from, NEW to, Goto(u, from, to), UNCHANGED <<lines, entry>>,
             from \in {"walk", "make"} => to \in {"walk", "make"}
      PROVE  Goal
  <2>1. pc[u] = from /\ pc' = [pc EXCEPT ![u] = to]
    BY <1>2 DEF Goto
  <2>2. pc[t] \in {"walk", "make"} => pc'[t] \in {"walk", "make"}
    BY <1>2, <2>1 DEF Busy
  <2> QED
    BY <1>1, <1>2, <2>2
<1>3. ASSUME NEW u \in Threads, NextLine(u) PROVE Goal
  <2>1. PICK line \in lines[u] :
          /\ Goto(u, "idle", "walk") /\ lines' = [lines EXCEPT ![u] = lines[u] \ {line}]
          /\ entry' = [entry EXCEPT ![u] = line]
    BY <1>3 DEF NextLine
  <2>2. pc[u] = "idle" /\ pc' = [pc EXCEPT ![u] = "walk"]
    BY <2>1 DEF Goto
  <2>3. CASE u = t
    <3>1. pc'[t] = "walk" /\ entry'[t] = line /\ lines'[t] = lines[t] \ {line}
      BY <2>1, <2>2, <2>3 DEF Busy, AtWork
    <3> QED
      BY <1>0, <2>2, <2>3, <3>1 DEF Parsed
  <2>4. CASE u # t
    <3>1. pc'[t] = pc[t] /\ entry'[t] = entry[t] /\ lines'[t] = lines[t]
      BY <2>1, <2>2, <2>4 DEF Busy, AtWork
    <3> QED
      BY <1>1, <3>1
  <2> QED
    BY <2>3, <2>4
<1>4. ASSUME NEW u \in Threads, AddEntry(u) PROVE Goal
  <2>1. pc' = [pc EXCEPT ![u] = "idle"] /\ UNCHANGED <<lines, entry>>
    BY <1>4 DEF AddEntry, Goto
  <2>2. CASE u = t
    BY <1>0, <1>4, <2>1, <2>2 DEF Parsed
  <2>3. CASE u # t
    BY <1>1, <2>1, <2>3 DEF Busy
  <2> QED
    BY <2>2, <2>3
<1>5. ASSUME NEW u \in Threads, WalkJson(u) PROVE Goal
  <2>1. Goto(u, "walk", "walk") /\ UNCHANGED <<lines, entry>>
    BY <1>5 DEF WalkJson
  <2> QED
    BY <1>2, <2>1
<1>6. ASSUME NEW u \in Threads, WalkLsl(u) PROVE Goal
  <2>1. PICK to \in {"walk", "make"} : Goto(u, "walk", to) /\ UNCHANGED <<lines, entry>>
    BY <1>6 DEF WalkLsl
  <2> QED
    BY <1>2, <2>1
<1>7. ASSUME NEW u \in Threads, MakeDirectory(u) PROVE Goal
  <2>1. Goto(u, "make", "walk") /\ UNCHANGED <<lines, entry>>
    BY <1>7 DEF MakeDirectory
  <2> QED
    BY <1>2, <2>1
<1>8. ASSUME NEW u \in Threads, NEW i, NEW k, NEW moves,
             \/ Scan(u) \/ PushNew(u) \/ AddIfNotExist(u, i, k) \/ RemoveChild(u, i, k) \/ AddChild(u, i, k)
             \/ Transfer(u, i, k, moves)
      PROVE  Goal
  <2>1. PICK from, to : from \in {"idle", "scan", "push"} /\ Goto(u, from, to) /\ UNCHANGED <<lines, entry>>
    BY <1>8 DEF Scan, PushNew, AddIfNotExist, RemoveChild, AddChild, Transfer
  <2> QED
    BY <1>2, <2>1
<1>9. ASSUME UNCHANGED vars PROVE Goal
  <2>1. UNCHANGED <<lines, entry, pc>>
    BY <1>9 DEF vars, threadVars
  <2> QED
    BY <1>1, <2>1
<1> HIDE DEF Goal
<1>10. Goal
  BY <1>3, <1>4, <1>5, <1>6, <1>7, <1>8, <1>9, Zenon DEF Next, Over, CopyFile, MoveFile, AssignFile
<1> QED
  BY <1>10 DEF Goal

\* the file is a child of the one above
Hangs(i) == file[i].parent \in DOMAIN file /\ i \in Links(file[i].parent)

LinksKnown(P) ==
  /\ \A d \in DOMAIN P \ {Root} : Hangs(d)
  /\ \A t \in Threads : \A path \in Parsed(t) : \E i \in DOMAIN file : listed[i] = path /\ Hangs(i)

\* What hangs goes on hanging.
LEMMA HangsOn ==
  ASSUME Tree, Kept, NEW i \in DOMAIN file, Hangs(i)
  PROVE  i \in DOMAIN file' /\ Hangs(i)' /\ listed'[i] = listed[i]
<1>1. i \in DOMAIN file' /\ file'[i] = file[i] /\ listed'[i] = listed[i]
  BY DEF Kept
<1>2. PICK j : j = file[i].parent
  OBVIOUS
<1>3. j \in DOMAIN file /\ j \in DOMAIN file'
  BY <1>2 DEF Kept, Hangs
<1>4. i \in Links(j)'
  BY <1>2, <1>3 DEF Kept, Hangs
<1>5. file'[i].parent = j
  BY <1>1, <1>2
<1> QED
  BY <1>1, <1>3, <1>4, <1>5 DEF Hangs, Links

\* What is pushed hangs.
LEMMA PushedHangs ==
  ASSUME Tree, Busy, AtWork, NEW t \in Threads, MakeDirectory(t) \/ AddEntry(t)
  PROVE  \E new : /\ new = Len(file) + 1 /\ new \in DOMAIN file' /\ Hangs(new)'
                  /\ AddEntry(t) => listed'[new] = entry[t]
<1> PICK new : new = Len(file) + 1
  OBVIOUS
<1>1. PICK f \in FileType, line \in Seq(Text) :
        Push(t, f, line) /\ IsDirectory(f.parent) /\ (AddEntry(t) => line = entry[t])
  BY WhatIsPushed
<1>2. PICK parent : parent = f.parent
  OBVIOUS
<1>0. Push(t, f, line) /\ IsDirectory(f.parent) /\ (AddEntry(t) => line = entry[t])
  BY <1>1
<1>3. /\ new \in Ids /\ DOMAIN file' = DOMAIN file \cup {new} /\ file'[new] = f
      /\ listed' = [listed EXCEPT ![new] = line]
  BY <1>0, TreePush
<1>4. new \in Links(f.parent)'
  BY <1>0, LinksPush
<1>5. parent \in DOMAIN file
  BY <1>0, <1>2 DEF IsDirectory
<1>6. new \in {children'[parent][k] : k \in DOMAIN children'[parent]}
  BY <1>2, <1>4 DEF Links
<1>7. file'[new].parent = parent
  BY <1>2, <1>3
<1>8. Hangs(new)'
  BY <1>3, <1>5, <1>6, <1>7 DEF Hangs, Links
<1>9. listed'[new] = line
  BY <1>3 DEF Tree
<1> QED
  BY <1>1, <1>3, <1>8, <1>9

\* Every step keeps the links.
LEMMA LinksKnownStep ==
  ASSUME Usual, Busy, Tree, AtWork, Nobody({"remove", "move", "assign", "add"}), [Next]_vars,
         NEW P, PlacedTree(P), LinksKnown(P), NEW Q, PlacedTree(Q)', Follows(P, Q)
  PROVE  LinksKnown(Q)'
<1>1. Kept
  BY NothingLost
<1>2. ASSUME NEW d \in DOMAIN Q \ {Root} PROVE Hangs(d)'
  <2>1. CASE d \in DOMAIN P
    <3>1. d \in DOMAIN file /\ Hangs(d)
      BY <1>2, <2>1 DEF PlacedTree, LinksKnown
    <3> QED
      BY <1>1, <3>1, HangsOn
  <2>2. CASE d \notin DOMAIN P
    <3>1. d = Len(file) + 1 /\ \E t \in Threads : MakeDirectory(t) \/ AddEntry(t)
      BY <1>2, <2>2 DEF Follows, Grows
    <3> QED
      BY <3>1, PushedHangs
  <2> QED
    BY <2>1, <2>2
<1>3. ASSUME NEW t \in Threads, NEW path \in Parsed(t)'
      PROVE  \E i \in DOMAIN file' : listed'[i] = path /\ Hangs(i)'
  <2>1. CASE path \in Parsed(t)
    <3>1. PICK i \in DOMAIN file : listed[i] = path /\ Hangs(i)
      BY <2>1 DEF LinksKnown
    <3> QED
      BY <1>1, <3>1, HangsOn
  <2>2. CASE AddEntry(t) /\ path = entry[t]
    BY <2>2, PushedHangs
  <2> QED
    BY <1>3, <2>1, <2>2, ParsedStep
<1> QED
  BY <1>2, <1>3, Zenon DEF LinksKnown

\* What one comes to, name by name.
LevelsOf(g, path) ==
  /\ g[0] = {Root}
  /\ \A n \in 1..Len(path) :
       g[n] = {c \in UNION {Links(i) : i \in g[n - 1]} : file[c].name = path[n]}

\* The last of these are those that are found.
LEMMA FoundIs ==
  ASSUME Tree, NEW path \in Seq(Text)
  PROVE  \E g : LevelsOf(g, path) /\ Found(path) = g[Len(path)]
<1> PICK root : root = {Root}
  OBVIOUS
<1> PICK N : N = Len(path)
  OBVIOUS
<1> DEFINE Onto(above, n) == {c \in UNION {Links(i) : i \in above} : file[c].name = path[n]}
           Solves(g) == g = [n \in 0..N |-> IF n = 0 THEN root ELSE Onto(g[n - 1], n)]
           level == CHOOSE g : Solves(g)
           V == SUBSET Ids
           step == [n \in 1..N |-> [w \in V |-> Onto(w, n)]]
<1>1. N \in Nat /\ root \in V
  <2>1. Root \in DOMAIN file /\ DOMAIN file \subseteq Ids
    BY FileIds DEF Tree, Root
  <2> QED
    BY <2>1
<1>2. Found(path) = level[N]
  BY DEF Found
<1>3. \A n \in 1..N : \A w \in V : Onto(w, n) \in V
  <2> SUFFICES ASSUME NEW n \in 1..N, NEW w \in V, NEW c \in Onto(w, n) PROVE c \in Ids
    OBVIOUS
  <2>1. PICK i \in w : c \in Links(i)
    OBVIOUS
  <2> QED
    BY <2>1, FileIds DEF Tree
<1> HIDE DEF Onto
<1>4. \E g : Solves(g)
  <2>1. step \in [1..N -> [V -> V]]
    BY <1>3
  <2>2. PICK g : Steps(g, N, V, root, step)
    <3> HIDE DEF V, step
    <3> QED
      BY <1>1, <2>1, RecursionExists
  <2>3. \A n \in 1..N : g[n - 1] \in V
    BY <1>1, <2>2 DEF Steps
  <2>4. \A n \in 1..N : g[n] = Onto(g[n - 1], n)
    BY <2>2, <2>3 DEF Steps
  <2>5. Solves(g)
    BY <1>1, <2>2, <2>4 DEF Steps
  <2> QED
    BY <2>5
<1>5. Solves(level)
  BY <1>4
<1> HIDE DEF level
<1>6. level[0] = root /\ \A n \in 1..N : level[n] = Onto(level[n - 1], n)
  <2>1. level = [n \in 0..N |-> IF n = 0 THEN root ELSE Onto(level[n - 1], n)]
    BY <1>5
  <2> HIDE DEF Solves
  <2>2. 0 \in 0..N
    BY <1>1
  <2>3. ASSUME NEW n \in 1..N PROVE n \in 0..N /\ n # 0
    BY <1>1
  <2> QED
    BY <2>1, <2>2, <2>3, Zenon
<1> QED
  BY <1>2, <1>6 DEF LevelsOf, Onto

\* Every directory that has a place is found there.
LEMMA DirectoriesFound ==
  ASSUME Tree, NEW P, PlacedTree(P), \A d \in DOMAIN P \ {Root} : Hangs(d),
         NEW path \in Seq(PathNames), NEW g, LevelsOf(g, path), NEW d \in DOMAIN P,
         Len(P[d]) <= Len(path), \A k \in 1..Len(P[d]) : path[k] = P[d][k]
  PROVE  d \in g[Len(P[d])]
<1> PICK N : N = Len(file)
  OBVIOUS
<1>1. N \in Nat /\ DOMAIN P \subseteq 1..N /\ Root = 1 /\ Len(path) \in Nat
  BY FileIds DEF PlacedTree, Root
<1> DEFINE OnTheWay(e) == e \in DOMAIN P /\ Len(P[e]) <= Len(path) /\ \A k \in 1..Len(P[e]) : path[k] = P[e][k]
           Good == {e \in 1..N : OnTheWay(e) => e \in g[Len(P[e])]}
<1>2. ASSUME NEW e \in 1..N, \A m \in 1..(e - 1) : m \in Good, OnTheWay(e)
      PROVE  e \in g[Len(P[e])]
  <2>1. CASE e = Root
    <3>1. P[e] = <<>> /\ Len(<<>>) = 0
      BY <2>1 DEF PlacedTree
    <3> QED
      BY <2>1, <3>1 DEF LevelsOf
  <2>2. CASE e # Root
    <3> PICK i, p, x : i = file[e].parent /\ p = P[i] /\ x = file[e].name
      OBVIOUS
    <3>1. /\ i \in DOMAIN P /\ i < e /\ x \in PathNames /\ P[e] = Append(p, x) /\ p \in Seq(PathNames)
      BY <1>2, <2>2 DEF PlacedTree
    <3>2. e \in Links(i)
      BY <1>2, <2>2 DEF Hangs
    <3>3. /\ Len(P[e]) = Len(p) + 1 /\ Len(p) \in Nat
          /\ \A k \in 1..Len(p) : P[e][k] = p[k]
          /\ P[e][Len(p) + 1] = x
      BY <3>1, Appended
    <3>4. i \in 1..(e - 1)
      BY <1>1, <1>2, <3>1
    <3>9. i \in Good
      <4> HIDE DEF Good
      <4> QED
        BY <1>2, <3>4
    <3>5. OnTheWay(i)
      <4>1. Len(P[e]) <= Len(path) /\ \A k \in 1..Len(P[e]) : path[k] = P[e][k]
        BY <1>2
      <4>2. Len(p) <= Len(path) /\ \A k \in 1..Len(p) : path[k] = p[k]
        <5> PICK q : q = P[e]
          OBVIOUS
        <5> QED
          BY <1>1, <3>3, <4>1
      <4> QED
        BY <3>1, <4>2
    <3>6. i \in g[Len(p)]
      BY <3>5, <3>9
    <3>7. Len(p) + 1 \in 1..Len(path) /\ path[Len(p) + 1] = x /\ (Len(p) + 1) - 1 = Len(p)
      BY <1>1, <1>2, <3>3
    <3>8. g[Len(p) + 1] = {c \in UNION {Links(j) : j \in g[Len(p)]} : file[c].name = x}
      BY <3>7 DEF LevelsOf
    <3> QED
      BY <3>2, <3>3, <3>6, <3>8
  <2> QED
    BY <2>1, <2>2
<1> HIDE DEF OnTheWay
<1>3. \A e \in 1..N : (\A m \in 1..(e - 1) : m \in Good) => e \in Good
  BY <1>2
<1>4. \A e \in 1..N : e \in Good
  <2> HIDE DEF Good
  <2> QED
    BY <1>1, <1>3, FromSmaller
<1>5. OnTheWay(d) /\ d \in Good
  BY <1>1, <1>4 DEF OnTheWay
<1> QED
  BY <1>5

\* An entry that hangs is found under the path of its line.
LEMMA EntryFound ==
  ASSUME Tree, NEW P, PlacedTree(P), \A d \in DOMAIN P \ {Root} : Hangs(d),
         NEW i \in DOMAIN file, listed[i] # Unlisted, Hangs(i)
  PROVE  i \in Found(listed[i])
<1> PICK d, p, x, path : d = file[i].parent /\ p = P[d] /\ x = file[i].name /\ path = listed[i]
  OBVIOUS
<1>1. /\ d \in DOMAIN P /\ x \in PathNames /\ path = Append(p, x) /\ p \in Seq(PathNames)
      /\ i \in Links(d)
  BY DEF PlacedTree, Hangs
<1>2. /\ path \in Seq(PathNames) /\ Len(path) = Len(p) + 1 /\ Len(p) \in Nat
      /\ \A k \in 1..Len(p) : path[k] = p[k]
      /\ path[Len(p) + 1] = x
  BY <1>1, Appended
<1>3. path \in Seq(Text)
  BY FileIds DEF Tree
<1>4. PICK g : LevelsOf(g, path) /\ Found(path) = g[Len(path)]
  BY <1>3, FoundIs
<1>5. d \in g[Len(p)]
  <2>1. Len(P[d]) <= Len(path) /\ \A k \in 1..Len(P[d]) : path[k] = P[d][k]
    BY <1>2
  <2>2. d \in g[Len(P[d])]
    BY <1>1, <1>2, <1>4, <2>1, DirectoriesFound
  <2> QED
    BY <2>2
<1>6. Len(path) \in 1..Len(path) /\ Len(path) - 1 = Len(p)
  BY <1>2
<1>7. g[Len(path)] = {c \in UNION {Links(j) : j \in g[Len(p)]} : file[c].name = x}
  BY <1>2, <1>4, <1>6 DEF LevelsOf
<1>8. i \in g[Len(path)]
  BY <1>1, <1>5, <1>7
<1> QED
  BY <1>4, <1>8

\* The inductive invariant.
LinkedPlaces ==
  (\E t \in Threads : Lists(uses, t)) /\ Nobody({"remove", "move", "assign"})
    => \E P, M : Known(P, M) /\ LinksKnown(P)

\* Every step keeps it.
LEMMA LinkedPlacesStep ==
  ASSUME Usual, Busy, Tree, AtWork, LinkedPlaces, [Next]_vars
  PROVE  LinkedPlaces'
<1> SUFFICES ASSUME \E t \in Threads : Lists(uses, t), Nobody({"remove", "move", "assign"})
             PROVE  (\E P, M : Known(P, M) /\ LinksKnown(P))'
  BY UsesStay DEF LinkedPlaces, Lists, Nobody
<1>1. PICK P, M : Known(P, M) /\ LinksKnown(P)
  BY DEF LinkedPlaces
<1>2. PICK Q, N : Known(Q, N)' /\ Follows(P, Q)
  BY <1>1, KnownStep
<1>3. Nobody({"remove", "move", "assign", "add"})
  <2>1. \A u \in Threads : "add" \notin uses[u]
    BY AsUsual
  <2> QED
    BY <2>1 DEF Nobody
<1>4. PlacedTree(P) /\ PlacedTree(Q)'
  BY <1>1, <1>2 DEF Known
<1>5. LinksKnown(Q)'
  BY <1>1, <1>2, <1>3, <1>4, LinksKnownStep
<1> QED
  BY <1>2, <1>5

(***************************************************************************)
(* No line that was parsed is lost: its entry is found from the root under *)
(* its path, whatever files and lines there are and however the parsers    *)
(* and those who add to the tree take turns.                               *)
(***************************************************************************)
THEOREM ListedEntriesAreThere == Usual => (Spec => []EntriesAreThere)
<1> SUFFICES ASSUME Usual PROVE Spec => []EntriesAreThere
  OBVIOUS
<1>1. Init => Busy /\ Tree /\ AtWork /\ LinkedPlaces
  <2> SUFFICES ASSUME Init PROVE LinkedPlaces
    BY TypesInit
  <2>1. PICK P, M : Known(P, M) /\ DOMAIN P = {Root}
    BY KnownInit
  <2>2. \A t \in Threads : Lists(uses, t) => lines[t] = Listing[t]
    BY DEF Init, Lists
  <2>3. \A t \in Threads : Parsed(t) = {}
    BY <2>2 DEF Parsed
  <2> QED
    BY <2>1, <2>3 DEF LinkedPlaces, LinksKnown
<1>2. Busy /\ Tree /\ AtWork /\ LinkedPlaces /\ [Next]_vars => (Busy /\ Tree /\ AtWork /\ LinkedPlaces)'
  BY BusyStep, TypesStep, LinkedPlacesStep DEF Usual
<1>3. Tree /\ LinkedPlaces => EntriesAreThere
  <2> SUFFICES ASSUME Tree, LinkedPlaces, Nobody({"remove", "move", "assign"}),
                      NEW t \in Threads, NEW path \in Parsed(t)
               PROVE  \E i \in Found(path) : listed[i] = path
    BY DEF EntriesAreThere
  <2>1. Lists(uses, t) /\ path \in Listing[t]
    BY DEF Parsed
  <2>2. PICK P, M : Known(P, M) /\ LinksKnown(P)
    BY <2>1 DEF LinkedPlaces
  <2>3. PICK i \in DOMAIN file : listed[i] = path /\ Hangs(i)
    BY <2>2 DEF LinksKnown
  <2>4. PlacedTree(P) /\ (\A d \in DOMAIN P \ {Root} : Hangs(d)) /\ path # Unlisted
    BY <2>1, <2>2, PathTypes DEF Known, LinksKnown, Unlisted
  <2> QED
    BY <2>3, <2>4, EntryFound
<1> QED
  BY <1>1, <1>2, <1>3, PTL DEF Spec

-----------------------------------------------------------------------------
(***************************************************************************)
(* A directory has no more of one file than there are threads that add:    *)
(* those that have found none and are about to add are counted with those  *)
(* that are there.                                                         *)
(***************************************************************************)
AddsOnly == \A t \in Threads : uses[t] \subseteq {"add_if", "remove"}

Pushers(i, n) == {t \in Threads : pc[t] = "push" /\ at[t] = i /\ rest[t][1] = n}

AddedTogether ==
  \A i \in Ids, n \in Names :
    Cardinality(Twins(i, n)) + Cardinality(Pushers(i, n)) <= Cardinality(Adders)

\* where w has a member of H
WhereIn(w, H) == {k \in DOMAIN w : w[k] \in H}

\* One more in a sequence.
LEMMA OneMoreIn ==
  ASSUME NEW A, NEW w \in Seq(A), NEW x \in A, NEW H
  PROVE  /\ IsFiniteSet(WhereIn(w, H)) /\ Cardinality(WhereIn(w, H)) \in Nat
         /\ Cardinality(WhereIn(Append(w, x), H))
              = IF x \in H THEN Cardinality(WhereIn(w, H)) + 1 ELSE Cardinality(WhereIn(w, H))
<1> PICK v, N : v = Append(w, x) /\ N = Len(w)
  OBVIOUS
<1>1. /\ N \in Nat /\ DOMAIN w = 1..N /\ DOMAIN v = 1..(N + 1) /\ v[N + 1] = x
      /\ \A k \in 1..N : v[k] = w[k]
  <2>1. /\ v \in Seq(A) /\ Len(v) = N + 1 /\ (\A k \in 1..N : v[k] = w[k]) /\ v[N + 1] = x /\ N \in Nat
    BY Appended
  <2> QED
    BY <2>1
<1>2. IsFiniteSet(WhereIn(w, H)) /\ Cardinality(WhereIn(w, H)) \in Nat
  <2>1. IsFiniteSet(1..N)
    BY <1>1, FS_Interval
  <2>2. WhereIn(w, H) \in SUBSET (1..N)
    BY <1>1 DEF WhereIn
  <2>3. IsFiniteSet(WhereIn(w, H))
    BY <2>1, <2>2, FS_Subset
  <2> QED
    BY <2>3, FS_CardinalityType
<1>3. N + 1 \notin WhereIn(w, H)
  BY <1>1 DEF WhereIn
<1>4. WhereIn(v, H) = IF x \in H THEN WhereIn(w, H) \cup {N + 1} ELSE WhereIn(w, H)
  BY <1>1 DEF WhereIn
<1>5. Cardinality(WhereIn(w, H) \cup {N + 1}) = Cardinality(WhereIn(w, H)) + 1
  BY <1>2, <1>3, FS_AddElement
<1> QED
  BY <1>2, <1>4, <1>5

\* There are no more of some files when others are gone.
LEMMA NoMoreLeft ==
  ASSUME NEW A, NEW s \in Seq(A), NEW f, NEW H
  PROVE  Cardinality(WhereIn(Without(s, f), H)) <= Cardinality(WhereIn(s, H))
<1> PICK N : N = Len(s)
  OBVIOUS
<1>1. PICK kept : /\ kept[0] = <<>> /\ \A n \in 0..N : kept[n] \in Seq(A)
                  /\ \A n \in 1..N : kept[n] = Keep(kept[n - 1], s[n], f)
                  /\ Without(s, f) = kept[N]
  BY WithoutIs
<1>2. N \in Nat /\ DOMAIN s = 1..N /\ \A n \in 1..N : s[n] \in A
  OBVIOUS
<1> DEFINE FirstIn(n) == {k \in 1..n : s[k] \in H}
           Good == {n \in 0..N : Cardinality(WhereIn(kept[n], H)) <= Cardinality(FirstIn(n))}
<1>3. \A n \in Nat : IsFiniteSet(FirstIn(n)) /\ Cardinality(FirstIn(n)) \in Nat
  <2> SUFFICES ASSUME NEW n \in Nat PROVE IsFiniteSet(FirstIn(n)) /\ Cardinality(FirstIn(n)) \in Nat
    OBVIOUS
  <2>1. IsFiniteSet(1..n)
    BY FS_Interval
  <2>2. FirstIn(n) \in SUBSET (1..n)
    OBVIOUS
  <2> HIDE DEF FirstIn
  <2>3. IsFiniteSet(FirstIn(n))
    BY <2>1, <2>2, FS_Subset
  <2> QED
    BY <2>3, FS_CardinalityType
<1>4. 0 \in Good
  <2>1. WhereIn(kept[0], H) = {} /\ FirstIn(0) = {}
    BY <1>1 DEF WhereIn
  <2>2. 0 \in 0..N
    BY <1>2
  <2> HIDE DEF FirstIn
  <2>3. Cardinality(WhereIn(kept[0], H)) = 0 /\ Cardinality(FirstIn(0)) = 0
    BY <2>1, FS_EmptySet
  <2> QED
    BY <2>2, <2>3
<1>5. ASSUME NEW n \in 0..(N - 1), n \in Good PROVE n + 1 \in Good
  <2> PICK w, x : w = kept[n] /\ x = s[n + 1]
    OBVIOUS
  <2>1. /\ n + 1 \in 1..N /\ n + 1 \in 0..N /\ (n + 1) - 1 = n /\ n \in Nat /\ n + 1 \in Nat
        /\ n \in 0..N
    BY <1>2, <1>5
  <2>2. w \in Seq(A) /\ x \in A
    BY <1>1, <1>2, <2>1
  <2>3. kept[n + 1] = w \/ kept[n + 1] = Append(w, x)
    BY <1>1, <2>1 DEF Keep
  <2>4. /\ IsFiniteSet(WhereIn(w, H)) /\ Cardinality(WhereIn(w, H)) \in Nat
        /\ Cardinality(WhereIn(Append(w, x), H))
             = IF x \in H THEN Cardinality(WhereIn(w, H)) + 1 ELSE Cardinality(WhereIn(w, H))
    BY <2>2, OneMoreIn
  <2>5. FirstIn(n + 1) = (IF x \in H THEN FirstIn(n) \cup {n + 1} ELSE FirstIn(n)) /\ n + 1 \notin FirstIn(n)
    BY <2>1
  <2> HIDE DEF FirstIn
  <2>6. Cardinality(FirstIn(n) \cup {n + 1}) = Cardinality(FirstIn(n)) + 1
    BY <1>3, <2>1, <2>5, FS_AddElement
  <2>7. Cardinality(WhereIn(w, H)) <= Cardinality(FirstIn(n)) /\ Cardinality(FirstIn(n)) \in Nat
    BY <1>3, <1>5, <2>1
  <2>8. Cardinality(WhereIn(kept[n + 1], H)) <= Cardinality(FirstIn(n + 1))
    <3>1. CASE x \in H
      <4>1. Cardinality(FirstIn(n + 1)) = Cardinality(FirstIn(n)) + 1
        BY <2>5, <2>6, <3>1
      <4>2. Cardinality(WhereIn(Append(w, x), H)) = Cardinality(WhereIn(w, H)) + 1
        BY <2>4, <3>1
      <4>3. CASE kept[n + 1] = w
        BY <2>4, <2>7, <4>1, <4>3
      <4>4. CASE kept[n + 1] = Append(w, x)
        BY <2>4, <2>7, <4>1, <4>2, <4>4
      <4> QED
        BY <2>3, <4>3, <4>4
    <3>2. CASE x \notin H
      <4>1. Cardinality(FirstIn(n + 1)) = Cardinality(FirstIn(n))
        BY <2>5, <3>2
      <4>2. Cardinality(WhereIn(Append(w, x), H)) = Cardinality(WhereIn(w, H))
        BY <2>4, <3>2
      <4>3. CASE kept[n + 1] = w
        BY <2>7, <4>1, <4>3
      <4>4. CASE kept[n + 1] = Append(w, x)
        BY <2>7, <4>1, <4>2, <4>4
      <4> QED
        BY <2>3, <4>3, <4>4
    <3> QED
      BY <3>1, <3>2
  <2> QED
    BY <2>1, <2>8
<1>6. N \in Good
  <2> HIDE DEF Good
  <2>1. \A n \in 0..N : n \in Good
    BY <1>2, <1>4, <1>5, UpTo
  <2> QED
    BY <1>2, <2>1
<1>7. FirstIn(N) = WhereIn(s, H)
  BY <1>2 DEF WhereIn
<1> QED
  BY <1>1, <1>6, <1>7

\* a file that == takes for another
Alike(f, g) == f.name = g.name /\ f.dir = g.dir /\ f.stamp = g.stamp

\* A step leaves the pushers of a file as they are, or fewer, where only one thread
\* moves, and it does not come to push that file.
LEMMA NoMorePushers ==
  ASSUME Busy, AtWork, NEW t \in Threads, NEW from, NEW to, Goto(t, from, to), NEW i, NEW n,
         \A u \in Threads \ {t} : at'[u] = at[u] /\ rest'[u] = rest[u],
         to = "push" => ~(at'[t] = i /\ rest'[t][1] = n)
  PROVE  Pushers(i, n)' \subseteq Pushers(i, n) /\ t \notin Pushers(i, n)'
<1>1. pc'[t] = to /\ \A u \in Threads \ {t} : pc'[u] = pc[u]
  BY DEF Goto, Busy
<1>2. t \notin Pushers(i, n)'
  BY <1>1 DEF Pushers
<1> QED
  BY <1>1, <1>2 DEF Pushers

\* Pushers add.
LEMMA PushersAdd ==
  ASSUME Busy, NEW i, NEW n
  PROVE  Pushers(i, n) \subseteq Adders /\ Adders \subseteq Threads
  BY DEF Busy, Pushers, Adders

\* Every step keeps the count.
LEMMA AddedTogetherStep ==
  ASSUME Busy, Busy', Tree, Tree', AtWork, NothingListed, AddsOnly, AddedTogether, [Next]_vars
  PROVE  AddedTogether'
<1> SUFFICES ASSUME NEW i \in Ids, NEW n \in Names
             PROVE  (Cardinality(Twins(i, n)) + Cardinality(Pushers(i, n)) <= Cardinality(Adders))'
  BY DEF AddedTogether
<1> PICK m : m = MakeFile(n, FALSE, "file", i)
  OBVIOUS
<1> PICK H : H = {c \in DOMAIN file : Alike(file[c], m)}
  OBVIOUS
<1> PICK T, U, D : T = Twins(i, n) /\ U = Pushers(i, n) /\ D = Adders
  OBVIOUS
<1> DEFINE Goal == Cardinality(Twins(i, n)') + Cardinality(Pushers(i, n)') <= Cardinality(D)
<1>0. SUFFICES Goal
  <2>1. Adders' = D
    BY UsesStay DEF Adders
  <2> QED
    BY <2>1
<1>1. T = WhereIn(children[i], H) /\ children[i] \in Seq(Ids)
  <2>1. children[i] \in Seq(Ids) /\ Links(i) \subseteq DOMAIN file
    BY DEF Tree
  <2>2. \A k \in DOMAIN children[i] : children[i][k] \in DOMAIN file
    BY <2>1 DEF Links
  <2>3. T = {k \in DOMAIN children[i] : Alike(file[children[i][k]], m)}
    BY DEF Twins, SameFile, Alike
  <2> QED
    BY <2>1, <2>2, <2>3 DEF WhereIn
<1>2. Twins(i, n)' = {k \in DOMAIN children'[i] : Alike(file'[children'[i][k]], m)}
  BY DEF Twins, SameFile, Alike
<1>3. /\ IsFiniteSet(T) /\ Cardinality(T) \in Nat /\ IsFiniteSet(U) /\ Cardinality(U) \in Nat
      /\ IsFiniteSet(D) /\ Cardinality(D) \in Nat /\ U \subseteq D
      /\ Cardinality(T) + Cardinality(U) <= Cardinality(D)
  <2>1. IsFiniteSet(Threads)
    BY UsesAssumption, Zenon DEF UsesAssumption
  <2>2. U \subseteq D /\ D \subseteq Threads
    BY PushersAdd
  <2>3. IsFiniteSet(D) /\ IsFiniteSet(U)
    BY <2>1, <2>2, FS_Subset
  <2>4. IsFiniteSet(T)
    <3>1. Root \in Ids
      BY ConstantsAssumption DEF ConstantsAssumption, Tree, Ids, Root
    <3> QED
      BY <1>1, <3>1, OneMoreIn
  <2>5. Cardinality(T) \in Nat /\ Cardinality(U) \in Nat /\ Cardinality(D) \in Nat
    BY <2>3, <2>4, FS_CardinalityType
  <2>6. Cardinality(T) + Cardinality(U) <= Cardinality(D)
    BY DEF AddedTogether
  <2> QED
    BY <2>2, <2>3, <2>4, <2>5, <2>6
<1>4. ASSUME NEW S, S \subseteq U PROVE Cardinality(S) \in Nat /\ Cardinality(S) <= Cardinality(U)
  BY <1>3, <1>4, FS_Subset, FS_CardinalityType
<1>5. ASSUME Cardinality(Twins(i, n)') \in Nat, Cardinality(Twins(i, n)') <= Cardinality(T),
             Pushers(i, n)' \subseteq U
      PROVE  Goal
  BY <1>3, <1>4, <1>5
<1>6. ASSUME children'[i] = children[i], file' = file, Pushers(i, n)' \subseteq U PROVE Goal
  <2>1. Twins(i, n)' = T
    BY <1>6 DEF Twins, SameFile
  <2> QED
    BY <1>3, <1>5, <1>6, <2>1
<1>7. ASSUME NEW t \in Threads, Scan(t) PROVE Goal
  <2>1. UNCHANGED <<file, children, at, rest>>
    BY <1>7 DEF Scan
  <2>2. PICK to : Goto(t, "scan", to) /\ to = IF \E c \in Links(at[t]) : SameFile(c, Added(t)) THEN "idle" ELSE "push"
    BY <1>7 DEF Scan
  <2>3. CASE to = "push" /\ at[t] = i /\ rest[t][1] = n
    <3>1. \A c \in Links(i) : ~SameFile(c, m)
      BY <2>2, <2>3 DEF Added
    <3>2. Twins(i, n) = {}
      BY <3>1 DEF Twins, Links
    <3>3. Twins(i, n)' = Twins(i, n)
      BY <2>1 DEF Twins, SameFile
    <3>4. Pushers(i, n)' \subseteq D
      <4>1. Pushers(i, n)' \subseteq Adders'
        BY DEF Busy, Pushers, Adders
      <4> QED
        BY <4>1, UsesStay DEF Adders
    <3>5. Cardinality(Pushers(i, n)') <= Cardinality(D) /\ Cardinality(Pushers(i, n)') \in Nat
      BY <1>3, <3>4, FS_Subset, FS_CardinalityType
    <3> QED
      BY <1>3, <3>2, <3>3, <3>5, FS_EmptySet
  <2>4. CASE ~(to = "push" /\ at[t] = i /\ rest[t][1] = n)
    <3>1. Pushers(i, n)' \subseteq U
      BY <2>1, <2>2, <2>4, NoMorePushers
    <3> QED
      BY <1>6, <2>1, <3>1
  <2> QED
    BY <2>3, <2>4
<1>8. ASSUME NEW t \in Threads, PushNew(t) PROVE Goal
  <2> PICK f, new, j : f = Added(t) /\ new = Len(file) + 1 /\ j = at[t]
    OBVIOUS
  <2>1. Goto(t, "push", "idle") /\ Push(t, f, Unlisted) /\ UNCHANGED <<at, rest>>
    BY <1>8 DEF PushNew
  <2>2. pc[t] = "push" /\ IsDirectory(j) /\ j \in Nat /\ rest[t] \in Seq(Text) /\ Len(rest[t]) > 0
    BY <2>1 DEF Goto, AtWork, Ids
  <2>3. f \in FileType /\ f.parent = j /\ f.name = rest[t][1]
    <3>1. rest[t][1] \in Text
      BY <2>2, Lefts
    <3>2. \A stamp \in Stamps :
            /\ MakeFile(rest[t][1], FALSE, stamp, j) \in FileType
            /\ MakeFile(rest[t][1], FALSE, stamp, j).parent = j
            /\ MakeFile(rest[t][1], FALSE, stamp, j).name = rest[t][1]
      <4> PICK name : name = rest[t][1]
        OBVIOUS
      <4>1. name \in Text /\ j \in Nat
        BY <2>2, <3>1
      <4>2. \A dir \in BOOLEAN, stamp \in Stamps :
              /\ MakeFile(name, dir, stamp, j) \in FileType
              /\ MakeFile(name, dir, stamp, j).parent = j
              /\ MakeFile(name, dir, stamp, j).name = name
        BY <4>1, FileMade
      <4> QED
        BY <4>2, Zenon
    <3> QED
      BY <3>2, Texts, Zenon DEF Added
  <2>4. Unlisted \in Seq(Text)
    BY DEF Unlisted
  <2>5. /\ new \in Ids /\ (\A c \in DOMAIN file : file'[c] = file[c]) /\ file'[new] = f /\ j \in Ids
        /\ children' = [children EXCEPT ![j] = Append(children[j], new)]
    BY <2>1, <2>2, <2>3, <2>4, TreePush
  <2>6. Pushers(i, n)' \subseteq U /\ t \notin Pushers(i, n)'
    BY <2>1, NoMorePushers
  <2>7. new \notin DOMAIN file /\ new \notin H /\ H \subseteq DOMAIN file
    BY FileIds
  <2>8. PICK G : G = IF Alike(f, m) THEN H \cup {new} ELSE H
    OBVIOUS
  <2>9. \A c \in DOMAIN file \cup {new} : c \in G <=> Alike(file'[c], m)
    BY <2>5, <2>7, <2>8
  <2>10. \A c \in Links(i) : c \in DOMAIN file
    BY DEF Tree
  <2>11. WhereIn(children[i], G) = T
    BY <1>1, <2>7, <2>8, <2>10 DEF WhereIn, Links
  <2>12. CASE i = j
    <3> PICK r : r = Append(children[i], new)
      OBVIOUS
    <3>1. children'[i] = r
      BY <2>5, <2>12 DEF Tree
    <3>2. \A k \in DOMAIN r : r[k] \in DOMAIN file \cup {new}
      <4>1. \A k \in DOMAIN r : r[k] \in Links(i) \cup {new}
        BY <1>1, <2>5 DEF Links
      <4> QED
        BY <2>10, <4>1
    <3>3. Twins(i, n)' = WhereIn(r, G)
      BY <1>2, <2>9, <3>1, <3>2 DEF WhereIn
    <3>4. Cardinality(WhereIn(r, G)) = IF new \in G THEN Cardinality(T) + 1 ELSE Cardinality(T)
      BY SMTT(60), <1>1, <2>5, <2>11, OneMoreIn
    <3>5. CASE new \notin G
      BY <1>3, <1>5, <2>6, <3>3, <3>4, <3>5
    <3>6. CASE new \in G
      <4>1. Alike(f, m)
        BY <2>7, <2>8, <3>6
      <4>2. m.name = n
        BY DEF MakeFile
      <4>3. rest[t][1] = n
        BY <2>3, <4>1, <4>2 DEF Alike
      <4>4. t \in U
        BY <2>2, <2>12, <4>3 DEF Pushers
      <4>5. Pushers(i, n)' \subseteq U \ {t}
        BY <2>6
      <4>6. IsFiniteSet(U \ {t}) /\ Cardinality(U \ {t}) = Cardinality(U) - 1
        BY <1>3, <4>4, FS_RemoveElement
      <4>7. Cardinality(Pushers(i, n)') <= Cardinality(U) - 1 /\ Cardinality(Pushers(i, n)') \in Nat
        BY <4>5, <4>6, FS_Subset, FS_CardinalityType
      <4> QED
        BY <1>3, <3>3, <3>4, <3>6, <4>7
    <3> QED
      BY <3>5, <3>6
  <2>13. CASE i # j
    <3>1. children'[i] = children[i]
      BY <2>5, <2>13 DEF Tree
    <3>2. \A k \in DOMAIN children[i] : children[i][k] \in DOMAIN file
      BY <2>10 DEF Links
    <3>3. Twins(i, n)' = WhereIn(children[i], G)
      BY <1>2, <2>9, <3>1, <3>2 DEF WhereIn
    <3> QED
      BY <1>3, <1>5, <2>6, <2>11, <3>3
  <2> QED
    BY <2>12, <2>13
<1>9. ASSUME NEW t \in Threads, NEW j \in DOMAIN file, NEW k \in DOMAIN children[j], RemoveChild(t, j, k) PROVE Goal
  <2>1. /\ Goto(t, "idle", "idle") /\ UNCHANGED <<file, at, rest>>
        /\ children' = [children EXCEPT ![j] = Without(children[j], file[children[j][k]])]
    BY <1>9 DEF RemoveChild
  <2>2. Pushers(i, n)' \subseteq U
    BY <2>1, NoMorePushers
  <2>3. CASE i # j
    <3>1. children'[i] = children[i]
      BY <2>1, <2>3 DEF Tree
    <3> QED
      BY <1>6, <2>1, <2>2, <3>1
  <2>4. CASE i = j
    <3> PICK r : r = Without(children[i], file[children[i][k]])
      OBVIOUS
    <3>1. children'[i] = r
      BY <2>1, <2>4 DEF Tree
    <3>2. r \in Seq(Ids)
      BY <1>1, SomeLeft
    <3>3. \A l \in DOMAIN r : r[l] \in DOMAIN file
      <4>1. Links(i)' \subseteq DOMAIN file'
        BY DEF Tree
      <4>2. \A l \in DOMAIN children'[i] : children'[i][l] \in DOMAIN file'
        BY <4>1 DEF Links
      <4> QED
        BY <2>1, <3>1, <4>2
    <3>4. Twins(i, n)' = WhereIn(r, H)
      BY <1>2, <2>1, <3>1, <3>3 DEF WhereIn
    <3>5. Cardinality(WhereIn(r, H)) <= Cardinality(T)
      BY <1>1, NoMoreLeft
    <3>6. Cardinality(WhereIn(r, H)) \in Nat
      BY <2>4, <3>2, FileIds, OneMoreIn
    <3> QED
      BY <1>5, <2>2, <3>4, <3>5, <3>6
  <2> QED
    BY <2>3, <2>4
<1>10. ASSUME NEW t \in Threads, NEW j, NEW x, AddIfNotExist(t, j, x) PROVE Goal
  <2>1. /\ Goto(t, "idle", "scan") /\ UNCHANGED <<file, children>>
        /\ at' = [at EXCEPT ![t] = j] /\ rest' = [rest EXCEPT ![t] = <<x>>]
    BY <1>10 DEF AddIfNotExist
  <2>2. \A u \in Threads \ {t} : at'[u] = at[u] /\ rest'[u] = rest[u]
    BY <2>1 DEF AtWork
  <2>3. Pushers(i, n)' \subseteq U
    BY <2>1, <2>2, NoMorePushers
  <2> QED
    BY <1>6, <2>1, <2>3
<1>11. ASSUME NEW t \in Threads, NEW j, NEW k, NEW moves,
              \/ NextLine(t) \/ WalkJson(t) \/ WalkLsl(t) \/ MakeDirectory(t) \/ AddEntry(t)
              \/ AddChild(t, j, k) \/ CopyFile(t, j) \/ MoveFile(t, j) \/ AssignFile(t, j, k, moves)
       PROVE  FALSE
  <2>1. uses[t] \subseteq {"add_if", "remove"} /\ lines[t] = {} /\ pc[t] \notin {"walk", "make"}
    BY DEF AddsOnly, NothingListed
  <2> QED
    BY <1>11, <2>1 DEF NextLine, WalkJson, WalkLsl, MakeDirectory, AddEntry, AddChild, CopyFile,
       MoveFile, AssignFile, Goto
<1>12. ASSUME UNCHANGED vars PROVE Goal
  <2>1. UNCHANGED <<file, children, pc, at, rest>>
    BY <1>12 DEF vars, threadVars
  <2>2. Pushers(i, n)' = U
    BY <2>1 DEF Pushers
  <2> QED
    BY <1>6, <2>1, <2>2
<1> HIDE DEF Goal
<1>13. ASSUME NEW t \in Threads, NEW j \in DOMAIN file,
              \/ \E x \in Names : AddIfNotExist(t, j, x)
              \/ \E k \in DOMAIN children[j] : RemoveChild(t, j, k)
              \/ CopyFile(t, j) \/ MoveFile(t, j)
              \/ \E c \in DOMAIN file :
                   \/ AddChild(t, j, c)
                   \/ \E moves \in BOOLEAN : AssignFile(t, j, c, moves)
       PROVE  Goal
  BY <1>9, <1>10, <1>11, <1>13, Zenon
<1> QED
  BY <1>7, <1>8, <1>11, <1>12, <1>13, Zenon DEF Next, Over

\* The inductive invariant.
Together == AddsOnly => Tree /\ AtWork /\ NothingListed /\ AddedTogether

(***************************************************************************)
(* Where files are only added if they do not exist, and removed, a         *)
(* directory never has more of one file than there are threads that add,   *)
(* though they look and push without a lock that holds for both.           *)
(***************************************************************************)
THEOREM AddedAtMostOncePerThread == Spec => []AddedOncePerThread
<1>1. Init => Busy /\ Together
  <2> SUFFICES ASSUME Init, AddsOnly PROVE NothingListed /\ AddedTogether
    BY TypesInit DEF Together
  <2>1. /\ \A t \in Threads : pc[t] = "idle" /\ lines[t] = {}
        /\ \A i \in Ids : children[i] = <<>>
        /\ listed = [i \in 1..MaxFiles |-> Unlisted]
    BY DEF Init, AddsOnly, Ids
  <2>2. ASSUME NEW i \in Ids, NEW n \in Names
        PROVE  Cardinality(Twins(i, n)) + Cardinality(Pushers(i, n)) <= Cardinality(Adders)
    <3>1. Twins(i, n) = {} /\ Pushers(i, n) = {}
      <4>1. DOMAIN children[i] = {}
        BY <2>1
      <4>2. Twins(i, n) = {}
        BY <4>1, Zenon DEF Twins
      <4>3. Pushers(i, n) = {}
        BY <2>1, Zenon DEF Pushers
      <4> QED
        BY <4>2, <4>3
    <3>2. IsFiniteSet(Adders)
      <4>1. IsFiniteSet(Threads) /\ Adders \in SUBSET Threads
        BY UsesAssumption DEF UsesAssumption, Adders
      <4> QED
        BY <4>1, FS_Subset
    <3>3. Cardinality(Adders) \in Nat
      BY <3>2, FS_CardinalityType
    <3> QED
      BY <3>1, <3>3, FS_EmptySet
  <2> QED
    BY <2>1, <2>2 DEF NothingListed, AddedTogether
<1>2. Busy /\ Together /\ [Next]_vars => (Busy /\ Together)'
  <2> SUFFICES ASSUME Busy, Together, [Next]_vars, AddsOnly
               PROVE  (Tree /\ AtWork /\ NothingListed /\ AddedTogether)'
    BY BusyStep, UsesStay DEF Together, AddsOnly
  <2>1. Tree /\ AtWork /\ NothingListed /\ AddedTogether
    BY DEF Together
  <2>2. Nobody({"move", "assign"})
    BY DEF AddsOnly, Nobody
  <2>3. Tree' /\ AtWork'
    BY <2>1, <2>2, TypesStep
  <2>4. NothingListed'
    BY <2>1, NothingListedStep
  <2>5. AddedTogether'
    BY <2>1, <2>3, BusyStep, AddedTogetherStep
  <2> QED
    BY <2>3, <2>4, <2>5
<1>3. Busy /\ Together => AddedOncePerThread
  <2> SUFFICES ASSUME Busy, Together, AddsOnly, NEW i \in Ids, NEW n \in Names
               PROVE  Cardinality(Twins(i, n)) <= Cardinality(Adders)
    BY DEF AddedOncePerThread, AddsOnly
  <2>1. Cardinality(Twins(i, n)) + Cardinality(Pushers(i, n)) <= Cardinality(Adders) /\ Tree
    BY DEF Together, AddedTogether
  <2>2. IsFiniteSet(Pushers(i, n)) /\ IsFiniteSet(Adders)
    <3>1. IsFiniteSet(Threads) /\ Pushers(i, n) \in SUBSET Threads /\ Adders \in SUBSET Threads
      BY UsesAssumption DEF UsesAssumption, Adders, Pushers
    <3> QED
      BY <3>1, FS_Subset
  <2>3. IsFiniteSet(Twins(i, n))
    <3>1. IsFiniteSet(1..Len(children[i])) /\ Twins(i, n) \in SUBSET (1..Len(children[i]))
      <4>1. children[i] \in Seq(Ids)
        BY <2>1 DEF Tree
      <4>2. Len(children[i]) \in Nat /\ DOMAIN children[i] = 1..Len(children[i])
        BY <4>1
      <4> QED
        <5>1. IsFiniteSet(1..Len(children[i]))
          BY <4>2, FS_Interval
        <5>2. Twins(i, n) \subseteq DOMAIN children[i]
          BY Zenon DEF Twins
        <5> QED
          BY <4>2, <5>1, <5>2
    <3> QED
      BY <3>1, FS_Subset
  <2>4. /\ Cardinality(Twins(i, n)) \in Nat /\ Cardinality(Pushers(i, n)) \in Nat
        /\ Cardinality(Adders) \in Nat
    BY <2>2, <2>3, FS_CardinalityType
  <2> QED
    BY <2>1, <2>4
<1> QED
  BY <1>1, <1>2, <1>3, PTL DEF Spec

=============================================================================
