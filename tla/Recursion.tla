----------------------------- MODULE Recursion -----------------------------
(***************************************************************************)
(* Induction over numbers, and what it takes to reason about a recursive   *)
(* function.  The theorems of the library about these take an operator for *)
(* a parameter; here the property is a set, the step a function, so that   *)
(* the lemmas are of the first order and can be cited by any proof.  They  *)
(* come from the order of the finite sets, which has no infinite descent.  *)
(* At the end, what the proofs need of sequences, in one fact each.        *)
(***************************************************************************)
EXTENDS Integers, Sequences, FiniteSetTheorems, SequenceTheorems, TLAPS

\* A set of numbers that is not empty has a least member.
LEMMA LeastMember ==
  ASSUME NEW S, S \subseteq Nat, S # {}
  PROVE  \E n \in S : \A m \in S : n <= m
<1>1. PICK b \in S : TRUE
  OBVIOUS
<1> DEFINE Below == {n \in S : n <= b}
           Upto  == {0..n : n \in Below}
<1>2. IsWellFoundedOn(StrictSubsetOrdering(0..b), FiniteSubsetsOf(0..b))
  BY FS_StrictSubsetOrderingWellFounded
<1>3. Upto \subseteq FiniteSubsetsOf(0..b)
  <2>1. ASSUME NEW n \in Below PROVE 0..n \in SUBSET (0..b) /\ IsFiniteSet(0..n)
    BY FS_Interval
  <2> QED
    BY <2>1 DEF FiniteSubsetsOf
<1>4. PICK x \in Upto : \A y \in Upto : <<y, x>> \notin StrictSubsetOrdering(0..b)
  <2>1. Upto # {}
    OBVIOUS
  <2> HIDE DEF Upto
  <2> QED
    BY <1>2, <1>3, <2>1, WFMin, Zenon
<1>5. PICK n \in Below : x = 0..n
  OBVIOUS
<1>6. ASSUME NEW m \in S, m < n PROVE FALSE
  <2>1. 0..m \in Upto /\ 0..m # x /\ 0..m \subseteq x
    BY <1>5, <1>6
  <2>2. x \in SUBSET (0..b) /\ 0..m \in SUBSET (0..b)
    BY <1>5, <1>6
  <2> QED
    BY <1>4, <2>1, <2>2 DEF StrictSubsetOrdering
<1> QED
  BY <1>6

\* Induction from 0 up to a bound: S is the set of the numbers that have the property.
LEMMA UpTo ==
  ASSUME NEW N \in Nat, NEW S, 0 \in S, \A n \in 0..(N - 1) : n \in S => n + 1 \in S
  PROVE  \A n \in 0..N : n \in S
<1> SUFFICES ASSUME (0..N) \ S # {} PROVE FALSE
  OBVIOUS
<1>1. PICK n \in (0..N) \ S : \A m \in (0..N) \ S : n <= m
  <2> DEFINE T == (0..N) \ S
  <2>1. T \subseteq Nat /\ T # {}
    OBVIOUS
  <2> HIDE DEF T
  <2>2. \E n \in T : \A m \in T : n <= m
    BY <2>1, LeastMember
  <2> QED
    BY <2>2 DEF T
<1>2. n - 1 \in 0..(N - 1) /\ n - 1 \in S
  BY <1>1
<1> QED
  BY <1>1, <1>2

\* Induction that may use the property of every smaller number.
LEMMA FromSmaller ==
  ASSUME NEW N \in Nat, NEW S, \A n \in 1..N : (\A m \in 1..(n - 1) : m \in S) => n \in S
  PROVE  \A n \in 1..N : n \in S
<1> SUFFICES ASSUME (1..N) \ S # {} PROVE FALSE
  OBVIOUS
<1>1. PICK n \in (1..N) \ S : \A m \in (1..N) \ S : n <= m
  <2> DEFINE T == (1..N) \ S
  <2>1. T \subseteq Nat /\ T # {}
    OBVIOUS
  <2> HIDE DEF T
  <2>2. \E n \in T : \A m \in T : n <= m
    BY <2>1, LeastMember
  <2> QED
    BY <2>2 DEF T
<1> QED
  BY <1>1

\* f is in V from the start, and each value is a step from the one before it.
Steps(f, N, V, base, step) ==
  f \in [0..N -> V] /\ f[0] = base /\ \A n \in 1..N : f[n] = step[n][f[n - 1]]

\* Where every step leads from V to V, the recursion has a solution.
LEMMA RecursionExists ==
  ASSUME NEW N \in Nat, NEW V, NEW base \in V, NEW step \in [1..N -> [V -> V]]
  PROVE  \E f : Steps(f, N, V, base, step)
<1> DEFINE Good(f, k) == f[0] = base /\ \A n \in 1..k : f[n] = step[n][f[n - 1]]
           S == {k \in 0..N : \E f \in [0..k -> V] : Good(f, k)}
<1>1. 0 \in S
  <2>1. [n \in 0..0 |-> base] \in [0..0 -> V] /\ Good([n \in 0..0 |-> base], 0)
    OBVIOUS
  <2>2. 0 \in 0..N
    OBVIOUS
  <2> HIDE DEF Good
  <2> QED
    BY <2>1, <2>2
<1>2. ASSUME NEW k \in 0..(N - 1), k \in S PROVE k + 1 \in S
  <2>1. PICK f \in [0..k -> V] : Good(f, k)
    BY <1>2
  <2> DEFINE g == [n \in 0..(k + 1) |-> IF n = k + 1 THEN step[n][f[k]] ELSE f[n]]
  <2>2. step[k + 1][f[k]] \in V
    <3>1. k + 1 \in 1..N /\ k \in 0..k
      OBVIOUS
    <3> QED
      BY <3>1
  <2>3. g \in [0..(k + 1) -> V]
    BY <2>2
  <2>4. Good(g, k + 1)
    BY <2>1
  <2>5. k + 1 \in 0..N
    OBVIOUS
  <2> HIDE DEF Good, g
  <2> QED
    BY <2>3, <2>4, <2>5
<1> HIDE DEF S
<1>3. \A n \in 0..N : n \in S
  BY <1>1, <1>2, UpTo
<1>4. N \in S
  BY <1>3
<1> QED
  BY <1>4 DEF S, Steps

-----------------------------------------------------------------------------
\* What is appended to a sequence goes to the end.
LEMMA Appended ==
  ASSUME NEW S, NEW w \in Seq(S), NEW x \in S
  PROVE  /\ Append(w, x) \in Seq(S) /\ Len(Append(w, x)) = Len(w) + 1
         /\ \A k \in 1..Len(w) : Append(w, x)[k] = w[k]
         /\ Append(w, x)[Len(w) + 1] = x
         /\ Append(w, x) # <<>>
         /\ Len(w) \in Nat /\ (w = <<>> <=> Len(w) = 0)
<1>1. /\ Append(w, x) \in Seq(S) /\ Len(Append(w, x)) = Len(w) + 1
      /\ \A k \in 1..Len(w) : Append(w, x)[k] = w[k]
      /\ Append(w, x)[Len(w) + 1] = x
  BY AppendProperties
<1>2. Len(w) \in Nat /\ (w = <<>> <=> Len(w) = 0)
  BY EmptySeq
<1>3. Append(w, x) # <<>>
  <2>1. \A s : s = <<>> => Len(s) = 0
    BY EmptySeq
  <2>2. Len(Append(w, x)) # 0
    BY <1>1, <1>2
  <2> QED
    BY <2>1, <2>2, Zenon
<1> QED
  BY <1>1, <1>2, <1>3

\* What two sequences are joined to.
LEMMA Joined ==
  ASSUME NEW S, NEW u \in Seq(S), NEW v \in Seq(S)
  PROVE  /\ u \o v \in Seq(S) /\ Len(u \o v) = Len(u) + Len(v)
         /\ Len(u) \in Nat /\ Len(v) \in Nat
         /\ \A k \in 1..Len(u) : (u \o v)[k] = u[k]
         /\ \A k \in 1..Len(v) : (u \o v)[Len(u) + k] = v[k]
<1>1. Len(u) \in Nat /\ Len(v) \in Nat /\ u \o v \in Seq(S) /\ Len(u \o v) = Len(u) + Len(v)
  BY ConcatProperties
<1>2. \A k \in 1..(Len(u) + Len(v)) : (u \o v)[k] = IF k <= Len(u) THEN u[k] ELSE v[k - Len(u)]
  BY ConcatProperties
<1>3. \A k \in 1..Len(u) : (u \o v)[k] = u[k]
  BY <1>1, <1>2
<1>4. ASSUME NEW k \in 1..Len(v) PROVE (u \o v)[Len(u) + k] = v[k]
  <2>1. /\ Len(u) + k \in 1..(Len(u) + Len(v)) /\ ~(Len(u) + k <= Len(u))
        /\ (Len(u) + k) - Len(u) = k
    BY <1>1
  <2> QED
    BY <1>2, <2>1
<1> QED
  BY <1>1, <1>3, <1>4

\* The shortest sequences.
LEMMA Pieces ==
  ASSUME NEW S
  PROVE  /\ <<>> \in Seq(S)
         /\ \A x \in S : <<x>> \in Seq(S)
         /\ \A x, y \in S : <<x, y>> \in Seq(S) /\ <<x, y>> = <<x>> \o <<y>>
         /\ \A u \in Seq(S) : u \o <<>> = u /\ <<>> \o u = u
<1>1. <<>> \in Seq(S) /\ \A x \in S : <<x>> \in Seq(S)
  OBVIOUS
<1>2. \A x, y \in S : <<x, y>> \in Seq(S)
  OBVIOUS
<1>3. ASSUME NEW x \in S, NEW y \in S PROVE <<x, y>> = <<x>> \o <<y>>
  <2>0. PICK u, v, w, z : u = <<x>> /\ v = <<y>> /\ w = <<x, y>> /\ z = u \o v
    OBVIOUS
  <2>1. /\ u \in Seq(S) /\ v \in Seq(S) /\ w \in Seq(S) /\ Len(u) = 1 /\ Len(v) = 1 /\ Len(w) = 2
        /\ u[1] = x /\ v[1] = y /\ w[1] = x /\ w[2] = y
    BY <2>0
  <2>2. /\ u \o v \in Seq(S) /\ Len(u \o v) = Len(u) + Len(v)
        /\ \A k \in 1..Len(u) : (u \o v)[k] = u[k]
        /\ \A k \in 1..Len(v) : (u \o v)[Len(u) + k] = v[k]
    <3>1. u \in Seq(S) /\ v \in Seq(S)
      BY <2>1
    <3> QED
      BY <3>1, Joined
  <2>3. z \in Seq(S) /\ Len(z) = 2 /\ z[1] = x /\ z[2] = y
    BY <2>0, <2>1, <2>2
  <2>4. \A k \in 1..Len(w) : w[k] = z[k]
    BY <2>1, <2>3
  <2>5. w = z
    BY <2>1, <2>3, <2>4, SeqEqual
  <2> QED
    BY <2>0, <2>5
<1>4. \A u \in Seq(S) : u \o <<>> = u /\ <<>> \o u = u
  OBVIOUS
<1> QED
  BY <1>1, <1>2, <1>3, <1>4

\* Sequences one after the other.
LEMMA Regroup ==
  ASSUME NEW S
  PROVE  /\ \A u, v \in Seq(S) : u \o v \in Seq(S)
         /\ \A u, v, w \in Seq(S) : (u \o v) \o w = u \o (v \o w)
<1>1. \A u, v \in Seq(S) : u \o v \in Seq(S)
  OBVIOUS
<1>2. \A u, v, w \in Seq(S) : (u \o v) \o w = u \o (v \o w)
  BY ConcatAssociative
<1> QED
  BY <1>1, <1>2

\* What is left of a path after its first name.
LEMMA Lefts ==
  ASSUME NEW S, NEW s \in Seq(S), Len(s) > 0
  PROVE  /\ Head(s) \in S /\ Head(s) = s[1] /\ Tail(s) \in Seq(S) /\ Len(Tail(s)) = Len(s) - 1
         /\ Len(s) \in Nat /\ s = <<Head(s)>> \o Tail(s)
<1>1. s # <<>> /\ Len(s) \in Nat /\ Head(s) = s[1] /\ s[1] \in S
  OBVIOUS
<1>2. Tail(s) \in Seq(S) /\ Len(Tail(s)) = Len(s) - 1
  BY <1>1
<1>3. s = <<Head(s)>> \o Tail(s)
  BY <1>1
<1> QED
  BY <1>1, <1>2, <1>3

\* Where a sequence begins as another.
LEMMA SubSeqIs ==
  ASSUME NEW S, NEW a \in Seq(S), NEW b \in Seq(S), Len(a) <= Len(b),
         \A k \in 1..Len(a) : b[k] = a[k]
  PROVE  SubSeq(b, 1, Len(a)) = a
<1>1. Len(a) \in Nat /\ Len(b) \in Nat
  OBVIOUS
<1>2. SubSeq(b, 1, Len(a)) = [k \in 1..Len(a) |-> b[k]]
  BY <1>1
<1>3. a = [k \in 1..Len(a) |-> a[k]]
  BY <1>1
<1> QED
  BY <1>2, <1>3

\* One more member, or it twice.
LEMMA OneOrTwo ==
  ASSUME NEW S, NEW u \in Seq(S), NEW x \in S
  PROVE  /\ <<x>> \in Seq(S) /\ <<x, x>> \in Seq(S)
         /\ u \o <<x>> \in Seq(S) /\ u \o <<x, x>> \in Seq(S)
         /\ u \o <<x, x>> = (u \o <<x>>) \o <<x>>
<1>1. PICK one, two : one = <<x>> /\ two = <<x, x>>
  OBVIOUS
<1>2. one \in Seq(S) /\ two \in Seq(S) /\ two = one \o one
  BY <1>1
<1>3. u \o one \in Seq(S) /\ u \o two \in Seq(S)
  BY <1>2
<1>4. (u \o one) \o one = u \o (one \o one)
  BY <1>2, ConcatAssociative
<1> QED
  BY <1>1, <1>2, <1>3, <1>4

\* The members of a sequence twice as long, two by two.
LEMMA Halves ==
  ASSUME NEW N \in Nat, NEW n \in 1..(2 * N)
  PROVE  \E k \in 1..N : n = 2 * k - 1 \/ n = 2 * k
<1>1. n = 2 * (n \div 2) \/ n = 2 * (n \div 2) + 1
  OBVIOUS
<1>2. n \div 2 \in Nat
  OBVIOUS
<1> PICK h \in Nat : h = n \div 2
  BY <1>2
<1>3. CASE n = 2 * h
  <2>1. h \in 1..N
    BY <1>3
  <2> QED
    BY <1>3, <2>1
<1>4. CASE n = 2 * h + 1
  <2>1. h + 1 \in 1..N /\ n = 2 * (h + 1) - 1
    BY <1>4
  <2> QED
    BY <2>1
<1> QED
  BY <1>1, <1>3, <1>4

\* Rows of values, each row made from the one before: row n has, for i, what up
\* makes of the value of its parent in row n - 1.
Rows(g, M, V, none, I, J, parent, up) ==
  /\ g \in [0..M -> [I -> V]]
  /\ \A n \in 0..M : \A i \in I :
       g[n][i] = IF n = 0 \/ i \notin J THEN none ELSE up[i][g[n - 1][parent[i]]]

\* There are such rows.
LEMMA RowsExist ==
  ASSUME NEW M \in Nat, NEW V, NEW none \in V, NEW I, NEW J, NEW parent \in [J -> I],
         NEW up \in [J -> [V -> V]]
  PROVE  \E g : Rows(g, M, V, none, I, J, parent, up)
<1> DEFINE W == [I -> V]
           base == [i \in I |-> none]
           Row(w) == [i \in I |-> IF i \notin J THEN none ELSE up[i][w[parent[i]]]]
           step == [n \in 1..M |-> [w \in W |-> Row(w)]]
<1>1. base \in W /\ \A w \in W : Row(w) \in W
  OBVIOUS
<1>2. PICK g : Steps(g, M, W, base, step)
  <2> HIDE DEF W, base, Row
  <2>1. step \in [1..M -> [W -> W]]
    BY <1>1
  <2> HIDE DEF step
  <2> QED
    BY <1>1, <2>1, RecursionExists
<1>3. g \in [0..M -> W] /\ g[0] = base /\ \A n \in 1..M : g[n] = step[n][g[n - 1]]
  BY <1>2 DEF Steps
<1>4. ASSUME NEW n \in 1..M PROVE g[n] = Row(g[n - 1]) /\ g[n - 1] \in W
  <2> HIDE DEF W, Row
  <2>1. n - 1 \in 0..M
    OBVIOUS
  <2>2. g[n - 1] \in W /\ step[n][g[n - 1]] = Row(g[n - 1])
    BY <1>3, <2>1
  <2> QED
    BY <1>3, <2>2
<1>5. ASSUME NEW n \in 0..M, NEW i \in I
      PROVE  g[n][i] = IF n = 0 \/ i \notin J THEN none ELSE up[i][g[n - 1][parent[i]]]
  <2>1. CASE n = 0
    BY <1>3, <2>1
  <2>2. CASE n # 0
    <3>1. n \in 1..M
      BY <2>2
    <3>2. g[n] = Row(g[n - 1])
      BY <1>4, <3>1
    <3>3. \A w : Row(w)[i] = IF i \notin J THEN none ELSE up[i][w[parent[i]]]
      OBVIOUS
    <3> HIDE DEF Row
    <3>4. g[n][i] = IF i \notin J THEN none ELSE up[i][g[n - 1][parent[i]]]
      BY <3>2, <3>3
    <3> QED
      BY <2>2, <3>4
  <2> QED
    BY <2>1, <2>2
<1> QED
  BY <1>3, <1>5 DEF Rows

=============================================================================
