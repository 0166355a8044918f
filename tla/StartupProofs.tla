--------------------------- MODULE StartupProofs ---------------------------
(***************************************************************************)
(* First what the path algorithms of the file tools do with every path:    *)
(* they make it a normal one, that names each directory once, and leave a  *)
(* normal one as it is.  Then the start of the programs: it keeps the file *)
(* system a tree, works with normal paths, makes the directories it can    *)
(* make, and gives the same answer to the same job, for any number of      *)
(* programs on any file system.                                            *)
(***************************************************************************)
EXTENDS Startup, Induction

(* A directory that fits into sub_dirs. *)
Shallow == {d \in Directories : Len(d) <= SM_MAX_SUBDIRS}

(* A path that starts at the root. *)
Absolute == {p \in Path : Len(p) > 1 /\ p[1] = Nil}

-----------------------------------------------------------------------------
(* About one, for the lengths below. *)
LEMMA MoreThanOne == \A n \in Nat : n > 1 <=> n > 0 /\ n # 1
OBVIOUS

(* A sequence without its last element. *)
LEMMA FrontFacts ==
    ASSUME NEW A, NEW s \in Seq(A), s # <<>>
    PROVE  /\ Front(s) \in Seq(A) /\ Len(Front(s)) = Len(s) - 1
           /\ \A i \in 1..(Len(s) - 1) : Front(s)[i] = s[i]
           /\ Last(s) \in A /\ s = Append(Front(s), Last(s)) /\ Len(s) > 0
<1>1. PICK n \in Nat : Len(s) = n + 1
  <2>1. Len(s) \in Nat /\ Len(s) > 0
    OBVIOUS
  <2>2. Len(s) - 1 \in Nat /\ Len(s) = (Len(s) - 1) + 1
    BY <2>1
  <2> QED
    BY <2>2
<1> DEFINE f == SubSeq(s, 1, n)
<1>2. f \in Seq(A) /\ Len(f) = n /\ \A i \in 1..n : f[i] = s[i]
  BY <1>1
<1>3. s[n + 1] \in A /\ s = Append(f, s[n + 1])
  BY <1>1
<1>4. Len(s) - 1 = n
  BY <1>1
<1>5. Front(s) = f /\ Last(s) = s[n + 1]
  BY <1>1, <1>4 DEF Front, Last
<1> HIDE DEF f
<1> QED
  BY <1>1, <1>2, <1>3, <1>4, <1>5

(* What it is to be a directory, in one place. *)
LEMMA ShallowFacts ==
    \A d : d \in Shallow <=>
        /\ d \in Seq(Elements) /\ Len(d) \in Nat /\ Len(d) > 0 /\ d[1] = Nil
        /\ Len(d) <= SM_MAX_SUBDIRS
        /\ \A i \in 2..Len(d) : d[i] \in Names
BY DEF Shallow, Directories, Path

(* The three special elements are different, which is all that is used of them. *)
LEMMA Specials == Nil # Here /\ Nil # Up /\ Here # Up
BY DEF Nil, Here, Up

LEMMA RootIsShallow == Root \in Shallow
<1>1. Nil \in Elements /\ SM_MAX_SUBDIRS \in Nat /\ SM_MAX_SUBDIRS >= 1
  BY PathsAssumption
<1>2. Root \in Seq(Elements) /\ Len(Root) = 1 /\ Root[1] = Nil
  BY <1>1 DEF Root
<1>3. ASSUME NEW r, r \in Seq(Elements), Len(r) = 1, r[1] = Nil PROVE r \in Shallow
  <2>1. \A i \in 2..Len(r) : r[i] \in Names
    BY <1>3
  <2>2. Len(r) \in Nat /\ Len(r) > 0 /\ Len(r) <= SM_MAX_SUBDIRS
    BY <1>1, <1>3
  <2> QED
    BY <1>3, <2>1, <2>2, ShallowFacts
<1> QED
  BY <1>2, <1>3

(* Going into a directory, or back from it, leads to a directory. *)
LEMMA EnterType ==
    ASSUME NEW d \in Shallow, NEW x \in Elements, x # Nil
    PROVE  Enter(d, x) \in Shallow
<1>d. /\ d \in Seq(Elements) /\ d # <<>> /\ Len(d) \in Nat /\ Len(d) > 0 /\ d[1] = Nil
      /\ Len(d) <= SM_MAX_SUBDIRS
      /\ \A i \in 2..Len(d) : d[i] \in Names
  BY ShallowFacts
<1>1. CASE Enter(d, x) = d
  BY <1>1
<1>2. CASE Len(d) < SM_MAX_SUBDIRS /\ x \in Names /\ Enter(d, x) = Append(d, x)
  <2>1. /\ Append(d, x) \in Seq(Elements) /\ Len(Append(d, x)) = Len(d) + 1
        /\ \A i \in 1..Len(d) : Append(d, x)[i] = d[i]
        /\ Append(d, x)[Len(d) + 1] = x
    BY <1>d
  <2> DEFINE e == Append(d, x)
  <2>2. \A i \in 2..Len(e) : e[i] \in Names
    BY <1>2, <1>d, <2>1
  <2>3. e \in Seq(Elements) /\ Len(e) \in Nat /\ Len(e) > 0 /\ e[1] = Nil /\ Len(e) <= SM_MAX_SUBDIRS
    BY <1>2, <1>d, <2>1, PathsAssumption
  <2> HIDE DEF e
  <2>4. e \in Shallow
    BY <2>2, <2>3, ShallowFacts
  <2> QED
    BY <1>2, <2>4 DEF e
<1>3. CASE Len(d) > 1 /\ Enter(d, x) = Front(d)
  <2>1. /\ Front(d) \in Seq(Elements) /\ Len(Front(d)) = Len(d) - 1
        /\ \A i \in 1..(Len(d) - 1) : Front(d)[i] = d[i]
    BY <1>d, FrontFacts
  <2> QED
    BY <1>3, <1>d, <2>1, ShallowFacts, PathsAssumption
<1>4. \/ Enter(d, x) = d
      \/ Len(d) < SM_MAX_SUBDIRS /\ x \in Names /\ Enter(d, x) = Append(d, x)
      \/ Len(d) > 1 /\ Enter(d, x) = Front(d)
  BY <1>d, PathsAssumption DEF Enter, Names
<1> QED
  BY <1>1, <1>2, <1>3, <1>4

(* One element of a path: what the loop over its names does with it. *)
Stride(d, x) == IF x = Nil THEN d ELSE Enter(d, x)

(* A function that satisfies the recursive definition. *)
Follows(f, p) ==
    /\ f \in [0..Len(p) -> Shallow]
    /\ f[0] = Root
    /\ \A i \in 1..Len(p) : f[i] = Stride(f[i - 1], p[i])

(* The recursive definition defines, and every value is a directory. *)
LEMMA DirsAfterDef ==
    ASSUME NEW p \in Path
    PROVE  Follows(DirsAfter(p), p)
<1> DEFINE Body(f) == [i \in 0..Len(p) |-> IF i = 0 THEN Root
                         ELSE IF p[i] = Nil THEN f[i - 1] ELSE Enter(f[i - 1], p[i])]
           step == [x \in Shallow \X (1..Len(p)) |-> Stride(x[1], p[x[2]])]
<1>n. Len(p) \in Nat /\ \A i \in 1..Len(p) : p[i] \in Elements
  BY DEF Path
<1>s. \A d \in Shallow, i \in 1..Len(p) : Stride(d, p[i]) \in Shallow
  BY <1>n, EnterType DEF Stride
<1>1. step \in [Shallow \X (1..Len(p)) -> Shallow]
  <2>1. ASSUME NEW x \in Shallow \X (1..Len(p)) PROVE Stride(x[1], p[x[2]]) \in Shallow
    BY <1>s
  <2> QED
    BY <2>1
<1>2. \A d \in Shallow, i \in 1..Len(p) : step[<<d, i>>] = Stride(d, p[i])
  OBVIOUS
<1> HIDE DEF step
<1>i. \E f : IsIteration(f, Root, step, Shallow, Len(p))
  BY <1>1, <1>n, RootIsShallow, Iteration DEF IsStep
<1>3. PICK f \in [0..Len(p) -> Shallow] :
          f[0] = Root /\ \A i \in 1..Len(p) : f[i] = step[<<f[i - 1], i>>]
  BY <1>i DEF IsIteration
<1>4. ASSUME NEW i \in 0..Len(p) PROVE f[i] = Body(f)[i]
  <2>1. CASE i = 0
    BY <1>3, <2>1
  <2>2. CASE i # 0
    <3>1. i \in 1..Len(p) /\ i - 1 \in 0..Len(p)
      BY <1>n, <2>2
    <3>2. f[i] = step[<<f[i - 1], i>>]
      BY <1>3, <3>1
    <3>3. f[i - 1] \in Shallow
      BY <3>1
    <3>4. f[i] = Stride(f[i - 1], p[i])
      BY <1>2, <3>1, <3>2, <3>3
    <3> QED
      BY <2>2, <3>4 DEF Stride
  <2> QED
    BY <2>1, <2>2
<1>5. f = Body(f)
  <2>1. f = [i \in 0..Len(p) |-> f[i]]
    OBVIOUS
  <2> QED
    BY <1>4, <2>1
<1>6. DirsAfter(p) = CHOOSE g : g = Body(g)
  BY DEF DirsAfter
<1> DEFINE D == DirsAfter(p)
<1>7. D = Body(D)
  BY <1>5, <1>6
<1> HIDE DEF D
<1>8. DOMAIN D = 0..Len(p)
  BY <1>7
<1>9. \A i \in 0..Len(p) : D[i] = IF i = 0 THEN Root ELSE Stride(D[i - 1], p[i])
  BY <1>7 DEF Stride
<1> HIDE DEF Body
<1>10. \A i \in 0..Len(p) : D[i] \in Shallow
  <2> DEFINE S == {j \in 0..Len(p) : D[j] \in Shallow}
  <2>1. 0 \in S
    BY <1>9, <1>n, RootIsShallow
  <2>2. ASSUME NEW i \in 0..(Len(p) - 1), i \in S PROVE i + 1 \in S
    <3>1. i + 1 \in 1..Len(p) /\ i + 1 \in 0..Len(p) /\ (i + 1) - 1 = i /\ i + 1 # 0
      BY <1>n
    <3>2. D[i + 1] = Stride(D[i], p[i + 1])
      BY <1>9, <3>1
    <3> QED
      BY <2>2, <3>1, <3>2, <1>s
  <2>3. \A i \in 0..Len(p) : i \in S
    <3> HIDE DEF S
    <3> QED
      BY <1>n, <2>1, <2>2, UpToInduction
  <2> QED
    BY <2>3
<1>11. D \in [0..Len(p) -> Shallow]
  <2>1. D = [i \in 0..Len(p) |-> D[i]]
    BY <1>7 DEF Body
  <2> QED
    BY <1>10, <2>1
<1>12. D[0] = Root /\ \A i \in 1..Len(p) : D[i] = Stride(D[i - 1], p[i])
  BY <1>9, <1>n
<1> QED
  BY <1>11, <1>12 DEF D, Follows

(* So Subdirs goes through a path from the left to the right. *)
LEMMA SubdirsEmpty == Subdirs(<<>>) = Root
<1>1. <<>> \in Path /\ Len(<<>>) = 0
  BY DEF Path
<1> QED
  BY <1>1, DirsAfterDef DEF Subdirs, Follows

LEMMA SubdirsType ==
    ASSUME NEW p \in Path
    PROVE  Subdirs(p) \in Shallow
<1>1. Len(p) \in 0..Len(p)
  BY DEF Path
<1> QED
  BY <1>1, DirsAfterDef DEF Subdirs, Follows

LEMMA SubdirsAppend ==
    ASSUME NEW p \in Path, NEW x \in Elements
    PROVE  Append(p, x) \in Path /\ Subdirs(Append(p, x)) = Stride(Subdirs(p), x)
<1> DEFINE q == Append(p, x)
<1>1. /\ Len(p) \in Nat /\ q \in Path /\ Len(q) = Len(p) + 1 /\ q[Len(p) + 1] = x
      /\ \A i \in 1..Len(p) : q[i] = p[i]
  BY DEF Path
<1> HIDE DEF q
<1> DEFINE f == DirsAfter(p)
           g == DirsAfter(q)
           S == {i \in 0..Len(p) : f[i] = g[i]}
<1>2. /\ f[0] = Root /\ \A i \in 1..Len(p) : f[i] = Stride(f[i - 1], p[i])
      /\ g[0] = Root /\ \A i \in 1..Len(q) : g[i] = Stride(g[i - 1], q[i])
  BY <1>1, DirsAfterDef DEF Follows
<1> HIDE DEF f, g
<1>3. 0 \in S
  BY <1>1, <1>2
<1>4. ASSUME NEW i \in 0..(Len(p) - 1), i \in S PROVE i + 1 \in S
  <2>1. i + 1 \in 1..Len(p) /\ i + 1 \in 1..Len(q) /\ (i + 1) - 1 = i /\ i + 1 \in 0..Len(p)
    BY <1>1
  <2>2. f[i + 1] = Stride(f[i], p[i + 1]) /\ g[i + 1] = Stride(g[i], q[i + 1])
    BY <1>2, <2>1
  <2> QED
    BY <1>1, <1>4, <2>1, <2>2
<1>5. \A i \in 0..Len(p) : i \in S
  <2> HIDE DEF S
  <2> QED
    BY <1>1, <1>3, <1>4, UpToInduction
<1>6. f[Len(p)] = g[Len(p)]
  BY <1>1, <1>5
<1>7. g[Len(p) + 1] = Stride(g[Len(p)], x)
  <2>1. Len(p) + 1 \in 1..Len(q) /\ (Len(p) + 1) - 1 = Len(p)
    BY <1>1
  <2> QED
    BY <1>1, <1>2, <2>1
<1> QED
  BY <1>1, <1>6, <1>7 DEF Subdirs, f, g, q

(* The directories of a directory are its own, the first SM_MAX_SUBDIRS    *)
(* of them.                                                                *)
IsCut(t, d) ==
    /\ t \in Shallow
    /\ Len(t) = (IF Len(d) <= SM_MAX_SUBDIRS THEN Len(d) ELSE SM_MAX_SUBDIRS)
    /\ \A i \in 1..Len(t) : t[i] = d[i]

LEMMA DirectoryFacts ==
    \A d : d \in Directories <=>
        /\ d \in Seq(Elements) /\ Len(d) \in Nat /\ Len(d) > 0 /\ d[1] = Nil
        /\ \A i \in 2..Len(d) : d[i] \in Names
BY DEF Directories, Path

LEMMA SubdirsOfDirectory ==
    ASSUME NEW d \in Directories
    PROVE  IsCut(Subdirs(d), d)
<1> DEFINE S == {s \in Path : s \in Directories => IsCut(Subdirs(s), s)}
<1>0. \A s : s \in S <=> s \in Path /\ (s \in Directories => IsCut(Subdirs(s), s))
  OBVIOUS
<1> HIDE DEF S
<1>1. <<>> \in S
  <2>1. <<>> \in Path /\ ~(Len(<<>>) > 0)
    BY DEF Path
  <2> QED
    BY <1>0, <2>1, DirectoryFacts
<1>2. ASSUME NEW s \in Seq(Elements), NEW x \in Elements, s \in S PROVE Append(s, x) \in S
  <2> DEFINE q == Append(s, x)
  <2>1. /\ s \in Path /\ Len(s) \in Nat /\ q \in Path /\ Len(q) = Len(s) + 1 /\ q[Len(s) + 1] = x
        /\ \A i \in 1..Len(s) : q[i] = s[i]
    BY DEF Path
  <2>2. Subdirs(q) = Stride(Subdirs(s), x)
    BY <2>1, SubdirsAppend
  <2> HIDE DEF q
  <2> SUFFICES ASSUME q \in Directories PROVE IsCut(Subdirs(q), q)
    BY <1>0, <2>1 DEF q
  <2>3. q[1] = Nil /\ \A i \in 2..Len(q) : q[i] \in Names
    BY DirectoryFacts
  <2>m. SM_MAX_SUBDIRS \in Nat /\ SM_MAX_SUBDIRS > 1
    BY PathsAssumption
  <2>4. CASE Len(s) = 0
    <3>1. s = <<>> /\ x = Nil /\ Len(q) = 1
      BY <2>1, <2>3, <2>4
    <3>2. Subdirs(q) = Root
      BY <2>2, <3>1, SubdirsEmpty DEF Stride
    <3>3. Len(Root) = 1 /\ Root[1] = Nil
      BY DEF Root
    <3> HIDE DEF Root
    <3> QED
      BY <2>m, <2>3, <3>1, <3>2, <3>3, RootIsShallow DEF IsCut
  <2>5. CASE Len(s) > 0
    <3>1. x \in Names /\ s[1] = Nil /\ \A i \in 2..Len(s) : s[i] \in Names
      <4>1. Len(s) + 1 \in 2..Len(q) /\ 1 \in 1..Len(s) /\ \A i \in 2..Len(s) : i \in 1..Len(s) /\ i \in 2..Len(q)
        BY <2>1, <2>5
      <4> QED
        BY <2>1, <2>3, <4>1
    <3>2. s \in Directories
      BY <2>1, <2>5, <3>1, DirectoryFacts
    <3> DEFINE t == Subdirs(s)
    <3>3. IsCut(t, s)
      BY <1>0, <1>2, <3>2
    <3> HIDE DEF t
    <3>4. x # Nil /\ x # Here /\ x # Up
      BY <3>1 DEF Names
    <3>5. Subdirs(q) = IF Len(t) >= SM_MAX_SUBDIRS THEN t ELSE Append(t, x)
      BY <2>2, <3>4 DEF Stride, Enter, t
    <3>t. t \in Seq(Elements) /\ Len(t) \in Nat
      BY <3>3, ShallowFacts DEF IsCut
    <3>6. CASE Len(t) >= SM_MAX_SUBDIRS
      <4>1. Len(t) = SM_MAX_SUBDIRS /\ Len(s) >= SM_MAX_SUBDIRS
        BY <2>m, <2>1, <3>3, <3>6 DEF IsCut
      <4>2. \A i \in 1..Len(t) : t[i] = q[i]
        BY <2>m, <2>1, <3>3, <4>1 DEF IsCut
      <4> QED
        BY <2>m, <2>1, <3>3, <3>5, <3>6, <4>1, <4>2 DEF IsCut
    <3>7. CASE Len(t) < SM_MAX_SUBDIRS
      <4> DEFINE u == Append(t, x)
      <4>1. Len(t) = Len(s) /\ Len(q) <= SM_MAX_SUBDIRS
        BY <2>m, <2>1, <3>3, <3>7 DEF IsCut
      <4>2. Len(u) = Len(t) + 1 /\ u[Len(t) + 1] = x /\ \A i \in 1..Len(t) : u[i] = t[i]
        BY <3>t
      <4> HIDE DEF u
      <4>3. \A i \in 1..Len(u) : u[i] = q[i]
        <5> SUFFICES ASSUME NEW i \in 1..Len(u) PROVE u[i] = q[i]
          OBVIOUS
        <5>1. CASE i = Len(t) + 1
          BY <2>1, <4>1, <4>2, <5>1
        <5>2. CASE i # Len(t) + 1
          <6>1. i \in 1..Len(t) /\ i \in 1..Len(s)
            BY <3>t, <4>1, <4>2, <5>2
          <6> QED
            BY <2>1, <3>3, <4>2, <6>1 DEF IsCut
        <5> QED
          BY <5>1, <5>2
      <4>4. Subdirs(q) = u /\ u \in Shallow
        <5>1. Subdirs(q) = u
          BY <2>m, <3>5, <3>7, <3>t DEF u
        <5> QED
          BY <5>1, <2>1, SubdirsType
      <4> QED
        BY <2>1, <4>1, <4>2, <4>3, <4>4 DEF IsCut
    <3> QED
      BY <2>m, <3>t, <3>6, <3>7
  <2> QED
    BY <2>1, <2>4, <2>5
<1>3. \A s \in Seq(Elements) : s \in S
  BY <1>1, <1>2, SeqSetInduction
<1> QED
  BY <1>0, <1>3, DirectoryFacts

(* A shallow directory is its own, with a slash at the end or without.     *)
LEMMA SubdirsOfShallow ==
    ASSUME NEW d \in Shallow
    PROVE  Subdirs(d) = d /\ Subdirs(Append(d, Nil)) = d
<1>1. d \in Directories /\ d \in Path /\ Len(d) <= SM_MAX_SUBDIRS
  BY DEF Shallow, Directories
<1>2. IsCut(Subdirs(d), d)
  BY <1>1, SubdirsOfDirectory
<1>3. Subdirs(d) = d
  <2> DEFINE t == Subdirs(d)
  <2>1. t \in Seq(Elements) /\ d \in Seq(Elements) /\ Len(t) = Len(d) /\ \A i \in 1..Len(t) : t[i] = d[i]
    BY <1>1, <1>2, ShallowFacts DEF IsCut
  <2> HIDE DEF t
  <2>2. t = d
    BY <2>1
  <2> QED
    BY <2>2 DEF t
<1>4. Nil \in Elements
  BY PathsAssumption
<1> QED
  BY <1>1, <1>3, <1>4, SubdirsAppend DEF Stride

-----------------------------------------------------------------------------
(* The length of a path is that of its front, the last element and the     *)
(* slash between them.                                                     *)
LengthStep(n, x) == n + Characters(x) + 1

LEMMA CharactersType == \A x : Characters(x) \in Nat
<1>1. MarkerLength \in Nat
  BY PathsAssumption
<1> QED
  BY <1>1 DEF Characters

LengthFollows(f, p) ==
    /\ f \in [0..Len(p) -> Int]
    /\ f[0] = -1
    /\ \A i \in 1..Len(p) : f[i] = LengthStep(f[i - 1], p[i])

(* The length of what lies before each slash. *)
Lengths(p) ==
    CHOOSE f : f = [i \in 0..Len(p) |-> IF i = 0 THEN -1 ELSE f[i - 1] + Characters(p[i]) + 1]

LEMMA LengthsDef ==
    ASSUME NEW p \in Path
    PROVE  LengthFollows(Lengths(p), p) /\ PathLength(p) = Lengths(p)[Len(p)]
<1> DEFINE Body(f) == [i \in 0..Len(p) |-> IF i = 0 THEN -1 ELSE f[i - 1] + Characters(p[i]) + 1]
           step == [x \in Int \X (1..Len(p)) |-> LengthStep(x[1], p[x[2]])]
<1>n. Len(p) \in Nat
  BY DEF Path
<1>s. \A x : \A n \in Int : LengthStep(n, x) \in Int
  BY CharactersType DEF LengthStep
<1>1. step \in [Int \X (1..Len(p)) -> Int]
  BY <1>s
<1>2. \A d \in Int, i \in 1..Len(p) : step[<<d, i>>] = LengthStep(d, p[i])
  OBVIOUS
<1> HIDE DEF step
<1>i. \E f : IsIteration(f, -1, step, Int, Len(p))
  <2> DEFINE base == -1
  <2>1. base \in Int /\ IsStep(step, Int, Len(p))
    BY <1>1 DEF IsStep
  <2> HIDE DEF base
  <2>2. \E f : IsIteration(f, base, step, Int, Len(p))
    BY <1>n, <2>1, Iteration
  <2> QED
    BY <2>2 DEF base
<1>3. PICK f \in [0..Len(p) -> Int] :
          f[0] = -1 /\ \A i \in 1..Len(p) : f[i] = step[<<f[i - 1], i>>]
  BY <1>i DEF IsIteration
<1>4. ASSUME NEW i \in 0..Len(p) PROVE f[i] = Body(f)[i]
  <2>1. CASE i = 0
    BY <1>3, <2>1
  <2>2. CASE i # 0
    <3>1. i \in 1..Len(p) /\ i - 1 \in 0..Len(p)
      BY <1>n, <2>2
    <3>2. f[i] = step[<<f[i - 1], i>>] /\ f[i - 1] \in Int
      BY <1>3, <3>1
    <3>3. f[i] = LengthStep(f[i - 1], p[i])
      BY <1>2, <3>1, <3>2
    <3> QED
      BY <2>2, <3>3 DEF LengthStep
  <2> QED
    BY <2>1, <2>2
<1>5. f = Body(f)
  <2>1. f = [i \in 0..Len(p) |-> f[i]]
    OBVIOUS
  <2> QED
    BY <1>4, <2>1
<1>6. Lengths(p) = CHOOSE g : g = Body(g)
  BY DEF Lengths
<1> DEFINE L == Lengths(p)
<1>7. L = Body(L)
  BY <1>5, <1>6
<1>8. PathLength(p) = L[Len(p)]
  BY DEF PathLength, Lengths
<1> HIDE DEF L
<1>9. DOMAIN L = 0..Len(p) /\ \A i \in 0..Len(p) : L[i] = IF i = 0 THEN -1 ELSE LengthStep(L[i - 1], p[i])
  BY <1>7 DEF LengthStep
<1>10. \A i \in 0..Len(p) : L[i] \in Int
  <2> DEFINE S == {j \in 0..Len(p) : L[j] \in Int}
  <2>1. 0 \in S
    BY <1>9, <1>n
  <2>2. ASSUME NEW i \in 0..(Len(p) - 1), i \in S PROVE i + 1 \in S
    <3>1. i + 1 \in 1..Len(p) /\ i + 1 \in 0..Len(p) /\ (i + 1) - 1 = i /\ i + 1 # 0
      BY <1>n
    <3>2. L[i + 1] = LengthStep(L[i], p[i + 1])
      BY <1>9, <3>1
    <3> QED
      BY <2>2, <3>1, <3>2, <1>s
  <2>3. \A i \in 0..Len(p) : i \in S
    <3> HIDE DEF S
    <3> QED
      BY <1>n, <2>1, <2>2, UpToInduction
  <2> QED
    BY <2>3
<1>11. L \in [0..Len(p) -> Int]
  <2>1. L = [i \in 0..Len(p) |-> L[i]]
    BY <1>7
  <2> QED
    BY <1>10, <2>1
<1>12. L[0] = -1 /\ \A i \in 1..Len(p) : L[i] = LengthStep(L[i - 1], p[i])
  BY <1>9, <1>n
<1> QED
  BY <1>8, <1>11, <1>12 DEF L, LengthFollows

LEMMA PathLengthType ==
    ASSUME NEW p \in Path
    PROVE  PathLength(p) \in Int
<1>1. Len(p) \in 0..Len(p)
  BY DEF Path
<1> QED
  BY <1>1, LengthsDef DEF LengthFollows

LEMMA PathLengthAppend ==
    ASSUME NEW p \in Path, NEW x \in Elements
    PROVE  PathLength(Append(p, x)) = PathLength(p) + Characters(x) + 1
<1> DEFINE q == Append(p, x)
<1>1. /\ Len(p) \in Nat /\ q \in Path /\ Len(q) = Len(p) + 1 /\ q[Len(p) + 1] = x
      /\ \A i \in 1..Len(p) : q[i] = p[i]
  BY DEF Path
<1> HIDE DEF q
<1> DEFINE f == Lengths(p)
           g == Lengths(q)
           S == {i \in 0..Len(p) : f[i] = g[i]}
<1>2. /\ f[0] = -1 /\ \A i \in 1..Len(p) : f[i] = LengthStep(f[i - 1], p[i])
      /\ g[0] = -1 /\ \A i \in 1..Len(q) : g[i] = LengthStep(g[i - 1], q[i])
      /\ PathLength(p) = f[Len(p)] /\ PathLength(q) = g[Len(p) + 1]
  BY <1>1, LengthsDef DEF LengthFollows
<1> HIDE DEF f, g
<1>3. 0 \in S
  BY <1>1, <1>2
<1>4. ASSUME NEW i \in 0..(Len(p) - 1), i \in S PROVE i + 1 \in S
  <2>1. i + 1 \in 1..Len(p) /\ i + 1 \in 1..Len(q) /\ (i + 1) - 1 = i /\ i + 1 \in 0..Len(p)
    BY <1>1
  <2>2. f[i + 1] = LengthStep(f[i], p[i + 1]) /\ g[i + 1] = LengthStep(g[i], q[i + 1])
    BY <1>2, <2>1
  <2> QED
    BY <1>1, <1>4, <2>1, <2>2
<1>5. \A i \in 0..Len(p) : i \in S
  <2> HIDE DEF S
  <2> QED
    BY <1>1, <1>3, <1>4, UpToInduction
<1>6. f[Len(p)] = g[Len(p)]
  BY <1>1, <1>5
<1>7. g[Len(p) + 1] = LengthStep(g[Len(p)], x)
  <2>1. Len(p) + 1 \in 1..Len(q) /\ (Len(p) + 1) - 1 = Len(p)
    BY <1>1
  <2> QED
    BY <1>1, <1>2, <2>1
<1> QED
  BY <1>2, <1>6, <1>7 DEF q, LengthStep

(* Making a path normal makes it no longer; one more slash fits when the   *)
(* path ended in one.                                                      *)
LEMMA SubdirsLength ==
    ASSUME NEW p \in Path, Len(p) > 0, p[1] = Nil
    PROVE  /\ PathLength(Subdirs(p)) <= PathLength(p)
           /\ Len(p) > 1 /\ Last(p) = Nil => PathLength(Append(Subdirs(p), Nil)) <= PathLength(p)
<1> DEFINE S == {s \in Path : Len(s) > 0 /\ s[1] = Nil => PathLength(Subdirs(s)) <= PathLength(s)}
<1>0. \A s : s \in S <=> s \in Path /\ (Len(s) > 0 /\ s[1] = Nil => PathLength(Subdirs(s)) <= PathLength(s))
  OBVIOUS
<1> HIDE DEF S
<1>n. Nil \in Elements /\ Characters(Nil) = 0
  BY PathsAssumption, Specials DEF Characters
<1>1. <<>> \in S
  <2>1. <<>> \in Path /\ ~(Len(<<>>) > 0)
    BY DEF Path
  <2> QED
    BY <1>0, <2>1
<1>2. ASSUME NEW s \in Seq(Elements), NEW x \in Elements, s \in S PROVE Append(s, x) \in S
  <2> DEFINE q == Append(s, x)
             d == Subdirs(s)
  <2>1. s \in Path /\ q \in Path /\ Len(s) \in Nat /\ (Len(s) > 0 => q[1] = s[1]) /\ (Len(s) = 0 => q[1] = x /\ s = <<>>)
    BY DEF Path
  <2>2. Subdirs(q) = Stride(d, x) /\ PathLength(q) = PathLength(s) + Characters(x) + 1
    BY <2>1, SubdirsAppend, PathLengthAppend
  <2>3. d \in Shallow /\ d \in Path
    BY <2>1, SubdirsType DEF Shallow, Directories
  <2>4. PathLength(s) \in Int /\ PathLength(d) \in Int /\ Characters(x) \in Nat
    BY <2>1, <2>3, PathLengthType, CharactersType
  <2> HIDE DEF q, d
  <2> SUFFICES ASSUME q[1] = Nil PROVE PathLength(Subdirs(q)) <= PathLength(q)
    BY <1>0, <2>1 DEF q
  <2>5. CASE Len(s) = 0
    <3>1. s = <<>> /\ x = Nil
      BY <2>1, <2>5
    <3>2. q = Root /\ d = Root
      BY <3>1, SubdirsEmpty DEF q, d, Root
    <3>3. Subdirs(q) = Root
      BY <2>2, <3>1, <3>2 DEF Stride
    <3>4. PathLength(Root) \in Int
      BY <2>4, <3>2
    <3> QED
      BY <3>2, <3>3, <3>4
  <2>6. CASE Len(s) > 0
    <3>1. PathLength(d) <= PathLength(s)
      BY <1>0, <1>2, <2>1, <2>6 DEF d
    <3>2. CASE Subdirs(q) = d
      BY <2>2, <2>4, <3>1, <3>2
    <3>3. CASE Subdirs(q) = Append(d, x)
      <4>1. PathLength(Append(d, x)) = PathLength(d) + Characters(x) + 1
        BY <2>3, PathLengthAppend
      <4> QED
        BY <2>2, <2>4, <3>1, <3>3, <4>1
    <3>4. CASE Subdirs(q) = Front(d)
      <4>1. Front(d) \in Path /\ Last(d) \in Elements /\ d = Append(Front(d), Last(d))
        <5>1. d \in Seq(Elements) /\ d # <<>>
          BY <2>3, ShallowFacts
        <5> QED
          BY <5>1, FrontFacts DEF Path
      <4>2. PathLength(d) = PathLength(Front(d)) + Characters(Last(d)) + 1
        BY <4>1, PathLengthAppend
      <4>3. PathLength(Front(d)) \in Int /\ Characters(Last(d)) \in Nat
        BY <4>1, PathLengthType, CharactersType
      <4> QED
        BY <2>2, <2>4, <3>1, <3>4, <4>2, <4>3
    <3> QED
      BY <2>2, <3>2, <3>3, <3>4 DEF Stride, Enter
  <2> QED
    BY <2>1, <2>5, <2>6
<1>3. \A s \in Seq(Elements) : s \in S
  BY <1>1, <1>2, SeqSetInduction
<1>4. PathLength(Subdirs(p)) <= PathLength(p)
  BY <1>0, <1>3 DEF Path
<1>5. ASSUME Len(p) > 1, Last(p) = Nil PROVE PathLength(Append(Subdirs(p), Nil)) <= PathLength(p)
  <2> DEFINE f == Front(p)
  <2>1. f \in Path /\ p = Append(f, Nil) /\ Len(f) = Len(p) - 1 /\ f[1] = Nil
    <3>1. p \in Seq(Elements) /\ p # <<>> /\ 1 \in 1..(Len(p) - 1)
      BY <1>5 DEF Path
    <3> QED
      BY <1>5, <3>1, FrontFacts DEF Path
  <2> HIDE DEF f
  <2>2. Len(p) \in Nat
    BY DEF Path
  <2>3. PathLength(Subdirs(f)) <= PathLength(f)
    BY <1>0, <1>3, <1>5, <2>1, <2>2 DEF Path
  <2>4. Subdirs(p) = Subdirs(f) /\ PathLength(p) = PathLength(f) + 1
    <3>1. PathLength(p) = PathLength(f) + 0 + 1
      BY <1>n, <2>1, PathLengthAppend
    <3>2. PathLength(f) \in Int
      BY <2>1, PathLengthType
    <3> QED
      BY <1>n, <2>1, <3>1, <3>2, SubdirsAppend DEF Stride
  <2>5. Subdirs(p) \in Path
    BY SubdirsType DEF Shallow, Directories
  <2>6. PathLength(Append(Subdirs(p), Nil)) = PathLength(Subdirs(p)) + 0 + 1
    BY <1>n, <2>5, PathLengthAppend
  <2>7. PathLength(f) \in Int /\ PathLength(Subdirs(p)) \in Int
    BY <2>1, <2>5, PathLengthType
  <2> QED
    BY <2>3, <2>4, <2>6, <2>7
<1> QED
  BY <1>4, <1>5

-----------------------------------------------------------------------------
(* A path that is made absolute starts at the root, and ends as it ended.  *)
LEMMA WholeType ==
    ASSUME NEW p \in Path, Len(p) > 0, p # Empty, NEW home \in Absolute, NEW program \in Absolute
    PROVE  Whole(p, home, program) \in Absolute /\ (~is_file(p) => ~is_file(Whole(p, home, program)))
<1> DEFINE whole == Whole(p, home, program)
           bin == sm_get_dpath_from_fpath(program)
<1>1. bin \in Absolute /\ Last(bin) = Nil
  <2> DEFINE f == Front(program)
  <2>1. f \in Path /\ Len(f) = Len(program) - 1 /\ f[1] = Nil /\ Len(program) \in Nat /\ Len(program) > 1
    <3>1. program \in Seq(Elements) /\ program # <<>> /\ Len(program) \in Nat /\ Len(program) > 1 /\ program[1] = Nil
      BY DEF Absolute, Path
    <3> QED
      BY <3>1, FrontFacts DEF Path
  <2>2. bin = Append(f, Nil)
    <3>1. Len(program) # 1
      BY <2>1, MoreThanOne
    <3> QED
      BY <3>1 DEF sm_get_dpath_from_fpath
  <2> HIDE DEF f, bin
  <2>3. Nil \in Elements
    BY PathsAssumption
  <2>4. Append(f, Nil) \in Path /\ Len(Append(f, Nil)) = Len(program) /\ Append(f, Nil)[1] = Nil /\ Append(f, Nil)[Len(program)] = Nil
    BY <2>1, <2>3 DEF Path
  <2> QED
    BY <2>1, <2>2, <2>4 DEF Absolute, Last
<1>2. ASSUME NEW d \in Absolute, NEW q \in Path, Len(q) > 0
      PROVE  Joined(d, q) \in Absolute /\ Last(Joined(d, q)) = Last(q)
  <2> DEFINE e == IF Last(d) = Nil THEN Front(d) ELSE d
  <2>1. e \in Seq(Elements) /\ Len(e) \in Nat /\ Len(e) > 0 /\ e[1] = Nil
    <3>1. d \in Seq(Elements) /\ d # <<>> /\ Len(d) \in Nat /\ Len(d) > 1 /\ d[1] = Nil
      BY DEF Absolute, Path
    <3> QED
      BY <3>1, FrontFacts
  <2>2. Joined(d, q) = e \o q
    BY DEF Joined
  <2> HIDE DEF e
  <2>3. /\ e \o q \in Seq(Elements) /\ Len(e \o q) = Len(e) + Len(q) /\ Len(q) \in Nat
        /\ (e \o q)[1] = Nil /\ (e \o q)[Len(e) + Len(q)] = q[Len(q)]
    BY <1>2, <2>1 DEF Path
  <2> DEFINE g == e \o q
  <2> HIDE DEF g
  <2>4. g \in Path /\ Len(g) = Len(e) + Len(q) /\ g[1] = Nil /\ g[Len(e) + Len(q)] = q[Len(q)]
    BY <2>3 DEF g, Path
  <2>5. Len(g) > 1
    BY <1>2, <2>1, <2>3, <2>4
  <2>6. Last(g) = Last(q)
    BY <2>4 DEF Last
  <2>7. g \in Absolute
    BY <2>4, <2>5 DEF Absolute
  <2> QED
    BY <2>2, <2>6, <2>7 DEF g
<1> HIDE DEF bin
<1>3. CASE sm_path_is_abs(p)
  <2>1. whole = p
    BY <1>3 DEF Whole
  <2>2. Head(p) = p[1]
    BY DEF Path
  <2> QED
    BY <1>3, <2>1, <2>2 DEF Absolute, sm_path_is_abs
<1>4. CASE ~sm_path_is_abs(p) /\ Head(p) # Marker
  <2>1. whole = Joined(home, p)
    BY <1>4 DEF Whole
  <2> QED
    BY <1>2, <2>1 DEF is_file
<1>5. CASE ~sm_path_is_abs(p) /\ Head(p) = Marker /\ Len(p) = 1
  <2>1. whole = bin
    BY <1>5 DEF Whole, bin
  <2>2. Last(p) = Marker
    BY <1>5 DEF Last, Path
  <2> QED
    BY <1>1, <2>1, <2>2, PathsAssumption DEF is_file
<1>6. CASE ~sm_path_is_abs(p) /\ Head(p) = Marker /\ Len(p) # 1
  <2>1. whole = Joined(bin, Tail(p))
    BY <1>6 DEF Whole, bin
  <2>2. Tail(p) \in Path /\ Len(Tail(p)) > 0 /\ Last(Tail(p)) = Last(p)
    <3>0. Len(p) \in Nat /\ Len(p) # 1
      BY <1>6 DEF Path
    <3>1. Len(p) \in Nat /\ Len(p) > 1
      BY <3>0, MoreThanOne
    <3>2. Tail(p) \in Path /\ Len(Tail(p)) = Len(p) - 1 /\ Tail(p)[Len(p) - 1] = p[Len(p)]
      BY <3>1 DEF Path
    <3> QED
      BY <3>1, <3>2 DEF Last
  <2> QED
    BY <1>1, <1>2, <2>1, <2>2 DEF is_file
<1> QED
  BY <1>3, <1>4, <1>5, <1>6

(* A normal path: the name of a directory with a slash at the end, or      *)
(* without.                                                                *)
Normal == {p \in Path : Len(p) > 1 /\ DirOf(p) \in Directories}

LEMMA WithElement ==
    ASSUME NEW d, d \in Path, Len(d) > 0, NEW x \in Elements
    PROVE  /\ Append(d, x) \in Path /\ Len(Append(d, x)) = Len(d) + 1
           /\ Append(d, x)[1] = d[1] /\ Last(Append(d, x)) = x
           /\ Front(Append(d, x)) = d
<1> DEFINE q == Append(d, x)
<1>1. q \in Seq(Elements) /\ q # <<>> /\ Len(q) = Len(d) + 1 /\ Len(d) \in Nat /\ q[1] = d[1] /\ q[Len(d) + 1] = x
  BY DEF Path
<1>2. \A i \in 1..Len(d) : q[i] = d[i]
  BY DEF Path
<1> HIDE DEF q
<1> DEFINE f == Front(q)
<1>3. f \in Seq(Elements) /\ Len(f) = Len(q) - 1 /\ \A i \in 1..(Len(q) - 1) : f[i] = q[i]
  BY <1>1, FrontFacts
<1> HIDE DEF f
<1>4. f \in Seq(Elements) /\ Len(f) = Len(d) /\ \A i \in 1..Len(d) : f[i] = d[i]
  BY <1>1, <1>2, <1>3
<1>5. f = d
  BY <1>4 DEF Path
<1>6. Last(q) = x
  BY <1>1 DEF Last
<1> QED
  BY <1>1, <1>5, <1>6 DEF q, f, Path

LEMMA WithSlash ==
    ASSUME NEW d, d \in Path, Len(d) > 0
    PROVE  /\ Append(d, Nil) \in Path /\ Len(Append(d, Nil)) = Len(d) + 1
           /\ Append(d, Nil)[1] = d[1] /\ ~is_file(Append(d, Nil))
           /\ Front(Append(d, Nil)) = d
<1>1. Nil \in Elements
  BY PathsAssumption
<1> QED
  BY <1>1, WithElement DEF is_file

LEMMA NormalFacts ==
    ASSUME NEW p \in Normal
    PROVE  /\ p \in Path /\ Len(p) \in Nat /\ Len(p) > 1 /\ p[1] = Nil
           /\ DirOf(p) \in Directories
           /\ \/ ~is_file(p) /\ p = Append(DirOf(p), Nil)
              \/ is_file(p) /\ p = DirOf(p)
<1>1. p \in Path /\ Len(p) > 1 /\ DirOf(p) \in Directories
  BY DEF Normal
<1>2. p \in Seq(Elements) /\ Len(p) \in Nat /\ p # <<>> /\ 1 \in 1..(Len(p) - 1)
  BY <1>1 DEF Path
<1>3. CASE ~is_file(p)
  <2>1. p = Append(Front(p), Last(p)) /\ Front(p)[1] = p[1]
    BY <1>2, FrontFacts
  <2>2. Last(p) = Nil /\ DirOf(p) = Front(p)
    BY <1>3 DEF is_file, DirOf
  <2> QED
    BY <1>1, <1>2, <1>3, <2>1, <2>2, DirectoryFacts
<1>4. CASE is_file(p)
  <2>1. DirOf(p) = p
    BY <1>4 DEF DirOf
  <2> QED
    BY <1>1, <1>2, <1>4, <2>1, DirectoryFacts
<1> QED
  BY <1>3, <1>4

(* The directories of a normal path are those of the directory it names.   *)
LEMMA SubdirsOfNormal ==
    ASSUME NEW p \in Normal
    PROVE  Subdirs(p) = Subdirs(DirOf(p))
<1>1. CASE is_file(p)
  BY <1>1 DEF DirOf
<1>2. CASE ~is_file(p)
  <2>1. p = Append(DirOf(p), Nil) /\ DirOf(p) \in Path
    BY <1>2, NormalFacts DEF Directories
  <2>2. Nil \in Elements
    BY PathsAssumption
  <2>3. Subdirs(Append(DirOf(p), Nil)) = Stride(Subdirs(DirOf(p)), Nil)
    BY <2>1, <2>2, SubdirsAppend
  <2> QED
    BY <2>1, <2>3 DEF Stride
<1> QED
  BY <1>1, <1>2

(* sm_make_path_abs fails, or returns a normal path that fits into the     *)
(* buffers and names the directories sm_create_dpath will find in it.      *)
THEOREM MadePathIsNormal ==
    ASSUME NEW p \in Path, Len(p) > 0, NEW home \in Absolute, NEW program \in Absolute,
           sm_make_path_abs(p, home, program) # NoPath
    PROVE  LET made == sm_make_path_abs(p, home, program)
           IN  made \in Normal /\ Fits(made) /\ Subdirs(made) = DirOf(made) /\ DirOf(made) \in Shallow
<1> DEFINE made == sm_make_path_abs(p, home, program)
           whole == Whole(p, home, program)
           d == Subdirs(whole)
<1>1. p # Empty /\ Fits(whole)
  BY DEF sm_make_path_abs
<1>2. whole \in Absolute /\ (~is_file(p) => ~is_file(whole))
  BY <1>1, WholeType
<1>3. whole \in Path /\ Len(whole) > 1 /\ whole[1] = Nil
  BY <1>2 DEF Absolute
<1>4. made = IF ~is_file(p) THEN Append(d, Nil) ELSE d
  BY DEF sm_make_path_abs
<1>5. is_file(p) => d # Root
  BY DEF sm_make_path_abs
<1>6. d \in Shallow
  BY <1>3, SubdirsType
<1> HIDE DEF whole
<1>7. PathLength(d) <= PathLength(whole)
  <2>1. Len(whole) \in Nat
    BY <1>3 DEF Path
  <2> QED
    BY <1>3, <2>1, SubdirsLength
<1>8. ~is_file(p) => PathLength(Append(d, Nil)) <= PathLength(whole)
  <2>1. Len(whole) \in Nat
    BY <1>3 DEF Path
  <2> QED
    BY <1>2, <1>3, <2>1, SubdirsLength DEF is_file
<1> HIDE DEF d, made
<1>9. d \in Path /\ Append(d, Nil) \in Path /\ d \in Directories /\ Len(d) > 0
  BY <1>6, WithSlash DEF Shallow, Directories
<1>10. PathLength(d) \in Int /\ PathLength(Append(d, Nil)) \in Int /\ PathLength(whole) \in Int /\ MAX_PATH \in Int
  BY <1>3, <1>9, PathLengthType, PathsAssumption
<1>11. Fits(made)
  BY <1>1, <1>4, <1>7, <1>8, <1>10 DEF Fits
<1>12. made \in Normal /\ DirOf(made) = d
  <2>1. CASE ~is_file(p)
    <3> DEFINE q == Append(d, Nil)
    <3>1. q \in Path /\ Len(q) = Len(d) + 1 /\ ~is_file(q) /\ Front(q) = d
      BY <1>9, WithSlash
    <3>2. made = q
      BY <1>4, <2>1
    <3> HIDE DEF q
    <3>3. DirOf(q) = d
      BY <3>1 DEF DirOf
    <3>4. Len(d) \in Nat
      BY <1>9, DirectoryFacts
    <3>5. Len(q) > 1
      BY <1>9, <3>1, <3>4
    <3> QED
      BY <1>9, <3>1, <3>2, <3>3, <3>5 DEF Normal
  <2>2. CASE is_file(p)
    <3>1. Len(d) # 1
      <4>1. ASSUME Len(d) = 1 PROVE d = Root
        <5> DEFINE r == Root
        <5>1. r \in Seq(Elements) /\ Len(r) = 1 /\ r[1] = Nil
          BY RootIsShallow, ShallowFacts DEF Root
        <5>2. d \in Seq(Elements) /\ d[1] = Nil
          BY <1>6, ShallowFacts
        <5> HIDE DEF r
        <5>3. d = r
          BY <4>1, <5>1, <5>2
        <5> QED
          BY <5>3 DEF r
      <4> QED
        BY <1>5, <2>2, <4>1
    <3>n. Len(d) \in Nat
      BY <1>9, DirectoryFacts
    <3>2. Len(d) > 1
      BY <1>9, <3>1, <3>n, MoreThanOne
    <3>4. is_file(d)
      <4>1. d[Len(d)] \in Names
        BY <1>9, <3>n, <3>2, DirectoryFacts
      <4> QED
        BY <4>1 DEF is_file, Last, Names
    <3>5. DirOf(d) = d
      BY <3>4 DEF DirOf
    <3>6. made = d
      BY <1>4, <2>2
    <3> QED
      BY <1>9, <3>2, <3>5, <3>6 DEF Normal
  <2> QED
    BY <2>1, <2>2
<1>13. Subdirs(made) = d
  BY <1>6, <1>12, SubdirsOfNormal, SubdirsOfShallow
<1> QED
  BY <1>6, <1>11, <1>12, <1>13 DEF made

(* A normal path that fits is left as it is, whatever the directory.       *)
THEOREM NormalPathStays ==
    ASSUME NEW p \in Normal, Fits(p), DirOf(p) \in Shallow, NEW home, NEW program
    PROVE  sm_make_path_abs(p, home, program) = p
<1>1. p \in Path /\ Len(p) > 1 /\ p[1] = Nil
  BY NormalFacts
<1>2. sm_path_is_abs(p)
  BY <1>1 DEF sm_path_is_abs, Path
<1>3. Whole(p, home, program) = p
  BY <1>2 DEF Whole
<1>4. Subdirs(p) = DirOf(p)
  BY SubdirsOfNormal, SubdirsOfShallow
<1>5. p # Empty /\ DirOf(p) \in Directories
  <2>1. Len(Empty) = 1
    BY DEF Empty
  <2>2. Len(p) \in Nat
    BY NormalFacts
  <2>3. Len(p) # Len(Empty)
    BY <1>1, <2>1, <2>2, MoreThanOne
  <2> QED
    BY <2>3, NormalFacts
<1>6. CASE ~is_file(p)
  <2>1. p = Append(DirOf(p), Nil)
    BY <1>6, NormalFacts
  <2> QED
    BY <1>3, <1>4, <1>5, <1>6, <2>1 DEF sm_make_path_abs
<1>7. CASE is_file(p)
  <2>1. p = DirOf(p)
    BY <1>7 DEF DirOf
  <2>2. p # Root
    BY <1>5 DEF Root, Empty
  <2> QED
    BY <1>3, <1>4, <1>5, <1>7, <2>1, <2>2 DEF sm_make_path_abs
<1> QED
  BY <1>6, <1>7

-----------------------------------------------------------------------------

(* The file system, as the operators below see it: the directories D, the  *)
(* files F and the closed directories C.                                   *)
IsTree(D, F) ==
    /\ Root \in D /\ D \subseteq Directories /\ D \cap F = {}
    /\ \A f \in (D \ {Root}) \cup F : Front(f) \in D

(* A directory that cannot be made any more: it, or one on the way to it,  *)
(* is not there, and a file has its name or the one above it is closed.    *)
BlockedAt(d, i, D, F, C) ==
    LET e == SubSeq(d, 1, i) IN e \notin D /\ (e \in F \/ SubSeq(d, 1, i - 1) \in C)
Blocked(d, D, F, C) == \E i \in 2..Len(d) : BlockedAt(d, i, D, F, C)

(* What sm_create_dpath leaves of a directory it has dealt with. *)
Settled(d, D, F, C) == d \in D \/ Blocked(d, D, F, C)
SettledUpTo(d, n, D, F, C) == \A i \in 1..n : Settled(SubSeq(d, 1, i), D, F, C)

(* How many of its directories sm_create_dpath deals with: all of them, if  *)
(* there is room for a slash behind the last one.                          *)
Reach(d) == IF Fits(Append(d, Nil)) THEN Len(d) ELSE Len(d) - 1

(* A log that cannot be opened any more. *)
Refused(f, D, F, C) ==
    /\ f \notin F
    /\ ~is_file(f) \/ f \in D \/ Front(f) \in C \/ Blocked(Front(f), D, F, C)

(* The path a job works with, the file it names, and where that file is.   *)
PathOf(j, dir, prog) ==
    IF j.kind = "log" /\ j.dpath = Empty THEN Empty ELSE sm_make_path_abs(j.dpath, dir, prog)
FileOf(path, name) == IF path = Empty THEN <<name>> ELSE FileIn(path, name)
FollowedFrom(path, dir) == IF sm_path_is_abs(path) THEN path ELSE DirOf(dir) \o path

(* There is nothing to make, or room to make it. *)
Enough(path, D) == Fits(Append(DirOf(path), Nil)) \/ DirOf(path) \in D

(* What a job may be answered. *)
Results == [job : Jobs, path : Path]
Answered(r, dir, prog, D, F, C) ==
    LET path == PathOf(r.job, dir, prog)
        file == FileOf(path, r.job.fname)
        there == FollowedFrom(file, dir)
    IN  /\ path = NoPath => r.path = NoPath
        /\ path # NoPath /\ r.job.kind # "log" =>
              \/ r.path = file /\ Enough(path, D) /\ Settled(Front(file), D, F, C)
              \/ r.path = NoPath /\ ~Enough(path, D)
        /\ path # NoPath /\ r.job.kind = "log" =>
              \/ r.path = file /\ there \in F
              \/ r.path = NoPath /\ Refused(there, D, F, C)

(* What the path algorithms promise of the path of a job.                  *)
MadePath(p) == p \in Normal /\ Fits(p) /\ Subdirs(p) = DirOf(p) /\ DirOf(p) \in Shallow

SystemInv ==
    /\ cwd \in Normal /\ DirOf(cwd) \in dirs /\ exe \in Absolute
    /\ IsTree(dirs, files)

TypeInv ==
    /\ jobs \in [Programs -> Seq(Jobs)]
    /\ pc \in [Programs -> {"begin", "find", "create", "mkdir", "open"}]
    /\ dpath \in [Programs -> Normal \cup {Empty}]
    /\ done \in [Programs -> 0..SM_MAX_SUBDIRS]
    /\ results \in [Programs -> Seq(Results)]

(* How far sm_create_dpath has come: it has dealt with n of the directories *)
(* of d, and there was room for the slash behind each of them.             *)
MakingAt(where, n, kind, d, D, F, C) ==
    /\ n <= Len(d) /\ SettledUpTo(d, n, D, F, C)
    /\ where = "mkdir" => 1 <= n /\ n < Len(d) /\ Fits(Append(SubSeq(d, 1, n + 1), Nil))
    /\ n >= 1 => Fits(Append(SubSeq(d, 1, n), Nil))
    /\ kind # "log" /\ ~Fits(Append(d, Nil)) => d \notin D

(* Where a program stands in the job j. *)
WorkAt(where, n, path, j, dir, prog, D, F, C) ==
    LET d == DirOf(path)
    IN  /\ path = PathOf(j, dir, prog)
        /\ path = Empty \/ MadePath(path)
        /\ where \in {"find", "create", "mkdir"} => path # Empty
        /\ where = "find" => j.kind # "log"
        /\ where = "open" => j.kind = "log" /\ (path # Empty => SettledUpTo(d, Reach(d), D, F, C))
        /\ where \in {"create", "mkdir"} => MakingAt(where, n, j.kind, d, D, F, C)

WorkInv(p) == pc[p] # "begin" =>
    /\ jobs[p] # <<>>
    /\ WorkAt(pc[p], done[p], dpath[p], Job(p), cwd, exe, dirs, files, closed)

IdleInv(p) == pc[p] \in {"begin", "find"} => done[p] = 0

AnswersInv(p) ==
    \A i \in 1..Len(results[p]) : Answered(results[p][i], cwd, exe, dirs, files, closed)

Inv ==
    /\ SystemInv /\ TypeInv
    /\ \A p \in Programs : WorkInv(p) /\ IdleInv(p) /\ AnswersInv(p)
-----------------------------------------------------------------------------
(* The ways to a directory. *)
LEMMA PrefixFacts ==
    ASSUME NEW d \in Directories, NEW n \in 1..Len(d)
    PROVE  /\ SubSeq(d, 1, n) \in Directories /\ Len(SubSeq(d, 1, n)) = n
           /\ \A i \in 1..n : SubSeq(d, 1, n)[i] = d[i]
<1>1. d \in Seq(Elements) /\ Len(d) \in Nat /\ d[1] = Nil /\ \A i \in 2..Len(d) : d[i] \in Names
  BY DirectoryFacts
<1>2. n \in Nat /\ n > 0 /\ n <= Len(d)
  BY <1>1
<1> DEFINE e == SubSeq(d, 1, n)
<1>3. e \in Seq(Elements) /\ Len(e) = n /\ \A i \in 1..n : e[i] = d[i]
  BY <1>1, <1>2
<1> HIDE DEF e
<1>4. e[1] = Nil /\ \A i \in 2..Len(e) : e[i] \in Names
  BY <1>1, <1>2, <1>3
<1>5. e \in Directories
  BY <1>2, <1>3, <1>4, DirectoryFacts
<1> QED
  BY <1>3, <1>5 DEF e

(* Two directories of one length with the same names are the same. *)
LEMMA SameDirectory ==
    ASSUME NEW d \in Directories, NEW e \in Directories, Len(d) = Len(e),
           \A i \in 1..Len(d) : d[i] = e[i]
    PROVE  d = e
<1>1. d \in Seq(Elements) /\ e \in Seq(Elements)
  BY DirectoryFacts
<1> QED
  BY <1>1

LEMMA PrefixOfPrefix ==
    ASSUME NEW d \in Directories, NEW n \in 1..Len(d), NEW i \in 1..n
    PROVE  SubSeq(SubSeq(d, 1, n), 1, i) = SubSeq(d, 1, i)
<1> DEFINE e == SubSeq(d, 1, n)
           u == SubSeq(e, 1, i)
           v == SubSeq(d, 1, i)
<1>0. Len(d) \in Nat
  BY DirectoryFacts
<1>1. e \in Directories /\ Len(e) = n /\ \A k \in 1..n : e[k] = d[k]
  BY PrefixFacts
<1>2. i \in 1..Len(d) /\ i \in 1..Len(e) /\ \A k \in 1..i : k \in 1..n
  BY <1>0, <1>1
<1> HIDE DEF e
<1>3. u \in Directories /\ Len(u) = i /\ \A k \in 1..i : u[k] = e[k]
  BY <1>1, <1>2, PrefixFacts
<1>4. v \in Directories /\ Len(v) = i /\ \A k \in 1..i : v[k] = d[k]
  BY <1>2, PrefixFacts
<1> HIDE DEF u, v
<1>5. u = v
  BY <1>1, <1>2, <1>3, <1>4, SameDirectory
<1> QED
  BY <1>5 DEF u, v, e

LEMMA WholePrefix ==
    ASSUME NEW d \in Directories
    PROVE  SubSeq(d, 1, Len(d)) = d /\ Len(d) \in 1..Len(d) /\ Len(d) \in Nat
<1>1. Len(d) \in Nat /\ Len(d) > 0
  BY DirectoryFacts
<1>2. Len(d) \in 1..Len(d)
  BY <1>1
<1> QED
  BY <1>1, <1>2, PrefixFacts, SameDirectory

LEMMA RootIsDirectory ==
    Root \in Directories /\ \A d \in Directories : SubSeq(d, 1, 1) = Root /\ (Len(d) = 1 => d = Root)
<1>1. Root \in Directories /\ Len(Root) = 1 /\ Root[1] = Nil
  BY RootIsShallow DEF Shallow, Root
<1> DEFINE r == Root
<1> HIDE DEF r
<1>2. ASSUME NEW d \in Directories PROVE SubSeq(d, 1, 1) = r
  <2>1. Len(d) \in Nat /\ Len(d) > 0 /\ d[1] = Nil
    BY DirectoryFacts
  <2>2. 1 \in 1..Len(d)
    BY <2>1
  <2> DEFINE e == SubSeq(d, 1, 1)
  <2>3. e \in Directories /\ Len(e) = 1 /\ \A i \in 1..1 : e[i] = d[i]
    BY <2>2, PrefixFacts
  <2> HIDE DEF e
  <2>4. r \in Directories /\ Len(r) = 1 /\ r[1] = Nil
    BY <1>1 DEF r
  <2>5. \A i \in 1..1 : e[i] = r[i]
    BY <2>1, <2>3, <2>4
  <2>6. e = r
    BY <2>3, <2>4, <2>5, SameDirectory
  <2> QED
    BY <2>6 DEF e
<1>3. ASSUME NEW d \in Directories, Len(d) = 1 PROVE d = r
  BY <1>2, <1>3, WholePrefix
<1> QED
  BY <1>1, <1>2, <1>3 DEF r

LEMMA FrontIsPrefix ==
    ASSUME NEW d \in Directories, NEW n \in 2..Len(d)
    PROVE  Front(SubSeq(d, 1, n)) = SubSeq(d, 1, n - 1)
<1> DEFINE e == SubSeq(d, 1, n)
<1>0. Len(d) \in Nat
  BY DirectoryFacts
<1>1. n \in 1..Len(d) /\ n - 1 \in 1..n
  BY <1>0
<1>2. e \in Directories /\ Len(e) = n
  BY <1>1, PrefixFacts
<1>3. SubSeq(e, 1, n - 1) = SubSeq(d, 1, n - 1)
  BY <1>1, PrefixOfPrefix
<1> HIDE DEF e
<1>4. Front(e) = SubSeq(e, 1, n - 1)
  BY <1>2 DEF Front
<1> QED
  BY <1>3, <1>4 DEF e

(* In a tree, what leads to a directory is there. *)
LEMMA TreeHoldsPrefixes ==
    ASSUME NEW D, NEW F, IsTree(D, F), NEW d \in D
    PROVE  \A n \in 1..Len(d) : SubSeq(d, 1, n) \in D
<1>1. d \in Directories
  BY DEF IsTree
<1>2. Len(d) \in Nat /\ Len(d) > 0 /\ SubSeq(d, 1, Len(d)) = d
  BY <1>1, WholePrefix, DirectoryFacts
<1> DEFINE N == Len(d) - 1
           S == {k \in 0..N : SubSeq(d, 1, Len(d) - k) \in D}
<1>n. \A m \in Nat : (m > 0 => m - 1 \in Nat /\ m - 0 = m) /\ \A i \in 2..m : i # 1
  OBVIOUS
<1>3. N \in Nat /\ 0 \in S
  <2>1. N \in Nat /\ Len(d) - 0 = Len(d)
    BY <1>2, <1>n
  <2>2. 0 \in 0..N
    BY <2>1
  <2>3. SubSeq(d, 1, Len(d) - 0) \in D
    BY <1>2, <2>1
  <2> QED
    BY <2>1, <2>2, <2>3
<1>4. ASSUME NEW k \in 0..(N - 1), k \in S PROVE k + 1 \in S
  <2>1. Len(d) - k \in 2..Len(d) /\ (Len(d) - k) - 1 = Len(d) - (k + 1) /\ k + 1 \in 0..N /\ Len(d) - k \in 1..Len(d)
    BY <1>2
  <2> DEFINE e == SubSeq(d, 1, Len(d) - k)
  <2>2. e \in D
    BY <1>4
  <2>3. Front(e) = SubSeq(d, 1, Len(d) - (k + 1))
    BY <1>1, <2>1, FrontIsPrefix
  <2>4. Len(e) = Len(d) - k
    BY <1>1, <2>1, PrefixFacts
  <2>5. e # Root
    <3>1. Len(Root) = 1
      BY DEF Root
    <3> HIDE DEF Root
    <3>2. Len(e) # 1
      <4> HIDE DEF e
      <4> QED
        BY <1>2, <1>n, <2>1, <2>4
    <3> QED
      BY <3>1, <3>2
  <2>6. Front(e) \in D
    <3> HIDE DEF e
    <3> QED
      BY <2>2, <2>5 DEF IsTree
  <2> QED
    BY <2>1, <2>3, <2>6
<1>5. \A k \in 0..N : k \in S
  <2> HIDE DEF S, N
  <2> QED
    BY <1>3, <1>4, UpToInduction
<1> SUFFICES ASSUME NEW n \in 1..Len(d) PROVE SubSeq(d, 1, n) \in D
  OBVIOUS
<1>6. Len(d) - n \in 0..N /\ Len(d) - (Len(d) - n) = n
  BY <1>2
<1> QED
  BY <1>5, <1>6

(* So what is blocked is not there. *)
LEMMA BlockedIsNotThere ==
    ASSUME NEW D, NEW F, NEW C, IsTree(D, F), NEW d \in Directories, Blocked(d, D, F, C)
    PROVE  d \notin D
<1>1. PICK i \in 2..Len(d) : BlockedAt(d, i, D, F, C)
  BY DEF Blocked
<1>2. i \in 1..Len(d)
  BY <1>1, DirectoryFacts
<1>3. SubSeq(d, 1, i) \notin D
  BY <1>1 DEF BlockedAt
<1> QED
  BY <1>2, <1>3, TreeHoldsPrefixes

(* A step of the file system: nothing goes away, what is new was possible. *)
Grows(D, F, C, D2, F2) ==
    /\ D \subseteq D2 /\ F \subseteq F2
    /\ \A e \in D2 \ D : /\ e \in Directories /\ Len(e) > 1 /\ e \notin F2 /\ Front(e) \notin C
                         /\ Fits(Append(e, Nil))
    /\ \A f \in F2 \ F : is_file(f) /\ f \notin D /\ Front(f) \in D \ C

(* What stands in the way stays there, so what is settled stays settled.   *)
LEMMA BlockedStays ==
    ASSUME NEW D, NEW F, NEW C, NEW D2, NEW F2, Grows(D, F, C, D2, F2),
           NEW d \in Directories, Blocked(d, D, F, C)
    PROVE  Blocked(d, D2, F2, C)
<1>1. PICK i \in 2..Len(d) : BlockedAt(d, i, D, F, C)
  BY DEF Blocked
<1> DEFINE e == SubSeq(d, 1, i)
<1>2. Front(e) = SubSeq(d, 1, i - 1)
  BY FrontIsPrefix
<1> HIDE DEF e
<1>3. e \notin D /\ (e \in F \/ Front(e) \in C)
  BY <1>1, <1>2 DEF BlockedAt, e
<1>4. e \notin D2 /\ (e \in F2 \/ Front(e) \in C)
  BY <1>3 DEF Grows
<1>5. BlockedAt(d, i, D2, F2, C)
  BY <1>2, <1>4 DEF BlockedAt, e
<1> QED
  BY <1>5 DEF Blocked

LEMMA SettledStays ==
    ASSUME NEW D, NEW F, NEW C, NEW D2, NEW F2, Grows(D, F, C, D2, F2),
           NEW d \in Directories, Settled(d, D, F, C)
    PROVE  Settled(d, D2, F2, C)
<1>1. CASE d \in D
  BY <1>1 DEF Settled, Grows
<1>2. CASE Blocked(d, D, F, C)
  BY <1>2, BlockedStays DEF Settled
<1> QED
  BY <1>1, <1>2 DEF Settled

LEMMA SettledUpToStays ==
    ASSUME NEW D, NEW F, NEW C, NEW D2, NEW F2, Grows(D, F, C, D2, F2),
           NEW d \in Directories, NEW n, n \in 0..Len(d), SettledUpTo(d, n, D, F, C)
    PROVE  SettledUpTo(d, n, D2, F2, C)
<1> SUFFICES ASSUME NEW i \in 1..n PROVE Settled(SubSeq(d, 1, i), D2, F2, C)
  BY DEF SettledUpTo
<1>1. i \in 1..Len(d)
  BY DirectoryFacts
<1>2. SubSeq(d, 1, i) \in Directories /\ Settled(SubSeq(d, 1, i), D, F, C)
  BY <1>1, PrefixFacts DEF SettledUpTo
<1> QED
  BY <1>2, SettledStays

(* A directory that is there is settled all the way. *)
LEMMA ThereIsSettled ==
    ASSUME NEW D, NEW F, NEW C, IsTree(D, F), NEW d \in D
    PROVE  SettledUpTo(d, Len(d), D, F, C)
BY TreeHoldsPrefixes DEF SettledUpTo, Settled

(* mkdir after a stat that found nothing: whatever happened in between,    *)
(* the directory is there, or cannot be made any more.                     *)
LEMMA MkdirSettles ==
    ASSUME NEW D, NEW F, NEW C, IsTree(D, F), NEW d \in Directories, NEW n, n \in 1..(Len(d) - 1),
           SettledUpTo(d, n, D, F, C),
           ~(SubSeq(d, 1, n) \in D \ C /\ SubSeq(d, 1, n + 1) \notin D \cup F)
    PROVE  Settled(SubSeq(d, 1, n + 1), D, F, C)
<1> DEFINE e == SubSeq(d, 1, n + 1)
           f == SubSeq(d, 1, n)
<1>0. Len(d) \in Nat
  BY DirectoryFacts
<1>1. n \in 1..n /\ n + 1 \in 1..Len(d) /\ n + 1 \in 2..(n + 1) /\ (n + 1) - 1 = n /\ n \in 1..(n + 1) /\ n \in 1..Len(d) /\ n + 1 \in 1..(n + 1)
  BY <1>0
<1>2. e \in Directories /\ Len(e) = n + 1 /\ SubSeq(e, 1, n + 1) = e /\ SubSeq(e, 1, n) = f
  BY <1>1, PrefixFacts, PrefixOfPrefix
<1>3. f \in Directories /\ Len(f) = n /\ Settled(f, D, F, C)
  BY <1>1, PrefixFacts DEF SettledUpTo
<1>p. \A i \in 1..n : SubSeq(f, 1, i) = SubSeq(e, 1, i)
  <2> SUFFICES ASSUME NEW i \in 1..n PROVE SubSeq(f, 1, i) = SubSeq(e, 1, i)
    OBVIOUS
  <2>1. i \in 1..(n + 1)
    BY <1>1
  <2> QED
    BY <1>1, <2>1, PrefixOfPrefix
<1>4. ~(f \in D \ C /\ e \notin D \cup F)
  OBVIOUS
<1> HIDE DEF e, f
<1>5. CASE e \in D
  BY <1>5 DEF Settled, e
<1>6. CASE e \notin D /\ (e \in F \/ f \in C)
  <2>1. BlockedAt(e, n + 1, D, F, C)
    BY <1>1, <1>2, <1>6 DEF BlockedAt
  <2>2. n + 1 \in 2..Len(e)
    BY <1>1, <1>2
  <2> QED
    BY <2>1, <2>2 DEF Settled, Blocked, e
<1>7. CASE f \notin D
  <2>1. PICK i \in 2..Len(f) : BlockedAt(f, i, D, F, C)
    BY <1>3, <1>7 DEF Settled, Blocked
  <2>2. i \in 1..n /\ i - 1 \in 1..n /\ i \in 2..Len(e)
    BY <1>0, <1>2, <1>3
  <2>3. SubSeq(f, 1, i) = SubSeq(e, 1, i) /\ SubSeq(f, 1, i - 1) = SubSeq(e, 1, i - 1)
    BY <1>p, <2>2
  <2>4. BlockedAt(e, i, D, F, C)
    BY <2>1, <2>3 DEF BlockedAt
  <2> QED
    BY <2>2, <2>4 DEF Settled, Blocked, e
<1> QED
  BY <1>4, <1>5, <1>6, <1>7
-----------------------------------------------------------------------------
(* The length of a way grows by at least a slash with each name. *)
LEMMA WayLength ==
    ASSUME NEW d \in Directories, NEW n \in 1..(Len(d) - 1)
    PROVE  PathLength(Append(SubSeq(d, 1, n), Nil)) <= PathLength(d)
<1> DEFINE way(k) == SubSeq(d, 1, k)
           S == {k \in 0..(Len(d) - n - 1) : PathLength(way(n)) + 1 <= PathLength(way(n + 1 + k))}
<1>0. Len(d) \in Nat /\ n \in 1..Len(d) /\ n \in Nat /\ Len(d) - n - 1 \in Nat
      /\ d \in Seq(Elements) /\ Nil \in Elements
  BY DirectoryFacts, PathsAssumption
<1>n. Characters(Nil) = 0
  BY PathsAssumption, Specials DEF Characters
<1>1. ASSUME NEW k \in 1..(Len(d) - 1)
      PROVE  PathLength(way(k)) \in Int /\ PathLength(way(k + 1)) \in Int
             /\ PathLength(way(k)) + 1 <= PathLength(way(k + 1))
  <2>1. k \in 1..Len(d) /\ k + 1 \in 2..Len(d) /\ k + 1 \in 1..Len(d) /\ (k + 1) - 1 = k
    BY <1>0
  <2>2. way(k) \in Directories /\ way(k + 1) \in Directories /\ Front(way(k + 1)) = way(k)
        /\ Len(way(k + 1)) = k + 1
    BY <2>1, PrefixFacts, FrontIsPrefix
  <2> DEFINE e == way(k + 1)
             x == Last(e)
  <2>3. e \in Seq(Elements) /\ e # <<>>
    <3> HIDE DEF e
    <3>1. e \in Directories
      BY <2>2 DEF e
    <3> QED
      BY <3>1, DirectoryFacts
  <2>4. x \in Elements /\ e = Append(way(k), x)
    <3> HIDE DEF e
    <3>1. Last(e) \in Elements /\ e = Append(Front(e), Last(e))
      BY <2>3, FrontFacts
    <3> QED
      BY <2>2, <3>1 DEF e
  <2>5. way(k) \in Path /\ way(k + 1) \in Path
    BY <2>2 DEF Directories
  <2> HIDE DEF way, e, x
  <2>6. PathLength(e) = PathLength(way(k)) + Characters(x) + 1
    BY <2>4, <2>5, PathLengthAppend
  <2>7. PathLength(way(k)) \in Int /\ PathLength(way(k + 1)) \in Int /\ Characters(x) \in Nat
    BY <2>5, PathLengthType, CharactersType
  <2> QED
    BY <2>6, <2>7 DEF e
<1>w. SubSeq(d, 1, Len(d)) = d /\ d \in Path /\ PathLength(Append(way(n), Nil)) = PathLength(way(n)) + 0 + 1
      /\ PathLength(way(n)) \in Int
  <2>1. way(n) \in Path /\ d \in Path
    BY <1>0, PrefixFacts DEF Directories
  <2>2. PathLength(Append(way(n), Nil)) = PathLength(way(n)) + 0 + 1
    BY <1>0, <1>n, <2>1, PathLengthAppend
  <2> QED
    BY <2>1, <2>2, WholePrefix, PathLengthType
<1> HIDE DEF way
<1>2. 0 \in S
  <2>1. n + 1 + 0 = n + 1 /\ 0 \in 0..(Len(d) - n - 1)
    BY <1>0
  <2> QED
    BY <1>1, <2>1
<1>3. ASSUME NEW k \in 0..((Len(d) - n - 1) - 1), k \in S PROVE k + 1 \in S
  <2>1. n + 1 + k \in 1..(Len(d) - 1) /\ (n + 1 + k) + 1 = n + 1 + (k + 1) /\ k + 1 \in 0..(Len(d) - n - 1)
    BY <1>0
  <2>2. PathLength(way(n)) + 1 <= PathLength(way(n + 1 + k))
    BY <1>3
  <2>3. /\ PathLength(way(n + 1 + k)) \in Int /\ PathLength(way(n + 1 + (k + 1))) \in Int
        /\ PathLength(way(n + 1 + k)) + 1 <= PathLength(way(n + 1 + (k + 1)))
    BY <1>1, <2>1
  <2>4. PathLength(way(n)) + 1 <= PathLength(way(n + 1 + (k + 1)))
    BY <1>w, <2>2, <2>3
  <2> QED
    BY <2>1, <2>4
<1>4. Len(d) - n - 1 \in S
  <2> HIDE DEF S
  <2>1. \A k \in 0..(Len(d) - n - 1) : k \in S
    BY <1>0, <1>2, <1>3, UpToInduction
  <2> QED
    BY <1>0, <2>1
<1>5. n + 1 + (Len(d) - n - 1) = Len(d)
  BY <1>0
<1>6. PathLength(way(n)) + 1 <= PathLength(way(Len(d)))
  BY <1>4, <1>5
<1>7. way(Len(d)) = d /\ PathLength(d) \in Int
  BY <1>w, PathLengthType DEF way
<1>8. PathLength(Append(way(n), Nil)) = PathLength(way(n)) + 1
  BY <1>w
<1>9. PathLength(Append(way(n), Nil)) <= PathLength(d)
  BY <1>6, <1>7, <1>8
<1> QED
  BY <1>9 DEF way

(* So there is room for the slashes but perhaps the last. *)
LEMMA RoomOnTheWay ==
    ASSUME NEW d \in Directories, Fits(d), NEW n \in 1..(Len(d) - 1)
    PROVE  Fits(Append(SubSeq(d, 1, n), Nil))
<1>1. n \in 1..Len(d) /\ Nil \in Elements
  BY DirectoryFacts, PathsAssumption
<1>2. d \in Path /\ Append(SubSeq(d, 1, n), Nil) \in Path
  BY <1>1, PrefixFacts, SubdirsAppend DEF Directories
<1>3. PathLength(d) \in Int /\ PathLength(Append(SubSeq(d, 1, n), Nil)) \in Int
  BY <1>2, PathLengthType
<1>4. PathLength(Append(SubSeq(d, 1, n), Nil)) <= PathLength(d)
  BY WayLength
<1> QED
  BY <1>3, <1>4, PathsAssumption DEF Fits

(* A path longer than its directory, and its length. *)
LEMMA WithName ==
    ASSUME NEW d \in Directories, NEW x \in Elements
    PROVE  /\ Append(d, x) \in Path /\ Append(d, x) # NoPath /\ Front(Append(d, x)) = d
           /\ Last(Append(d, x)) = x /\ sm_path_is_abs(Append(d, x))
           /\ PathLength(Append(d, x)) = PathLength(d) + Characters(x) + 1
           /\ PathLength(d) \in Int
<1> DEFINE q == Append(d, x)
<1>1. d \in Path /\ Len(d) \in Nat /\ Len(d) > 0 /\ d[1] = Nil
  BY DirectoryFacts DEF Path
<1>2. q \in Path /\ Len(q) = Len(d) + 1 /\ Front(q) = d /\ Last(q) = x /\ q[1] = Nil
  BY <1>1, WithElement
<1>3. PathLength(q) = PathLength(d) + Characters(x) + 1 /\ PathLength(d) \in Int
  BY <1>1, PathLengthAppend, PathLengthType
<1> HIDE DEF q
<1>4. Len(q) > 1 /\ Len(q) # 0
  BY <1>1, <1>2
<1>5. q # NoPath
  BY <1>4 DEF NoPath
<1>6. Head(q) = q[1]
  BY <1>2, <1>5 DEF Path, NoPath
<1> QED
  BY <1>2, <1>3, <1>4, <1>5, <1>6 DEF q, sm_path_is_abs

(* The file of a job lies in the last directory sm_create_dpath deals      *)
(* with; its name is the one that was asked for unless the buffer is full. *)
LEMMA FileFacts ==
    ASSUME NEW p \in Normal, Fits(p), NEW name \in Names \ {Marker}
    PROVE  LET f == FileIn(p, name) d == DirOf(p)
           IN  /\ f \in Path /\ f # NoPath /\ sm_path_is_abs(f)
               /\ Reach(d) \in 1..Len(d) /\ Front(f) = SubSeq(d, 1, Reach(d))
               /\ Last(f) = name \/ PathLength(f) = MAX_PATH - 1
<1> DEFINE f == FileIn(p, name)
           d == DirOf(p)
           n == PathLength(d)
<1>1. /\ d \in Directories /\ p \in Path /\ Len(p) > 1
      /\ (~is_file(p) /\ p = Append(d, Nil)) \/ (is_file(p) /\ p = d)
  BY NormalFacts
<1>2. d = IF Last(p) = Nil THEN Front(p) ELSE p
  BY DEF DirOf, is_file
<1> HIDE DEF d
<1>3. Nil \in Elements /\ name \in Elements /\ MAX_PATH \in Nat
  BY PathsAssumption DEF Names
<1>c. Characters(Nil) = 0 /\ Characters(name) = 1
  BY PathsAssumption, Specials DEF Characters, Names
<1>4. \A x \in Elements : Joined(p, <<x>>) = Append(d, x)
  <2> SUFFICES ASSUME NEW x \in Elements PROVE Joined(p, <<x>>) = Append(d, x)
    OBVIOUS
  <2>1. Joined(p, <<x>>) = d \o <<x>>
    BY <1>2 DEF Joined
  <2>2. d \in Seq(Elements)
    BY <1>1, DirectoryFacts
  <2>3. d \o <<x>> = Append(d, x)
    BY <2>2
  <2> QED
    BY <2>1, <2>3
<1>5. Joined(p, Empty) = Append(d, Nil) /\ Joined(p, <<name>>) = Append(d, name)
  BY <1>3, <1>4 DEF Empty
<1>6. f = IF Fits(Append(d, name)) THEN Append(d, name)
          ELSE IF Fits(Append(d, Nil)) THEN Append(d, Nil) ELSE p
  BY <1>5 DEF FileIn
<1> HIDE DEF f
<1>7. /\ PathLength(Append(d, name)) = PathLength(d) + 1 + 1
      /\ PathLength(Append(d, Nil)) = PathLength(d) + 0 + 1
      /\ n \in Int
  BY <1>1, <1>3, <1>c, WithName
<1> HIDE DEF n
<1>8. /\ PathLength(Append(d, name)) = n + 2 /\ PathLength(Append(d, Nil)) = n + 1 /\ n \in Int
      /\ Fits(Append(d, name)) <=> n + 2 < MAX_PATH
      /\ Fits(Append(d, Nil)) <=> n + 1 < MAX_PATH
  BY <1>7 DEF Fits, n
<1>9. SubSeq(d, 1, Len(d)) = d /\ Len(d) \in 1..Len(d) /\ Len(d) \in Nat
  BY <1>1, WholePrefix
<1>10. CASE Fits(Append(d, Nil))
  <2>1. Reach(d) = Len(d)
    BY <1>10 DEF Reach
  <2>2. PICK x \in {name, Nil} : f = Append(d, x) /\ (x = name \/ ~Fits(Append(d, name)))
    BY <1>6, <1>10
  <2>3. /\ f \in Path /\ f # NoPath /\ sm_path_is_abs(f)
        /\ Front(f) = d /\ Last(f) = x
    BY <1>1, <1>3, <2>2, WithName
  <2>4. x # name => PathLength(f) = MAX_PATH - 1
    <3> SUFFICES ASSUME x # name PROVE PathLength(f) = MAX_PATH - 1
      OBVIOUS
    <3>1. PathLength(f) = n + 1 /\ ~(n + 2 < MAX_PATH) /\ n + 1 < MAX_PATH
      BY <1>8, <1>10, <2>2
    <3> QED
      BY <1>3, <1>8, <3>1
  <2> QED
    BY <1>9, <2>1, <2>3, <2>4 DEF f, d
<1>11. CASE ~Fits(Append(d, Nil))
  <2>1. Reach(d) = Len(d) - 1
    BY <1>11 DEF Reach
  <2>2. ~Fits(Append(d, name))
    BY <1>3, <1>8, <1>11
  <2>3. f = p
    BY <1>6, <1>11, <2>2
  <2>4. p = d
    BY <1>1, <1>11
  <2>5. n < MAX_PATH
    BY <2>4 DEF Fits, n
  <2>6. PathLength(f) = MAX_PATH - 1
    <3>1. PathLength(f) = n
      BY <2>3, <2>4 DEF n
    <3>2. ~(n + 1 < MAX_PATH) /\ n \in Int
      BY <1>8, <1>11
    <3> QED
      BY <1>3, <2>5, <3>1, <3>2
  <2>7. Len(d) \in 2..Len(d) /\ Len(d) - 1 \in 1..Len(d)
    <3>1. Len(d) > 1
      BY <1>1, <2>4
    <3> QED
      BY <1>9, <3>1
  <2>8. Front(d) = SubSeq(d, 1, Len(d) - 1)
    BY <1>1, <1>9, <2>7, FrontIsPrefix
  <2>9. sm_path_is_abs(d) /\ d # NoPath /\ d \in Path
    <3>1. d \in Path /\ Len(d) > 1 /\ d[1] = Nil
      BY <1>1, <2>4, DirectoryFacts
    <3>2. d # <<>>
      BY <3>1
    <3>3. Head(d) = d[1]
      BY <3>1, <3>2 DEF Path
    <3> QED
      BY <3>1, <3>2, <3>3 DEF sm_path_is_abs, NoPath
  <2> QED
    BY <2>1, <2>3, <2>4, <2>6, <2>7, <2>8, <2>9 DEF f, d
<1> QED
  BY <1>10, <1>11

(* The path of a job: none for a log without a directory. *)
LEMMA PathOfType ==
    ASSUME NEW j \in Jobs, NEW dir \in Normal, NEW prog \in Absolute, PathOf(j, dir, prog) # NoPath
    PROVE  /\ j.kind = "log" /\ j.dpath = Empty => PathOf(j, dir, prog) = Empty
           /\ ~(j.kind = "log" /\ j.dpath = Empty) => MadePath(PathOf(j, dir, prog))
<1>1. CASE j.kind = "log" /\ j.dpath = Empty
  BY <1>1 DEF PathOf
<1>2. CASE ~(j.kind = "log" /\ j.dpath = Empty)
  <2>1. dir \in Absolute
    BY NormalFacts DEF Absolute
  <2>2. j.dpath \in Path /\ j.dpath # <<>>
    BY DEF Jobs, NoPath
  <2> DEFINE q == j.dpath
  <2> HIDE DEF q
  <2>3. q \in Path /\ Len(q) > 0
    <3>1. q \in Seq(Elements) /\ q # <<>>
      BY <2>2 DEF q, Path
    <3> QED
      BY <3>1 DEF Path
  <2>4. PathOf(j, dir, prog) = sm_make_path_abs(q, dir, prog)
    BY <1>2 DEF PathOf, q
  <2> QED
    BY <1>2, <2>1, <2>3, <2>4, MadePathIsNormal DEF MadePath
<1> QED
  BY <1>1, <1>2

(* A path that was made is a path. *)
LEMMA MadeIsSome ==
    ASSUME NEW path, MadePath(path)
    PROVE  path \in Normal /\ Fits(path) /\ path # NoPath /\ path # Empty
<1>1. path \in Normal /\ Fits(path)
  BY DEF MadePath
<1>2. Len(path) \in Nat /\ Len(path) > 1
  BY <1>1, NormalFacts
<1>3. Len(NoPath) = 0 /\ Len(Empty) = 1
  BY DEF NoPath, Empty
<1>k. \A n \in Nat : n > 1 => n # 0 /\ n # 1
  OBVIOUS
<1>4. Len(path) # 0 /\ Len(path) # 1
  BY <1>2, <1>k, Zenon
<1>5. ASSUME path = NoPath PROVE FALSE
  <2>1. Len(path) = Len(NoPath)
    BY <1>5
  <2> QED
    BY <1>3, <1>4, <2>1
<1>6. ASSUME path = Empty PROVE FALSE
  <2>1. Len(path) = Len(Empty)
    BY <1>6
  <2> QED
    BY <1>3, <1>4, <2>1
<1> QED
  BY <1>1, <1>5, <1>6

(* The file of a job, and where it is. *)
LEMMA FileOfMade ==
    ASSUME NEW path, MadePath(path), NEW name \in Names \ {Marker}, NEW dir
    PROVE  LET f == FileOf(path, name) d == DirOf(path)
           IN  /\ d \in Directories /\ Reach(d) \in 1..Len(d)
               /\ f \in Path /\ f # NoPath /\ FollowedFrom(f, dir) = f
               /\ Front(f) = SubSeq(d, 1, Reach(d)) /\ Front(f) \in Directories
               /\ Last(f) = name \/ PathLength(f) = MAX_PATH - 1
<1> DEFINE d == DirOf(path)
           f == FileIn(path, name)
<1>1. path \in Normal /\ Fits(path) /\ path # Empty
  BY MadeIsSome
<1>2. FileOf(path, name) = f
  BY <1>1 DEF FileOf
<1>3. /\ f \in Path /\ f # NoPath /\ sm_path_is_abs(f)
      /\ Reach(d) \in 1..Len(d) /\ Front(f) = SubSeq(d, 1, Reach(d))
      /\ Last(f) = name \/ PathLength(f) = MAX_PATH - 1
  BY <1>1, FileFacts
<1>4. d \in Directories
  BY <1>1, NormalFacts
<1> HIDE DEF d, f
<1>5. SubSeq(d, 1, Reach(d)) \in Directories
  BY <1>3, <1>4, PrefixFacts
<1> QED
  BY <1>2, <1>3, <1>4, <1>5 DEF d, FollowedFrom

(* A log without a directory is looked up from the current one. *)
LEMMA FileOfBare ==
    ASSUME NEW name \in Names \ {Marker}, NEW dir \in Normal
    PROVE  LET f == FileOf(Empty, name) there == FollowedFrom(f, dir)
           IN  /\ f \in Path /\ f # NoPath /\ Last(f) = name
               /\ there = Append(DirOf(dir), name) /\ Front(there) = DirOf(dir)
               /\ DirOf(dir) \in Directories
<1> DEFINE d == DirOf(dir)
           f == <<name>>
<1>1. name \in Elements /\ d \in Directories
  BY NormalFacts DEF Names
<1>2. FileOf(Empty, name) = f
  BY DEF FileOf
<1>3. Len(f) = 1 /\ f \in Path /\ f # NoPath /\ Last(f) = name
  BY <1>1 DEF Path, NoPath, Last
<1>4. ~sm_path_is_abs(f)
  BY <1>3 DEF sm_path_is_abs
<1>5. d \o f = Append(d, name)
  <2>1. d \in Seq(Elements)
    BY <1>1, DirectoryFacts
  <2> QED
    BY <2>1
<1>6. Front(Append(d, name)) = d
  BY <1>1, WithName
<1> HIDE DEF f, d
<1> QED
  BY <1>1, <1>2, <1>3, <1>4, <1>5, <1>6 DEF FollowedFrom, d

(* A log that cannot be opened stays so. *)
LEMMA RefusedStays ==
    ASSUME NEW D, NEW F, NEW C, NEW D2, NEW F2, IsTree(D, F), Grows(D, F, C, D2, F2),
           NEW f, Front(f) \in Directories, Refused(f, D, F, C)
    PROVE  Refused(f, D2, F2, C)
<1>1. CASE Blocked(Front(f), D, F, C)
  <2>1. Front(f) \notin D /\ Blocked(Front(f), D2, F2, C)
    BY <1>1, BlockedIsNotThere, BlockedStays
  <2> QED
    BY <2>1 DEF Refused, Grows
<1>2. CASE ~is_file(f) \/ f \in D \/ Front(f) \in C
  BY <1>2 DEF Refused, Grows
<1> QED
  BY <1>1, <1>2 DEF Refused

(* A path whose last directory sm_create_dpath leaves alone stays so. *)
LEMMA EnoughStays ==
    ASSUME NEW D, NEW F, NEW C, NEW D2, NEW F2, Grows(D, F, C, D2, F2), NEW path
    PROVE  Enough(path, D2) <=> Enough(path, D)
<1> DEFINE d == DirOf(path)
<1>1. D \subseteq D2 /\ \A e \in D2 \ D : Fits(Append(e, Nil))
  BY DEF Grows
<1> HIDE DEF d
<1>2. d \in D2 /\ ~Fits(Append(d, Nil)) => d \in D
  BY <1>1
<1>3. Fits(Append(d, Nil)) \/ d \in D2 <=> Fits(Append(d, Nil)) \/ d \in D
  BY <1>1, <1>2
<1> QED
  BY <1>3 DEF Enough, d

(* An answer stays true. *)
LEMMA AnswerStays ==
    ASSUME NEW D, NEW F, NEW C, NEW D2, NEW F2, IsTree(D, F), Grows(D, F, C, D2, F2),
           NEW dir \in Normal, NEW prog \in Absolute,
           NEW r \in Results, Answered(r, dir, prog, D, F, C)
    PROVE  Answered(r, dir, prog, D2, F2, C)
<1> DEFINE path == PathOf(r.job, dir, prog)
           file == FileOf(path, r.job.fname)
           there == FollowedFrom(file, dir)
<1>r. r.job \in Jobs /\ r.job.fname \in Names \ {Marker}
  BY DEF Results, Jobs
<1>d. path # NoPath => Front(there) \in Directories /\ (r.job.kind # "log" => Front(file) \in Directories)
  <2> SUFFICES ASSUME path # NoPath
               PROVE  Front(there) \in Directories /\ (r.job.kind # "log" => Front(file) \in Directories)
    OBVIOUS
  <2>1. CASE r.job.kind = "log" /\ r.job.dpath = Empty
    <3>1. path = Empty
      BY <1>r, <2>1, PathOfType
    <3> QED
      BY <1>r, <2>1, <3>1, FileOfBare
  <2>2. CASE ~(r.job.kind = "log" /\ r.job.dpath = Empty)
    <3>1. MadePath(path)
      BY <1>r, <2>2, PathOfType
    <3> HIDE DEF path
    <3> QED
      BY <1>r, <3>1, FileOfMade
  <2> QED
    BY <2>1, <2>2
<1>1. ASSUME path # NoPath, r.job.kind # "log", Settled(Front(file), D, F, C)
      PROVE  Settled(Front(file), D2, F2, C)
  BY <1>1, <1>d, SettledStays
<1>2. ASSUME path # NoPath, Refused(there, D, F, C) PROVE Refused(there, D2, F2, C)
  BY <1>2, <1>d, RefusedStays
<1>3. F \subseteq F2 /\ (Enough(path, D2) <=> Enough(path, D))
  <2>1. F \subseteq F2
    BY DEF Grows
  <2> HIDE DEF path
  <2>2. Enough(path, D2) <=> Enough(path, D)
    BY EnoughStays
  <2> QED
    BY <2>1, <2>2
<1>a. /\ path = NoPath => r.path = NoPath
      /\ path # NoPath /\ r.job.kind # "log" =>
            \/ r.path = file /\ Enough(path, D) /\ Settled(Front(file), D, F, C)
            \/ r.path = NoPath /\ ~Enough(path, D)
      /\ path # NoPath /\ r.job.kind = "log" =>
            \/ r.path = file /\ there \in F
            \/ r.path = NoPath /\ Refused(there, D, F, C)
  BY DEF Answered
<1> HIDE DEF path, file, there
<1>b. /\ path = NoPath => r.path = NoPath
      /\ path # NoPath /\ r.job.kind # "log" =>
            \/ r.path = file /\ Enough(path, D2) /\ Settled(Front(file), D2, F2, C)
            \/ r.path = NoPath /\ ~Enough(path, D2)
      /\ path # NoPath /\ r.job.kind = "log" =>
            \/ r.path = file /\ there \in F2
            \/ r.path = NoPath /\ Refused(there, D2, F2, C)
  BY <1>1, <1>2, <1>3, <1>a
<1> QED
  BY <1>b DEF Answered, path, file, there
-----------------------------------------------------------------------------
(* The directory of a path that was made. *)
LEMMA MadeFacts ==
    ASSUME NEW path, MadePath(path)
    PROVE  LET d == DirOf(path)
           IN  /\ path \in Normal /\ path # NoPath /\ path # Empty
               /\ d \in Directories /\ Len(d) \in Nat /\ Len(d) > 0 /\ Len(d) <= SM_MAX_SUBDIRS
               /\ Subdirs(path) = d /\ Reach(d) \in 0..Len(d) /\ Fits(d)
<1> DEFINE d == DirOf(path)
<1>1. path \in Normal /\ Fits(path) /\ path # NoPath /\ path # Empty
  BY MadeIsSome
<1>2. Subdirs(path) = d /\ d \in Shallow
  BY DEF MadePath
<1>3. d \in Directories /\ ((~is_file(path) /\ path = Append(d, Nil)) \/ path = d)
  BY <1>1, NormalFacts
<1>4. Fits(d)
  <2>1. CASE path = d
    BY <1>1, <2>1
  <2>2. CASE path = Append(d, Nil)
    <3>1. Nil \in Elements
      BY PathsAssumption
    <3> DEFINE q == Append(d, Nil)
    <3>2. PathLength(q) = PathLength(d) + Characters(Nil) + 1 /\ PathLength(d) \in Int
      BY <1>3, <3>1, WithName
    <3>3. Characters(Nil) \in Nat /\ PathLength(q) < MAX_PATH
      BY <1>1, <2>2, CharactersType DEF Fits
    <3> HIDE DEF q, d
    <3>4. PathLength(d) < MAX_PATH
      BY <3>2, <3>3, PathsAssumption
    <3> QED
      BY <3>4 DEF Fits
  <2> QED
    BY <1>3, <2>1, <2>2
<1> HIDE DEF d
<1>5. Len(d) \in Nat /\ Len(d) > 0 /\ Len(d) <= SM_MAX_SUBDIRS
  BY <1>2, <1>3, DirectoryFacts DEF Shallow
<1>6. Reach(d) \in 0..Len(d)
  BY <1>5 DEF Reach
<1> QED
  BY <1>1, <1>2, <1>3, <1>4, <1>5, <1>6 DEF d

(* What was true of the work on a job stays true. *)
LEMMA MakingStays ==
    ASSUME NEW D, NEW F, NEW C, NEW D2, NEW F2, Grows(D, F, C, D2, F2),
           NEW d \in Directories, NEW n \in Nat, NEW where, NEW kind,
           MakingAt(where, n, kind, d, D, F, C)
    PROVE  MakingAt(where, n, kind, d, D2, F2, C)
<1>1. Len(d) \in Nat /\ n <= Len(d) /\ SettledUpTo(d, n, D, F, C)
  BY DirectoryFacts DEF MakingAt
<1>2. n \in 0..Len(d)
  BY <1>1
<1>3. SettledUpTo(d, n, D2, F2, C)
  BY <1>1, <1>2, SettledUpToStays
<1>4. \A e \in D2 \ D : Fits(Append(e, Nil))
  BY DEF Grows
<1>5. d \notin D /\ ~Fits(Append(d, Nil)) => d \notin D2
  BY <1>4
<1> QED
  BY <1>3, <1>5 DEF MakingAt

LEMMA WorkAtStays ==
    ASSUME NEW D, NEW F, NEW C, NEW D2, NEW F2, Grows(D, F, C, D2, F2),
           NEW where, NEW n \in Nat, NEW path, NEW j, NEW dir, NEW prog,
           WorkAt(where, n, path, j, dir, prog, D, F, C)
    PROVE  WorkAt(where, n, path, j, dir, prog, D2, F2, C)
<1> DEFINE d == DirOf(path)
<1>1. path # Empty => d \in Directories /\ Reach(d) \in 0..Len(d)
  BY MadeFacts DEF WorkAt
<1>2. /\ path = Empty \/ MadePath(path)
      /\ where \in {"find", "create", "mkdir"} => path # Empty
      /\ where = "open" => j.kind = "log" /\ (path # Empty => SettledUpTo(d, Reach(d), D, F, C))
      /\ where \in {"create", "mkdir"} => MakingAt(where, n, j.kind, d, D, F, C)
  BY DEF WorkAt
<1> HIDE DEF d
<1>3. where = "open" /\ path # Empty => SettledUpTo(d, Reach(d), D2, F2, C)
  BY <1>1, <1>2, SettledUpToStays
<1>4. where \in {"create", "mkdir"} => MakingAt(where, n, j.kind, d, D2, F2, C)
  BY <1>1, <1>2, MakingStays
<1> QED
  BY <1>2, <1>3, <1>4 DEF WorkAt, d

-----------------------------------------------------------------------------
(* The programs start as the invariant says. *)
LEMMA InitInv == Init => Inv
<1> SUFFICES ASSUME Init PROVE Inv
  OBVIOUS
<1>1. PICK s \in Starts : /\ cwd = s.cwd /\ exe = s.exe
                          /\ dirs = s.dirs /\ files = s.files /\ closed = s.closed
                          /\ jobs = s.jobs
  BY DEF Init
<1>2. /\ pc = [p \in Programs |-> "begin"] /\ dpath = [p \in Programs |-> Empty]
      /\ done = [p \in Programs |-> 0] /\ results = [p \in Programs |-> <<>>]
  BY DEF Init
<1>3. /\ {cwd, exe} \subseteq Path /\ sm_path_is_abs(cwd) /\ sm_path_is_abs(exe)
      /\ DirOf(cwd) \in dirs
      /\ Root \in dirs /\ dirs \subseteq Directories /\ dirs \cap files = {}
      /\ \A f \in (dirs \ {Root}) \cup files : Front(f) \in dirs
      /\ jobs \in [Programs -> Seq(Jobs)]
  BY <1>1, StartsAssumption
<1>4. SystemInv
  <2>1. cwd \in Normal
    BY <1>3 DEF Normal, sm_path_is_abs
  <2>2. exe \in Absolute
    <3>1. exe \in Path /\ Len(exe) > 1 /\ Head(exe) = Nil
      BY <1>3 DEF sm_path_is_abs
    <3>2. Head(exe) = exe[1]
      BY <3>1 DEF Path
    <3> QED
      BY <3>1, <3>2 DEF Absolute
  <2> QED
    BY <1>3, <2>1, <2>2 DEF SystemInv, IsTree
<1>5. TypeInv
  <2>1. 0 \in 0..SM_MAX_SUBDIRS
    BY PathsAssumption
  <2>2. results \in [Programs -> Seq(Results)]
    BY <1>2
  <2> QED
    BY <1>2, <1>3, <2>1, <2>2 DEF TypeInv
<1>6. \A p \in Programs : WorkInv(p) /\ IdleInv(p)
  BY <1>2 DEF WorkInv, IdleInv
<1>7. \A p \in Programs : AnswersInv(p)
  <2> SUFFICES ASSUME NEW p \in Programs PROVE AnswersInv(p)
    OBVIOUS
  <2>1. Len(results[p]) = 0
    BY <1>2
  <2>2. 1..Len(results[p]) = {}
    BY <2>1
  <2> QED
    BY <2>2 DEF AnswersInv
<1> QED
  BY <1>4, <1>5, <1>6, <1>7 DEF Inv

(* Most steps do not touch the file system. *)
LEMMA GrowsNot ==
    ASSUME SystemInv, UNCHANGED <<systemVars, fsVars>>
    PROVE  SystemInv' /\ Grows(dirs, files, closed, dirs', files') /\ UNCHANGED systemVars
<1>1. cwd' = cwd /\ exe' = exe /\ closed' = closed /\ dirs' = dirs /\ files' = files
  BY DEF systemVars, fsVars
<1>2. Grows(dirs, files, closed, dirs', files')
  BY <1>1 DEF Grows
<1>3. SystemInv'
  BY <1>1 DEF SystemInv, IsTree
<1> QED
  BY <1>1, <1>2, <1>3 DEF systemVars

(* What a program does not touch: its place in its job, and its answers.   *)
LEMMA WorkStays ==
    ASSUME SystemInv, TypeInv, UNCHANGED systemVars, Grows(dirs, files, closed, dirs', files'),
           NEW q \in Programs, WorkInv(q), IdleInv(q),
           jobs'[q] = jobs[q], pc'[q] = pc[q], dpath'[q] = dpath[q], done'[q] = done[q]
    PROVE  WorkInv(q)' /\ IdleInv(q)'
<1>1. cwd' = cwd /\ exe' = exe /\ closed' = closed
  BY DEF systemVars
<1>2. IdleInv(q)'
  BY DEF IdleInv
<1>3. Job(q)' = Job(q) /\ done[q] \in Nat
  BY PathsAssumption DEF Job, TypeInv
<1>4. ASSUME pc[q] # "begin"
      PROVE  /\ jobs[q] # <<>>
             /\ WorkAt(pc[q], done[q], dpath[q], Job(q), cwd, exe, dirs', files', closed)
  <2>1. WorkAt(pc[q], done[q], dpath[q], Job(q), cwd, exe, dirs, files, closed) /\ jobs[q] # <<>>
    BY <1>4 DEF WorkInv
  <2> QED
    BY <1>3, <2>1, WorkAtStays
<1>5. WorkInv(q)'
  BY <1>1, <1>3, <1>4 DEF WorkInv
<1> QED
  BY <1>2, <1>5

LEMMA AnswersStay ==
    ASSUME SystemInv, TypeInv, UNCHANGED systemVars, Grows(dirs, files, closed, dirs', files'),
           NEW q \in Programs, AnswersInv(q), results'[q] = results[q]
    PROVE  AnswersInv(q)'
<1>1. cwd' = cwd /\ exe' = exe /\ closed' = closed
  BY DEF systemVars
<1>2. cwd \in Normal /\ exe \in Absolute /\ IsTree(dirs, files)
  BY DEF SystemInv
<1>3. ASSUME NEW i \in 1..Len(results[q])
      PROVE  Answered(results[q][i], cwd, exe, dirs', files', closed)
  <2>1. results[q][i] \in Results
    BY DEF TypeInv
  <2>2. Answered(results[q][i], cwd, exe, dirs, files, closed)
    BY DEF AnswersInv
  <2> QED
    BY <1>2, <2>1, <2>2, AnswerStays
<1> QED
  BY <1>1, <1>3 DEF AnswersInv

(* A job that returns. *)
LEMMA ReturnKeeps ==
    ASSUME SystemInv, TypeInv, UNCHANGED systemVars, Grows(dirs, files, closed, dirs', files'),
           NEW p \in Programs, AnswersInv(p), jobs[p] # <<>>, NEW path \in Path, Return(p, path),
           Answered([job |-> Job(p), path |-> path], cwd, exe, dirs', files', closed)
    PROVE  /\ jobs' \in [Programs -> Seq(Jobs)] /\ done' \in [Programs -> 0..SM_MAX_SUBDIRS]
           /\ pc' \in [Programs -> {"begin", "find", "create", "mkdir", "open"}]
           /\ results' \in [Programs -> Seq(Results)]
           /\ WorkInv(p)' /\ IdleInv(p)' /\ AnswersInv(p)'
           /\ \A q \in Programs \ {p} : /\ jobs'[q] = jobs[q] /\ pc'[q] = pc[q]
                                        /\ done'[q] = done[q] /\ results'[q] = results[q]
<1> DEFINE r == [job |-> Job(p), path |-> path]
           h == results[p]
<1>1. jobs[p] \in Seq(Jobs) /\ Job(p) \in Jobs /\ Tail(jobs[p]) \in Seq(Jobs) /\ <<>> \in Seq(Jobs)
  BY DEF TypeInv, Job
<1>2. r \in Results
  BY <1>1 DEF Results
<1> HIDE DEF r
<1>3. h \in Seq(Results)
  BY DEF TypeInv
<1>4. /\ results' = [results EXCEPT ![p] = Append(@, r)]
      /\ jobs' = [jobs EXCEPT ![p] = IF Job(p).kind = "out" /\ path = NoPath THEN <<>> ELSE Tail(@)]
      /\ pc' = [pc EXCEPT ![p] = "begin"]
      /\ done' = [done EXCEPT ![p] = 0]
  BY DEF Return, Goto, r
<1>5. Append(h, r) \in Seq(Results)
  BY <1>2, <1>3
<1>6. jobs' \in [Programs -> Seq(Jobs)]
  BY <1>1, <1>4 DEF TypeInv
<1>7. results' \in [Programs -> Seq(Results)] /\ results'[p] = Append(h, r)
  BY <1>4, <1>5 DEF TypeInv
<1>8. 0 \in 0..SM_MAX_SUBDIRS
  BY PathsAssumption
<1>9. done' \in [Programs -> 0..SM_MAX_SUBDIRS] /\ done'[p] = 0
  BY <1>4, <1>8 DEF TypeInv
<1>10. pc' \in [Programs -> {"begin", "find", "create", "mkdir", "open"}] /\ pc'[p] = "begin"
  BY <1>4 DEF TypeInv
<1>11. \A q \in Programs \ {p} : /\ jobs'[q] = jobs[q] /\ pc'[q] = pc[q]
                                 /\ done'[q] = done[q] /\ results'[q] = results[q]
  BY <1>4 DEF TypeInv
<1>12. WorkInv(p)' /\ IdleInv(p)'
  BY <1>9, <1>10 DEF WorkInv, IdleInv
<1>13. AnswersInv(p)'
  <2>1. cwd' = cwd /\ exe' = exe /\ closed' = closed
    BY DEF systemVars
  <2>2. cwd \in Normal /\ exe \in Absolute /\ IsTree(dirs, files)
    BY DEF SystemInv
  <2>3. Answered(r, cwd, exe, dirs', files', closed)
    BY DEF r
  <2>4. ASSUME NEW i \in 1..Len(Append(h, r))
        PROVE  Answered(Append(h, r)[i], cwd, exe, dirs', files', closed)
    <3>1. CASE i \in 1..Len(h)
      <4>1. Append(h, r)[i] = h[i] /\ h[i] \in Results
        BY <1>3, <3>1
      <4>2. Answered(h[i], cwd, exe, dirs, files, closed)
        BY <3>1 DEF AnswersInv
      <4> QED
        BY <2>2, <4>1, <4>2, AnswerStays
    <3>2. CASE i = Len(h) + 1
      <4>1. Append(h, r)[i] = r
        BY <1>3, <3>2
      <4> QED
        BY <2>3, <4>1
    <3>3. i \in 1..Len(h) \/ i = Len(h) + 1
      BY <1>3
    <3> QED
      BY <3>1, <3>2, <3>3
  <2> QED
    BY <1>7, <2>1, <2>4 DEF AnswersInv
<1> QED
  BY <1>6, <1>7, <1>9, <1>10, <1>11, <1>12, <1>13

(* A step of one program, and the others. *)
LEMMA Others ==
    ASSUME Inv, NEW p \in Programs, SystemInv', TypeInv', UNCHANGED systemVars,
           Grows(dirs, files, closed, dirs', files'),
           WorkInv(p)', IdleInv(p)', AnswersInv(p)',
           \A q \in Programs \ {p} :
               /\ jobs'[q] = jobs[q] /\ pc'[q] = pc[q] /\ dpath'[q] = dpath[q]
               /\ done'[q] = done[q] /\ results'[q] = results[q]
    PROVE  Inv'
<1>1. ASSUME NEW q \in Programs, q # p PROVE WorkInv(q)' /\ IdleInv(q)' /\ AnswersInv(q)'
  <2>1. SystemInv /\ TypeInv /\ WorkInv(q) /\ IdleInv(q) /\ AnswersInv(q)
    BY DEF Inv
  <2>2. /\ jobs'[q] = jobs[q] /\ pc'[q] = pc[q] /\ dpath'[q] = dpath[q]
        /\ done'[q] = done[q] /\ results'[q] = results[q]
    BY <1>1
  <2> QED
    BY <2>1, <2>2, WorkStays, AnswersStay
<1> QED
  BY <1>1 DEF Inv

(* What the steps of a program start from. *)
LEMMA Place ==
    ASSUME Inv, NEW p \in Programs
    PROVE  /\ SystemInv /\ TypeInv /\ WorkInv(p) /\ IdleInv(p) /\ AnswersInv(p)
           /\ cwd \in Normal /\ exe \in Absolute /\ IsTree(dirs, files) /\ DirOf(cwd) \in dirs
           /\ done[p] \in Nat
           /\ jobs[p] # <<>> => Job(p) \in Jobs /\ Job(p).fname \in Names \ {Marker}
<1>1. SystemInv /\ TypeInv /\ WorkInv(p) /\ IdleInv(p) /\ AnswersInv(p)
  BY DEF Inv
<1>2. cwd \in Normal /\ exe \in Absolute /\ IsTree(dirs, files) /\ DirOf(cwd) \in dirs
  BY <1>1 DEF SystemInv
<1>3. jobs[p] \in Seq(Jobs) /\ done[p] \in Nat
  BY <1>1, PathsAssumption DEF TypeInv
<1>4. jobs[p] # <<>> => Job(p) \in Jobs
  BY <1>3 DEF Job
<1>5. Job(p) \in Jobs => Job(p).fname \in Names \ {Marker}
  BY DEF Jobs
<1> QED
  BY <1>1, <1>2, <1>3, <1>4, <1>5

(* A step within a job that makes nothing. *)
LEMMA Continues ==
    ASSUME Inv, NEW p \in Programs, UNCHANGED <<systemVars, fsVars, jobs, results>>,
           NEW where \in {"find", "create", "mkdir", "open"}, NEW n \in 0..SM_MAX_SUBDIRS, NEW path,
           pc' = [pc EXCEPT ![p] = where], done' = [done EXCEPT ![p] = n],
           dpath' = [dpath EXCEPT ![p] = path], where = "find" => n = 0, jobs[p] # <<>>,
           WorkAt(where, n, path, Job(p), cwd, exe, dirs, files, closed)
    PROVE  Inv'
<1>1. SystemInv /\ TypeInv /\ AnswersInv(p)
  BY Place
<1>2. UNCHANGED <<systemVars, fsVars>> /\ jobs' = jobs /\ results' = results
  OBVIOUS
<1>3. SystemInv' /\ Grows(dirs, files, closed, dirs', files') /\ UNCHANGED systemVars
  BY <1>1, <1>2, GrowsNot
<1>4. AnswersInv(p)'
  BY <1>1, <1>2, <1>3, AnswersStay
<1>5. path \in Normal \cup {Empty}
  <2>1. path = Empty \/ MadePath(path)
    BY DEF WorkAt
  <2> QED
    BY <2>1 DEF MadePath
<1>6. TypeInv' /\ pc'[p] = where /\ done'[p] = n /\ dpath'[p] = path
  BY <1>1, <1>2, <1>5 DEF TypeInv
<1>7. cwd' = cwd /\ exe' = exe /\ closed' = closed /\ dirs' = dirs /\ files' = files /\ Job(p)' = Job(p)
  BY <1>2 DEF Job, systemVars, fsVars
<1>8. WorkInv(p)'
  BY <1>2, <1>6, <1>7 DEF WorkInv
<1>9. IdleInv(p)'
  BY <1>6 DEF IdleInv
<1>10. \A q \in Programs \ {p} :
          /\ jobs'[q] = jobs[q] /\ pc'[q] = pc[q] /\ dpath'[q] = dpath[q]
          /\ done'[q] = done[q] /\ results'[q] = results[q]
  BY <1>1, <1>2 DEF TypeInv
<1> QED
  BY <1>3, <1>4, <1>6, <1>8, <1>9, <1>10, Others

(* A step that makes nothing and ends the job. *)
LEMMA Returned ==
    ASSUME Inv, NEW p \in Programs, UNCHANGED <<systemVars, fsVars, dpath>>, jobs[p] # <<>>,
           NEW path \in Path, Return(p, path),
           Answered([job |-> Job(p), path |-> path], cwd, exe, dirs, files, closed)
    PROVE  Inv'
<1>1. SystemInv /\ TypeInv /\ AnswersInv(p)
  BY Place
<1>2. UNCHANGED <<systemVars, fsVars>> /\ dpath' = dpath
  OBVIOUS
<1>3. SystemInv' /\ Grows(dirs, files, closed, dirs', files') /\ UNCHANGED systemVars
  BY <1>1, <1>2, GrowsNot
<1>4. dirs' = dirs /\ files' = files
  BY <1>2 DEF fsVars
<1>5. /\ jobs' \in [Programs -> Seq(Jobs)] /\ done' \in [Programs -> 0..SM_MAX_SUBDIRS]
      /\ pc' \in [Programs -> {"begin", "find", "create", "mkdir", "open"}]
      /\ results' \in [Programs -> Seq(Results)]
      /\ WorkInv(p)' /\ IdleInv(p)' /\ AnswersInv(p)'
      /\ \A q \in Programs \ {p} : /\ jobs'[q] = jobs[q] /\ pc'[q] = pc[q]
                                   /\ done'[q] = done[q] /\ results'[q] = results[q]
  BY <1>1, <1>3, <1>4, ReturnKeeps
<1>6. TypeInv'
  BY <1>1, <1>2, <1>5 DEF TypeInv
<1> QED
  BY <1>2, <1>3, <1>5, <1>6, Others

(* A job that is done with its directories. *)
LEMMA WorkDone ==
    ASSUME Inv, NEW p \in Programs, pc[p] # "begin", dpath[p] # Empty,
           SettledUpTo(DirOf(dpath[p]), Reach(DirOf(dpath[p])), dirs, files, closed)
    PROVE  /\ dpath[p] # NoPath /\ dpath[p] = PathOf(Job(p), cwd, exe)
           /\ FilePath(p) = FileOf(dpath[p], Job(p).fname)
           /\ FilePath(p) \in Path /\ FilePath(p) # NoPath
           /\ FollowedFrom(FilePath(p), cwd) = FilePath(p)
           /\ Front(FilePath(p)) \in Directories
           /\ Settled(Front(FilePath(p)), dirs, files, closed)
<1> DEFINE path == dpath[p]
           d == DirOf(path)
           name == Job(p).fname
           f == FileOf(path, name)
<1>1. jobs[p] # <<>> /\ path = PathOf(Job(p), cwd, exe) /\ MadePath(path)
  BY Place DEF WorkInv, WorkAt
<1>2. name \in Names \ {Marker}
  BY <1>1, Place
<1>3. FilePath(p) = f
  BY DEF FilePath, FileOf
<1>s. SettledUpTo(d, Reach(d), dirs, files, closed)
  OBVIOUS
<1> HIDE DEF path, name
<1>4. /\ d \in Directories /\ Reach(d) \in 1..Len(d)
      /\ f \in Path /\ f # NoPath /\ FollowedFrom(f, cwd) = f
      /\ Front(f) = SubSeq(d, 1, Reach(d)) /\ Front(f) \in Directories
  BY <1>1, <1>2, FileOfMade
<1>5. path # NoPath
  BY <1>1, MadeIsSome
<1> HIDE DEF d, f
<1>6. Reach(d) \in 1..Reach(d)
  BY <1>4
<1>7. Settled(Front(f), dirs, files, closed)
  BY <1>s, <1>4, <1>6 DEF SettledUpTo
<1> QED
  BY <1>1, <1>3, <1>4, <1>5, <1>7 DEF path, name, f

(* One step of the protocol after the other keeps the invariant.           *)
LEMMA MakePathKeeps ==
    ASSUME Inv, NEW p \in Programs, MakePath(p)
    PROVE  Inv'
<1> DEFINE j == Job(p)
           abs == sm_make_path_abs(j.dpath, cwd, exe)
<1>1. /\ pc[p] = "begin" /\ jobs[p] # <<>> /\ UNCHANGED <<systemVars, fsVars>>
      /\ IF j.kind = "log" /\ j.dpath = Empty
         THEN /\ dpath' = [dpath EXCEPT ![p] = Empty] /\ pc' = [pc EXCEPT ![p] = "open"]
              /\ UNCHANGED <<jobs, done, results>>
         ELSE IF abs = NoPath
         THEN Return(p, NoPath) /\ UNCHANGED dpath
         ELSE /\ dpath' = [dpath EXCEPT ![p] = abs]
              /\ pc' = [pc EXCEPT ![p] = IF j.kind = "log" THEN "create" ELSE "find"]
              /\ UNCHANGED <<jobs, done, results>>
  BY DEF MakePath, Goto
<1>2. /\ TypeInv /\ IdleInv(p) /\ cwd \in Normal /\ exe \in Absolute /\ j \in Jobs
  BY <1>1, Place
<1>3. done[p] = 0 /\ 0 \in 0..SM_MAX_SUBDIRS /\ done = [done EXCEPT ![p] = 0]
  BY <1>1, <1>2, PathsAssumption DEF IdleInv, TypeInv
<1>4. done' = done => done' = [done EXCEPT ![p] = 0]
  BY <1>3
<1> HIDE DEF abs
<1>6. CASE j.kind = "log" /\ j.dpath = Empty
  <2>1. /\ dpath' = [dpath EXCEPT ![p] = Empty] /\ pc' = [pc EXCEPT ![p] = "open"]
        /\ UNCHANGED <<jobs, done, results>>
    BY <1>1, <1>6
  <2>2. WorkAt("open", 0, Empty, j, cwd, exe, dirs, files, closed)
    <3>1. PathOf(j, cwd, exe) = Empty
      BY <1>6 DEF PathOf
    <3> HIDE DEF j
    <3> QED
      BY <1>6, <3>1 DEF WorkAt
  <2>3. UNCHANGED <<systemVars, fsVars, jobs, results>>
    BY <1>1, <2>1
  <2> QED
    BY <1>1, <1>3, <1>4, <2>1, <2>2, <2>3, Continues
<1>7. CASE ~(j.kind = "log" /\ j.dpath = Empty) /\ abs = NoPath
  <2>1. Return(p, NoPath) /\ UNCHANGED <<systemVars, fsVars, dpath>>
    BY <1>1, <1>7
  <2>2. PathOf(j, cwd, exe) = NoPath
    BY <1>7 DEF PathOf, abs
  <2>3. Answered([job |-> j, path |-> NoPath], cwd, exe, dirs, files, closed)
    BY <2>2 DEF Answered
  <2>4. NoPath \in Path
    BY DEF NoPath, Path
  <2> QED
    BY <1>1, <2>1, <2>3, <2>4, Returned
<1>8. CASE ~(j.kind = "log" /\ j.dpath = Empty) /\ abs # NoPath
  <2> DEFINE where == IF j.kind = "log" THEN "create" ELSE "find"
             d == DirOf(abs)
  <2>1. /\ dpath' = [dpath EXCEPT ![p] = abs] /\ pc' = [pc EXCEPT ![p] = where]
        /\ UNCHANGED <<jobs, done, results>>
    BY <1>1, <1>8
  <2>2. PathOf(j, cwd, exe) = abs
    BY <1>8 DEF PathOf, abs
  <2>3. MadePath(abs) /\ abs # Empty
    <3>1. MadePath(PathOf(j, cwd, exe))
      <4> HIDE DEF j
      <4> QED
        BY <1>2, <1>8, <2>2, PathOfType
    <3> HIDE DEF j
    <3> QED
      BY <2>2, <3>1, MadeIsSome
  <2>4. where = "create" => j.kind = "log"
    OBVIOUS
  <2>5. 0 <= Len(d)
    <3>1. Len(d) \in Nat
      BY <2>3, MadeFacts
    <3> HIDE DEF d
    <3> QED
      BY <3>1
  <2>6. SettledUpTo(d, 0, dirs, files, closed) /\ ~(0 >= 1)
    BY DEF SettledUpTo
  <2>7. where \in {"create", "find"} /\ (where = "find" => j.kind # "log")
    OBVIOUS
  <2>8. WorkAt(where, 0, abs, j, cwd, exe, dirs, files, closed)
    <3> HIDE DEF j, where, d
    <3>1. where = "create" => MakingAt(where, 0, j.kind, d, dirs, files, closed)
      BY <2>4, <2>5, <2>6 DEF MakingAt
    <3> QED
      BY <2>2, <2>3, <2>7, <3>1 DEF WorkAt, d
  <2>9. UNCHANGED <<systemVars, fsVars, jobs, results>>
    BY <1>1, <2>1
  <2>10. /\ done' = [done EXCEPT ![p] = 0] /\ dpath' = [dpath EXCEPT ![p] = abs]
         /\ pc' = [pc EXCEPT ![p] = where]
    BY <1>4, <2>1
  <2> HIDE DEF where
  <2>11. where \in {"find", "create", "mkdir", "open"}
    BY <2>7
  <2> QED
    BY <1>1, <1>3, <2>8, <2>9, <2>10, <2>11, Continues
<1> QED
  BY <1>1, <1>6, <1>7, <1>8

(* A job other than the log that returns its path, and one that returns    *)
(* without.                                                                *)
LEMMA PathReturned ==
    ASSUME Inv, NEW p \in Programs, pc[p] # "begin", Job(p).kind # "log", dpath[p] # Empty,
           SettledUpTo(DirOf(dpath[p]), Reach(DirOf(dpath[p])), dirs, files, closed),
           Enough(dpath[p], dirs),
           Return(p, FilePath(p)), UNCHANGED <<systemVars, fsVars, dpath>>
    PROVE  Inv'
<1> DEFINE j == Job(p)
           f == FilePath(p)
<1>1. jobs[p] # <<>>
  BY Place DEF WorkInv
<1>2. /\ dpath[p] # NoPath /\ dpath[p] = PathOf(j, cwd, exe)
      /\ f = FileOf(dpath[p], j.fname) /\ f \in Path
      /\ Settled(Front(f), dirs, files, closed)
  BY WorkDone
<1>3. j.kind # "log"
  OBVIOUS
<1>4. Answered([job |-> j, path |-> f], cwd, exe, dirs, files, closed)
  <2> HIDE DEF j, f
  <2> QED
    BY <1>2, <1>3 DEF Answered
<1> QED
  BY <1>1, <1>2, <1>4, Returned

LEMMA NothingReturned ==
    ASSUME Inv, NEW p \in Programs, pc[p] # "begin", Job(p).kind # "log", dpath[p] # Empty,
           ~Enough(dpath[p], dirs),
           Return(p, NoPath), UNCHANGED <<systemVars, fsVars, dpath>>
    PROVE  Inv'
<1> DEFINE j == Job(p)
<1>1. jobs[p] # <<>> /\ dpath[p] = PathOf(j, cwd, exe)
  BY Place DEF WorkInv, WorkAt
<1>2. NoPath \in Path
  BY DEF NoPath, Path
<1>3. j.kind # "log"
  OBVIOUS
<1>4. Answered([job |-> j, path |-> NoPath], cwd, exe, dirs, files, closed)
  <2> HIDE DEF j
  <2> QED
    BY <1>1, <1>3 DEF Answered
<1> QED
  BY <1>1, <1>2, <1>4, Returned

LEMMA FindDirKeeps ==
    ASSUME Inv, NEW p \in Programs, FindDir(p)
    PROVE  Inv'
<1> DEFINE d == DirOf(dpath[p])
<1>1. pc[p] = "find" /\ UNCHANGED <<systemVars, fsVars>> /\ dpath' = dpath
      /\ UNCHANGED <<systemVars, fsVars, dpath>>
  BY DEF FindDir
<1>2. TypeInv /\ WorkInv(p) /\ IdleInv(p) /\ IsTree(dirs, files)
  BY Place
<1>3. /\ jobs[p] # <<>> /\ dpath[p] = PathOf(Job(p), cwd, exe) /\ dpath[p] # Empty
      /\ MadePath(dpath[p]) /\ Job(p).kind # "log"
  BY <1>1, <1>2 DEF WorkInv, WorkAt
<1>4. Subdirs(dpath[p]) = d /\ d \in Directories /\ Len(d) \in Nat /\ Reach(d) \in 0..Len(d)
  BY <1>3, MadeFacts
<1>5. done[p] = 0 /\ 0 \in 0..SM_MAX_SUBDIRS
  BY <1>1, <1>2, PathsAssumption DEF IdleInv
<1>6. CASE d \in dirs
  <2>1. Return(p, FilePath(p))
    BY <1>4, <1>6 DEF FindDir
  <2>2. SettledUpTo(d, Len(d), dirs, files, closed)
    BY <1>2, <1>6, ThereIsSettled
  <2>3. SettledUpTo(d, Reach(d), dirs, files, closed)
    <3> HIDE DEF d
    <3>1. 1..Reach(d) \subseteq 1..Len(d)
      BY <1>4
    <3> QED
      BY <2>2, <3>1 DEF SettledUpTo
  <2>4. Enough(dpath[p], dirs)
    BY <1>6 DEF Enough
  <2> QED
    BY <1>1, <1>3, <2>1, <2>3, <2>4, PathReturned
<1>7. CASE d \notin dirs
  <2>1. pc' = [pc EXCEPT ![p] = "create"] /\ UNCHANGED <<jobs, done, results>>
    BY <1>4, <1>7 DEF FindDir, Goto
  <2>2. UNCHANGED <<systemVars, fsVars, jobs, results>>
    BY <1>1, <2>1
  <2>3. done' = [done EXCEPT ![p] = 0] /\ dpath' = [dpath EXCEPT ![p] = dpath[p]]
    BY <1>1, <1>2, <1>5, <2>1 DEF TypeInv
  <2>4. 0 <= Len(d) /\ ~(0 >= 1)
    <3> HIDE DEF d
    <3> QED
      BY <1>4
  <2>5. SettledUpTo(d, 0, dirs, files, closed)
    BY DEF SettledUpTo
  <2>6. WorkAt("create", 0, dpath[p], Job(p), cwd, exe, dirs, files, closed)
    <3> HIDE DEF d
    <3>1. MakingAt("create", 0, Job(p).kind, d, dirs, files, closed)
      BY <1>7, <2>4, <2>5 DEF MakingAt
    <3> QED
      BY <1>3, <3>1 DEF WorkAt, d
  <2> QED
    BY <1>3, <1>5, <2>1, <2>2, <2>3, <2>6, Continues
<1> QED
  BY <1>6, <1>7

(* A program within sm_create_dpath. *)
LEMMA Making ==
    ASSUME Inv, NEW p \in Programs, pc[p] \in {"create", "mkdir"}
    PROVE  LET d == DirOf(dpath[p])
           IN  /\ d \in Directories /\ Len(d) \in Nat /\ Len(d) <= SM_MAX_SUBDIRS
               /\ Subdirs(dpath[p]) = d /\ Fits(d) /\ done[p] \in Nat
               /\ jobs[p] # <<>> /\ dpath[p] = PathOf(Job(p), cwd, exe)
               /\ MadePath(dpath[p]) /\ dpath[p] # Empty
               /\ MakingAt(pc[p], done[p], Job(p).kind, d, dirs, files, closed)
<1>1. WorkInv(p) /\ done[p] \in Nat
  BY Place
<1>2. /\ jobs[p] # <<>> /\ dpath[p] = PathOf(Job(p), cwd, exe) /\ dpath[p] # Empty
      /\ MadePath(dpath[p])
      /\ MakingAt(pc[p], done[p], Job(p).kind, DirOf(dpath[p]), dirs, files, closed)
  BY <1>1 DEF WorkInv, WorkAt
<1> QED
  BY <1>1, <1>2, MadeFacts

LEMMA StatPrefixKeeps ==
    ASSUME Inv, NEW p \in Programs, StatPrefix(p)
    PROVE  Inv'
<1> DEFINE d == DirOf(dpath[p])
           n == done[p]
           e == SubSeq(d, 1, n + 1)
           k == Job(p).kind
<1>1. pc[p] = "create" /\ UNCHANGED <<systemVars, fsVars, jobs, results>> /\ dpath' = dpath
  BY DEF StatPrefix
<1>2. /\ d \in Directories /\ Len(d) \in Nat /\ Len(d) <= SM_MAX_SUBDIRS
      /\ Subdirs(dpath[p]) = d /\ n \in Nat
      /\ jobs[p] # <<>> /\ dpath[p] = PathOf(Job(p), cwd, exe)
      /\ MadePath(dpath[p]) /\ dpath[p] # Empty
      /\ MakingAt("create", n, k, d, dirs, files, closed)
  BY <1>1, Making
<1>3. /\ n < Len(d) /\ Fits(Append(e, Nil))
      /\ IF e \in dirs
         THEN done' = [done EXCEPT ![p] = n + 1] /\ pc' = pc
         ELSE pc' = [pc EXCEPT ![p] = "mkdir"] /\ done' = done
  BY <1>2, Place DEF StatPrefix, Prefix, Goto, TypeInv
<1>4. TypeInv /\ Root \in dirs
  BY Place DEF IsTree
<1>5. n <= Len(d) /\ SettledUpTo(d, n, dirs, files, closed)
      /\ (k # "log" /\ ~Fits(Append(d, Nil)) => d \notin dirs)
  BY <1>2 DEF MakingAt
<1>i. n + 1 <= Len(d) /\ n + 1 \in 0..SM_MAX_SUBDIRS /\ n \in 0..SM_MAX_SUBDIRS
  <2> HIDE DEF d, n
  <2> QED
    BY <1>2, <1>3, PathsAssumption
<1>6. dpath' = [dpath EXCEPT ![p] = dpath[p]]
  BY <1>1, <1>4 DEF TypeInv
<1>7. CASE e \in dirs
  <2>1. done' = [done EXCEPT ![p] = n + 1] /\ pc' = [pc EXCEPT ![p] = "create"]
    BY <1>1, <1>3, <1>4, <1>7 DEF TypeInv
  <2>2. SettledUpTo(d, n + 1, dirs, files, closed)
    <3> SUFFICES ASSUME NEW i \in 1..(n + 1) PROVE Settled(SubSeq(d, 1, i), dirs, files, closed)
      BY DEF SettledUpTo
    <3>1. i \in 1..n \/ i = n + 1
      BY <1>2
    <3>2. CASE i \in 1..n
      BY <1>5, <3>2 DEF SettledUpTo
    <3>3. CASE i = n + 1
      BY <1>7, <3>3 DEF Settled
    <3> QED
      BY <3>1, <3>2, <3>3
  <2>3. MakingAt("create", n + 1, k, d, dirs, files, closed)
    <3> HIDE DEF d, n, k
    <3> QED
      BY <1>3, <1>5, <1>i, <2>2 DEF MakingAt, e
  <2>4. WorkAt("create", n + 1, dpath[p], Job(p), cwd, exe, dirs, files, closed)
    <3> HIDE DEF n
    <3> QED
      BY <1>2, <2>3 DEF WorkAt
  <2> QED
    BY <1>1, <1>2, <1>6, <1>i, <2>1, <2>4, Continues
<1>8. CASE e \notin dirs
  <2>1. done' = [done EXCEPT ![p] = n] /\ pc' = [pc EXCEPT ![p] = "mkdir"]
    BY <1>3, <1>4, <1>8 DEF TypeInv
  <2>2. n # 0
    <3>1. SubSeq(d, 1, 1) = Root
      BY <1>2, RootIsDirectory
    <3>2. n = 0 => n + 1 = 1
      OBVIOUS
    <3> QED
      BY <1>4, <1>8, <3>1, <3>2
  <2>3. 1 <= n
    <3> HIDE DEF n
    <3> QED
      BY <1>2, <2>2
  <2>4. n >= 1 => Fits(Append(SubSeq(d, 1, n), Nil))
    BY <1>2 DEF MakingAt
  <2>5. MakingAt("mkdir", n, k, d, dirs, files, closed)
    <3> HIDE DEF d, n, k
    <3> QED
      BY <1>3, <1>5, <2>3, <2>4 DEF MakingAt, e
  <2>6. WorkAt("mkdir", n, dpath[p], Job(p), cwd, exe, dirs, files, closed)
    <3> HIDE DEF n
    <3> QED
      BY <1>2, <2>5 DEF WorkAt
  <2> QED
    BY <1>1, <1>2, <1>6, <1>i, <2>1, <2>6, Continues
<1> QED
  BY <1>7, <1>8

(* The slash that has no room is the one behind the last directory.        *)
LEMMA NoRoomKeeps ==
    ASSUME Inv, NEW p \in Programs, NoRoom(p)
    PROVE  Inv'
<1> DEFINE d == DirOf(dpath[p])
           n == done[p]
           k == Job(p).kind
<1>1. pc[p] = "create" /\ UNCHANGED <<systemVars, fsVars, dpath>> /\ dpath' = dpath
  BY DEF NoRoom
<1>2. /\ d \in Directories /\ Len(d) \in Nat /\ Len(d) <= SM_MAX_SUBDIRS
      /\ Subdirs(dpath[p]) = d /\ n \in Nat /\ Fits(d)
      /\ jobs[p] # <<>> /\ dpath[p] = PathOf(Job(p), cwd, exe)
      /\ MadePath(dpath[p]) /\ dpath[p] # Empty
      /\ MakingAt("create", n, k, d, dirs, files, closed)
  BY <1>1, Making
<1>3. /\ n < Len(d) /\ ~Fits(Append(SubSeq(d, 1, n + 1), Nil))
      /\ IF k = "log"
         THEN pc' = [pc EXCEPT ![p] = "open"] /\ UNCHANGED <<jobs, done, results>>
         ELSE Return(p, NoPath)
  BY <1>2 DEF NoRoom, Prefix, Goto
<1>4. n + 1 = Len(d)
  <2>1. n + 1 \notin 1..(Len(d) - 1)
    BY <1>2, <1>3, RoomOnTheWay
  <2> HIDE DEF d, n
  <2> QED
    BY <1>2, <1>3, <2>1
<1>5. ~Fits(Append(d, Nil))
  BY <1>2, <1>3, <1>4, WholePrefix
<1>6. Reach(d) = n
  <2>1. Reach(d) = Len(d) - 1
    BY <1>5 DEF Reach
  <2> HIDE DEF d, n
  <2> QED
    BY <1>2, <1>4, <2>1
<1>7. CASE k = "log"
  <2>1. pc' = [pc EXCEPT ![p] = "open"] /\ UNCHANGED <<jobs, done, results>>
    BY <1>3, <1>7
  <2>2. SettledUpTo(d, Reach(d), dirs, files, closed)
    BY <1>2, <1>6 DEF MakingAt
  <2>3. WorkAt("open", n, dpath[p], Job(p), cwd, exe, dirs, files, closed)
    <3> HIDE DEF n
    <3> QED
      BY <1>2, <1>7, <2>2 DEF WorkAt
  <2>4. UNCHANGED <<systemVars, fsVars, jobs, results>>
    BY <1>1, <2>1
  <2>5. /\ done' = [done EXCEPT ![p] = n] /\ dpath' = [dpath EXCEPT ![p] = dpath[p]]
        /\ n \in 0..SM_MAX_SUBDIRS
    BY <1>1, <2>1, Place DEF TypeInv
  <2> QED
    BY <1>2, <2>1, <2>3, <2>4, <2>5, Continues
<1>8. CASE k # "log"
  <2>1. Return(p, NoPath)
    BY <1>3, <1>8
  <2>2. ~Enough(dpath[p], dirs)
    BY <1>2, <1>5, <1>8 DEF MakingAt, Enough
  <2> QED
    BY <1>1, <1>2, <1>8, <2>1, <2>2, NothingReturned
<1> QED
  BY <1>7, <1>8

LEMMA MakeDirKeeps ==
    ASSUME Inv, NEW p \in Programs, MakeDir(p)
    PROVE  Inv'
<1> DEFINE d == DirOf(dpath[p])
           n == done[p]
           e == SubSeq(d, 1, n + 1)
           f == SubSeq(d, 1, n)
           k == Job(p).kind
           possible == f \in dirs \ closed /\ e \notin dirs \cup files
<1>1. pc[p] = "mkdir" /\ UNCHANGED <<systemVars, files, jobs, dpath, results>>
      /\ done' = [done EXCEPT ![p] = n + 1] /\ pc' = [pc EXCEPT ![p] = "create"]
  BY Place DEF MakeDir, Goto, TypeInv
<1>2. /\ d \in Directories /\ Len(d) \in Nat /\ Len(d) <= SM_MAX_SUBDIRS
      /\ Subdirs(dpath[p]) = d /\ n \in Nat /\ 1 <= n /\ n < Len(d)
      /\ jobs[p] # <<>> /\ dpath[p] = PathOf(Job(p), cwd, exe)
      /\ MadePath(dpath[p]) /\ dpath[p] # Empty /\ SettledUpTo(d, n, dirs, files, closed)
      /\ Fits(Append(e, Nil))
      /\ (k # "log" /\ ~Fits(Append(d, Nil)) => d \notin dirs)
  <2>1. /\ d \in Directories /\ Len(d) \in Nat /\ Len(d) <= SM_MAX_SUBDIRS
        /\ Subdirs(dpath[p]) = d /\ n \in Nat
        /\ jobs[p] # <<>> /\ dpath[p] = PathOf(Job(p), cwd, exe)
        /\ MadePath(dpath[p]) /\ dpath[p] # Empty
        /\ MakingAt("mkdir", n, k, d, dirs, files, closed)
    BY <1>1, Making
  <2> QED
    BY <2>1 DEF MakingAt
<1>3. SystemInv /\ TypeInv /\ AnswersInv(p) /\ IsTree(dirs, files)
  BY Place
<1>i. /\ n + 1 \in 2..Len(d) /\ n \in 1..(Len(d) - 1) /\ n + 1 \in 1..Len(d) /\ (n + 1) - 1 = n
      /\ n + 1 \in 0..SM_MAX_SUBDIRS /\ n + 1 <= Len(d) /\ n + 1 > 1 /\ n \in 0..Len(d)
  <2> HIDE DEF d, n
  <2> QED
    BY <1>2, PathsAssumption
<1>4. Front(e) = f /\ e \in Directories /\ Len(e) > 1
  BY <1>2, <1>i, FrontIsPrefix, PrefixFacts
<1>5. dirs' = IF possible THEN dirs \cup {e} ELSE dirs
  BY <1>2, <1>4 DEF MakeDir, Prefix
<1>6. cwd' = cwd /\ exe' = exe /\ closed' = closed /\ files' = files /\ jobs' = jobs /\ dpath' = dpath
      /\ results' = results /\ Job(p)' = Job(p)
  BY <1>1 DEF Job, systemVars
<1>7. UNCHANGED systemVars
  BY <1>1
<1>8. SystemInv'
  <2>1. IsTree(dirs', files')
    <3> HIDE DEF e, f
    <3> QED
      BY <1>3, <1>4, <1>5, <1>6 DEF IsTree
  <2> QED
    BY <1>3, <1>5, <1>6, <2>1 DEF SystemInv
<1>9. Grows(dirs, files, closed, dirs', files')
  <2> HIDE DEF e, f
  <2> QED
    BY <1>2, <1>4, <1>5, <1>6 DEF Grows
<1>10. Settled(e, dirs', files', closed)
  <2>1. CASE possible
    BY <1>5, <2>1 DEF Settled
  <2>2. CASE ~possible
    <3>1. Settled(e, dirs, files, closed)
      BY <1>2, <1>3, <1>i, <2>2, MkdirSettles
    <3> QED
      BY <1>5, <1>6, <2>2, <3>1
  <2> QED
    BY <2>1, <2>2
<1>11. SettledUpTo(d, n + 1, dirs', files', closed)
  <2>1. SettledUpTo(d, n, dirs', files', closed)
    BY <1>2, <1>9, <1>i, SettledUpToStays
  <2> SUFFICES ASSUME NEW i \in 1..(n + 1) PROVE Settled(SubSeq(d, 1, i), dirs', files', closed)
    BY DEF SettledUpTo
  <2>2. i \in 1..n \/ i = n + 1
    BY <1>2
  <2>3. CASE i \in 1..n
    BY <2>1, <2>3 DEF SettledUpTo
  <2>4. CASE i = n + 1
    BY <1>10, <2>4
  <2> QED
    BY <2>2, <2>3, <2>4
<1>12. TypeInv' /\ pc'[p] = "create" /\ done'[p] = n + 1
  <2> HIDE DEF n
  <2> QED
    BY <1>1, <1>3, <1>6, <1>i DEF TypeInv
<1>m. MakingAt("create", n + 1, k, d, dirs', files', closed)
  <2>1. d \notin dirs /\ ~Fits(Append(d, Nil)) => d \notin dirs'
    <3> HIDE DEF d, e, f
    <3> QED
      BY <1>2, <1>5
  <2> HIDE DEF d, n, k
  <2> QED
    BY <1>2, <1>i, <1>11, <2>1 DEF MakingAt, e
<1>w. WorkAt("create", n + 1, dpath[p], Job(p), cwd, exe, dirs', files', closed)
  <2> HIDE DEF n
  <2> QED
    BY <1>2, <1>m DEF WorkAt
<1>13. WorkInv(p)' /\ IdleInv(p)'
  <2> HIDE DEF n
  <2>1. jobs'[p] # <<>> /\ dpath'[p] = dpath[p]
    BY <1>2, <1>6
  <2> QED
    BY <1>6, <1>w, <1>12, <2>1 DEF WorkInv, IdleInv
<1>14. AnswersInv(p)'
  BY <1>3, <1>6, <1>7, <1>9, AnswersStay
<1>15. \A q \in Programs \ {p} :
          /\ jobs'[q] = jobs[q] /\ pc'[q] = pc[q] /\ dpath'[q] = dpath[q]
          /\ done'[q] = done[q] /\ results'[q] = results[q]
  BY <1>1, <1>3, <1>6 DEF TypeInv
<1> QED
  BY <1>7, <1>8, <1>9, <1>12, <1>13, <1>14, <1>15, Others

(* All the directories are dealt with. *)
LEMMA AllMade ==
    ASSUME Inv, NEW p \in Programs, Created(p)
    PROVE  LET d == DirOf(dpath[p])
           IN  /\ pc[p] = "create" /\ dpath[p] # Empty /\ jobs[p] # <<>>
               /\ SettledUpTo(d, Reach(d), dirs, files, closed) /\ Enough(dpath[p], dirs)
<1> DEFINE d == DirOf(dpath[p])
           n == done[p]
<1>1. pc[p] = "create"
  BY DEF Created
<1>2. /\ d \in Directories /\ Len(d) \in Nat /\ Len(d) > 0 /\ Subdirs(dpath[p]) = d
      /\ jobs[p] # <<>> /\ dpath[p] # Empty
      /\ MakingAt("create", n, Job(p).kind, d, dirs, files, closed)
  BY <1>1, Making, MadeFacts
<1>3. n = Len(d)
  BY <1>2 DEF Created
<1>4. n >= 1
  <2> HIDE DEF d, n
  <2> QED
    BY <1>2, <1>3
<1>5. SettledUpTo(d, n, dirs, files, closed) /\ Fits(Append(SubSeq(d, 1, n), Nil))
  BY <1>2, <1>4 DEF MakingAt
<1>6. Fits(Append(d, Nil))
  BY <1>2, <1>3, <1>5, WholePrefix
<1> QED
  BY <1>1, <1>2, <1>3, <1>5, <1>6 DEF Reach, Enough

LEMMA ReturnPathKeeps ==
    ASSUME Inv, NEW p \in Programs, ReturnPath(p)
    PROVE  Inv'
<1>1. /\ Job(p).kind # "log" /\ Return(p, FilePath(p)) /\ Created(p)
      /\ UNCHANGED <<systemVars, fsVars, dpath>>
  BY DEF ReturnPath
<1>2. /\ pc[p] = "create" /\ dpath[p] # Empty /\ Enough(dpath[p], dirs)
      /\ SettledUpTo(DirOf(dpath[p]), Reach(DirOf(dpath[p])), dirs, files, closed)
  BY <1>1, AllMade
<1> QED
  BY <1>1, <1>2, PathReturned

LEMMA CreatedForLogKeeps ==
    ASSUME Inv, NEW p \in Programs, CreatedForLog(p)
    PROVE  Inv'
<1> DEFINE d == DirOf(dpath[p])
           n == done[p]
<1>1. /\ Created(p) /\ Job(p).kind = "log" /\ pc' = [pc EXCEPT ![p] = "open"]
      /\ UNCHANGED <<systemVars, fsVars, jobs, results>> /\ dpath' = dpath /\ done' = done
  BY DEF CreatedForLog, Goto
<1>2. pc[p] = "create" /\ jobs[p] # <<>> /\ SettledUpTo(d, Reach(d), dirs, files, closed)
  BY <1>1, AllMade
<1>3. dpath[p] = PathOf(Job(p), cwd, exe) /\ MadePath(dpath[p])
  BY <1>2, Making
<1>4. WorkAt("open", n, dpath[p], Job(p), cwd, exe, dirs, files, closed)
  <2> HIDE DEF n
  <2> QED
    BY <1>1, <1>2, <1>3 DEF WorkAt
<1>5. /\ done' = [done EXCEPT ![p] = n] /\ dpath' = [dpath EXCEPT ![p] = dpath[p]]
      /\ n \in 0..SM_MAX_SUBDIRS
  BY <1>1, Place DEF TypeInv
<1> QED
  BY <1>1, <1>2, <1>4, <1>5, Continues

(* Where the file of a log is, and what lies around it. *)
LEMMA OpensAt ==
    ASSUME Inv, NEW p \in Programs, pc[p] = "open"
    PROVE  LET f == FilePath(p) there == Opened(f)
           IN  /\ jobs[p] # <<>> /\ Job(p).kind = "log"
               /\ dpath[p] = PathOf(Job(p), cwd, exe) /\ dpath[p] # NoPath
               /\ f = FileOf(dpath[p], Job(p).fname) /\ f \in Path
               /\ there = FollowedFrom(f, cwd) /\ Front(there) \in Directories
               /\ Settled(Front(there), dirs, files, closed)
<1> DEFINE f == FilePath(p)
           name == Job(p).fname
<1>1. WorkAt("open", done[p], dpath[p], Job(p), cwd, exe, dirs, files, closed) /\ jobs[p] # <<>>
  BY Place DEF WorkInv
<1>2. /\ Job(p).kind = "log" /\ dpath[p] = PathOf(Job(p), cwd, exe)
      /\ dpath[p] # Empty => SettledUpTo(DirOf(dpath[p]), Reach(DirOf(dpath[p])), dirs, files, closed)
  BY <1>1 DEF WorkAt
<1>3. Opened(f) = FollowedFrom(f, cwd)
  BY DEF Opened, FollowedFrom
<1>4. CASE dpath[p] = Empty
  <2>1. f = FileOf(dpath[p], name)
    BY DEF FilePath, FileOf
  <2>2. dpath[p] # NoPath
    BY <1>4 DEF Empty, NoPath
  <2>3. name \in Names \ {Marker} /\ cwd \in Normal /\ DirOf(cwd) \in dirs
    BY <1>1, Place
  <2> HIDE DEF f, name
  <2>4. /\ f \in Path /\ Front(FollowedFrom(f, cwd)) = DirOf(cwd) /\ DirOf(cwd) \in Directories
    BY <1>4, <2>1, <2>3, FileOfBare
  <2>5. Settled(Front(FollowedFrom(f, cwd)), dirs, files, closed)
    BY <2>3, <2>4 DEF Settled
  <2> QED
    BY <1>1, <1>2, <1>3, <2>1, <2>2, <2>4, <2>5 DEF f, name
<1>5. CASE dpath[p] # Empty
  <2>1. /\ dpath[p] # NoPath /\ f = FileOf(dpath[p], name) /\ f \in Path
        /\ FollowedFrom(f, cwd) = f /\ Front(f) \in Directories
        /\ Settled(Front(f), dirs, files, closed)
    BY <1>2, <1>5, WorkDone
  <2> QED
    BY <1>1, <1>2, <1>3, <2>1
<1> QED
  BY <1>4, <1>5

LEMMA OpenLogKeeps ==
    ASSUME Inv, NEW p \in Programs, OpenLog(p)
    PROVE  Inv'
<1> DEFINE j == Job(p)
           f == FilePath(p)
           there == Opened(f)
           possible == there \in files
                       \/ (Front(there) \in dirs \ closed /\ is_file(there) /\ there \notin dirs)
           answer == IF possible THEN f ELSE NoPath
           path == PathOf(j, cwd, exe)
<1>1. /\ pc[p] = "open" /\ UNCHANGED <<systemVars, dirs, dpath>>
      /\ files' = IF possible THEN files \cup {there} ELSE files
      /\ Return(p, answer)
  BY DEF OpenLog
<1>2. /\ SystemInv /\ TypeInv /\ AnswersInv(p) /\ IsTree(dirs, files)
      /\ cwd \in Normal /\ exe \in Absolute
  BY Place
<1>3. /\ jobs[p] # <<>> /\ j.kind = "log" /\ path # NoPath
      /\ f = FileOf(path, j.fname) /\ f \in Path
      /\ there = FollowedFrom(f, cwd) /\ Front(there) \in Directories
      /\ Settled(Front(there), dirs, files, closed)
  BY <1>1, OpensAt
<1>4. cwd' = cwd /\ exe' = exe /\ closed' = closed /\ dirs' = dirs /\ dpath' = dpath /\ UNCHANGED systemVars
  BY <1>1 DEF systemVars
<1> HIDE DEF f, there, j, path
<1>5. IsTree(dirs', files') /\ Grows(dirs, files, closed, dirs', files')
  <2>1. CASE there \in files \/ ~possible
    <3>1. files' = files
      BY <1>1, <2>1
    <3> QED
      BY <1>2, <1>4, <3>1 DEF Grows
  <2>2. CASE there \notin files /\ possible
    <3>1. /\ files' = files \cup {there} /\ Front(there) \in dirs \ closed /\ is_file(there)
          /\ there \notin dirs
      BY <1>1, <2>2
    <3> QED
      BY <1>2, <1>4, <3>1 DEF Grows, IsTree
  <2> QED
    BY <2>1, <2>2
<1>6. SystemInv'
  BY <1>2, <1>4, <1>5 DEF SystemInv
<1> DEFINE r == [job |-> j, path |-> answer]
<1>7. Answered(r, cwd, exe, dirs', files', closed)
  <2>1. r.job = j /\ r.path = answer
    OBVIOUS
  <2>2. CASE possible
    <3>1. there \in files' /\ r.path = f
      BY <1>1, <2>1, <2>2
    <3> HIDE DEF r
    <3> QED
      BY <1>3, <2>1, <3>1 DEF Answered, path
  <2>3. CASE ~possible
    <3>1. files' = files /\ r.path = NoPath
      BY <1>1, <2>1, <2>3
    <3>2. Refused(there, dirs, files, closed)
      BY <1>3, <2>3 DEF Refused, Settled
    <3> HIDE DEF r
    <3> QED
      BY <1>3, <1>4, <2>1, <3>1, <3>2 DEF Answered, path
  <2> QED
    BY <2>2, <2>3
<1>8. answer \in Path
  BY <1>3 DEF NoPath, Path
<1> HIDE DEF answer
<1>9. /\ jobs' \in [Programs -> Seq(Jobs)] /\ done' \in [Programs -> 0..SM_MAX_SUBDIRS]
      /\ pc' \in [Programs -> {"begin", "find", "create", "mkdir", "open"}]
      /\ results' \in [Programs -> Seq(Results)]
      /\ WorkInv(p)' /\ IdleInv(p)' /\ AnswersInv(p)'
      /\ \A q \in Programs \ {p} : /\ jobs'[q] = jobs[q] /\ pc'[q] = pc[q]
                                   /\ done'[q] = done[q] /\ results'[q] = results[q]
  BY <1>1, <1>2, <1>3, <1>4, <1>5, <1>7, <1>8, ReturnKeeps DEF j
<1>10. TypeInv'
  BY <1>2, <1>4, <1>9 DEF TypeInv
<1> QED
  BY <1>4, <1>5, <1>6, <1>9, <1>10, Others

-----------------------------------------------------------------------------
LEMMA StepInv == Inv /\ [Next]_vars => Inv'
<1> SUFFICES ASSUME Inv, [Next]_vars PROVE Inv'
  OBVIOUS
<1>1. ASSUME NEW p \in Programs, Step(p) PROVE Inv'
  BY <1>1, MakePathKeeps, FindDirKeeps, StatPrefixKeeps, NoRoomKeeps, MakeDirKeeps, ReturnPathKeeps,
     CreatedForLogKeeps, OpenLogKeeps DEF Step
<1>2. CASE UNCHANGED vars
  <2>1. /\ UNCHANGED <<systemVars, fsVars>> /\ jobs' = jobs /\ pc' = pc /\ dpath' = dpath
        /\ done' = done /\ results' = results
    BY <1>2 DEF vars
  <2>2. SystemInv /\ TypeInv /\ \A p \in Programs : WorkInv(p) /\ IdleInv(p) /\ AnswersInv(p)
    BY DEF Inv
  <2>3. SystemInv' /\ Grows(dirs, files, closed, dirs', files') /\ UNCHANGED systemVars
    BY <2>1, <2>2, GrowsNot
  <2>4. TypeInv'
    BY <2>1, <2>2 DEF TypeInv
  <2>5. ASSUME NEW p \in Programs PROVE WorkInv(p)' /\ IdleInv(p)' /\ AnswersInv(p)'
    BY <2>1, <2>2, <2>3, WorkStays, AnswersStay
  <2> QED
    BY <2>3, <2>4, <2>5 DEF Inv
<1> QED
  BY <1>1, <1>2 DEF Next

(* The invariant that the rest follows from. *)
THEOREM StartupInvariant == Spec => []Inv
<1>1. Init => Inv
  BY InitInv
<1>2. Inv /\ [Next]_vars => Inv'
  BY StepInv
<1> QED
  BY <1>1, <1>2, PTL DEF Spec

(* The file system stays a tree, whatever the programs do at once.         *)
THEOREM StartupTypeOK == Spec => []TypeOK
<1>1. Inv => TypeOK
  BY DEF Inv, SystemInv, TypeInv, IsTree, TypeOK
<1> QED
  BY <1>1, StartupInvariant, PTL

(* A name and back: the directory stays. *)
LEMMA BackAndForth ==
    ASSUME NEW p \in Normal, NEW x \in Names, Len(DirOf(p)) + 1 < SM_MAX_SUBDIRS
    PROVE  Subdirs(p \o <<x, Up, Here>>) = Subdirs(p)
<1> DEFINE d == DirOf(p)
<1>1. p \in Path /\ d \in Directories
  BY NormalFacts
<1>2. Len(d) \in Nat /\ d \in Seq(Elements) /\ Len(d) > 0
  BY <1>1, DirectoryFacts
<1>m. SM_MAX_SUBDIRS \in Nat
  BY PathsAssumption
<1>3. Len(d) + 1 < SM_MAX_SUBDIRS
  OBVIOUS
<1> HIDE DEF d
<1>4. d \in Shallow
  BY <1>1, <1>2, <1>3, <1>m DEF Shallow
<1>5. Subdirs(p) = d
  BY <1>4, SubdirsOfNormal, SubdirsOfShallow DEF d
<1>6. x \in Elements /\ x # Nil /\ x # Up /\ x # Here /\ Up \in Elements /\ Here \in Elements
  BY PathsAssumption DEF Names
<1> DEFINE p1 == Append(p, x)
           p2 == Append(p1, Up)
           p3 == Append(p2, Here)
           d1 == Append(d, x)
<1>7. p1 \in Path /\ Subdirs(p1) = Stride(d, x)
  BY <1>1, <1>5, <1>6, SubdirsAppend
<1>8. p2 \in Path /\ Subdirs(p2) = Stride(Subdirs(p1), Up)
  BY <1>6, <1>7, SubdirsAppend
<1>9. p3 \in Path /\ Subdirs(p3) = Stride(Subdirs(p2), Here)
  BY <1>6, <1>8, SubdirsAppend
<1>10. p \o <<x, Up, Here>> = p3
  BY <1>1, <1>6 DEF Path
<1> HIDE DEF p1, p2, p3
<1>11. Len(d1) = Len(d) + 1 /\ Front(d1) = d
  BY <1>1, <1>2, <1>6, WithElement DEF Path
<1>12. ~(Len(d) >= SM_MAX_SUBDIRS)
  BY <1>2, <1>3, <1>m
<1>13. Subdirs(p1) = d1
  BY <1>6, <1>7, <1>12 DEF Stride, Enter
<1> HIDE DEF d1
<1>14. ~(Len(d1) >= SM_MAX_SUBDIRS) /\ Len(d1) > 1
  BY <1>2, <1>3, <1>11, <1>m
<1>15. Subdirs(p2) = d
  BY <1>8, <1>11, <1>13, <1>14, Specials DEF Stride, Enter
<1>16. Subdirs(p3) = d
  BY <1>9, <1>15, Specials DEF Stride, Enter
<1> QED
  BY <1>5, <1>10, <1>16

(* The names of a path are names. *)
LEMMA NormalNames ==
    ASSUME NEW p \in Normal
    PROVE  LET names == Tail(DirOf(p))
           IN  /\ ToSet(names) \cap {Nil, Here, Up} = {}
               /\ Len(names) + 1 = Len(DirOf(p)) /\ Len(names) \in Nat
<1> DEFINE d == DirOf(p)
           names == Tail(d)
<1>1. d \in Directories
  BY NormalFacts
<1>2. d \in Seq(Elements) /\ Len(d) \in Nat /\ Len(d) > 0 /\ \A i \in 2..Len(d) : d[i] \in Names
  BY <1>1, DirectoryFacts
<1> HIDE DEF d
<1>3. Len(names) = Len(d) - 1 /\ \A i \in 1..(Len(d) - 1) : names[i] = d[i + 1]
  BY <1>2
<1>t. names \in Seq(Elements)
  <2>1. d # <<>>
    BY <1>2
  <2> QED
    BY <1>2, <2>1
<1> HIDE DEF names
<1>4. ASSUME NEW i \in DOMAIN names PROVE names[i] \in Names
  <2>1. DOMAIN names = 1..Len(names)
    BY <1>t
  <2>2. i \in 1..(Len(d) - 1) /\ i + 1 \in 2..Len(d)
    BY <1>2, <1>3, <2>1
  <2> QED
    BY <1>2, <1>3, <2>2
<1>5. ToSet(names) \cap {Nil, Here, Up} = {}
  BY <1>4 DEF ToSet, Names
<1>6. Len(names) + 1 = Len(d) /\ Len(names) \in Nat
  BY <1>2, <1>3
<1> QED
  BY <1>5, <1>6 DEF d, names

(* A path is put together from its directory and its file again. *)
LEMMA NormalIsJoined ==
    ASSUME NEW p \in Normal, is_file(p)
    PROVE  Joined(sm_get_dpath_from_fpath(p), sm_get_fname_from_fpath(p)) = p
<1>1. p \in Directories /\ p \in Path /\ Len(p) \in Nat /\ Len(p) > 1 /\ p # <<>> /\ Last(p) # Nil
  <2>1. p \in Path /\ Len(p) \in Nat /\ Len(p) > 1 /\ DirOf(p) \in Directories
    BY NormalFacts
  <2>2. p # <<>>
    BY <2>1
  <2> QED
    BY <2>1, <2>2 DEF DirOf, is_file
<1> DEFINE e == Front(p)
           x == Last(p)
<1>2. e \in Path /\ Len(e) = Len(p) - 1 /\ p = Append(e, x) /\ x \in Elements
  BY <1>1, FrontFacts DEF Path
<1> HIDE DEF e, x
<1>3. Len(e) > 0 /\ Len(p) # 1
  BY <1>1, <1>2, MoreThanOne
<1>4. sm_get_dpath_from_fpath(p) = Append(e, Nil) /\ sm_get_fname_from_fpath(p) = <<x>>
  BY <1>1, <1>3 DEF sm_get_dpath_from_fpath, sm_get_fname_from_fpath, e, x
<1>5. ~is_file(Append(e, Nil)) /\ Front(Append(e, Nil)) = e
  BY <1>2, <1>3, WithSlash
<1>6. Joined(Append(e, Nil), <<x>>) = e \o <<x>>
  BY <1>5 DEF Joined, is_file
<1>7. e \o <<x>> = Append(e, x)
  BY <1>2 DEF Path
<1> QED
  BY <1>2, <1>4, <1>6, <1>7

(* Every path a program works with is normal: any path, any directory.     *)
THEOREM StartupPathsAreNormal == Spec => []PathsAreNormal
<1>1. Inv => PathsAreNormal
  <2> SUFFICES ASSUME Inv, NEW p \in Programs, dpath[p] # Empty
               PROVE  LET path == dpath[p]
                          names == Tail(DirOf(path))
                      IN  /\ sm_path_is_abs(path)
                          /\ ToSet(names) \cap {Nil, Here, Up} = {}
                          /\ pc[p] \in {"find", "create", "mkdir"} =>
                                 \A d \in dirs : sm_make_path_abs(path, d, exe) = path
                          /\ is_file(path) =>
                                 Joined(sm_get_dpath_from_fpath(path), sm_get_fname_from_fpath(path)) = path
                          /\ Len(names) + 2 < SM_MAX_SUBDIRS =>
                                 \A x \in Names : Subdirs(path \o <<x, Up, Here>>) = Subdirs(path)
    BY DEF PathsAreNormal
  <2> DEFINE path == dpath[p]
             names == Tail(DirOf(path))
  <2>1. path \in Normal
    <3>1. dpath[p] \in Normal \cup {Empty}
      BY DEF Inv, TypeInv
    <3> QED
      BY <3>1
  <2>2. pc[p] \in {"find", "create", "mkdir"} => MadePath(path)
    BY DEF Inv, WorkInv, WorkAt
  <2> HIDE DEF path
  <2>3. sm_path_is_abs(path)
    <3>1. path \in Path /\ Len(path) > 1 /\ path[1] = Nil
      BY <2>1, NormalFacts
    <3>2. Head(path) = path[1]
      BY <3>1 DEF Path
    <3> QED
      BY <3>1, <3>2 DEF sm_path_is_abs
  <2>4. MadePath(path) => \A d \in dirs : sm_make_path_abs(path, d, exe) = path
    BY <2>1, NormalPathStays DEF MadePath
  <2>5. /\ ToSet(names) \cap {Nil, Here, Up} = {}
        /\ Len(names) + 1 = Len(DirOf(path)) /\ Len(names) \in Nat
    BY <2>1, NormalNames
  <2>6. is_file(path) =>
          Joined(sm_get_dpath_from_fpath(path), sm_get_fname_from_fpath(path)) = path
    BY <2>1, NormalIsJoined
  <2> HIDE DEF names
  <2>7. ASSUME Len(names) + 2 < SM_MAX_SUBDIRS, NEW x \in Names
        PROVE  Subdirs(path \o <<x, Up, Here>>) = Subdirs(path)
    <3>1. Len(DirOf(path)) + 1 < SM_MAX_SUBDIRS
      <4>1. SM_MAX_SUBDIRS \in Nat /\ Len(names) + 2 = Len(DirOf(path)) + 1
        BY <2>5, PathsAssumption
      <4> QED
        BY <2>7, <4>1
    <3> QED
      BY <2>1, <3>1, BackAndForth
  <2> QED
    BY <2>2, <2>3, <2>4, <2>5, <2>6, <2>7 DEF path, names
<1> QED
  BY <1>1, StartupInvariant, PTL

(* The directory of every path that was handed out is there, or a file or  *)
(* a closed directory stands in its way; a log that was opened is a file;  *)
(* the name is the one that was asked for unless the path fills its buffer *)
(* (sm_init_fpath, sm_init_log, sm_create_dpath).                          *)
THEOREM StartupDirectoryIsThere == Spec => []DirectoryIsThere
<1>1. Inv => DirectoryIsThere
  <2> SUFFICES ASSUME Inv, NEW p \in Programs, NEW r \in ToSet(results[p]), r.path # NoPath
               PROVE  LET file == Opened(r.path)
                          dir == Front(file)
                      IN  /\ \/ dir \in dirs
                             \/ \E i \in 2..Len(dir) :
                                    LET above == SubSeq(dir, 1, i - 1)
                                        missing == SubSeq(dir, 1, i)
                                    IN  missing \notin dirs /\ (missing \in files \/ above \in closed)
                          /\ r.job.kind = "log" => file \in files
                          /\ Last(r.path) = r.job.fname \/ PathLength(r.path) = MAX_PATH - 1
    BY DEF DirectoryIsThere
  <2> DEFINE path == PathOf(r.job, cwd, exe)
             name == r.job.fname
             f == FileOf(path, name)
             there == FollowedFrom(f, cwd)
  <2>1. PICK k \in 1..Len(results[p]) : r = results[p][k]
    BY DEF ToSet, Inv, TypeInv
  <2>2. r \in Results /\ Answered(r, cwd, exe, dirs, files, closed)
    BY <2>1 DEF Inv, TypeInv, AnswersInv
  <2>3. r.job \in Jobs /\ name \in Names \ {Marker} /\ cwd \in Normal /\ exe \in Absolute
        /\ IsTree(dirs, files) /\ DirOf(cwd) \in dirs
    BY <2>2, Place DEF Results, Jobs
  <2>4. /\ path # NoPath /\ r.path = f
        /\ r.job.kind # "log" => Settled(Front(f), dirs, files, closed)
        /\ r.job.kind = "log" => there \in files
    BY <2>2 DEF Answered
  <2>5. Opened(r.path) = there
    BY <2>4 DEF Opened, FollowedFrom
  <2>6. r.job.kind # "log" => there = f /\ path # Empty
    <3> SUFFICES ASSUME r.job.kind # "log" PROVE there = f /\ path # Empty
      OBVIOUS
    <3>1. MadePath(path)
      BY <2>3, <2>4, PathOfType
    <3> HIDE DEF path, name
    <3> QED
      BY <2>3, <3>1, FileOfMade, MadeIsSome
  <2>7. Last(f) = name \/ PathLength(f) = MAX_PATH - 1
    <3>1. CASE r.job.kind = "log" /\ r.job.dpath = Empty
      <4>1. path = Empty
        BY <2>3, <2>4, <3>1, PathOfType
      <4> HIDE DEF path, name
      <4> QED
        BY <2>3, <4>1, FileOfBare
    <3>2. CASE ~(r.job.kind = "log" /\ r.job.dpath = Empty)
      <4>1. MadePath(path)
        BY <2>3, <2>4, <3>2, PathOfType
      <4> HIDE DEF path, name
      <4> QED
        BY <2>3, <4>1, FileOfMade
    <3> QED
      BY <3>1, <3>2
  <2> HIDE DEF there, f, path, name
  <2>8. r.job.kind = "log" => Front(there) \in dirs
    <3>1. \A g \in files : Front(g) \in dirs
      BY <2>3 DEF IsTree
    <3> QED
      BY <2>4, <3>1
  <2>9. Front(there) \in dirs \/ Blocked(Front(there), dirs, files, closed)
    BY <2>4, <2>6, <2>8 DEF Settled
  <2>10. \/ Front(there) \in dirs
         \/ \E i \in 2..Len(Front(there)) :
                LET above == SubSeq(Front(there), 1, i - 1)
                    missing == SubSeq(Front(there), 1, i)
                IN  missing \notin dirs /\ (missing \in files \/ above \in closed)
    BY <2>9 DEF Blocked, BlockedAt
  <2> QED
    BY <2>4, <2>5, <2>7, <2>10 DEF name
<1> QED
  BY <1>1, StartupInvariant, PTL

(* The same job has the same answer, whoever does it and whenever.         *)
THEOREM StartupSameJobSameAnswer == Spec => []SameJobSameAnswer
<1>1. Inv => SameJobSameAnswer
  <2> SUFFICES ASSUME Inv, NEW p \in Programs, NEW q \in Programs,
                      NEW r \in ToSet(results[p]), NEW s \in ToSet(results[q]), r.job = s.job
               PROVE  r.path = s.path
    BY DEF SameJobSameAnswer
  <2>t. results[p] \in Seq(Results) /\ results[q] \in Seq(Results)
    BY DEF Inv, TypeInv
  <2>1. PICK i \in 1..Len(results[p]) : r = results[p][i]
    BY <2>t DEF ToSet
  <2>2. PICK k \in 1..Len(results[q]) : s = results[q][k]
    BY <2>t DEF ToSet
  <2>3. Answered(r, cwd, exe, dirs, files, closed)
    BY <2>1 DEF Inv, AnswersInv
  <2>4. Answered(s, cwd, exe, dirs, files, closed)
    BY <2>2 DEF Inv, AnswersInv
  <2> DEFINE path == PathOf(r.job, cwd, exe)
             f == FileOf(path, r.job.fname)
             there == FollowedFrom(f, cwd)
  <2>5. /\ path = NoPath => r.path = NoPath
        /\ path # NoPath /\ r.job.kind # "log" =>
              (r.path = f /\ Enough(path, dirs)) \/ (r.path = NoPath /\ ~Enough(path, dirs))
        /\ path # NoPath /\ r.job.kind = "log" =>
              (r.path = f /\ there \in files) \/ (r.path = NoPath /\ there \notin files)
    BY <2>3 DEF Answered, Refused
  <2>6. /\ path = NoPath => s.path = NoPath
        /\ path # NoPath /\ r.job.kind # "log" =>
              (s.path = f /\ Enough(path, dirs)) \/ (s.path = NoPath /\ ~Enough(path, dirs))
        /\ path # NoPath /\ r.job.kind = "log" =>
              (s.path = f /\ there \in files) \/ (s.path = NoPath /\ there \notin files)
    BY <2>4 DEF Answered, Refused
  <2> HIDE DEF there, f, path
  <2> QED
    BY <2>5, <2>6
<1> QED
  BY <1>1, StartupInvariant, PTL
=============================================================================
