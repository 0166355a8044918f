------------------------- MODULE ConsumerFinProofs -------------------------
(***************************************************************************)
(* What holds of the final consumer for every set of intermediate          *)
(* consumers, every limit and every number of items, proved.  Inv says who *)
(* owns the mutex and which sizes the calls remember; on top of it come    *)
(* the order of the items and the bound on the queue.                      *)
(***************************************************************************)
EXTENDS ConsumerFin, FiniteSetTheorems, TLAPS

(* Who owns m_mtx_queue is told by where the threads stand. *)
Locks ==
    /\ \A m \in Mids : fmutex = m <=> add[m] \in {"wait", "push"}
    /\ fmutex = Fin <=> fpc \in {"wait", "pop"}

(* Only a thread inside wait() is in the wait set. *)
Waits ==
    /\ \A m \in Mids : m \in fcv => add[m] = "blocked"
    /\ Fin \in fcv => fpc = "blocked"

(* An adder waits only at a full queue; one that counted no item finds none
   when it pushes.  The reader waits only at an empty queue, and the items it
   counted are still there when it pops. *)
Sizes ==
    /\ \A m \in Mids :
          /\ add[m] \in {"wait", "blocked"} => asize[m] >= FinMax
          /\ add[m] = "push" /\ asize[m] = 0 => fqueue = <<>>
          /\ add[m] \in {"wait", "blocked", "push"} => added[m] < MaxAdded
    /\ fpc \in {"wait", "blocked"} => fsize = 0
    /\ fpc = "pop" => Len(fqueue) >= fsize

(* Started at most once, stopped after that, and ended when the queue is
   printed. *)
Life ==
    /\ fstop = "no" /\ ~frun => fpc = "none"
    /\ fstop \in {"joined", "printed"} => fpc = "done"

Inv == TypeOK /\ Locks /\ Waits /\ Sizes /\ Life

-----------------------------------------------------------------------------
(* notify_one only takes threads out of the wait set, and at most one. *)
LEMMA NotifyIfSubset ==
    ASSUME NEW S, NEW c, NEW b \in NotifyOneIf(c, S)
    PROVE  /\ b \subseteq S
           /\ ~c => b = S
           /\ c => \E w : b = S \ {w}
BY DEF NotifyOneIf, NotifyOne

(* The members of a queue's tail are members of the queue. *)
LEMMA QueueEnds ==
    ASSUME NEW q \in Seq(Items), q # <<>>
    PROVE  /\ Head(q) \in Items /\ Head(q) = q[1] /\ Head(q) # <<>>
           /\ Tail(q) \in Seq(Items) /\ Len(Tail(q)) = Len(q) - 1
           /\ \A i \in 1..Len(Tail(q)) : Tail(q)[i] = q[i + 1]
BY DEF Items

(* How many of the first i items of q are m's: Rank of any queue. *)
CountIn(q, m, i) == Cardinality({j \in 1..i : q[j][1] = m})

LEMMA CountType ==
    ASSUME NEW q, NEW m, NEW i \in Nat
    PROVE  CountIn(q, m, i) \in Nat
<1>1. IsFiniteSet(1..i)
  BY FS_Interval
<1>2. IsFiniteSet({j \in 1..i : q[j][1] = m})
  BY <1>1, FS_Subset
<1> QED
  BY <1>2, FS_CardinalityType DEF CountIn

(* A push adds one to the count of the adder whose item it is. *)
LEMMA CountPush ==
    ASSUME NEW q \in Seq(Items), NEW x \in Items, NEW m
    PROVE  /\ \A i \in 0..Len(q) : CountIn(Append(q, x), m, i) = CountIn(q, m, i)
           /\ CountIn(Append(q, x), m, Len(q) + 1)
                  = CountIn(q, m, Len(q)) + (IF x[1] = m THEN 1 ELSE 0)
<1> DEFINE S(i) == {j \in 1..i : q[j][1] = m}
           T(i) == {j \in 1..i : Append(q, x)[j][1] = m}
           n == Len(q)
<1>1. \A i \in 0..n : T(i) = S(i)
  OBVIOUS
<1>2. IsFiniteSet(S(n)) /\ Cardinality(S(n)) \in Nat /\ n + 1 \notin S(n)
  <2>1. IsFiniteSet(1..n)
    BY FS_Interval
  <2> QED
    BY <2>1, FS_Subset, FS_CardinalityType
<1>3. T(n + 1) = IF x[1] = m THEN S(n) \cup {n + 1} ELSE S(n)
  OBVIOUS
<1>4. Cardinality(T(n + 1)) = Cardinality(S(n)) + (IF x[1] = m THEN 1 ELSE 0)
  <2> HIDE DEF S, T, n
  <2>1. Cardinality(S(n) \cup {n + 1}) = Cardinality(S(n)) + 1
    BY <1>2, FS_AddElement
  <2> QED
    BY <1>2, <1>3, <2>1
<1>5. /\ \A i : CountIn(Append(q, x), m, i) = Cardinality(T(i))
      /\ \A i : CountIn(q, m, i) = Cardinality(S(i))
  BY DEF CountIn
<1> HIDE DEF S, T
<1> QED
  BY <1>1, <1>4, <1>5

(* A pop takes one from it. *)
LEMMA CountPop ==
    ASSUME NEW q \in Seq(Items), q # <<>>, NEW m, NEW i \in 0..(Len(q) - 1)
    PROVE  CountIn(q, m, i + 1) = CountIn(Tail(q), m, i) + (IF Head(q)[1] = m THEN 1 ELSE 0)
<1> DEFINE S == {j \in 1..i : Tail(q)[j][1] = m}
           T == {j \in 1..(i + 1) : q[j][1] = m}
           f == [j \in S |-> j + 1]
<1>1. IsFiniteSet(S) /\ IsFiniteSet(T)
  <2>1. i \in Nat /\ IsFiniteSet(1..i) /\ IsFiniteSet(1..(i + 1))
    BY FS_Interval
  <2> QED
    BY <2>1, FS_Subset
<1>2. f \in Bijection(S, T \ {1})
  <2>1. \A j \in 1..i : Tail(q)[j] = q[j + 1]
    BY QueueEnds
  <2>2. \A j \in S : j + 1 \in T \ {1}
    BY <2>1
  <2>3. \A k \in T \ {1} : k - 1 \in S /\ f[k - 1] = k
    BY <2>1
  <2>4. f \in [S -> T \ {1}]
    BY <2>2
  <2>5. \A a, b \in S : f[a] = f[b] => a = b
    OBVIOUS
  <2> HIDE DEF S, T, f
  <2>6. f \in Injection(S, T \ {1})
    BY <2>4, <2>5 DEF Injection, IsInjective
  <2>7. f \in Surjection(S, T \ {1})
    BY <2>3, <2>4 DEF Surjection
  <2> QED
    BY <2>6, <2>7 DEF Bijection
<1>3. Cardinality(T \ {1}) = Cardinality(S)
  BY <1>1, <1>2, FS_Bijection DEF ExistsBijection
<1>4. Cardinality(T \ {1}) = IF 1 \in T THEN Cardinality(T) - 1 ELSE Cardinality(T)
  BY <1>1, FS_RemoveElement
<1>5. 1 \in T <=> Head(q)[1] = m
  BY QueueEnds
<1>6. Cardinality(T) \in Nat
  BY <1>1, FS_CardinalityType
<1>7. CountIn(q, m, i + 1) = Cardinality(T) /\ CountIn(Tail(q), m, i) = Cardinality(S)
  BY DEF CountIn
<1> HIDE DEF S, T
<1> QED
  BY <1>3, <1>4, <1>5, <1>6, <1>7

(* The adders under way are counted. *)
LEMMA CommittedFinite ==
    /\ IsFiniteSet(Mids) /\ Cardinality(Mids) \in Nat
    /\ IsFiniteSet(Committed) /\ Cardinality(Committed) \in Nat
    /\ Cardinality(Committed) <= Cardinality(Mids)
BY ConsumerFinAssumption, FS_Subset, FS_CardinalityType DEF Committed

-----------------------------------------------------------------------------
(* The types, the mutex and the remembered sizes, step by step. *)
LEMMA InvStep == Inv /\ [Next]_vars => Inv'
<1> SUFFICES ASSUME Inv, [Next]_vars PROVE Inv'
  OBVIOUS
<1> USE ConsumerFinAssumption DEF Inv, Locks, Waits, Sizes, Life, finVars, adderVars, ownerVars
<1>u. CASE UNCHANGED vars
  BY <1>u DEF vars, TypeOK
<1>a. ASSUME NEW m \in Mids, AdderStep(m) PROVE Inv'
  <2>1. CASE AddEnter(m)
    BY <2>1 DEF AddEnter, Full, TypeOK
  <2>2. CASE AddWait(m)
    BY <2>2 DEF AddWait, TypeOK
  <2>3. CASE AddWake(m)
    BY <2>3 DEF AddWake, TypeOK
  <2>4. CASE AddPush(m)
    <3>1. PICK b \in NotifyOneIf(asize[m] = 0, fcv) : fcv' = b
      BY <2>4 DEF AddPush
    <3>2. b \subseteq Mids \cup {Fin}
      BY <3>1, NotifyIfSubset DEF TypeOK
    <3>3. added[m] + 1 \in 0..MaxAdded /\ Append(fqueue, <<m, added[m] + 1>>) \in Seq(Items)
      BY <2>4 DEF AddPush, TypeOK, Items
    <3>4. TypeOK'
      BY <2>4, <3>1, <3>2, <3>3 DEF AddPush, TypeOK
    <3>5. Locks' /\ Life'
      BY <2>4 DEF AddPush, TypeOK
    <3>7. Waits'
      BY <2>4, <3>1, NotifyIfSubset DEF AddPush, TypeOK
    <3>6. Sizes'
      BY <2>4 DEF AddPush, TypeOK
    <3> QED
      BY <3>4, <3>5, <3>6, <3>7
  <2>5. CASE AddLog(m)
    BY <2>5 DEF AddLog, TypeOK
  <2>6. CASE AddFails(m)
    BY <2>6 DEF AddFails, TypeOK
  <2> QED
    BY <1>a, <2>1, <2>2, <2>3, <2>4, <2>5, <2>6 DEF AdderStep
<1>f. CASE FinStep
  <2>1. CASE FinLoop
    BY <2>1 DEF FinLoop, TypeOK
  <2>2. CASE FinEnter
    BY <2>2 DEF FinEnter, TypeOK
  <2>3. CASE FinWait
    BY <2>3 DEF FinWait, TypeOK
  <2>4. CASE FinWake
    BY <2>4 DEF FinWake, TypeOK
  <2>5. CASE FinPop
    <3>1. PICK b \in NotifyOneIf(Full(fsize), fcv) : fcv' = b
      BY <2>5 DEF FinPop
    <3>2. b \subseteq Mids \cup {Fin} /\ b \subseteq fcv
      BY <3>1, NotifyIfSubset DEF TypeOK
    <3>3. CASE fqueue # <<>>
      <4>1. /\ Head(fqueue) \in Items /\ Head(fqueue) # <<>> /\ Tail(fqueue) \in Seq(Items)
        BY <3>3, QueueEnds DEF TypeOK
      <4> QED
        BY <2>5, <3>1, <3>2, <3>3, <4>1 DEF FinPop, TypeOK
    <3>4. CASE fqueue = <<>>
      BY <2>5, <3>1, <3>2, <3>4 DEF FinPop, TypeOK
    <3> QED
      BY <3>3, <3>4
  <2>6. CASE FinWrite
    <3>1. PICK u \in Mids, n \in 1..MaxAdded : fitem = <<u, n>>
      BY <2>6 DEF FinWrite, TypeOK, Items
    <3> QED
      BY <2>6, <3>1 DEF FinWrite, TypeOK
  <2> QED
    BY <1>f, <2>1, <2>2, <2>3, <2>4, <2>5, <2>6 DEF FinStep
<1>o. CASE OwnerStep
  <2>1. CASE StartReaderProcessor
    <3>1. excess' \in Nat
      BY <2>1, CommittedFinite DEF StartReaderProcessor, TypeOK
    <3> QED
      BY <2>1, <3>1 DEF StartReaderProcessor, TypeOK
  <2>2. CASE StopFlag
    BY <2>2 DEF StopFlag, TypeOK
  <2>3. CASE StopJoin
    BY <2>3 DEF StopJoin, TypeOK
  <2>4. CASE PrintQueue
    BY <2>4 DEF PrintQueue, TypeOK
  <2> QED
    BY <1>o, <2>1, <2>2, <2>3, <2>4 DEF OwnerStep
<1>s. CASE SpuriousWakeup
  BY <1>s DEF SpuriousWakeup, TypeOK
<1> QED
  BY <1>u, <1>a, <1>f, <1>o, <1>s DEF Next

(* In every state the variables keep to their values, and the mutex and the
   remembered sizes to what Inv says. *)
THEOREM Invariance == Spec => []Inv
<1>1. Init => Inv
  <2> SUFFICES ASSUME Init PROVE Inv
    OBVIOUS
  <2>1. TypeOK
    <3>1. written \in [Mids -> 0..MaxAdded] /\ added \in [Mids -> 0..MaxAdded]
      BY ConsumerFinAssumption DEF Init
    <3>2. asize \in [Mids -> Nat] /\ fqueue \in Seq(Items)
      BY DEF Init
    <3> QED
      BY <3>1, <3>2 DEF Init, TypeOK
  <2>2. Locks /\ Waits /\ Sizes /\ Life
    BY ConsumerFinAssumption DEF Init, Locks, Waits, Sizes, Life
  <2> QED
    BY <2>1, <2>2 DEF Inv
<1> QED
  BY <1>1, InvStep, PTL DEF Spec

(* Every variable keeps to its values, for any number of intermediates. *)
THEOREM TypeCorrect == Spec => []TypeOK
<1>1. Inv => TypeOK
  BY DEF Inv
<1> QED
  BY <1>1, Invariance, PTL

-----------------------------------------------------------------------------
(* What LinesInOrder says of one intermediate. *)
InOrderOf(m) ==
    /\ fitem # <<>> /\ fitem[1] = m => fitem[2] = written[m] + 1
    /\ fstop # "printed" =>
          /\ \A i \in 1..Len(fqueue) :
                fqueue[i][1] = m => fqueue[i][2] = Popped(m) + CountIn(fqueue, m, i)
          /\ added[m] = Popped(m) + CountIn(fqueue, m, Len(fqueue))

(* A push keeps the order of every intermediate's items. *)
LEMMA OrderPush ==
    ASSUME Inv, NEW u \in Mids, AddPush(u), NEW m \in Mids, InOrderOf(m)
    PROVE  InOrderOf(m)'
<1> DEFINE x == <<u, added[u] + 1>>
           n == Len(fqueue)
           q == Append(fqueue, x)
<1>1. /\ x \in Items /\ fqueue \in Seq(Items) /\ added \in [Mids -> 0..MaxAdded]
      /\ fqueue' = q /\ added' = [added EXCEPT ![u] = @ + 1]
      /\ fitem' = fitem /\ written' = written /\ fstop' = fstop
  <2>1. fqueue \in Seq(Items) /\ added \in [Mids -> 0..MaxAdded] /\ add[u] = "push"
    BY DEF AddPush, Inv, TypeOK
  <2>2. added[u] < MaxAdded
    BY <2>1 DEF Inv, Sizes
  <2>3. x \in Items
    BY <2>1, <2>2, ConsumerFinAssumption DEF Items
  <2> QED
    BY <2>1, <2>3 DEF AddPush, finVars, ownerVars
<1>2. Popped(m)' = Popped(m) /\ Popped(m) \in Nat
  BY <1>1 DEF Popped, Inv, TypeOK, Items
<1>3. /\ \A i \in 0..n : CountIn(q, m, i) = CountIn(fqueue, m, i)
      /\ CountIn(q, m, n + 1) = CountIn(fqueue, m, n) + (IF u = m THEN 1 ELSE 0)
  BY <1>1, CountPush
<1>4. n \in Nat /\ CountIn(fqueue, m, n) \in Nat /\ Len(q) = n + 1
  BY <1>1, CountType
<1>5. \A i \in 1..n : q[i] = fqueue[i]
  BY <1>1
<1>6. q[n + 1] = x
  BY <1>1
<1>7. CASE fstop # "printed"
  <2>1. added[m] = Popped(m) + CountIn(fqueue, m, n)
    BY <1>7 DEF InOrderOf
  <2>2. added'[m] = Popped(m) + CountIn(q, m, n + 1)
    BY <1>1, <1>2, <1>3, <1>4, <2>1
  <2>3. ASSUME NEW i \in 1..(n + 1), q[i][1] = m
        PROVE  q[i][2] = Popped(m) + CountIn(q, m, i)
    <3>1. CASE i = n + 1
      <4>1. u = m
        BY <1>6, <2>3, <3>1
      <4> QED
        BY <1>2, <1>3, <1>4, <1>6, <2>1, <3>1, <4>1
    <3>2. CASE i \in 1..n
      BY <1>3, <1>5, <1>7, <2>3, <3>2 DEF InOrderOf
    <3> QED
      BY <1>4, <3>1, <3>2
  <2> QED
    BY <1>1, <1>2, <1>4, <2>2, <2>3 DEF InOrderOf
<1>8. CASE fstop = "printed"
  BY <1>1, <1>8 DEF InOrderOf
<1> QED
  BY <1>7, <1>8

(* So does a pop, which turns the head of the queue into the item in the
   thread's hand. *)
LEMMA OrderPop ==
    ASSUME Inv, FinPop, NEW m \in Mids, InOrderOf(m)
    PROVE  InOrderOf(m)'
<1>0. /\ fitem = <<>> /\ written' = written /\ added' = added /\ fstop' = fstop
      /\ fstop # "printed" /\ fqueue \in Seq(Items) /\ written[m] \in Nat
  BY DEF FinPop, Inv, TypeOK, Life, adderVars, ownerVars
<1>1. CASE fqueue = <<>>
  BY <1>0, <1>1 DEF FinPop, InOrderOf, Popped
<1>2. CASE fqueue # <<>>
  <2> DEFINE h == Head(fqueue)
             q == Tail(fqueue)
  <2>1. fitem' = h /\ fqueue' = q /\ h # <<>> /\ h \in Items /\ h = fqueue[1]
        /\ Len(q) = Len(fqueue) - 1 /\ Len(fqueue) \in Nat /\ Len(q) \in Nat
    BY <1>0, <1>2, QueueEnds DEF FinPop
  <2>2. Popped(m) = written[m]
    BY <1>0 DEF Popped
  <2>3. \A i \in 0..Len(q) :
           CountIn(fqueue, m, i + 1) = CountIn(q, m, i) + (IF h[1] = m THEN 1 ELSE 0)
    BY <1>0, <1>2, CountPop
  <2>4. CountIn(q, m, 0) = 0
    BY FS_EmptySet DEF CountIn
  <2>5. h[1] = m => h[2] = written[m] + 1
    BY <1>0, <2>1, <2>2, <2>3, <2>4 DEF InOrderOf
  <2>6. Popped(m)' = written[m] + (IF h[1] = m THEN 1 ELSE 0)
    BY <1>0, <2>1, <2>5 DEF Popped
  <2>7. \A i \in 0..Len(q) : CountIn(q, m, i) \in Nat
    BY CountType
  <2>8. ASSUME NEW i \in 1..Len(q), q[i][1] = m
        PROVE  q[i][2] = Popped(m)' + CountIn(q, m, i)
    <3>1. q[i] = fqueue[i + 1] /\ i + 1 \in 1..Len(fqueue)
      BY <1>0, <1>2, <2>1, QueueEnds
    <3>2. fqueue[i + 1][2] = written[m] + CountIn(fqueue, m, i + 1)
      BY <1>0, <2>2, <2>8, <3>1 DEF InOrderOf
    <3> QED
      BY <1>0, <2>3, <2>6, <2>7, <2>1, <3>1, <3>2
  <2>9. added[m] = Popped(m)' + CountIn(q, m, Len(q))
    <3>1. added[m] = written[m] + CountIn(fqueue, m, Len(q) + 1)
      BY <1>0, <2>1, <2>2 DEF InOrderOf
    <3>2. /\ CountIn(fqueue, m, Len(q) + 1)
                = CountIn(q, m, Len(q)) + (IF h[1] = m THEN 1 ELSE 0)
          /\ CountIn(q, m, Len(q)) \in Nat
      BY <2>1, <2>3, <2>7
    <3> HIDE DEF h, q
    <3> QED
      BY <1>0, <2>6, <3>1, <3>2
  <2> QED
    BY <1>0, <2>1, <2>5, <2>8, <2>9 DEF InOrderOf
<1> QED
  BY <1>1, <1>2

(* And so does every other step. *)
LEMMA OrderStep == Inv /\ LinesInOrder /\ [Next]_vars => LinesInOrder'
<1> SUFFICES ASSUME Inv, [Next]_vars, NEW m \in Mids, InOrderOf(m) PROVE InOrderOf(m)'
  BY DEF LinesInOrder, InOrderOf, Rank, CountIn
<1>1. CASE UNCHANGED <<fqueue, fitem, written, added, fstop>>
  BY <1>1 DEF InOrderOf, Popped
<1>2. ASSUME NEW u \in Mids, AdderStep(u) PROVE InOrderOf(m)'
  <2>1. CASE AddPush(u)
    BY <2>1, OrderPush
  <2>2. CASE AddEnter(u) \/ AddWait(u) \/ AddWake(u) \/ AddLog(u) \/ AddFails(u)
    BY <1>1, <2>2 DEF AddEnter, AddWait, AddWake, AddLog, AddFails, finVars, ownerVars
  <2> QED
    BY <1>2, <2>1, <2>2 DEF AdderStep
<1>3. CASE FinStep
  <2>1. CASE FinPop
    BY <2>1, OrderPop
  <2>2. CASE FinWrite
    <3>1. PICK u \in Mids, n \in 1..MaxAdded : fitem = <<u, n>>
      BY <2>2 DEF FinWrite, Inv, TypeOK, Items
    <3>2. /\ fitem # <<>> /\ fitem[1] = u /\ fitem[2] = n /\ fitem' = <<>>
          /\ written' = [written EXCEPT ![u] = n] /\ written \in [Mids -> 0..MaxAdded]
          /\ fqueue' = fqueue /\ added' = added /\ fstop' = fstop
      BY <2>2, <3>1 DEF FinWrite, Inv, TypeOK, adderVars, ownerVars
    <3>3. Popped(m)' = Popped(m)
      BY <3>2 DEF Popped
    <3> QED
      BY <3>2, <3>3 DEF InOrderOf
  <2>3. CASE FinLoop \/ FinEnter \/ FinWait \/ FinWake
    BY <1>1, <2>3 DEF FinLoop, FinEnter, FinWait, FinWake, adderVars, ownerVars
  <2> QED
    BY <1>3, <2>1, <2>2, <2>3 DEF FinStep
<1>4. CASE OwnerStep
  <2>1. CASE PrintQueue
    BY <2>1 DEF PrintQueue, InOrderOf, Inv, TypeOK, Life, finVars
  <2>2. CASE StartReaderProcessor
    BY <1>1, <2>2 DEF StartReaderProcessor, adderVars
  <2>3. CASE StopFlag \/ StopJoin
    BY <2>3 DEF StopFlag, StopJoin, InOrderOf, Popped, adderVars, finVars
  <2> QED
    BY <1>4, <2>1, <2>2, <2>3 DEF OwnerStep
<1>5. CASE SpuriousWakeup
  BY <1>1, <1>5 DEF SpuriousWakeup, adderVars, finVars
<1>6. CASE UNCHANGED vars
  BY <1>1, <1>6 DEF vars, adderVars, finVars, ownerVars
<1> QED
  BY <1>2, <1>3, <1>4, <1>5, <1>6 DEF Next

(* However many intermediates add, and however their calls interleave, each
   one's items reach the file in the order it added them and none is lost. *)
THEOREM InOrder == Spec => []LinesInOrder
<1>1. Init => LinesInOrder
  <2> SUFFICES ASSUME Init, NEW m \in Mids PROVE InOrderOf(m)
    BY DEF LinesInOrder, InOrderOf, Rank, CountIn
  <2>1. CountIn(<<>>, m, 0) = 0
    BY FS_EmptySet DEF CountIn
  <2> QED
    BY <2>1 DEF Init, InOrderOf, Popped
<1> QED
  BY <1>1, Invariance, OrderStep, PTL DEF Spec

-----------------------------------------------------------------------------
(* A set of adders is counted, and one adder more or less counts one. *)
LEMMA Adders ==
    ASSUME NEW C \in SUBSET Mids
    PROVE  /\ IsFiniteSet(C) /\ Cardinality(C) \in Nat
           /\ Cardinality(C) <= Cardinality(Mids)
           /\ \A m : Cardinality(C \cup {m}) <= Cardinality(C) + 1
           /\ \A m : Cardinality(C \cup {m}) \in Nat
           /\ \A m \in C : Cardinality(C \ {m}) = Cardinality(C) - 1
           /\ \A m \in Mids \ C : Cardinality(C) <= Cardinality(Mids) - 1
<1>1. IsFiniteSet(C) /\ Cardinality(C) \in Nat /\ Cardinality(C) <= Cardinality(Mids)
  BY ConsumerFinAssumption, FS_Subset, FS_CardinalityType
<1>2. ASSUME NEW m
      PROVE  Cardinality(C \cup {m}) \in Nat /\ Cardinality(C \cup {m}) <= Cardinality(C) + 1
  <2>1. \/ Cardinality(C \cup {m}) = Cardinality(C)
        \/ Cardinality(C \cup {m}) = Cardinality(C) + 1
    BY <1>1, FS_AddElement
  <2> QED
    BY <1>1, <2>1
<1>3. \A m \in C : Cardinality(C \ {m}) = Cardinality(C) - 1
  BY <1>1, FS_RemoveElement
<1>4. ASSUME NEW m \in Mids \ C PROVE Cardinality(C) <= Cardinality(Mids) - 1
  <2>1. /\ C \subseteq Mids \ {m} /\ IsFiniteSet(Mids \ {m})
        /\ Cardinality(Mids \ {m}) = Cardinality(Mids) - 1
    BY <1>4, ConsumerFinAssumption, FS_RemoveElement
  <2> QED
    BY <2>1, FS_Subset
<1> QED
  BY <1>1, <1>2, <1>3, <1>4

(* The bound survives the adders' steps: one that finds the queue full waits,
   one that finds room joins those that will push, of which there can be no
   more than the intermediates. *)
LEMMA OvershootAdder ==
    ASSUME Inv, OvershootBounded, NEW m \in Mids, AdderStep(m)
    PROVE  OvershootBounded'
<1> DEFINE L == Len(fqueue)
           C == Cardinality(Committed)
           M == Cardinality(Mids)
<1>0. /\ FinMax \in Nat /\ FinMax >= 1 /\ M \in Nat /\ L \in Nat /\ C \in Nat
      /\ excess \in Nat /\ Committed \in SUBSET Mids /\ add = [u \in Mids |-> add[u]]
      /\ fqueue \in Seq(Items) /\ fcv \subseteq Mids \cup {Fin}
      /\ frun' = frun /\ excess' = excess
  <2>1. frun' = frun /\ excess' = excess
    BY DEF AdderStep, AddEnter, AddWait, AddWake, AddPush, AddLog, AddFails, ownerVars
  <2>2. add = [u \in Mids |-> add[u]]
    BY DEF Inv, TypeOK
  <2> QED
    BY <2>1, <2>2, ConsumerFinAssumption, CommittedFinite DEF Inv, TypeOK, Committed
<1> SUFFICES ASSUME frun, L + C <= FinMax + M - 1 + excess
             PROVE  Len(fqueue') + Cardinality(Committed') <= FinMax + M - 1 + excess
  BY <1>0 DEF OvershootBounded
<1>1. CASE AddEnter(m) /\ Full(L)
  <2>1. Committed' = Committed
    BY <1>0, <1>1 DEF AddEnter, Committed
  <2> QED
    BY <1>1, <2>1 DEF AddEnter
<1>2. CASE AddEnter(m) /\ ~Full(L)
  <2>1. Committed' \in SUBSET Mids
    BY DEF Committed
  <2>2. Cardinality(Committed') \in Nat /\ Cardinality(Committed') <= M
    BY <2>1, Adders
  <2>3. fqueue' = fqueue /\ L <= FinMax - 1
    BY <1>0, <1>2 DEF AddEnter, Full
  <2> QED
    BY <1>0, <2>2, <2>3
<1>3. CASE AddWait(m) \/ AddWake(m) \/ AddLog(m)
  <2>1. Committed' = Committed
    BY <1>0, <1>3 DEF AddWait, AddWake, AddLog, Committed
  <2> QED
    BY <1>3, <2>1 DEF AddWait, AddWake, AddLog
<1>4. CASE AddPush(m)
  <2>1. Len(fqueue') = L + 1
    BY <1>0, <1>4 DEF AddPush
  <2>2. CASE asize[m] = 0
    <3>1. L = 0
      BY <1>4, <2>2 DEF AddPush, Inv, Sizes
    <3>2. Committed' \in SUBSET Mids /\ m \in Mids \ Committed'
      BY <1>0, <1>4 DEF AddPush, Committed
    <3>3. Cardinality(Committed') \in Nat /\ Cardinality(Committed') <= M - 1
      BY <3>2, Adders
    <3> QED
      BY <1>0, <2>1, <3>1, <3>3
  <2>3. CASE asize[m] # 0
    <3>1. fcv' = fcv
      BY <1>4, <2>3, NotifyIfSubset DEF AddPush
    <3>2. m \in Committed /\ Committed' = Committed \ {m}
      BY <1>0, <1>4, <3>1 DEF AddPush, Committed
    <3>3. Cardinality(Committed') = C - 1
      BY <1>0, <3>2, Adders
    <3> QED
      BY <1>0, <2>1, <3>3
  <2> QED
    BY <2>2, <2>3
<1>5. CASE AddFails(m)
  <2>1. m \in Committed /\ Committed' = Committed \ {m} /\ fqueue' = fqueue
    BY <1>0, <1>5 DEF AddFails, Committed
  <2>2. Cardinality(Committed') = C - 1
    BY <1>0, <2>1, Adders
  <2> QED
    BY <1>0, <2>1, <2>2
<1> QED
  BY <1>1, <1>2, <1>3, <1>4, <1>5 DEF AdderStep

(* It survives the reader's: the notification of an adder follows the pop that
   makes room for it. *)
LEMMA OvershootReader ==
    ASSUME Inv, OvershootBounded, FinStep
    PROVE  OvershootBounded'
<1> DEFINE L == Len(fqueue)
           C == Cardinality(Committed)
           M == Cardinality(Mids)
<1>0. /\ FinMax \in Nat /\ FinMax >= 1 /\ M \in Nat /\ L \in Nat /\ C \in Nat
      /\ excess \in Nat /\ Committed \in SUBSET Mids
      /\ fqueue \in Seq(Items) /\ Fin \notin Mids /\ fsize \in Nat
      /\ frun' = frun /\ excess' = excess /\ add' = add
  <2>1. frun' = frun /\ excess' = excess /\ add' = add
    BY DEF FinStep, FinLoop, FinEnter, FinWait, FinWake, FinPop, FinWrite,
           adderVars, ownerVars
  <2> QED
    BY <2>1, ConsumerFinAssumption, CommittedFinite DEF Inv, TypeOK, Committed
<1> SUFFICES ASSUME frun, L + C <= FinMax + M - 1 + excess
             PROVE  Len(fqueue') + Cardinality(Committed') <= FinMax + M - 1 + excess
  BY <1>0 DEF OvershootBounded
<1>1. CASE FinLoop \/ FinEnter \/ FinWait \/ FinWake \/ FinWrite
  <2>1. Committed' = Committed /\ fqueue' = fqueue
    BY <1>0, <1>1 DEF FinLoop, FinEnter, FinWait, FinWake, FinWrite, Committed
  <2> QED
    BY <2>1
<1>2. CASE FinPop /\ fqueue # <<>>
  <2>1. Len(fqueue') = L - 1
    BY <1>0, <1>2, QueueEnds DEF FinPop
  <2>2. \E w : Committed' \subseteq Committed \cup {w}
    <3>1. \E w : fcv \subseteq fcv' \cup {w}
      BY <1>2, NotifyIfSubset DEF FinPop
    <3> QED
      BY <1>0, <3>1 DEF Committed
  <2>3. PICK w : Committed' \subseteq Committed \cup {w}
    BY <2>2
  <2>4. Committed' \in SUBSET Mids
    BY DEF Committed
  <2>5. IsFiniteSet(Committed \cup {w})
    BY <1>0, Adders, FS_AddElement
  <2>6. /\ Cardinality(Committed') <= Cardinality(Committed \cup {w})
        /\ Cardinality(Committed \cup {w}) <= C + 1
        /\ Cardinality(Committed') \in Nat /\ Cardinality(Committed \cup {w}) \in Nat
    BY <1>0, <2>3, <2>4, <2>5, Adders, FS_Subset
  <2> QED
    BY <1>0, <2>1, <2>6
<1>3. CASE FinPop /\ fqueue = <<>>
  <2>1. ~Full(fsize)
    BY <1>0, <1>3 DEF FinPop, Inv, Sizes, Full
  <2>2. fcv' = fcv /\ fqueue' = fqueue
    BY <1>3, <2>1, NotifyIfSubset DEF FinPop
  <2>3. Committed' = Committed
    BY <1>0, <2>2 DEF Committed
  <2> QED
    BY <2>2, <2>3
<1> QED
  BY <1>1, <1>2, <1>3 DEF FinStep

(* And the owner's and the scheduler's, which excess accounts for. *)
LEMMA OvershootStep == Inv /\ OvershootBounded /\ [Next]_vars => OvershootBounded'
<1> SUFFICES ASSUME Inv, OvershootBounded, [Next]_vars PROVE OvershootBounded'
  OBVIOUS
<1> DEFINE L == Len(fqueue)
           C == Cardinality(Committed)
           M == Cardinality(Mids)
<1>0. /\ FinMax \in Nat /\ FinMax >= 1 /\ M \in Nat /\ M >= 1 /\ L \in Nat /\ C \in Nat
      /\ excess \in Nat /\ Committed \in SUBSET Mids /\ Fin \notin Mids
  <2>1. M # 0
    BY ConsumerFinAssumption, FS_EmptySet
  <2> QED
    BY <2>1, ConsumerFinAssumption, CommittedFinite DEF Inv, TypeOK, Committed
<1>1. CASE StartReaderProcessor
  <2>1. Committed' = Committed /\ fqueue' = fqueue
    BY <1>1 DEF StartReaderProcessor, Committed, adderVars
  <2>2. excess' >= L + C - FinMax /\ excess' \in Nat
    BY <1>0, <1>1 DEF StartReaderProcessor
  <2> QED
    BY <1>0, <2>1, <2>2 DEF OvershootBounded
<1>2. CASE StopFlag
  BY <1>2 DEF StopFlag, OvershootBounded
<1>3. CASE StopJoin
  BY <1>3 DEF StopJoin, OvershootBounded, Committed, adderVars
<1>4. CASE PrintQueue
  <2>1. Committed' = Committed /\ Len(fqueue') = 0 /\ frun' = frun /\ excess' = excess
    BY <1>4 DEF PrintQueue, Committed, adderVars
  <2> QED
    BY <1>0, <2>1 DEF OvershootBounded
<1>5. CASE SpuriousWakeup
  <2>1. PICK t \in fcv : /\ fcv' = fcv \ {t}
                         /\ excess' = IF t \in Mids THEN excess + 1 ELSE excess
    BY <1>5 DEF SpuriousWakeup
  <2>2. fqueue' = fqueue /\ frun' = frun /\ add' = add
    BY <1>5 DEF SpuriousWakeup, adderVars
  <2>3. CASE t \in Mids
    <3>1. Committed' = Committed \/ Committed' = Committed \cup {t}
      BY <2>1, <2>2, <2>3 DEF Committed
    <3>2. /\ Cardinality(Committed \cup {t}) \in Nat
          /\ Cardinality(Committed \cup {t}) <= C + 1
      BY <1>0, Adders
    <3>3. Cardinality(Committed') \in Nat /\ Cardinality(Committed') <= C + 1
      <4>1. CASE Committed' = Committed
        BY <1>0, <4>1
      <4>2. CASE Committed' = Committed \cup {t}
        BY <3>2, <4>2
      <4> QED
        BY <3>1, <4>1, <4>2
    <3> QED
      BY <1>0, <2>1, <2>2, <2>3, <3>3 DEF OvershootBounded
  <2>4. CASE t \notin Mids
    <3>1. Committed' = Committed
      BY <2>1, <2>2, <2>4 DEF Committed
    <3> QED
      BY <2>1, <2>2, <2>4, <3>1 DEF OvershootBounded
  <2> QED
    BY <2>3, <2>4
<1>6. CASE UNCHANGED vars
  BY <1>6 DEF vars, OvershootBounded, Committed, adderVars, ownerVars
<1> QED
  BY <1>1, <1>2, <1>3, <1>4, <1>5, <1>6, OvershootAdder, OvershootReader
     DEF Next, OwnerStep

(* For every number of intermediates and every limit, the queue of a running
   final consumer exceeds m_items_queue_max by no more than one item for each
   intermediate but one, and by what excess records. *)
THEOREM Overshoot == Spec => []OvershootBounded
<1>1. Init => OvershootBounded
  BY DEF Init, OvershootBounded
<1> QED
  BY <1>1, Invariance, OvershootStep, PTL DEF Spec
=============================================================================
