--------------------------- MODULE ProducerProofs ---------------------------
(***************************************************************************)
(* What holds of a producer object for every queue limit and every number  *)
(* of items, proved.  The inductive invariant has two layers: Inv needs no *)
(* assumption on wait(); Room, the bound on the queue, needs that wait()   *)
(* returns only when notified.                                             *)
(***************************************************************************)
EXTENDS Producer, TLAPS

(* Who owns m_mtx_queue is told by where the two threads stand. *)
Locks(t) ==
    /\ pmutex[t] = "producer" <=> ppc[t] \in {"wait", "push"}
    /\ pmutex[t] = "mid" <=> get[t] \in {"wait", "pop"}

(* Only a thread inside wait() is in the wait set. *)
Waits(t) ==
    /\ "producer" \in pcv[t] => ppc[t] = "blocked"
    /\ "mid" \in pcv[t] => get[t] = "blocked"

(* Started at most once, stopped after that, destroyed after that. *)
Life(t) ==
    /\ pstop[t] # "no" => ~prun[t]
    /\ pstop[t] = "no" /\ ~prun[t] => ppc[t] = "none"
    /\ pstop[t] \in {"joined", "freed"} => ppc[t] \in {"none", "done"}
    /\ pstop[t] = "freed" => get[t] = "idle"
    /\ ppc[t] = "none" => pqueue[t] = <<>>
    /\ ppc[t] \in {"gen", "wait", "blocked", "push"} => made[t] < MaxMade

(* The queue holds what was pushed and not popped, and the size a getter
   counted is still there when it pops. *)
Order(t) ==
    /\ item[t] <= made[t]
    /\ pstop[t] # "freed" => Holds(pqueue[t], item[t], made[t])
    /\ get[t] \in {"wait", "blocked"} => gsize[t] = 0
    /\ get[t] = "pop" => Len(pqueue[t]) >= gsize[t]

Inv == TypeOK /\ \A t \in Types : Locks(t) /\ Waits(t) /\ Life(t) /\ Order(t)

(* A turn of the producer's loop begins with room for one item above the
   limit; while the object runs it pushes only after the limit was met. *)
Room(t) ==
    /\ Len(pqueue[t]) <= QueueMax + 1
    /\ prun[t] => Len(pqueue[t]) <= QueueMax
    /\ ppc[t] \in {"gen", "wait", "blocked", "push"} => Len(pqueue[t]) <= QueueMax
    /\ prun[t] /\ (ppc[t] = "push" \/ (ppc[t] = "blocked" /\ "producer" \notin pcv[t]))
            => Len(pqueue[t]) < QueueMax

-----------------------------------------------------------------------------
(* notify_one only takes threads out of the wait set. *)
LEMMA NotifySubset ==
    ASSUME NEW S, NEW b \in NotifyOne(S)
    PROVE  b \subseteq S
BY DEF NotifyOne

LEMMA NotifyIfSubset ==
    ASSUME NEW S, NEW c, NEW b \in NotifyOneIf(c, S)
    PROVE  b \subseteq S /\ (~c => b = S)
<1>1. CASE c
  BY <1>1, NotifySubset DEF NotifyOneIf
<1>2. CASE ~c
  BY <1>2 DEF NotifyOneIf
<1> QED
  BY <1>1, <1>2

(* Pushing the next number keeps the queue an interval. *)
LEMMA PushHolds ==
    ASSUME NEW q \in Seq(Nat), NEW a \in Nat, NEW b \in Nat, Holds(q, a, b)
    PROVE  Holds(Append(q, b + 1), a, b + 1) /\ Len(Append(q, b + 1)) = Len(q) + 1
BY DEF Holds

(* The head of an interval is its first number, the tail is the rest. *)
LEMMA PopHolds ==
    ASSUME NEW q \in Seq(Nat), NEW a \in Nat, NEW b \in Nat, Holds(q, a, b),
           Len(q) > 0
    PROVE  /\ Head(q) = a + 1
           /\ Holds(Tail(q), a + 1, b)
           /\ Len(Tail(q)) = Len(q) - 1
BY DEF Holds

-----------------------------------------------------------------------------
(* The lock, the wait set and the object's life, step by step. *)
LEMMA InvStep == Inv /\ [Next]_vars => Inv'
<1> SUFFICES ASSUME Inv, [Next]_vars PROVE Inv'
  OBVIOUS
<1> USE ProducerAssumption
<1>u. CASE UNCHANGED vars
  BY <1>u DEF Inv, TypeOK, Locks, Waits, Life, Order, Holds, vars, threadVars, getterVars, ownerVars
<1>n. CASE Next
  <2> SUFFICES ASSUME NEW t \in Types,
                      ThreadStep(t) \/ GetterStep(t) \/ OwnerStep(t) \/ SpuriousWakeup(t)
               PROVE  Inv'
    BY <1>n DEF Next
  <2> USE DEF Inv, TypeOK, Locks, Waits, Life, Order, threadVars, getterVars, ownerVars
  <2>1. CASE LoopTest(t)
    BY <2>1 DEF LoopTest
  <2>2. CASE GenEnter(t)
    BY <2>2 DEF GenEnter
  <2>3. CASE GenWait(t)
    BY <2>3 DEF GenWait
  <2>4. CASE GenWake(t)
    BY <2>4 DEF GenWake
  <2>5. CASE GenPush(t)
    <3>1. PICK b \in NotifyOneIf(psize[t] = 0, pcv[t]) : pcv' = [pcv EXCEPT ![t] = b]
      BY <2>5 DEF GenPush
    <3>2. b \subseteq pcv[t]
      BY <3>1, NotifyIfSubset
    <3>3. /\ made[t] \in Nat /\ item[t] \in Nat /\ pqueue[t] \in Seq(Nat)
          /\ made[t] + 1 \in 1..MaxMade
          /\ pstop[t] # "freed"
      BY <2>5 DEF GenPush
    <3>4. Holds(pqueue'[t], item'[t], made'[t]) /\ Len(pqueue'[t]) = Len(pqueue[t]) + 1
      BY <2>5, <3>3, PushHolds DEF GenPush
    <3>5. TypeOK'
      <4>1. b \in SUBSET {"producer", "mid"}
        BY <3>2
      <4>2. Append(pqueue[t], made[t] + 1) \in Seq(1..MaxMade)
        BY <3>3
      <4> QED
        BY <2>5, <3>1, <3>3, <4>1, <4>2 DEF GenPush
    <3>6. \A u \in Types : Locks(u)' /\ Waits(u)' /\ Life(u)'
      BY <2>5, <3>1, <3>2 DEF GenPush
    <3>7. \A u \in Types : Order(u)'
      BY <2>5, <3>3, <3>4 DEF GenPush
    <3> QED
      BY <3>5, <3>6, <3>7
  <2>6. CASE GenFails(t)
    BY <2>6 DEF GenFails
  <2>7. CASE GetEnter(t)
    BY <2>7 DEF GetEnter
  <2>8. CASE GetWait(t)
    BY <2>8 DEF GetWait
  <2>9. CASE GetWake(t)
    BY <2>9 DEF GetWake
  <2>10. CASE GetPop(t)
    <3>1. PICK b \in NotifyOneIf(Full(gsize[t]), pcv[t]) : pcv' = [pcv EXCEPT ![t] = b]
      BY <2>10 DEF GetPop
    <3>2. b \subseteq pcv[t]
      BY <3>1, NotifyIfSubset
    <3>3. Locks(t)' /\ \A u \in Types : Locks(u)' /\ Waits(u)'
      BY <2>10, <3>1, <3>2 DEF GetPop
    <3>4. CASE gsize[t] > 0
      <4>1. /\ made[t] \in Nat /\ item[t] \in Nat /\ pqueue[t] \in Seq(Nat)
            /\ Len(pqueue[t]) > 0 /\ Holds(pqueue[t], item[t], made[t])
        BY <2>10, <3>4 DEF GetPop
      <4>2. /\ item' = [item EXCEPT ![t] = Head(pqueue[t])]
            /\ pqueue' = [pqueue EXCEPT ![t] = Tail(pqueue[t])]
        BY <2>10, <3>4 DEF GetPop
      <4>3. /\ item'[t] = item[t] + 1
            /\ Holds(pqueue'[t], item'[t], made'[t])
        <5>1. /\ Head(pqueue[t]) = item[t] + 1
              /\ Holds(Tail(pqueue[t]), item[t] + 1, made[t])
          BY <4>1, PopHolds
        <5> QED
          BY <2>10, <4>2, <5>1 DEF GetPop
      <4>4. item[t] + 1 <= made[t]
        BY <4>1 DEF Holds
      <4>5. TypeOK'
        <5>1. b \in SUBSET {"producer", "mid"}
          BY <3>2
        <5>2. Tail(pqueue[t]) \in Seq(1..MaxMade) /\ item[t] + 1 \in 0..MaxMade
          BY <4>1, <4>4
        <5>3. item' = [item EXCEPT ![t] = item[t] + 1]
          BY <4>2, <4>3
        <5>4. /\ pqueue' \in [Types -> Seq(1..MaxMade)]
              /\ item' \in [Types -> 0..MaxMade]
          BY <4>2, <5>2, <5>3
        <5>5. pcv' \in [Types -> SUBSET {"producer", "mid"}]
          BY <3>1, <5>1
        <5>6. /\ pmutex' \in [Types -> {"none", "producer", "mid"}]
              /\ get' \in [Types -> {"idle", "wait", "blocked", "pop"}]
              /\ res' \in [Types -> BOOLEAN]
              /\ prun' = prun /\ ppc' = ppc /\ psize' = psize /\ made' = made
              /\ gsize' = gsize /\ pstop' = pstop
          BY <2>10 DEF GetPop
        <5> QED
          BY <5>4, <5>5, <5>6
      <4>6. \A u \in Types : Life(u)' /\ Order(u)'
        <5>1. /\ get' = [get EXCEPT ![t] = "idle"]
              /\ prun' = prun /\ ppc' = ppc /\ made' = made
              /\ gsize' = gsize /\ pstop' = pstop
          BY <2>10 DEF GetPop
        <5>2. \A u \in Types : u # t => Life(u)' /\ Order(u)'
          BY <4>2, <5>1
        <5>3. Life(t)'
          BY <4>1, <5>1, <2>10 DEF GetPop
        <5>4. Order(t)'
          BY <4>3, <4>4, <5>1
        <5> QED
          BY <5>2, <5>3, <5>4
      <4> QED
        BY <3>3, <4>5, <4>6
    <3>5. CASE ~(gsize[t] > 0)
      <4>1. UNCHANGED <<item, pqueue>>
        BY <2>10, <3>5 DEF GetPop
      <4>2. b \in SUBSET {"producer", "mid"}
        BY <3>2
      <4>3. TypeOK'
        BY <2>10, <3>1, <4>1, <4>2 DEF GetPop
      <4>4. \A u \in Types : Life(u)' /\ Order(u)'
        BY <2>10, <4>1 DEF GetPop
      <4> QED
        BY <3>3, <4>3, <4>4
    <3> QED
      BY <3>4, <3>5
  <2>11. CASE StartAddData(t)
    BY <2>11 DEF StartAddData
  <2>12. CASE StopFlag(t)
    BY <2>12 DEF StopFlag
  <2>13. CASE StopNotify(t)
    <3>1. PICK b \in NotifyOne(pcv[t]) : pcv' = [pcv EXCEPT ![t] = b]
      BY <2>13 DEF StopNotify
    <3> QED
      BY <2>13, <3>1, NotifySubset DEF StopNotify
  <2>14. CASE StopJoin(t)
    BY <2>14 DEF StopJoin
  <2>15. CASE ClearData(t)
    BY <2>15 DEF ClearData
  <2>16. CASE SpuriousWakeup(t)
    <3>1. PICK b \in NotifyOne(pcv[t]) : pcv' = [pcv EXCEPT ![t] = b]
      BY <2>16 DEF SpuriousWakeup
    <3> QED
      BY <2>16, <3>1, NotifySubset DEF SpuriousWakeup
  <2> QED
    BY <2>1, <2>2, <2>3, <2>4, <2>5, <2>6, <2>7, <2>8, <2>9, <2>10, <2>11, <2>12, <2>13, <2>14, <2>15, <2>16 DEF ThreadStep, GetterStep, OwnerStep
<1> QED
  BY <1>u, <1>n

(* Inv holds of every reachable state. *)
THEOREM Invariance == Spec => []Inv
<1>1. Init => Inv
  BY ProducerAssumption DEF Init, Inv, TypeOK, Locks, Waits, Life, Order, Holds
<1> QED
  BY <1>1, InvStep, PTL DEF Spec

(* Every variable keeps to its values, whatever the interleaving of the
   producer's thread, the getter and the owner; a stopped producer pushes at
   most the item in hand. *)
THEOREM TypeCorrect == Spec => []TypeOK
<1>1. Inv => TypeOK
  BY DEF Inv
<1> QED
  BY <1>1, Invariance, PTL

(* genProducerItem and getProducerItem neither lose, double nor reorder an
   item, whether or not wait() returns spuriously. *)
THEOREM FirstInFirstOut == Spec => []QueueIsInOrder
<1>1. Inv => QueueIsInOrder
  BY DEF Inv, Order, QueueIsInOrder
<1> QED
  BY <1>1, Invariance, PTL

(* getProducerItem never pops an empty queue. *)
THEOREM PopIsSafe == Spec => []PopFindsAnItem
<1>1. Inv => PopFindsAnItem
  BY DEF Inv, Order, PopFindsAnItem
<1> QED
  BY <1>1, Invariance, PTL

-----------------------------------------------------------------------------
(* The bound on the queue, when wait() returns only when notified: the one
   who notifies a running producer has just popped from a full queue. *)
LEMMA RoomStep ==
    ASSUME ~Spurious, Inv, \A t \in Types : Room(t), [Next]_vars
    PROVE  \A t \in Types : Room(t)'
<1> USE ProducerAssumption DEF threadVars, getterVars, ownerVars
<1>1. /\ pqueue \in [Types -> Seq(Nat)]
      /\ pcv \in [Types -> SUBSET {"producer", "mid"}]
      /\ prun \in [Types -> BOOLEAN]
      /\ ppc \in [Types -> {"none", "loop", "gen", "wait", "blocked", "push", "done"}]
      /\ gsize \in [Types -> Nat]
  BY DEF Inv, TypeOK
<1>2. \A t \in Types : Waits(t)
  BY DEF Inv
<1>3. \A t \in Types :
         /\ pstop[t] # "no" => ~prun[t]
         /\ pstop[t] = "no" /\ ~prun[t] => Len(pqueue[t]) = 0
  BY DEF Inv, Life
<1>4. \A t \in Types : get[t] = "pop" => Len(pqueue[t]) >= gsize[t]
  BY DEF Inv, Order
<1>u. CASE UNCHANGED vars
  BY <1>u DEF Room, vars
<1>n. CASE Next
  <2> SUFFICES ASSUME NEW t \in Types,
                      ThreadStep(t) \/ GetterStep(t) \/ OwnerStep(t) \/ SpuriousWakeup(t)
               PROVE  \A u \in Types : Room(u)'
    BY <1>n DEF Next
  <2>1. CASE LoopTest(t)
    BY <2>1, <1>1 DEF LoopTest, Room
  <2>2. CASE GenEnter(t)
    BY <2>2, <1>1, <1>2 DEF GenEnter, Room, Full
  <2>3. CASE GenWait(t)
    BY <2>3, <1>1 DEF GenWait, Room
  <2>4. CASE GenWake(t)
    BY <2>4, <1>1 DEF GenWake, Room
  <2>5. CASE GenPush(t)
    <3>1. /\ pqueue' = [pqueue EXCEPT ![t] = Append(@, made[t] + 1)]
          /\ ppc' = [ppc EXCEPT ![t] = "loop"] /\ prun' = prun
          /\ \A u \in Types : u # t => pcv'[u] = pcv[u]
      BY <2>5, <1>1 DEF GenPush
    <3>2. Len(pqueue'[t]) = Len(pqueue[t]) + 1
      BY <3>1, <1>1
    <3>3. \A u \in Types : u # t => Room(u)'
      BY <3>1, <1>1 DEF Room
    <3>4. Room(t)'
      BY <2>5, <3>1, <3>2, <1>1 DEF GenPush, Room
    <3> QED
      BY <3>3, <3>4
  <2>6. CASE GenFails(t)
    BY <2>6, <1>1 DEF GenFails, Room
  <2>7. CASE GetEnter(t)
    BY <2>7, <1>1 DEF GetEnter, Room
  <2>8. CASE GetWait(t)
    BY <2>8, <1>1 DEF GetWait, Room
  <2>9. CASE GetWake(t)
    BY <2>9, <1>1 DEF GetWake, Room
  <2>10. CASE GetPop(t)
    <3>1. PICK b \in NotifyOneIf(Full(gsize[t]), pcv[t]) : pcv' = [pcv EXCEPT ![t] = b]
      BY <2>10 DEF GetPop
    <3>2. ppc' = ppc /\ prun' = prun
      BY <2>10 DEF GetPop
    <3>3. \A u \in Types : u # t => pqueue'[u] = pqueue[u]
      BY <2>10, <1>1 DEF GetPop
    <3>4. \A u \in Types : u # t => Room(u)'
      BY <3>1, <3>2, <3>3, <1>1 DEF Room
    <3>5. CASE gsize[t] > 0
      <4>1. Len(pqueue'[t]) = Len(pqueue[t]) - 1 /\ Len(pqueue[t]) \in Nat
        BY <2>10, <3>5, <1>1, <1>4 DEF GetPop
      <4>2. Room(t)'
        BY <3>2, <4>1 DEF Room
      <4> QED
        BY <3>4, <4>2
    <3>6. CASE ~(gsize[t] > 0)
      <4>1. pqueue' = pqueue
        BY <2>10, <3>6 DEF GetPop
      <4>2. b = pcv[t]
        BY <3>6, <1>1, NotifyIfSubset DEF Full
      <4>3. Room(t)'
        BY <3>1, <3>2, <4>1, <4>2, <1>1 DEF Room
      <4> QED
        BY <3>4, <4>3
    <3> QED
      BY <3>5, <3>6
  <2>11. CASE StartAddData(t)
    <3>1. Len(pqueue[t]) = 0
      BY <2>11, <1>3 DEF StartAddData
    <3>2. /\ pqueue' = pqueue /\ pcv' = pcv
          /\ prun' = [prun EXCEPT ![t] = TRUE]
          /\ ppc' = [ppc EXCEPT ![t] = "loop"]
      BY <2>11 DEF StartAddData
    <3>3. \A u \in Types : u # t => Room(u)'
      BY <3>2, <1>1 DEF Room
    <3>4. Room(t)'
      BY <3>1, <3>2, <1>1 DEF Room
    <3> QED
      BY <3>3, <3>4
  <2>12. CASE StopFlag(t)
    BY <2>12, <1>1 DEF StopFlag, Room
  <2>13. CASE StopNotify(t)
    <3>1. ~prun[t]
      BY <2>13, <1>3 DEF StopNotify
    <3> QED
      BY <2>13, <3>1, <1>1 DEF StopNotify, Room
  <2>14. CASE StopJoin(t)
    BY <2>14, <1>1 DEF StopJoin, Room
  <2>15. CASE ClearData(t)
    <3>1. /\ pqueue' = [pqueue EXCEPT ![t] = <<>>]
          /\ ppc' = ppc /\ pcv' = pcv /\ prun' = prun /\ ~prun[t]
      BY <2>15 DEF ClearData
    <3>2. \A u \in Types : u # t => Room(u)'
      BY <3>1, <1>1 DEF Room
    <3>3. Room(t)'
      BY <3>1, <1>1 DEF Room
    <3> QED
      BY <3>2, <3>3
  <2>16. CASE SpuriousWakeup(t)
    BY <2>16 DEF SpuriousWakeup
  <2> QED
    BY <2>1, <2>2, <2>3, <2>4, <2>5, <2>6, <2>7, <2>8, <2>9, <2>10, <2>11, <2>12, <2>13, <2>14, <2>15, <2>16 DEF ThreadStep, GetterStep, OwnerStep
<1> QED
  BY <1>u, <1>n

(* Inv and the bound together. *)
LEMMA RoomInvariance == ~Spurious => (Spec => [](Inv /\ \A t \in Types : Room(t)))
<1> DEFINE Both == Inv /\ \A t \in Types : Room(t)
<1> SUFFICES ASSUME ~Spurious PROVE Spec => []Both
  OBVIOUS
<1>1. Init => \A t \in Types : Room(t)
  BY ProducerAssumption DEF Init, Room
<1>2. Both /\ [Next]_vars => (\A t \in Types : Room(t))'
  BY RoomStep
<1> HIDE DEF Both
<1>3. Init /\ [](Inv) => Both
  BY <1>1, PTL DEF Both
<1>4. Both /\ [Next]_vars => Both'
  BY <1>2, InvStep DEF Both
<1> QED
  BY <1>3, <1>4, Invariance, PTL DEF Spec

(* While the object runs its queue never exceeds m_items_queue_max; a stop
   lets exactly one item more in. *)
THEOREM Bounded == ~Spurious => (Spec => []QueueBounded)
<1> SUFFICES ASSUME ~Spurious PROVE Spec => []QueueBounded
  OBVIOUS
<1>1. Inv /\ (\A t \in Types : Room(t)) => QueueBounded
  BY DEF Room, QueueBounded
<1> QED
  BY <1>1, RoomInvariance, PTL

-----------------------------------------------------------------------------
(* One step of the object is one step of the channel, or none. *)
LEMMA ChannelStep ==
    ASSUME Inv, \A t \in Types : Room(t), [Next]_vars
    PROVE  [Chan!Next]_<<made, item>>
<1> USE ProducerAssumption DEF threadVars, getterVars, ownerVars
<1>u. CASE UNCHANGED vars
  BY <1>u DEF vars
<1>n. CASE Next
  <2> SUFFICES ASSUME NEW t \in Types,
                      ThreadStep(t) \/ GetterStep(t) \/ OwnerStep(t) \/ SpuriousWakeup(t)
               PROVE  [Chan!Next]_<<made, item>>
    BY <1>n DEF Next
  <2>1. CASE GenPush(t)
    <3>1. pstop[t] # "freed" /\ Holds(pqueue[t], item[t], made[t])
      BY <2>1 DEF GenPush, Inv, Life, Order
    <3>2. Len(pqueue[t]) <= QueueMax
      BY <2>1 DEF GenPush, Room
    <3>3. made[t] - item[t] < QueueMax + 1
      BY <3>1, <3>2 DEF Holds, Inv, TypeOK
    <3> QED
      BY <2>1, <3>3 DEF GenPush, Chan!Next, Chan!Send
  <2>2. CASE GetPop(t)
    <3>1. CASE gsize[t] > 0
      <4>1. /\ pqueue[t] \in Seq(Nat) /\ item[t] \in Nat /\ made[t] \in Nat
            /\ Holds(pqueue[t], item[t], made[t])
            /\ Len(pqueue[t]) > 0
        BY <2>2, <3>1 DEF GetPop, Inv, TypeOK, Life, Order
      <4>2. item[t] < made[t] /\ Head(pqueue[t]) = item[t] + 1
        <5>1. item[t] < made[t]
          BY <4>1 DEF Holds
        <5> QED
          BY <4>1, <5>1, PopHolds
      <4>3. item' = [item EXCEPT ![t] = Head(pqueue[t])] /\ made' = made
        BY <2>2, <3>1 DEF GetPop
      <4>4. item' = [item EXCEPT ![t] = item[t] + 1]
        BY <4>2, <4>3
      <4> QED
        BY <4>2, <4>3, <4>4 DEF Chan!Next, Chan!Take
    <3>2. CASE ~(gsize[t] > 0)
      BY <2>2, <3>2 DEF GetPop
    <3> QED
      BY <3>1, <3>2
  <2>3. CASE ~GenPush(t) /\ ~GetPop(t)
    <3>1. CASE ThreadStep(t)
      BY <2>3, <3>1 DEF ThreadStep, LoopTest, GenEnter, GenWait, GenWake, GenFails
    <3>2. CASE GetterStep(t)
      BY <2>3, <3>2 DEF GetterStep, GetEnter, GetWait, GetWake
    <3>3. CASE OwnerStep(t)
      BY <3>3 DEF OwnerStep, StartAddData, StopFlag, StopNotify, StopJoin, ClearData
    <3>4. CASE SpuriousWakeup(t)
      BY <3>4 DEF SpuriousWakeup
    <3> QED
      BY <3>1, <3>2, <3>3, <3>4
  <2> QED
    BY <2>1, <2>2, <2>3
<1> QED
  BY <1>u, <1>n

(* A producer object is a lossless first-in first-out channel of capacity
   m_items_queue_max + 1 between its thread and the getter. *)
THEOREM Refinement == ~Spurious => (Spec => ImplementsChannel)
<1> SUFFICES ASSUME ~Spurious PROVE Spec => Chan!Spec
  BY DEF ImplementsChannel
<1> DEFINE Both == Inv /\ \A t \in Types : Room(t)
<1>1. Init => Chan!Init
  BY DEF Init, Chan!Init
<1>2. Both /\ [Next]_vars => [Chan!Next]_<<made, item>>
  BY ChannelStep
<1>3. Spec => []Both
  BY RoomInvariance
<1> HIDE DEF Both
<1> QED
  BY <1>1, <1>2, <1>3, PTL DEF Spec, Chan!Spec

=============================================================================
