--------------------------- MODULE PipelineProofs ---------------------------
(***************************************************************************)
(* What holds of the whole program for every set of types and every limit, *)
(* proved.  Each of its steps is a step the modules of the two queues      *)
(* allow, so what ProducerProofs proves of a producer object holds in the  *)
(* program; with it, the items are handed over one by one and in order.    *)
(***************************************************************************)
EXTENDS Pipeline, TLAPS

PP == INSTANCE ProducerProofs
FP == INSTANCE ConsumerFinProofs WITH Mids <- Types, MaxAdded <- MaxMade

(* The program's steps, seen from the producers' queues. *)
LEMMA ProducerStepOrStutter == [Next]_vars => [P!Next]_(P!vars)
<1> SUFFICES ASSUME [Next]_vars PROVE P!Next \/ UNCHANGED P!vars
  OBVIOUS
<1> USE DEF P!vars, prodVars, P!threadVars, P!getterVars, P!ownerVars
<1>u. CASE UNCHANGED vars
  BY <1>u DEF vars
<1>p. ASSUME NEW t \in Types, ProducerStep(t) PROVE P!Next
  BY <1>p DEF ProducerStep, P!Next
<1>m. ASSUME NEW t \in Types, MidStep(t) PROVE P!Next \/ UNCHANGED P!vars
  <2>1. CASE MidGet(t) \/ MidGot(t)
    BY <2>1 DEF MidGet, MidGot, P!Next, P!GetterStep
  <2>2. CASE MidLoop(t) \/ MidAdd(t) \/ MidAdded(t) \/ MidFails(t)
    BY <2>2 DEF MidLoop, MidAdd, MidAdded, MidFails
  <2> QED
    BY <1>m, <2>1, <2>2 DEF MidStep
<1>f. CASE FinStep \/ FindStopFile
  BY <1>f DEF FinStep, FindStopFile
<1>a. CASE MainStep
  <2>1. ASSUME NEW t \in Types, StartProducer(t) PROVE P!Next
    BY <2>1 DEF StartProducer, P!Next, P!OwnerStep
  <2>2. ASSUME NEW t \in Types, StopProducer(t) PROVE P!Next
    BY <2>2 DEF StopProducer, P!Next, P!OwnerStep
  <2>3. ASSUME NEW t \in Types, FreeProducer(t) PROVE P!Next
    BY <2>3 DEF FreeProducer, P!Next, P!OwnerStep
  <2>4. ASSUME NEW t \in Types, StartMid(t) \/ StopMid(t) PROVE UNCHANGED P!vars
    BY <2>4 DEF StartMid, StopMid
  <2>5. CASE StartFin \/ MidsStopped \/ StopFin \/ PrintQueue \/ FreeConsumers
    BY <2>5 DEF StartFin, MidsStopped, StopFin, PrintQueue, FreeConsumers
  <2> QED
    BY <1>a, <2>1, <2>2, <2>3, <2>4, <2>5 DEF MainStep
<1>s. CASE SpuriousWakeup
  BY <1>s DEF SpuriousWakeup, P!Next
<1> QED
  BY <1>u, <1>p, <1>m, <1>f, <1>a, <1>s DEF Next

(* The program's steps, seen from the final consumer's queue. *)
LEMMA FinStepOrStutter == [Next]_vars => [F!Next]_(F!vars)
<1> SUFFICES ASSUME [Next]_vars PROVE F!Next \/ UNCHANGED F!vars
  OBVIOUS
<1> USE DEF F!vars, finVars, F!finVars, F!adderVars, F!ownerVars
<1>u. CASE UNCHANGED vars
  BY <1>u DEF vars
<1>p. ASSUME NEW t \in Types, ProducerStep(t) PROVE UNCHANGED F!vars
  BY <1>p DEF ProducerStep
<1>m. ASSUME NEW t \in Types, MidStep(t) PROVE F!Next \/ UNCHANGED F!vars
  <2>1. CASE MidAdd(t) \/ MidAdded(t)
    BY <2>1 DEF MidAdd, MidAdded, F!Next, F!AdderStep
  <2>2. CASE MidFails(t)
    BY <2>2 DEF MidFails, F!Next, F!AdderStep
  <2>3. CASE MidLoop(t) \/ MidGet(t) \/ MidGot(t)
    BY <2>3 DEF MidLoop, MidGet, MidGot
  <2> QED
    BY <1>m, <2>1, <2>2, <2>3 DEF MidStep
<1>f. CASE FinStep
  BY <1>f DEF FinStep, F!Next
<1>a. CASE MainStep \/ FindStopFile
  <2>1. CASE StartFin
    BY <2>1 DEF StartFin, F!Next, F!OwnerStep
  <2>2. CASE StopFin
    BY <2>2 DEF StopFin, F!Next, F!OwnerStep
  <2>3. CASE PrintQueue
    BY <2>3 DEF PrintQueue, F!Next, F!OwnerStep
  <2>4. ASSUME NEW t \in Types,
               StartProducer(t) \/ StartMid(t) \/ StopProducer(t) \/ StopMid(t) \/ FreeProducer(t)
        PROVE  UNCHANGED F!vars
    BY <2>4 DEF StartProducer, StartMid, StopProducer, StopMid, FreeProducer
  <2>5. CASE MidsStopped \/ FreeConsumers \/ FindStopFile
    BY <2>5 DEF MidsStopped, FreeConsumers, FindStopFile
  <2> QED
    BY <1>a, <2>1, <2>2, <2>3, <2>4, <2>5 DEF MainStep
<1>s. CASE SpuriousWakeup
  BY <1>s DEF SpuriousWakeup, F!Next
<1> QED
  BY <1>u, <1>p, <1>m, <1>f, <1>a, <1>s DEF Next

-----------------------------------------------------------------------------
(* ProducerProofs speaks of the same steps. *)
LEMMA SameProducer ==
    /\ P!Init <=> PP!Init
    /\ [P!Next]_(P!vars) <=> [PP!Next]_(PP!vars)
<1>1. P!Init <=> PP!Init
  BY DEF P!Init, PP!Init
<1> USE DEF P!vars, PP!vars, P!threadVars, PP!threadVars, P!getterVars, PP!getterVars,
            P!ownerVars, PP!ownerVars, P!Full, PP!Full, P!NotifyOne, PP!NotifyOne,
            P!NotifyOneIf, PP!NotifyOneIf
<1>2. UNCHANGED P!vars <=> UNCHANGED PP!vars
  OBVIOUS
<1>3. ASSUME NEW t \in Types
      PROVE  P!ThreadStep(t) <=> PP!ThreadStep(t)
  BY DEF P!ThreadStep, PP!ThreadStep, P!LoopTest, PP!LoopTest, P!GenEnter, PP!GenEnter,
         P!GenWait, PP!GenWait, P!GenWake, PP!GenWake, P!GenPush, PP!GenPush,
         P!GenFails, PP!GenFails
<1>4. ASSUME NEW t \in Types
      PROVE  P!GetterStep(t) <=> PP!GetterStep(t)
  BY DEF P!GetterStep, PP!GetterStep, P!GetEnter, PP!GetEnter, P!GetWait, PP!GetWait,
         P!GetWake, PP!GetWake, P!GetPop, PP!GetPop
<1>5. ASSUME NEW t \in Types
      PROVE  P!OwnerStep(t) <=> PP!OwnerStep(t)
  BY DEF P!OwnerStep, PP!OwnerStep, P!StartAddData, PP!StartAddData, P!StopFlag,
         PP!StopFlag, P!StopNotify, PP!StopNotify, P!StopJoin, PP!StopJoin,
         P!ClearData, PP!ClearData
<1>6. ASSUME NEW t \in Types
      PROVE  P!SpuriousWakeup(t) <=> PP!SpuriousWakeup(t)
  BY DEF P!SpuriousWakeup, PP!SpuriousWakeup
<1>7. P!Next <=> PP!Next
  BY <1>3, <1>4, <1>5, <1>6 DEF P!Next, PP!Next
<1> QED
  BY <1>1, <1>2, <1>7

(* A producer object's invariant holds in the program. *)
LEMMA ProducerInvariant == Spec => []PP!Inv
<1>1. PP!ProducerAssumption
  BY PipelineAssumption DEF P!ProducerAssumption, PP!ProducerAssumption
<1>2. PP!Spec => []PP!Inv
  BY <1>1, PP!Invariance
<1>3. Init => PP!Init
  BY SameProducer DEF Init
<1>4. [Next]_vars => [PP!Next]_(PP!vars)
  BY SameProducer, ProducerStepOrStutter
<1> QED
  BY <1>2, <1>3, <1>4, PTL DEF Spec, PP!Spec

-----------------------------------------------------------------------------
(* main() has joined what it has stopped. *)
Joined ==
    /\ \A t \in Types : pstop[t] = "joined" => ppc[t] = "done"
    /\ main \in {"stopMids", "stopFin", "print", "freeConsumers", "freeProducers", "end"} =>
          \A t \in Types : ppc[t] = "done"
    /\ main \in {"stopFin", "print", "freeConsumers", "freeProducers", "end"} =>
          \A t \in Types : mid[t] = "done"
    /\ main \in {"print", "freeConsumers", "freeProducers", "end"} => fpc = "done"

(* A thread that has ended takes no step, and is not started again. *)
LEMMA JoinedStep == PP!Inv /\ Joined /\ [Next]_vars => Joined'
<1> SUFFICES ASSUME PP!Inv, Joined, [Next]_vars PROVE Joined'
  OBVIOUS
<1> USE DEF vars, prodVars, finVars
<1>0. /\ ppc = [t \in Types |-> ppc[t]] /\ pstop = [t \in Types |-> pstop[t]]
  BY DEF PP!Inv, PP!TypeOK
<1>u. CASE UNCHANGED vars
  BY <1>u DEF Joined
<1>p. ASSUME NEW t \in Types, ProducerStep(t) PROVE Joined'
  <2>1. ppc[t] # "done" /\ pstop' = pstop /\ \A u \in Types \ {t} : ppc'[u] = ppc[u]
    BY <1>0, <1>p DEF ProducerStep, P!ThreadStep, P!LoopTest, P!GenEnter, P!GenWait,
       P!GenWake, P!GenPush, P!GenFails, P!ownerVars
  <2> QED
    BY <1>p, <2>1 DEF ProducerStep, Joined
<1>m. ASSUME NEW t \in Types, MidStep(t) PROVE Joined'
  <2>1. /\ mid[t] # "done" /\ main' = main
        /\ ppc' = ppc /\ pstop' = pstop /\ fpc' = fpc
    BY <1>m DEF MidStep, MidLoop, MidGet, MidGot, MidAdd, MidAdded, MidFails, P!GetEnter,
       P!GetWait, P!GetWake, P!GetPop, P!threadVars, P!ownerVars, F!AddEnter, F!AddWait,
       F!AddWake, F!AddPush, F!AddLog, F!AddFails, F!finVars
  <2> QED
    BY <2>1 DEF Joined
<1>f. CASE FinStep
  <2>1. /\ fpc # "done" /\ main' = main /\ mid' = mid /\ ppc' = ppc /\ pstop' = pstop
    BY <1>f DEF FinStep, F!FinStep, F!FinLoop, F!FinEnter, F!FinWait, F!FinWake, F!FinPop,
       F!FinWrite
  <2> QED
    BY <2>1 DEF Joined
<1>b. CASE FindStopFile
  BY <1>b DEF FindStopFile, Joined
<1>s. CASE SpuriousWakeup
  <2>1. UNCHANGED <<ppc, pstop, mid, main, fpc>>
    BY <1>s DEF SpuriousWakeup, P!SpuriousWakeup, F!SpuriousWakeup, P!threadVars, P!ownerVars,
       F!finVars
  <2> QED
    BY <2>1 DEF Joined
<1>a. CASE MainStep
  <2>1. ASSUME NEW t \in Types, StartProducer(t) PROVE Joined'
    <3>1. /\ main = "startProducers" /\ main' \in {"startProducers", "startMids"}
          /\ pstop[t] = "no" /\ pstop' = pstop /\ \A u \in Types \ {t} : ppc'[u] = ppc[u]
      BY <1>0, <2>1 DEF StartProducer, P!StartAddData
    <3> QED
      BY <3>1 DEF Joined
  <2>2. ASSUME NEW t \in Types, StopProducer(t) PROVE Joined'
    <3>1. /\ main = "stopProducers" /\ ppc' = ppc
          /\ main' # main => main' = "stopMids"
      BY <2>2 DEF StopProducer, P!StopFlag, P!StopNotify, P!StopJoin, P!threadVars
    <3>2. \A u \in Types : pstop'[u] = "joined" => ppc[u] = "done"
      BY <1>0, <2>2 DEF StopProducer, P!StopFlag, P!StopNotify, P!StopJoin, Joined
    <3>3. main' # main => \A u \in Types : ppc[u] = "done"
      BY <2>2 DEF StopProducer, P!StopJoin, Joined
    <3> QED
      BY <3>1, <3>2, <3>3 DEF Joined
  <2>3. ASSUME NEW t \in Types, FreeProducer(t) PROVE Joined'
    <3>1. /\ main = "freeProducers" /\ main' \in {"freeProducers", "end"}
          /\ UNCHANGED <<ppc, mid, fpc>>
          /\ \A u \in Types : pstop'[u] = "joined" => pstop[u] = "joined"
      BY <1>0, <2>3 DEF FreeProducer, P!ClearData, P!threadVars
    <3> QED
      BY <3>1 DEF Joined
  <2>4. ASSUME NEW t \in Types, StartMid(t) \/ StopMid(t) PROVE Joined'
    BY <2>4 DEF StartMid, StopMid, Joined
  <2>5. CASE StartFin
    BY <2>5 DEF StartFin, Joined
  <2>6. CASE MidsStopped \/ FreeConsumers
    BY <2>6 DEF MidsStopped, FreeConsumers, Joined
  <2>7. CASE StopFin
    BY <2>7 DEF StopFin, F!StopFlag, F!StopJoin, F!finVars, Joined
  <2>8. CASE PrintQueue
    BY <2>8 DEF PrintQueue, F!PrintQueue, F!finVars, Joined
  <2> QED
    BY <1>a, <2>1, <2>2, <2>3, <2>4, <2>5, <2>6, <2>7, <2>8 DEF MainStep
<1> QED
  BY <1>u, <1>p, <1>m, <1>f, <1>b, <1>s, <1>a DEF Next

(* So it always has. *)
LEMMA JoinedInvariant == Spec => []Joined
<1>1. Init => Joined
  BY DEF Init, P!Init, Joined
<1> QED
  BY <1>1, JoinedStep, ProducerInvariant, PTL DEF Spec

(* Whatever the number of types, main() destroys no queue that a thread can
   still use: every thread it stops is joined first. *)
THEOREM NoneOutlives == Spec => []NoThreadOutlivesItsObjects
<1>1. Joined => NoThreadOutlivesItsObjects
  BY DEF Joined, NoThreadOutlivesItsObjects
<1> QED
  BY <1>1, JoinedInvariant, PTL

-----------------------------------------------------------------------------
(* Where an intermediate consumer stands tells which call it is in, and how
   many items it has taken and not yet added. *)
Carries(t) ==
    /\ mid[t] # "get" => get[t] = "idle"
    /\ mid[t] # "add" => add[t] \in {"idle", "gone"}
    /\ add[t] = "gone" => mid[t] = "done"
    /\ main \in {"startProducers", "startMids"} /\ ~mrun[t] => mid[t] = "none"
    /\ \/ item[t] = added[t] + Holding(t)
       \/ Failures /\ mid[t] = "done" /\ item[t] = added[t] + 1

Hands ==
    /\ mid \in [Types -> {"none", "loop", "get", "add", "done"}]
    /\ mrun \in [Types -> BOOLEAN]
    /\ add \in [Types -> {"idle", "wait", "blocked", "push", "log", "gone"}]
    /\ added \in [Types -> Nat]
    /\ \A t \in Types : Carries(t)

(* Nothing but a consumer's own steps and its start concern what it carries. *)
LEMMA CarriesOn ==
    ASSUME Hands, UNCHANGED <<mid, mrun, add, added, item, get>>,
           main' \in {"startProducers", "startMids"} => main \in {"startProducers", "startMids"}
    PROVE  Hands'
BY DEF Hands, Carries, Holding

(* getProducerItem hands out the next item or none. *)
LEMMA NextItem ==
    ASSUME PP!Inv, NEW t \in Types, P!GetPop(t)
    PROVE  /\ item[t] \in Nat
           /\ item' = [item EXCEPT ![t] = IF res'[t] THEN item[t] + 1 ELSE item[t]]
<1>1. /\ Len(pqueue[t]) >= gsize[t] /\ gsize[t] \in Nat /\ pstop[t] # "freed"
      /\ pqueue[t] \in Seq(1..MaxMade) /\ item \in [Types -> 0..MaxMade] /\ get[t] = "pop"
      /\ made \in [Types -> 0..MaxMade] /\ res \in [Types -> BOOLEAN]
  BY DEF PP!Inv, PP!Order, PP!Life, PP!TypeOK, P!GetPop
<1>2. \A i \in 1..Len(pqueue[t]) : pqueue[t][i] = item[t] + i
  BY <1>1 DEF PP!Inv, PP!Order, PP!Holds
<1>r. res'[t] <=> gsize[t] > 0
  BY <1>1 DEF P!GetPop
<1>3. CASE gsize[t] > 0
  <2>1. Head(pqueue[t]) = item[t] + 1
    BY <1>1, <1>2, <1>3
  <2>2. item' = [item EXCEPT ![t] = Head(pqueue[t])]
    BY <1>3 DEF P!GetPop
  <2>3. item' = [item EXCEPT ![t] = item[t] + 1]
    BY <2>1, <2>2
  <2>4. res'[t] /\ item[t] \in Nat
    BY <1>1, <1>r, <1>3
  <2> QED
    BY <2>3, <2>4
<1>4. CASE ~(gsize[t] > 0)
  <2>1. item' = item
    BY <1>4 DEF P!GetPop
  <2>2. item = [item EXCEPT ![t] = item[t]]
    BY <1>1
  <2>3. ~res'[t] /\ item[t] \in Nat
    BY <1>1, <1>r, <1>4
  <2> QED
    BY <2>1, <2>2, <2>3
<1> QED
  BY <1>3, <1>4

(* And so the other steps of the program. *)
LEMMA HandsStep == PP!Inv /\ Hands /\ [Next]_vars => Hands'
<1> SUFFICES ASSUME PP!Inv, Hands, [Next]_vars PROVE Hands'
  OBVIOUS
<1> USE DEF prodVars, finVars
<1>u. CASE UNCHANGED vars
  BY <1>u, CarriesOn DEF vars
<1>p. ASSUME NEW t \in Types, ProducerStep(t) PROVE Hands'
  BY <1>p, CarriesOn DEF ProducerStep, P!ThreadStep, P!LoopTest, P!GenEnter, P!GenWait,
     P!GenWake, P!GenPush, P!GenFails, P!getterVars
<1>f. CASE FinStep
  BY <1>f, CarriesOn DEF FinStep, F!FinStep, F!FinLoop, F!FinEnter, F!FinWait, F!FinWake,
     F!FinPop, F!FinWrite, F!adderVars
<1>b. CASE FindStopFile
  BY <1>b, CarriesOn DEF FindStopFile
<1>s. CASE SpuriousWakeup
  BY <1>s, CarriesOn DEF SpuriousWakeup, P!SpuriousWakeup, F!SpuriousWakeup, P!getterVars,
     F!adderVars
<1>m. ASSUME NEW t \in Types, MidStep(t) PROVE Hands'
  <2> USE DEF Hands, Carries, Holding
  <2>0. item \in [Types -> Nat] /\ get \in [Types -> {"idle", "wait", "blocked", "pop"}]
    BY DEF PP!Inv, PP!TypeOK
  <2>1. CASE MidLoop(t)
    BY <2>0, <2>1 DEF MidLoop
  <2>2. CASE MidGet(t)
    BY <2>0, <2>2 DEF MidGet, P!GetEnter, P!GetWait, P!GetWake
  <2>3. CASE MidGot(t)
    <3>1. /\ item' = [item EXCEPT ![t] = IF res'[t] THEN item[t] + 1 ELSE item[t]]
          /\ get' = [get EXCEPT ![t] = "idle"]
          /\ mid' = [mid EXCEPT ![t] = IF res'[t] THEN "add" ELSE "loop"]
          /\ mid[t] = "get" /\ UNCHANGED <<add, added, mrun, main>>
      BY <2>3, NextItem DEF MidGot, P!GetPop
    <3>2. /\ add[t] = "idle" /\ added[t] \in Nat /\ item[t] \in Nat
          /\ item[t] = added[t]
      BY <2>0, <3>1
    <3>3. CASE res'[t]
      BY <2>0, <3>1, <3>2, <3>3
    <3>4. CASE ~res'[t]
      BY <2>0, <3>1, <3>2, <3>4
    <3> QED
      BY <3>3, <3>4
  <2>4. CASE MidAdd(t)
    <3>1. CASE F!AddEnter(t)
      BY <2>0, <2>4, <3>1 DEF MidAdd, F!AddEnter
    <3>2. CASE F!AddWait(t) \/ F!AddWake(t)
      BY <2>0, <2>4, <3>2 DEF MidAdd, F!AddWait, F!AddWake
    <3>3. CASE F!AddPush(t)
      BY <2>0, <2>4, <3>3 DEF MidAdd, F!AddPush
    <3> QED
      BY <2>4, <3>1, <3>2, <3>3 DEF MidAdd
  <2>5. CASE MidAdded(t)
    BY <2>0, <2>5 DEF MidAdded, F!AddLog
  <2>6. CASE MidFails(t)
    BY <2>0, <2>6 DEF MidFails, F!AddFails
  <2> QED
    BY <1>m, <2>1, <2>2, <2>3, <2>4, <2>5, <2>6 DEF MidStep
<1>a. CASE MainStep
  <2>1. ASSUME NEW t \in Types, StartProducer(t) \/ StopProducer(t) \/ FreeProducer(t)
        PROVE  Hands'
    BY <2>1, CarriesOn DEF StartProducer, StopProducer, FreeProducer, P!StartAddData,
       P!StopFlag, P!StopNotify, P!StopJoin, P!ClearData, P!getterVars
  <2>2. ASSUME NEW t \in Types, StartMid(t) PROVE Hands'
    <3>1. mid[t] = "none"
      BY <2>2 DEF StartMid, Hands, Carries
    <3> QED
      BY <2>2, <3>1 DEF StartMid, Hands, Carries, Holding
  <2>3. ASSUME NEW t \in Types, StopMid(t) PROVE Hands'
    BY <2>3 DEF StopMid, Hands, Carries, Holding
  <2>4. CASE StartFin \/ MidsStopped \/ StopFin \/ PrintQueue \/ FreeConsumers
    BY <2>4, CarriesOn DEF StartFin, MidsStopped, StopFin, PrintQueue, FreeConsumers,
       F!StartReaderProcessor, F!StopFlag, F!StopJoin, F!PrintQueue, F!adderVars
  <2> QED
    BY <1>a, <2>1, <2>2, <2>3, <2>4 DEF MainStep
<1> QED
  BY <1>u, <1>p, <1>f, <1>b, <1>s, <1>m, <1>a DEF Next

(* That is so in every state. *)
LEMMA HandsInvariant == Spec => []Hands
<1>1. Init => Hands
  BY DEF Init, P!Init, F!Init, Hands, Carries, Holding
<1> QED
  BY <1>1, HandsStep, ProducerInvariant, PTL DEF Spec

(* For every set of types and every limit, an intermediate consumer adds to
   the final consumer's queue the items it takes from its producer, each once
   and in order. *)
THEOREM HandsOver == Spec => []HandOver
<1>1. Hands => HandOver
  BY DEF Hands, Carries, HandOver
<1> QED
  BY <1>1, HandsInvariant, PTL

-----------------------------------------------------------------------------
(* And of the same sizes of sets: each instance has its own Cardinality. *)
LEMMA SameSizes ==
    ASSUME NEW S
    PROVE  /\ F!IsFiniteSet(S) <=> FP!IsFiniteSet(S)
           /\ F!Cardinality(S) = FP!Cardinality(S)
<1>1. F!IsFiniteSet(S) <=> FP!IsFiniteSet(S)
  BY DEF F!IsFiniteSet, FP!IsFiniteSet
<1>2. F!Cardinality(S) = FP!Cardinality(S)
  BY DEF F!Cardinality, FP!Cardinality
<1> QED
  BY <1>1, <1>2

(* ConsumerFinProofs speaks of the same steps as the final consumer's module. *)
LEMMA SameFin ==
    /\ F!Init <=> FP!Init
    /\ [F!Next]_(F!vars) <=> [FP!Next]_(FP!vars)
<1>1. F!Init <=> FP!Init
  BY DEF F!Init, FP!Init
<1> USE DEF F!vars, FP!vars, F!finVars, FP!finVars, F!adderVars, FP!adderVars,
            F!ownerVars, FP!ownerVars, F!Full, FP!Full, F!NotifyOne, FP!NotifyOne,
            F!NotifyOneIf, FP!NotifyOneIf, F!Committed, FP!Committed
<1>2. UNCHANGED F!vars <=> UNCHANGED FP!vars
  OBVIOUS
<1>3. ASSUME NEW t \in Types
      PROVE  F!AdderStep(t) <=> FP!AdderStep(t)
  BY DEF F!AdderStep, FP!AdderStep, F!AddEnter, FP!AddEnter, F!AddWait, FP!AddWait,
         F!AddWake, FP!AddWake, F!AddPush, FP!AddPush, F!AddLog, FP!AddLog,
         F!AddFails, FP!AddFails
<1>4. F!FinStep <=> FP!FinStep
  BY DEF F!FinStep, FP!FinStep, F!FinLoop, FP!FinLoop, F!FinEnter, FP!FinEnter,
         F!FinWait, FP!FinWait, F!FinWake, FP!FinWake, F!FinPop, FP!FinPop,
         F!FinWrite, FP!FinWrite
<1>5. F!OwnerStep <=> FP!OwnerStep
  <2>1. F!Cardinality(F!Committed) = FP!Cardinality(FP!Committed)
    BY SameSizes
  <2> HIDE DEF F!Committed, FP!Committed
  <2> QED
    BY <2>1
       DEF F!OwnerStep, FP!OwnerStep, F!StartReaderProcessor, FP!StartReaderProcessor,
           F!StopFlag, FP!StopFlag, F!StopJoin, FP!StopJoin, F!PrintQueue, FP!PrintQueue
<1>6. F!SpuriousWakeup <=> FP!SpuriousWakeup
  BY DEF F!SpuriousWakeup, FP!SpuriousWakeup
<1>7. F!Next <=> FP!Next
  BY <1>3, <1>4, <1>5, <1>6 DEF F!Next, FP!Next
<1> QED
  BY <1>1, <1>2, <1>7

(* In the program, too, the final consumer keeps the order of the items. *)
LEMMA FinInOrder == Spec => [](FP!Inv /\ FP!LinesInOrder)
<1>1. FP!ConsumerFinAssumption
  BY PipelineAssumption, SameSizes DEF F!ConsumerFinAssumption, FP!ConsumerFinAssumption
<1>2. FP!Spec => []FP!Inv /\ []FP!LinesInOrder
  BY <1>1, FP!Invariance, FP!InOrder
<1>3. Init => FP!Init
  BY SameFin DEF Init
<1>4. [Next]_vars => [FP!Next]_(FP!vars)
  BY SameFin, FinStepOrStutter
<1> QED
  BY <1>2, <1>3, <1>4, PTL DEF Spec, FP!Spec

(* Whatever the number of types, nobody is left in a mutex, a condition
   variable or a call of what main() destroys, not even a thread that failed. *)
THEOREM NothingInUse == Spec => []NothingDestroyedInUse
<1>1. PP!Inv /\ FP!Inv /\ Joined /\ Hands => NothingDestroyedInUse
  <2> SUFFICES ASSUME PP!Inv, FP!Inv, Joined, Hands,
                      main \in {"print", "freeConsumers", "freeProducers", "end"}
               PROVE  /\ fmutex = Nobody /\ fcv = {}
                      /\ \A t \in Types : /\ pmutex[t] = "none" /\ pcv[t] = {}
                                          /\ get[t] = "idle" /\ add[t] \in {"idle", "gone"}
    BY DEF NothingDestroyedInUse
  <2>1. fpc = "done" /\ \A t \in Types : ppc[t] = "done" /\ mid[t] = "done"
    BY DEF Joined
  <2>2. \A t \in Types : get[t] = "idle" /\ add[t] \in {"idle", "gone"}
    BY <2>1 DEF Hands, Carries
  <2>3. fmutex = Nobody /\ fcv = {}
    BY <2>1, <2>2 DEF FP!Inv, FP!TypeOK, FP!Locks, FP!Waits
  <2>4. ASSUME NEW t \in Types PROVE pmutex[t] = "none" /\ pcv[t] = {}
    <3>1. pmutex[t] \in {"none", "producer", "mid"} /\ pcv[t] \subseteq {"producer", "mid"}
      BY DEF PP!Inv, PP!TypeOK
    <3>2. /\ pmutex[t] = "producer" <=> ppc[t] \in {"wait", "push"}
          /\ pmutex[t] = "mid" <=> get[t] \in {"wait", "pop"}
          /\ "producer" \in pcv[t] => ppc[t] = "blocked"
          /\ "mid" \in pcv[t] => get[t] = "blocked"
      BY DEF PP!Inv, PP!Locks, PP!Waits
    <3> QED
      BY <2>1, <2>2, <3>1, <3>2
  <2> QED
    BY <2>2, <2>3, <2>4
<1> QED
  BY <1>1, ProducerInvariant, FinInOrder, JoinedInvariant, HandsInvariant, PTL

(* For every set of types and all limits, no item is lost between a producer
   and the file before main() drops the rest, but the one in the hand of a
   thread that fails. *)
THEOREM NothingLost == Spec => []EveryItemIsSomewhere
<1>1. PP!Inv /\ HandOver /\ FP!Inv /\ FP!LinesInOrder => EveryItemIsSomewhere
  <2> SUFFICES ASSUME PP!Inv, HandOver, FP!Inv, FP!LinesInOrder, NEW t \in Types,
                      pstop[t] # "freed", fstop # "printed"
               PROVE  LET onItsWay == Len(pqueue[t]) + Holding(t) + F!Rank(t, Len(fqueue))
                      IN  \/ made[t] = onItsWay + F!Popped(t)
                          \/ /\ Failures /\ mid[t] = "done"
                             /\ made[t] = onItsWay + F!Popped(t) + 1
    BY DEF EveryItemIsSomewhere
  <2>1. /\ made[t] = Len(pqueue[t]) + item[t] /\ Len(pqueue[t]) \in Nat
        /\ made[t] \in Nat /\ item[t] \in Nat
    BY DEF PP!Inv, PP!TypeOK, PP!Order, PP!Holds
  <2>2. added[t] = F!Popped(t) + F!Rank(t, Len(fqueue))
    <3>1. added[t] = FP!Popped(t) + FP!Rank(t, Len(fqueue))
      BY DEF FP!LinesInOrder
    <3>2. FP!Rank(t, Len(fqueue)) = F!Rank(t, Len(fqueue))
      BY SameSizes DEF FP!Rank, F!Rank
    <3> QED
      BY <3>1, <3>2 DEF F!Popped, FP!Popped
  <2>3. Holding(t) \in Nat /\ added[t] \in Nat
    BY DEF Holding, FP!Inv, FP!TypeOK
  <2>4. F!Popped(t) \in Nat
    BY DEF F!Popped, FP!Inv, FP!TypeOK, FP!Items
  <2>5. F!Rank(t, Len(fqueue)) \in Nat
    <3>1. Len(fqueue) \in Nat /\ FP!ConsumerFinAssumption
      BY PipelineAssumption, SameSizes
         DEF FP!Inv, FP!TypeOK, F!ConsumerFinAssumption, FP!ConsumerFinAssumption
    <3>2. FP!CountIn(fqueue, t, Len(fqueue)) \in Nat
      BY <3>1, FP!CountType
    <3> QED
      BY <3>2, SameSizes DEF F!Rank, FP!CountIn
  <2> HIDE DEF F!Rank, F!Popped
  <2>6. CASE item[t] = added[t] + Holding(t)
    BY <2>1, <2>2, <2>3, <2>4, <2>5, <2>6
  <2>7. CASE Failures /\ mid[t] = "done" /\ item[t] = added[t] + 1
    <3>1. Holding(t) = 0
      BY <2>7 DEF Holding
    <3> QED
      BY <2>1, <2>2, <2>4, <2>5, <2>7, <3>1
  <2> QED
    BY <2>6, <2>7 DEF HandOver
<1> QED
  BY <1>1, ProducerInvariant, HandsOver, FinInOrder, PTL
=============================================================================
