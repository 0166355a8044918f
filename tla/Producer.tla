------------------------------ MODULE Producer ------------------------------
(***************************************************************************)
(* CSMProducerBase: one object per producer type.  Each object owns a      *)
(* bounded queue, the mutex and the single condition variable that guard   *)
(* it, and a thread that fills it.  Three threads meet at an object:       *)
(*                                                                         *)
(*   "producer"  the object's own thread: threadFunc, genProducerItem      *)
(*   "mid"       the intermediate consumer calling getProducerItem         *)
(*   the owner   whoever calls startAddData and stopAddData, which touch   *)
(*               m_run_thread and m_cv_queue WITHOUT m_mtx_queue           *)
(*                                                                         *)
(* Items are numbered 1, 2, ... in the order they are pushed; what an item *)
(* contains does not influence the queue.                                  *)
(***************************************************************************)
EXTENDS Naturals, Sequences, Monitor

CONSTANTS
    Types,       (* the producer objects, one per ProducerType             *)
    QueueMax,    (* m_items_queue_max                                      *)
    MaxMade,     (* bound of the model: items each producer pushes         *)
    Spurious,    (* may wait() return without a notification?              *)
    Failures     (* may the thread function catch an exception and end?    *)

ASSUME ProducerAssumption ==
    /\ QueueMax \in Nat \ {0}
    /\ MaxMade \in Nat
    /\ Spurious \in BOOLEAN
    /\ Failures \in BOOLEAN

VARIABLES
    pqueue,   (* m_items_queue                                             *)
    pmutex,   (* the thread that owns m_mtx_queue, or "none"               *)
    pcv,      (* the threads blocked in m_cv_queue.wait                    *)
    prun,     (* m_run_thread                                              *)
    ppc,      (* where the producer's thread stands                        *)
    psize,    (* src_size of genProducerItem                               *)
    made,     (* how many items have been pushed                           *)
    get,      (* where the call of getProducerItem stands                  *)
    gsize,    (* src_size of getProducerItem                               *)
    item,     (* the last item getProducerItem handed out, 0 before that   *)
    res,      (* what the last getProducerItem returned                    *)
    pstop     (* how far stopAddData and the destructor got                *)

threadVars == <<ppc, psize, made>>
getterVars == <<get, gsize, item, res>>
ownerVars == <<prun, pstop>>
vars == <<pqueue, pmutex, pcv, threadVars, getterVars, ownerVars>>

Init ==
    /\ pqueue = [t \in Types |-> <<>>]
    /\ pmutex = [t \in Types |-> "none"]
    /\ pcv = [t \in Types |-> {}]
    /\ prun = [t \in Types |-> FALSE]
    /\ ppc = [t \in Types |-> "none"]
    /\ psize = [t \in Types |-> 0]
    /\ made = [t \in Types |-> 0]
    /\ get = [t \in Types |-> "idle"]
    /\ gsize = [t \in Types |-> 0]
    /\ item = [t \in Types |-> 0]
    /\ res = [t \in Types |-> FALSE]
    /\ pstop = [t \in Types |-> "no"]

(* The limit tested with > for >=. *)
FullMutant(size) == size > QueueMax

Full(size) == size >= QueueMax

-----------------------------------------------------------------------------
(* The producer's thread. *)

(* A loop that never looks at m_run_thread again. *)
LoopTestMutant(t) ==
    /\ ppc[t] = "loop"
    /\ prun[t] => made[t] < MaxMade
    /\ ppc' = [ppc EXCEPT ![t] = "gen"]
    /\ UNCHANGED <<pqueue, pmutex, pcv, psize, made, getterVars, ownerVars>>

(* The loop test, after the usleep.  The thread may sleep for good once it
   has pushed MaxMade items, but never past a stop. *)
LoopTest(t) ==
    /\ ppc[t] = "loop"
    /\ prun[t] => made[t] < MaxMade
    /\ ppc' = [ppc EXCEPT ![t] = IF prun[t] THEN "gen" ELSE "done"]
    /\ UNCHANGED <<pqueue, pmutex, pcv, psize, made, getterVars, ownerVars>>

(* Lock, read the size once, decide whether to wait. *)
GenEnter(t) ==
    /\ ppc[t] = "gen"
    /\ pmutex[t] = "none"
    /\ pmutex' = [pmutex EXCEPT ![t] = "producer"]
    /\ psize' = [psize EXCEPT ![t] = Len(pqueue[t])]
    /\ ppc' = [ppc EXCEPT ![t] =
                 IF prun[t] /\ Full(Len(pqueue[t])) THEN "wait" ELSE "push"]
    /\ UNCHANGED <<pqueue, pcv, made, getterVars, ownerVars>>

(* wait() releases the mutex and blocks in one step.  Between the decision
   above and this step the owner can change prun and notify. *)
GenWait(t) ==
    /\ ppc[t] = "wait"
    /\ pmutex' = [pmutex EXCEPT ![t] = "none"]
    /\ pcv' = [pcv EXCEPT ![t] = @ \cup {"producer"}]
    /\ ppc' = [ppc EXCEPT ![t] = "blocked"]
    /\ UNCHANGED <<pqueue, psize, made, getterVars, ownerVars>>

GenWake(t) ==
    /\ ppc[t] = "blocked"
    /\ "producer" \notin pcv[t]
    /\ pmutex[t] = "none"
    /\ pmutex' = [pmutex EXCEPT ![t] = "producer"]
    /\ ppc' = [ppc EXCEPT ![t] = "push"]
    /\ UNCHANGED <<pqueue, pcv, psize, made, getterVars, ownerVars>>

(* A push that never notifies. *)
GenPushMutant(t) ==
    /\ ppc[t] = "push"
    /\ made' = [made EXCEPT ![t] = @ + 1]
    /\ pqueue' = [pqueue EXCEPT ![t] = Append(@, made[t] + 1)]
    /\ pmutex' = [pmutex EXCEPT ![t] = "none"]
    /\ ppc' = [ppc EXCEPT ![t] = "loop"]
    /\ UNCHANGED <<pcv, psize, getterVars, ownerVars>>

(* After the wait neither the size nor the flag is looked at again: the item
   is pushed, and the getter is notified only if the size read BEFORE the
   wait was zero. *)
GenPush(t) ==
    /\ ppc[t] = "push"
    /\ made' = [made EXCEPT ![t] = @ + 1]
    /\ pqueue' = [pqueue EXCEPT ![t] = Append(@, made[t] + 1)]
    /\ \E blocked \in NotifyOneIf(psize[t] = 0, pcv[t]) :
          pcv' = [pcv EXCEPT ![t] = blocked]
    /\ pmutex' = [pmutex EXCEPT ![t] = "none"]
    /\ ppc' = [ppc EXCEPT ![t] = "loop"]
    /\ UNCHANGED <<psize, getterVars, ownerVars>>

(* An exception (a failed allocation, say) leaves genProducerItem, unlocking
   on its way; threadFunc catches it and ends, m_run_thread stays set. *)
GenFails(t) ==
    /\ Failures
    /\ ppc[t] \in {"gen", "push"}
    /\ pmutex' = [pmutex EXCEPT ![t] = IF @ = "producer" THEN "none" ELSE @]
    /\ ppc' = [ppc EXCEPT ![t] = "done"]
    /\ UNCHANGED <<pqueue, pcv, psize, made, getterVars, ownerVars>>

-----------------------------------------------------------------------------
(* getProducerItem, called by the intermediate consumer's thread. *)

GetEnter(t) ==
    /\ get[t] = "idle"
    /\ pstop[t] # "freed"
    /\ pmutex[t] = "none"
    /\ pmutex' = [pmutex EXCEPT ![t] = "mid"]
    /\ gsize' = [gsize EXCEPT ![t] = Len(pqueue[t])]
    /\ get' = [get EXCEPT ![t] =
                 IF prun[t] /\ pqueue[t] = <<>> THEN "wait" ELSE "pop"]
    /\ UNCHANGED <<pqueue, pcv, item, res, threadVars, ownerVars>>

GetWait(t) ==
    /\ get[t] = "wait"
    /\ pmutex' = [pmutex EXCEPT ![t] = "none"]
    /\ pcv' = [pcv EXCEPT ![t] = @ \cup {"mid"}]
    /\ get' = [get EXCEPT ![t] = "blocked"]
    /\ UNCHANGED <<pqueue, gsize, item, res, threadVars, ownerVars>>

GetWake(t) ==
    /\ get[t] = "blocked"
    /\ "mid" \notin pcv[t]
    /\ pmutex[t] = "none"
    /\ pmutex' = [pmutex EXCEPT ![t] = "mid"]
    /\ get' = [get EXCEPT ![t] = "pop"]
    /\ UNCHANGED <<pqueue, pcv, gsize, item, res, threadVars, ownerVars>>

(* A pop from the wrong end of the queue. *)
GetPopMutant(t) ==
    /\ get[t] = "pop"
    /\ res' = [res EXCEPT ![t] = gsize[t] > 0]
    /\ IF gsize[t] > 0
       THEN /\ item' = [item EXCEPT ![t] = pqueue[t][Len(pqueue[t])]]
            /\ pqueue' = [pqueue EXCEPT ![t] = SubSeq(@, 1, Len(@) - 1)]
       ELSE UNCHANGED <<item, pqueue>>
    /\ \E blocked \in NotifyOneIf(Full(gsize[t]), pcv[t]) :
          pcv' = [pcv EXCEPT ![t] = blocked]
    /\ pmutex' = [pmutex EXCEPT ![t] = "none"]
    /\ get' = [get EXCEPT ![t] = "idle"]
    /\ UNCHANGED <<gsize, threadVars, ownerVars>>

(* The size read before the wait decides both whether an item is taken and
   whether the producer is notified: a call that waited returns empty-handed. *)
GetPop(t) ==
    /\ get[t] = "pop"
    /\ res' = [res EXCEPT ![t] = gsize[t] > 0]
    /\ IF gsize[t] > 0
       THEN /\ item' = [item EXCEPT ![t] = Head(pqueue[t])]
            /\ pqueue' = [pqueue EXCEPT ![t] = Tail(@)]
       ELSE UNCHANGED <<item, pqueue>>
    /\ \E blocked \in NotifyOneIf(Full(gsize[t]), pcv[t]) :
          pcv' = [pcv EXCEPT ![t] = blocked]
    /\ pmutex' = [pmutex EXCEPT ![t] = "none"]
    /\ get' = [get EXCEPT ![t] = "idle"]
    /\ UNCHANGED <<gsize, threadVars, ownerVars>>

-----------------------------------------------------------------------------
(* startAddData and stopAddData; neither takes the mutex. *)

StartAddData(t) ==
    /\ pstop[t] = "no"
    /\ ~prun[t]
    /\ prun' = [prun EXCEPT ![t] = TRUE]
    /\ ppc' = [ppc EXCEPT ![t] = "loop"]
    /\ UNCHANGED <<pqueue, pmutex, pcv, psize, made, getterVars, pstop>>

(* A stop that empties the queue at once, without the mutex. *)
StopFlagMutant(t) ==
    /\ pstop[t] = "no"
    /\ prun[t]
    /\ prun' = [prun EXCEPT ![t] = FALSE]
    /\ pqueue' = [pqueue EXCEPT ![t] = <<>>]
    /\ pstop' = [pstop EXCEPT ![t] = "notify"]
    /\ UNCHANGED <<pmutex, pcv, threadVars, getterVars>>

StopFlag(t) ==
    /\ pstop[t] = "no"
    /\ prun[t]
    /\ prun' = [prun EXCEPT ![t] = FALSE]
    /\ pstop' = [pstop EXCEPT ![t] = "notify"]
    /\ UNCHANGED <<pqueue, pmutex, pcv, threadVars, getterVars>>

(* A stop that forgets to notify. *)
StopNotifyMutant(t) ==
    /\ pstop[t] = "notify"
    /\ pstop' = [pstop EXCEPT ![t] = "join"]
    /\ UNCHANGED <<pqueue, pmutex, pcv, prun, threadVars, getterVars>>

StopNotify(t) ==
    /\ pstop[t] = "notify"
    /\ \E blocked \in NotifyOne(pcv[t]) : pcv' = [pcv EXCEPT ![t] = blocked]
    /\ pstop' = [pstop EXCEPT ![t] = "join"]
    /\ UNCHANGED <<pqueue, pmutex, prun, threadVars, getterVars>>

StopJoin(t) ==
    /\ pstop[t] = "join"
    /\ ppc[t] = "done"
    /\ pstop' = [pstop EXCEPT ![t] = "joined"]
    /\ UNCHANGED <<pqueue, pmutex, pcv, prun, threadVars, getterVars>>

(* The destructor's clearData, once nothing runs on the object any more:
   what is still queued is dropped. *)
ClearData(t) ==
    /\ pstop[t] \in {"no", "joined"}
    /\ ~prun[t]
    /\ get[t] = "idle"
    /\ pmutex[t] = "none"
    /\ pqueue' = [pqueue EXCEPT ![t] = <<>>]
    /\ pstop' = [pstop EXCEPT ![t] = "freed"]
    /\ UNCHANGED <<pmutex, pcv, prun, threadVars, getterVars>>

(* The C++ standard lets wait() return for no reason. *)
SpuriousWakeup(t) ==
    /\ Spurious
    /\ pcv[t] # {}
    /\ \E blocked \in NotifyOne(pcv[t]) : pcv' = [pcv EXCEPT ![t] = blocked]
    /\ UNCHANGED <<pqueue, pmutex, threadVars, getterVars, ownerVars>>

-----------------------------------------------------------------------------
ThreadStep(t) ==
    LoopTest(t) \/ GenEnter(t) \/ GenWait(t) \/ GenWake(t) \/ GenPush(t) \/ GenFails(t)

GetterStep(t) == GetEnter(t) \/ GetWait(t) \/ GetWake(t) \/ GetPop(t)

OwnerStep(t) ==
    StartAddData(t) \/ StopFlag(t) \/ StopNotify(t) \/ StopJoin(t) \/ ClearData(t)

Next ==
    \E t \in Types : ThreadStep(t) \/ GetterStep(t) \/ OwnerStep(t) \/ SpuriousWakeup(t)

Spec == Init /\ [][Next]_vars

(***************************************************************************)
(* Every thread that can step does so; a thread that competes for the      *)
(* mutex again and again gets it once; the getter keeps calling.  Nothing  *)
(* obliges anybody to start or to stop the object.                         *)
(***************************************************************************)
Fairness ==
    \A t \in Types :
        /\ WF_vars(LoopTest(t)) /\ WF_vars(GenWait(t)) /\ WF_vars(GenPush(t))
        /\ WF_vars(GetWait(t)) /\ WF_vars(GetPop(t))
        /\ SF_vars(GenEnter(t)) /\ SF_vars(GenWake(t))
        /\ SF_vars(GetEnter(t)) /\ SF_vars(GetWake(t))
        /\ WF_vars(StopNotify(t)) /\ WF_vars(StopJoin(t))

FairSpec == Spec /\ Fairness

-----------------------------------------------------------------------------
(* Properties. *)

(* Every variable keeps to its values; in particular a producer that was told
   to stop pushes no more than the item it is working on. *)
TypeOK ==
    /\ pqueue \in [Types -> Seq(1..MaxMade)]
    /\ pmutex \in [Types -> {"none", "producer", "mid"}]
    /\ pcv \in [Types -> SUBSET {"producer", "mid"}]
    /\ prun \in [Types -> BOOLEAN]
    /\ ppc \in [Types -> {"none", "loop", "gen", "wait", "blocked", "push", "done"}]
    /\ psize \in [Types -> Nat]
    /\ made \in [Types -> 0..MaxMade]
    /\ get \in [Types -> {"idle", "wait", "blocked", "pop"}]
    /\ gsize \in [Types -> Nat]
    /\ item \in [Types -> 0..MaxMade]
    /\ res \in [Types -> BOOLEAN]
    /\ pstop \in [Types -> {"no", "notify", "join", "joined", "freed"}]

(* m_items_queue has limited size (sm_producer.h).  genProducerItem tests the
   limit with an `if' and does not test it again after the wait.  That is
   enough while the object runs and wait() returns only when notified; a stop
   lets one item more in. *)
QueueBounded ==
    \A t \in Types :
        /\ prun[t] => Len(pqueue[t]) <= QueueMax
        /\ Len(pqueue[t]) <= QueueMax + 1

(* q holds the items a+1, a+2, ..., b. *)
Holds(q, a, b) == Len(q) = b - a /\ \A i \in 1..Len(q) : q[i] = a + i

(* What is queued is exactly what was pushed and not yet handed out, in the
   order of the pushes, until the destructor drops it: no interleaving of
   genProducerItem, getProducerItem and stopAddData loses, doubles or
   reorders an item. *)
QueueIsInOrder ==
    \A t \in Types : pstop[t] # "freed" => Holds(pqueue[t], item[t], made[t])

(* getProducerItem pops on the strength of the size it read before it may
   have waited; the items it counted are still there when it pops, so
   front() and pop() never meet an empty queue. *)
PopFindsAnItem ==
    \A t \in Types : get[t] = "pop" => Len(pqueue[t]) >= gsize[t]

(* A producer object is a first-in first-out channel per type whose capacity
   is one more than m_items_queue_max. *)
Chan == INSTANCE Channel WITH Capacity <- QueueMax + 1, sent <- made, taken <- item

ImplementsChannel == Chan!Spec

(* stopAddData joins a thread that may be blocked in wait(), or about to
   block when the notification passes it by; as long as somebody keeps
   calling getProducerItem, the join returns all the same. *)
StopAddDataReturns ==
    \A t \in Types : pstop[t] = "notify" ~> pstop[t] = "joined"

Delivered(t) ==
    \A n \in 1..MaxMade : made[t] >= n ~> (item[t] >= n \/ pstop[t] = "freed")

(* As long as the producer never has to wait for room, each item it pushes is
   handed out before the object is destroyed: the getter's own wait misses no
   notification, stop or not. *)
DeliveredUnlessThrottled ==
    \A t \in Types : [](ppc[t] # "blocked") => Delivered(t)

(* The bounded-buffer problem is resolved (README): the side that waits for
   room and the side that waits for an item never wait at the same time, for
   then nothing but a stop can move either of them. *)
NotBothWaiting == \A t \in Types : prun[t] => pcv[t] # {"producer", "mid"}

(* Once the producer is stopped nobody is left waiting at its queue: all
   threads can stop (HELP). *)
GetterReturnsAfterStop ==
    \A t \in Types : pstop[t] = "joined" ~> get[t] # "blocked"

=============================================================================
