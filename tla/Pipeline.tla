------------------------------ MODULE Pipeline ------------------------------
(***************************************************************************)
(* The whole program: one producer object and one intermediate consumer    *)
(* (CSMConsumerMid) per type, one final consumer, and main(), which starts *)
(* them, waits for the stop file, stops them and destroys them.            *)
(*                                                                         *)
(*   producer t --pqueue[t]--> intermediate t --fqueue--> final consumer   *)
(*                                                                         *)
(* The n-th item an intermediate consumer adds is the n-th it took, as     *)
(* HandOver states, so one numbering serves both queues.                   *)
(***************************************************************************)
EXTENDS Naturals, Sequences

CONSTANTS Types, Fin, Nobody, QueueMax, FinMax, MaxMade, Spurious, Failures

VARIABLES
    pqueue, pmutex, pcv, prun, ppc, psize, made, get, gsize, item, res, pstop,
    fqueue, fmutex, fcv, frun, fpc, fsize, fitem, written, fstop, add, asize,
    added, excess,
    mid,      (* where the thread of an intermediate consumer stands       *)
    mrun,     (* its m_run_thread                                          *)
    main      (* the call main() is in                                     *)

P == INSTANCE Producer
F == INSTANCE ConsumerFin WITH Mids <- Types, MaxAdded <- MaxMade

ASSUME PipelineAssumption == P!ProducerAssumption /\ F!ConsumerFinAssumption

prodVars == <<pqueue, pmutex, pcv, prun, ppc, psize, made, get, gsize, item, res, pstop>>
finVars == <<fqueue, fmutex, fcv, frun, fpc, fsize, fitem, written, fstop, add, asize,
             added, excess>>
vars == <<prodVars, finVars, mid, mrun, main>>

Init ==
    /\ P!Init
    /\ F!Init
    /\ mid = [t \in Types |-> "none"]
    /\ mrun = [t \in Types |-> FALSE]
    /\ main = "startProducers"

(* The threads of the producers and of the final consumer are those of their
   own modules. *)
ProducerStep(t) == P!ThreadStep(t) /\ UNCHANGED <<finVars, mid, mrun, main>>

FinStep == F!FinStep /\ UNCHANGED <<prodVars, mid, mrun, main>>

SpuriousWakeup ==
    /\ \/ (\E t \in Types : P!SpuriousWakeup(t)) /\ UNCHANGED finVars
       \/ F!SpuriousWakeup /\ UNCHANGED prodVars
    /\ UNCHANGED <<mid, mrun, main>>

-----------------------------------------------------------------------------
(* The thread of an intermediate consumer: threadFunc and
   processProducerConsumerItem. *)

MidLoop(t) ==
    /\ mid[t] = "loop"
    /\ mid' = [mid EXCEPT ![t] = IF mrun[t] THEN "get" ELSE "done"]
    /\ UNCHANGED <<prodVars, finVars, mrun, main>>

MidGet(t) ==
    /\ mid[t] = "get"
    /\ P!GetEnter(t) \/ P!GetWait(t) \/ P!GetWake(t)
    /\ UNCHANGED <<finVars, mid, mrun, main>>

(* What getProducerItem returned is not looked at. *)
MidGotMutant(t) ==
    /\ mid[t] = "get"
    /\ P!GetPop(t)
    /\ mid' = [mid EXCEPT ![t] = "add"]
    /\ UNCHANGED <<finVars, mrun, main>>

(* An item that is taken and dropped. *)
MidGotDrop(t) ==
    /\ mid[t] = "get"
    /\ P!GetPop(t)
    /\ mid' = [mid EXCEPT ![t] = "loop"]
    /\ UNCHANGED <<finVars, mrun, main>>

(* getProducerItem returns: with an item, or with none after a wait. *)
MidGot(t) ==
    /\ mid[t] = "get"
    /\ P!GetPop(t)
    /\ mid' = [mid EXCEPT ![t] = IF res'[t] THEN "add" ELSE "loop"]
    /\ UNCHANGED <<finVars, mrun, main>>

MidAdd(t) ==
    /\ mid[t] = "add"
    /\ F!AddEnter(t) \/ F!AddWait(t) \/ F!AddWake(t) \/ F!AddPush(t)
    /\ UNCHANGED <<prodVars, mid, mrun, main>>

MidAdded(t) ==
    /\ mid[t] = "add"
    /\ F!AddLog(t)
    /\ mid' = [mid EXCEPT ![t] = "loop"]
    /\ UNCHANGED <<prodVars, mrun, main>>

(* An exception that leaves addConsumerItem with the mutex locked. *)
MidFailsMutant(t) ==
    /\ mid[t] = "add"
    /\ \/ Failures /\ add[t] = "idle" /\ UNCHANGED finVars
       \/ /\ Failures /\ add[t] = "push"
          /\ add' = [add EXCEPT ![t] = "gone"]
          /\ UNCHANGED <<fqueue, fmutex, fcv, frun, fpc, fsize, fitem, written, fstop, asize,
                         added, excess>>
    /\ mid' = [mid EXCEPT ![t] = "done"]
    /\ UNCHANGED <<prodVars, mrun, main>>

(* An allocation fails, for the copy of the data or inside addConsumerItem:
   the item in hand is gone and the thread ends, its flag still set. *)
MidFails(t) ==
    /\ mid[t] = "add"
    /\ \/ Failures /\ add[t] = "idle" /\ UNCHANGED finVars
       \/ F!AddFails(t)
    /\ mid' = [mid EXCEPT ![t] = "done"]
    /\ UNCHANGED <<prodVars, mrun, main>>

MidStep(t) ==
    MidLoop(t) \/ MidGet(t) \/ MidGot(t) \/ MidAdd(t) \/ MidAdded(t) \/ MidFails(t)

-----------------------------------------------------------------------------
(* main().  The factories walk through their vectors; which type comes first
   is left open here. *)

StartProducer(t) ==
    /\ main = "startProducers"
    /\ P!StartAddData(t)
    /\ main' = IF \A u \in Types \ {t} : prun[u] THEN "startMids" ELSE main
    /\ UNCHANGED <<finVars, mid, mrun>>

StartMid(t) ==
    /\ main = "startMids"
    /\ ~mrun[t]
    /\ mrun' = [mrun EXCEPT ![t] = TRUE]
    /\ mid' = [mid EXCEPT ![t] = "loop"]
    /\ main' = IF \A u \in Types \ {t} : mrun[u] THEN "startFin" ELSE main
    /\ UNCHANGED <<prodVars, finVars>>

StartFin ==
    /\ main = "startFin"
    /\ F!StartReaderProcessor
    /\ main' = "poll"
    /\ UNCHANGED <<prodVars, mid, mrun>>

(* The stop file has been found. *)
FindStopFile ==
    /\ main = "poll"
    /\ main' = "stopProducers"
    /\ UNCHANGED <<prodVars, finVars, mid, mrun>>

(* One producer after the other is flagged, notified and joined. *)
StopProducer(t) ==
    /\ main = "stopProducers"
    /\ \/ P!StopFlag(t) /\ (\A u \in Types : pstop[u] \in {"no", "joined"}) /\ UNCHANGED main
       \/ P!StopNotify(t) /\ UNCHANGED main
       \/ /\ P!StopJoin(t)
          /\ main' = IF \A u \in Types \ {t} : pstop[u] = "joined" THEN "stopMids" ELSE main
    /\ UNCHANGED <<finVars, mid, mrun>>

(* The flag of the next intermediate consumer falls once the threads of those
   before it are joined.  Nobody is notified. *)
StopMid(t) ==
    /\ main = "stopMids"
    /\ mrun[t]
    /\ \A u \in Types : ~mrun[u] => mid[u] = "done"
    /\ mrun' = [mrun EXCEPT ![t] = FALSE]
    /\ UNCHANGED <<prodVars, finVars, mid, main>>

(* A stop that does not join the threads. *)
MidsStoppedMutant ==
    /\ main = "stopMids"
    /\ \A t \in Types : ~mrun[t]
    /\ main' = "stopFin"
    /\ UNCHANGED <<prodVars, finVars, mid, mrun>>

(* The last of them is joined. *)
MidsStopped ==
    /\ main = "stopMids"
    /\ \A t \in Types : ~mrun[t] /\ mid[t] = "done"
    /\ main' = "stopFin"
    /\ UNCHANGED <<prodVars, finVars, mid, mrun>>

StopFin ==
    /\ main = "stopFin"
    /\ \/ F!StopFlag /\ UNCHANGED main
       \/ F!StopJoin /\ main' = "print"
    /\ UNCHANGED <<prodVars, mid, mrun>>

PrintQueue ==
    /\ main = "print"
    /\ F!PrintQueue
    /\ main' = "freeConsumers"
    /\ UNCHANGED <<prodVars, mid, mrun>>

FreeConsumers ==
    /\ main = "freeConsumers"
    /\ main' = "freeProducers"
    /\ UNCHANGED <<prodVars, finVars, mid, mrun>>

FreeProducer(t) ==
    /\ main = "freeProducers"
    /\ P!ClearData(t)
    /\ main' = IF \A u \in Types \ {t} : pstop[u] = "freed" THEN "end" ELSE main
    /\ UNCHANGED <<finVars, mid, mrun>>

MainStep ==
    \/ \E t \in Types : StartProducer(t) \/ StartMid(t) \/ StopProducer(t) \/ StopMid(t) \/ FreeProducer(t)
    \/ StartFin \/ MidsStopped \/ StopFin \/ PrintQueue \/ FreeConsumers

Next ==
    \/ \E t \in Types : ProducerStep(t) \/ MidStep(t)
    \/ FinStep \/ MainStep \/ FindStopFile \/ SpuriousWakeup

Spec == Init /\ [][Next]_vars

(***************************************************************************)
(* Each thread is scheduled, and one that competes for a mutex again and   *)
(* again gets it once; main() goes on.  Nobody has to create the stop file. *)
(***************************************************************************)
Fairness ==
    /\ \A t \in Types : SF_vars(ProducerStep(t)) /\ SF_vars(MidStep(t))
    /\ SF_vars(FinStep)
    /\ WF_vars(MainStep)

FairSpec == Spec /\ Fairness

-----------------------------------------------------------------------------
(* Properties. *)

(* The item the intermediate consumer holds. *)
Holding(t) == IF mid[t] = "add" /\ add[t] # "log" THEN 1 ELSE 0

(* Every item taken from a producer is added exactly once, in order, but for
   the one a failing thread takes with it. *)
HandOver ==
    \A t \in Types :
        \/ item[t] = added[t] + Holding(t)
        \/ Failures /\ mid[t] = "done" /\ item[t] = added[t] + 1

(* From the producer to the file no item is lost, doubled or overtaken: until
   main() drops what is left, every item that was made is in the producer's
   queue, in the intermediate consumer's hand, in the final consumer's queue
   or among the items that left it for the file, but for the one a failing
   thread takes with it. *)
EveryItemIsSomewhere ==
    \A t \in Types :
        pstop[t] # "freed" /\ fstop # "printed" =>
            LET onItsWay == Len(pqueue[t]) + Holding(t) + F!Rank(t, Len(fqueue))
            IN  \/ made[t] = onItsWay + F!Popped(t)
                \/ Failures /\ mid[t] = "done" /\ made[t] = onItsWay + F!Popped(t) + 1

(* main() joins the threads before it destroys what they use: the final
   consumer is stopped when no intermediate consumer can add to it, and a
   producer is destroyed when nobody can read from it. *)
NoThreadOutlivesItsObjects ==
    /\ main \in {"stopFin", "print", "freeConsumers", "freeProducers", "end"} =>
          \A t \in Types : ppc[t] = "done" /\ mid[t] = "done"
    /\ main \in {"print", "freeConsumers", "freeProducers", "end"} => fpc = "done"

(* What the destructors ask of the rest of the program, which no guard of theirs
   tests: when main() drops the final consumer's queue and destroys the objects,
   nobody owns a mutex, is left in the wait set of a condition variable or is
   inside a call of the queue, whichever threads have ended on an exception on
   the way. *)
NothingDestroyedInUse ==
    main \in {"print", "freeConsumers", "freeProducers", "end"} =>
        /\ fmutex = Nobody /\ fcv = {}
        /\ \A t \in Types : /\ pmutex[t] = "none" /\ pcv[t] = {}
                            /\ get[t] = "idle" /\ add[t] \in {"idle", "gone"}

(* The stop file has been found. *)
Stopping == main \notin {"startProducers", "startMids", "startFin", "poll"}

(* No thread ended on an exception. *)
NoFailure ==
    \A t \in Types : /\ ppc[t] = "done" => ~prun[t]
                     /\ mid[t] = "done" => ~mrun[t]

(* From the producer to the file: as long as no queue fills up and no thread
   fails, every item that is made becomes a line, or the program is told to
   stop. *)
LineForEveryItem ==
    [](NoFailure /\ \A t \in Types : ppc[t] # "blocked" /\ add[t] # "blocked") =>
        \A t \in Types : \A n \in 1..MaxMade :
            made[t] >= n ~> (written[t] >= n \/ Stopping)

(* stopAllProducers returns as long as no intermediate consumer fails or is
   held up at the final consumer's queue. *)
ProducersStopUnlessHeldUp ==
    [](NoFailure /\ \A t \in Types : add[t] # "blocked") =>
        (main = "stopProducers" ~> main = "stopMids")

=============================================================================
