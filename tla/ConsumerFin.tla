----------------------------- MODULE ConsumerFin -----------------------------
(***************************************************************************)
(* CSMConsumerFin: the final consumer.  Several intermediate consumers add *)
(* items to its bounded queue with addConsumerItem; its own thread takes   *)
(* them out and writes one line of the output file for each.  One mutex    *)
(* and ONE condition variable serve the adders that wait for room and the  *)
(* thread that waits for an item.                                          *)
(*                                                                         *)
(* An item is <<m, n>>: the n-th that the intermediate consumer m added.   *)
(***************************************************************************)
EXTENDS Naturals, Sequences, FiniteSets, Monitor

CONSTANTS
    Mids,        (* the intermediate consumers                             *)
    Fin,         (* the final consumer's own thread                        *)
    Nobody,      (* the owner of a free mutex                              *)
    FinMax,      (* m_items_queue_max                                      *)
    MaxAdded,    (* bound of the model: items each intermediate adds       *)
    Spurious,    (* may wait() return without a notification?              *)
    Failures     (* may an allocation fail?                                *)

ASSUME ConsumerFinAssumption ==
    /\ IsFiniteSet(Mids) /\ Mids # {}
    /\ Fin \notin Mids /\ Nobody \notin Mids \cup {Fin}
    /\ FinMax \in Nat \ {0}
    /\ MaxAdded \in Nat
    /\ Spurious \in BOOLEAN
    /\ Failures \in BOOLEAN

VARIABLES
    fqueue,   (* m_items_queue                                             *)
    fmutex,   (* the thread that owns m_mtx_queue, or Nobody               *)
    fcv,      (* the threads blocked in m_cv_queue.wait                    *)
    frun,     (* m_run_thread                                              *)
    fpc,      (* where the final consumer's thread stands                  *)
    fsize,    (* src_size of getConsumerItem; 0 between the calls          *)
    fitem,    (* the item being written, or <<>>                           *)
    written,  (* per intermediate, its last item in the output file        *)
    fstop,    (* how far stopReaderProcessor and printQueue got            *)
    add,      (* per intermediate, where its addConsumerItem stands        *)
    asize,    (* per intermediate, src_size of addConsumerItem, or 0       *)
    added,    (* per intermediate, how many items it has pushed            *)
    excess    (* the items no limit held back: see the properties          *)

finVars == <<fpc, fsize, fitem, written>>
adderVars == <<add, asize, added>>
ownerVars == <<frun, fstop, excess>>
vars == <<fqueue, fmutex, fcv, finVars, adderVars, ownerVars>>

Init ==
    /\ fqueue = <<>>
    /\ fmutex = Nobody
    /\ fcv = {}
    /\ frun = FALSE
    /\ fpc = "none"
    /\ fsize = 0
    /\ fitem = <<>>
    /\ written = [m \in Mids |-> 0]
    /\ fstop = "no"
    /\ add = [m \in Mids |-> "idle"]
    /\ asize = [m \in Mids |-> 0]
    /\ added = [m \in Mids |-> 0]
    /\ excess = 0

Full(size) == size >= FinMax

(* The adders that will push whatever the queue's size is by then. *)
Committed ==
    {m \in Mids : add[m] = "push" \/ (add[m] = "blocked" /\ m \notin fcv)}

-----------------------------------------------------------------------------
(* addConsumerItem, called by the threads of the intermediate consumers. *)

(* The flag tested the wrong way round. *)
AddEnterMutant(m) ==
    /\ add[m] = "idle"
    /\ added[m] < MaxAdded
    /\ fmutex = Nobody
    /\ fmutex' = m
    /\ asize' = [asize EXCEPT ![m] = Len(fqueue)]
    /\ add' = [add EXCEPT ![m] =
                 IF ~frun /\ Full(Len(fqueue)) THEN "wait" ELSE "push"]
    /\ UNCHANGED <<fqueue, fcv, added, finVars, ownerVars>>

AddEnter(m) ==
    /\ add[m] = "idle"
    /\ added[m] < MaxAdded
    /\ fmutex = Nobody
    /\ fmutex' = m
    /\ asize' = [asize EXCEPT ![m] = Len(fqueue)]
    /\ add' = [add EXCEPT ![m] =
                 IF frun /\ Full(Len(fqueue)) THEN "wait" ELSE "push"]
    /\ UNCHANGED <<fqueue, fcv, added, finVars, ownerVars>>

AddWait(m) ==
    /\ add[m] = "wait"
    /\ fmutex' = Nobody
    /\ fcv' = fcv \cup {m}
    /\ add' = [add EXCEPT ![m] = "blocked"]
    /\ UNCHANGED <<fqueue, asize, added, finVars, ownerVars>>

AddWake(m) ==
    /\ add[m] = "blocked"
    /\ m \notin fcv
    /\ fmutex = Nobody
    /\ fmutex' = m
    /\ add' = [add EXCEPT ![m] = "push"]
    /\ UNCHANGED <<fqueue, fcv, asize, added, finVars, ownerVars>>

(* A push at the wrong end of the queue. *)
AddPushMutant(m) ==
    /\ add[m] = "push"
    /\ fqueue' = <<<<m, added[m] + 1>>>> \o fqueue
    /\ added' = [added EXCEPT ![m] = @ + 1]
    /\ fcv' \in NotifyOneIf(asize[m] = 0, fcv)
    /\ fmutex' = Nobody
    /\ asize' = [asize EXCEPT ![m] = 0]
    /\ add' = [add EXCEPT ![m] = "log"]
    /\ UNCHANGED <<finVars, ownerVars>>

(* The size is not looked at again after the wait: another adder may have
   taken the room by now. *)
AddPush(m) ==
    /\ add[m] = "push"
    /\ fqueue' = Append(fqueue, <<m, added[m] + 1>>)
    /\ added' = [added EXCEPT ![m] = @ + 1]
    /\ fcv' \in NotifyOneIf(asize[m] = 0, fcv)
    /\ fmutex' = Nobody
    /\ asize' = [asize EXCEPT ![m] = 0]
    /\ add' = [add EXCEPT ![m] = "log"]
    /\ UNCHANGED <<finVars, ownerVars>>

(* The mutex is released; the size of the queue is read once more, without it,
   for the log. *)
AddLog(m) ==
    /\ add[m] = "log"
    /\ add' = [add EXCEPT ![m] = "idle"]
    /\ UNCHANGED <<fqueue, fmutex, fcv, asize, added, finVars, ownerVars>>

(* The queue cannot grow: the exception unlocks, leaves the call and ends the
   thread. *)
AddFails(m) ==
    /\ Failures
    /\ add[m] = "push"
    /\ fmutex' = Nobody
    /\ asize' = [asize EXCEPT ![m] = 0]
    /\ add' = [add EXCEPT ![m] = "gone"]
    /\ UNCHANGED <<fqueue, fcv, added, finVars, ownerVars>>

-----------------------------------------------------------------------------
(* The final consumer's thread: threadFunc, processConsumerItem and
   getConsumerItem. *)

FinLoop ==
    /\ fpc = "loop"
    /\ fpc' = IF frun THEN "enter" ELSE "done"
    /\ UNCHANGED <<fqueue, fmutex, fcv, fsize, fitem, written, adderVars, ownerVars>>

FinEnter ==
    /\ fpc = "enter"
    /\ fmutex = Nobody
    /\ fmutex' = Fin
    /\ fsize' = Len(fqueue)
    /\ fpc' = IF frun /\ fqueue = <<>> THEN "wait" ELSE "pop"
    /\ UNCHANGED <<fqueue, fcv, fitem, written, adderVars, ownerVars>>

FinWait ==
    /\ fpc = "wait"
    /\ fmutex' = Nobody
    /\ fcv' = fcv \cup {Fin}
    /\ fpc' = "blocked"
    /\ UNCHANGED <<fqueue, fsize, fitem, written, adderVars, ownerVars>>

FinWake ==
    /\ fpc = "blocked"
    /\ Fin \notin fcv
    /\ fmutex = Nobody
    /\ fmutex' = Fin
    /\ fpc' = "pop"
    /\ UNCHANGED <<fqueue, fcv, fsize, fitem, written, adderVars, ownerVars>>

(* Whether there is an item is tested afresh; whether to notify is decided
   by the size read before the wait. *)
FinPop ==
    /\ fpc = "pop"
    /\ IF fqueue # <<>>
       THEN /\ fitem' = Head(fqueue)
            /\ fqueue' = Tail(fqueue)
            /\ fpc' = "write"
       ELSE /\ fpc' = "loop"
            /\ UNCHANGED <<fitem, fqueue>>
    /\ fcv' \in NotifyOneIf(Full(fsize), fcv)
    /\ fmutex' = Nobody
    /\ fsize' = 0
    /\ UNCHANGED <<written, adderVars, ownerVars>>

(* A line that is written and kept. *)
FinWriteMutant ==
    /\ fpc = "write"
    /\ written' = [written EXCEPT ![fitem[1]] = fitem[2]]
    /\ fpc' = "loop"
    /\ UNCHANGED <<fqueue, fmutex, fcv, fsize, fitem, adderVars, ownerVars>>

FinWrite ==
    /\ fpc = "write"
    /\ written' = [written EXCEPT ![fitem[1]] = fitem[2]]
    /\ fitem' = <<>>
    /\ fpc' = "loop"
    /\ UNCHANGED <<fqueue, fmutex, fcv, fsize, adderVars, ownerVars>>

-----------------------------------------------------------------------------
(* The owner: startReaderProcessor, stopReaderProcessor (which notifies
   nobody) and printQueue. *)

StartReaderProcessor ==
    /\ fstop = "no"
    /\ ~frun
    /\ frun' = TRUE
    /\ fpc' = "loop"
    /\ excess' = LET size == Len(fqueue) + Cardinality(Committed)
                 IN  IF size > FinMax THEN size - FinMax ELSE 0
    /\ UNCHANGED <<fqueue, fmutex, fcv, fsize, fitem, written, adderVars, fstop>>

StopFlag ==
    /\ fstop = "no"
    /\ frun
    /\ frun' = FALSE
    /\ fstop' = "join"
    /\ UNCHANGED <<fqueue, fmutex, fcv, finVars, adderVars, excess>>

StopJoin ==
    /\ fstop = "join"
    /\ fpc = "done"
    /\ fstop' = "joined"
    /\ UNCHANGED <<fqueue, fmutex, fcv, finVars, adderVars, frun, excess>>

(* What is left over goes to the log, not to the file. *)
PrintQueue ==
    /\ fstop = "joined"
    /\ fmutex = Nobody
    /\ fqueue' = <<>>
    /\ fstop' = "printed"
    /\ UNCHANGED <<fmutex, fcv, finVars, adderVars, frun, excess>>

(* The C++ standard lets wait() return for no reason. *)
SpuriousWakeup ==
    /\ Spurious
    /\ \E t \in fcv :
          /\ fcv' = fcv \ {t}
          /\ excess' = IF t \in Mids THEN excess + 1 ELSE excess
    /\ UNCHANGED <<fqueue, fmutex, finVars, adderVars, frun, fstop>>

-----------------------------------------------------------------------------
AdderStep(m) ==
    AddEnter(m) \/ AddWait(m) \/ AddWake(m) \/ AddPush(m) \/ AddLog(m) \/ AddFails(m)

FinStep == FinLoop \/ FinEnter \/ FinWait \/ FinWake \/ FinPop \/ FinWrite

OwnerStep == StartReaderProcessor \/ StopFlag \/ StopJoin \/ PrintQueue

Next == (\E m \in Mids : AdderStep(m)) \/ FinStep \/ OwnerStep \/ SpuriousWakeup

Spec == Init /\ [][Next]_vars

(***************************************************************************)
(* A thread that can step does so, and one that competes for the mutex     *)
(* again and again gets it once.  Nobody has to add, to start or to stop.  *)
(***************************************************************************)
Fairness ==
    /\ WF_vars(FinLoop) /\ WF_vars(FinWait) /\ WF_vars(FinPop) /\ WF_vars(FinWrite)
    /\ SF_vars(FinEnter) /\ SF_vars(FinWake)
    /\ WF_vars(StopJoin)
    /\ \A m \in Mids :
          /\ WF_vars(AddWait(m)) /\ WF_vars(AddPush(m)) /\ WF_vars(AddLog(m))
          /\ SF_vars(AddWake(m))

FairSpec == Spec /\ Fairness

-----------------------------------------------------------------------------
(* Properties. *)

Items == Mids \X (1..MaxAdded)

(* Every variable keeps to its values. *)
TypeOK ==
    /\ fqueue \in Seq(Items)
    /\ fmutex \in Mids \cup {Fin, Nobody}
    /\ fcv \subseteq Mids \cup {Fin}
    /\ frun \in BOOLEAN
    /\ fpc \in {"none", "loop", "enter", "wait", "blocked", "pop", "write", "done"}
    /\ fsize \in Nat
    /\ fitem \in Items \cup {<<>>}
    /\ (fitem # <<>>) <=> (fpc = "write")
    /\ written \in [Mids -> 0..MaxAdded]
    /\ fstop \in {"no", "join", "joined", "printed"}
    /\ add \in [Mids -> {"idle", "wait", "blocked", "push", "log", "gone"}]
    /\ asize \in [Mids -> Nat]
    /\ added \in [Mids -> 0..MaxAdded]
    /\ excess \in Nat

(* How many of the first i queued items are m's. *)
Rank(m, i) == Cardinality({j \in 1..i : fqueue[j][1] = m})

(* The last item of m that left the queue. *)
Popped(m) == IF fitem # <<>> /\ fitem[1] = m THEN fitem[2] ELSE written[m]

(* Seen from one intermediate consumer the queue is first-in first-out and
   loses nothing, however its calls interleave with the others': its lines
   in the file, the item in the thread's hand and its items in the queue
   are its items in the order it added them. *)
LinesInOrder ==
    \A m \in Mids :
        /\ fitem # <<>> /\ fitem[1] = m => fitem[2] = written[m] + 1
        /\ fstop # "printed" =>
              /\ \A i \in 1..Len(fqueue) :
                    fqueue[i][1] = m => fqueue[i][2] = Popped(m) + Rank(m, i)
              /\ added[m] = Popped(m) + Rank(m, Len(fqueue))

(* The size of the queue is said to be limited by m_items_queue_max
   (sm_consumer_fin.h), but an adder that was notified pushes even when
   another adder took the room before it got the mutex back, and an adder
   waits only while the thread runs.  The queue overshoots its limit, by no
   more than one item per other adder, adders still on their way included;
   beyond that, by what was queued above the limit before the thread was
   started and by one item per spurious return of an adder. *)
OvershootBounded ==
    frun => Len(fqueue) + Cardinality(Committed) <= FinMax + Cardinality(Mids) - 1 + excess

(* All threads will be stopped (HELP): stopReaderProcessor returns. *)
StopReaderProcessorReturns == fstop = "join" ~> fstop = "joined"

=============================================================================
