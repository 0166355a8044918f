------------------------------- MODULE SmLog -------------------------------
(***************************************************************************)
(* The log library: sm_log_print and sm_log_printf called by many threads, *)
(* and sm_close_log (sm_log_stop, then sm_log_close) called by main().     *)
(*                                                                         *)
(* The log's mutex is recursive, since sm_log_printf calls sm_log_print    *)
(* while it holds it.  sm_log_close zeroes the structure the mutex lives   *)
(* in while it holds it, so the mutex is modelled as glibc keeps it: a     *)
(* futex word (0 free, 1 locked, 2 locked and perhaps waited for), a kind, *)
(* an owner and a depth.                                                   *)
(***************************************************************************)
EXTENDS Naturals, Monitor

CONSTANTS
    Printers,    (* the threads that write to the log                      *)
    Closer,      (* the thread that calls sm_close_log                     *)
    Nobody,      (* the owner of a free mutex                              *)
    MaxCalls     (* bound of the model: calls each printer makes           *)

ASSUME SmLogAssumption ==
    /\ Closer \notin Printers /\ Nobody \notin Printers \cup {Closer}
    /\ MaxCalls \in Nat

VARIABLES
    mstart,   (* m_start                                                   *)
    file,     (* m_log_file is open                                        *)
    kind,     (* "recursive", "normal" once zeroed, "destroyed"            *)
    word,     (* the futex word                                            *)
    owner,    (* __owner                                                   *)
    depth,    (* __count                                                   *)
    asleep,   (* the threads asleep on the word                            *)
    woken,    (* the threads woken since, which have to try again          *)
    pc,       (* where each thread stands                                  *)
    call,     (* "print", "printf", or "inner": print called by printf     *)
    calls     (* how many calls each printer began                         *)

mutexVars == <<kind, word, owner, depth, asleep, woken>>
logVars == <<mstart, file>>
vars == <<mstart, file, mutexVars, pc, call, calls>>

Threads == Printers \cup {Closer}

(* sm_init_log has opened and started the log. *)
Init ==
    /\ mstart = TRUE
    /\ file = TRUE
    /\ kind = "recursive" /\ word = 0 /\ owner = Nobody /\ depth = 0
    /\ asleep = {} /\ woken = {}
    /\ pc = [t \in Threads |-> "idle"]
    /\ call = [t \in Printers |-> "print"]
    /\ calls = [t \in Printers |-> 0]

-----------------------------------------------------------------------------
(* pthread_mutex_lock and pthread_mutex_unlock. *)

(* t finds the mutex free.  A thread that slept marks it contended again, for
   the sake of those who may still be asleep. *)
Take(t) ==
    /\ kind # "destroyed" /\ t \notin asleep /\ word = 0
    /\ word' = IF t \in woken THEN 2 ELSE 1
    /\ woken' = woken \ {t}
    /\ owner' = t /\ depth' = 1
    /\ UNCHANGED <<kind, asleep>>

(* A mutex that is not recursive. *)
LockMutant(t) == (kind = "destroyed" /\ UNCHANGED mutexVars) \/ Take(t)

(* t has the mutex, or believes so: nobody looks at the result of a lock. *)
Locked(t) ==
    \/ kind = "destroyed" /\ UNCHANGED mutexVars
    \/ /\ kind = "recursive" /\ owner = t
       /\ depth' = depth + 1
       /\ UNCHANGED <<kind, word, owner, asleep, woken>>
    \/ Take(t)

(* t finds the mutex taken, marks it contended and goes to sleep. *)
Sleeps(t) ==
    /\ kind # "destroyed" /\ t \notin asleep /\ word # 0
    /\ ~(kind = "recursive" /\ owner = t)
    /\ word' = 2
    /\ asleep' = asleep \cup {t}
    /\ woken' = woken \ {t}
    /\ UNCHANGED <<kind, owner, depth>>

(* The mutex becomes free; a sleeper is woken only if the word says that there
   may be one. *)
Released ==
    /\ word' = 0 /\ owner' = Nobody /\ depth' = 0
    /\ asleep' \in NotifyOneIf(word = 2, asleep)
    /\ woken' = woken \cup (asleep \ asleep')
    /\ UNCHANGED kind

(* Only the owner unlocks a recursive mutex, anybody a normal one. *)
Unlocked(t) ==
    \/ kind = "destroyed" /\ UNCHANGED mutexVars
    \/ kind = "recursive" /\ owner # t /\ UNCHANGED mutexVars
    \/ /\ kind = "recursive" /\ owner = t /\ depth > 1
       /\ depth' = depth - 1
       /\ UNCHANGED <<kind, word, owner, asleep, woken>>
    \/ kind = "recursive" /\ owner = t /\ depth = 1 /\ Released
    \/ kind = "normal" /\ Released

Goto(t, p) == pc' = [pc EXCEPT ![t] = p]

(* Any thread that found the mutex taken. *)
Sleep(t) ==
    /\ pc[t] \in {"lock", "stop", "close"}
    /\ Sleeps(t)
    /\ UNCHANGED <<logVars, pc, call, calls>>

-----------------------------------------------------------------------------
(* sm_log_print and sm_log_printf. *)

(* The first look at m_start, without the mutex: a call on a stopped log
   returns at once. *)
Enter(t) ==
    /\ pc[t] = "idle"
    /\ calls[t] < MaxCalls
    /\ mstart
    /\ calls' = [calls EXCEPT ![t] = @ + 1]
    /\ \E c \in {"print", "printf"} : call' = [call EXCEPT ![t] = c]
    /\ Goto(t, "lock")
    /\ UNCHANGED <<logVars, mutexVars>>

Lock(t) ==
    /\ pc[t] = "lock"
    /\ Locked(t)
    /\ Goto(t, "test")
    /\ UNCHANGED <<logVars, call, calls>>

(* No second look at m_start. *)
TestMutant(t) ==
    /\ pc[t] = "test"
    /\ Goto(t, IF call[t] = "printf" THEN "lock" ELSE "write")
    /\ call' = [call EXCEPT ![t] = IF @ = "printf" THEN "inner" ELSE @]
    /\ UNCHANGED <<logVars, mutexVars, calls>>

(* A return past the unlock. *)
TestLeak(t) ==
    /\ pc[t] = "test"
    /\ IF mstart
       THEN /\ Goto(t, IF call[t] = "printf" THEN "lock" ELSE "write")
            /\ call' = [call EXCEPT ![t] = IF @ = "printf" THEN "inner" ELSE @]
       ELSE Goto(t, "idle") /\ UNCHANGED call
    /\ UNCHANGED <<logVars, mutexVars, calls>>

(* The second look, with the mutex; sm_log_printf then calls sm_log_print,
   whose own first look finds the log still started. *)
Test(t) ==
    /\ pc[t] = "test"
    /\ IF mstart
       THEN /\ Goto(t, IF call[t] = "printf" THEN "lock" ELSE "write")
            /\ call' = [call EXCEPT ![t] = IF @ = "printf" THEN "inner" ELSE @]
       ELSE Goto(t, "unlock") /\ UNCHANGED call
    /\ UNCHANGED <<logVars, mutexVars, calls>>

Write(t) ==
    /\ pc[t] = "write"
    /\ Goto(t, "unlock")
    /\ UNCHANGED <<logVars, mutexVars, call, calls>>

(* The inner call returns without its unlock. *)
UnlockMutant(t) ==
    /\ pc[t] = "unlock"
    /\ IF call[t] = "inner" THEN UNCHANGED mutexVars ELSE Unlocked(t)
    /\ Goto(t, IF call[t] = "inner" THEN "unlock" ELSE "idle")
    /\ call' = [call EXCEPT ![t] = IF @ = "inner" THEN "printf" ELSE @]
    /\ UNCHANGED <<logVars, calls>>

(* The unlock; the inner call returns into sm_log_printf's own unlock. *)
Unlock(t) ==
    /\ pc[t] = "unlock"
    /\ Unlocked(t)
    /\ Goto(t, IF call[t] = "inner" THEN "unlock" ELSE "idle")
    /\ call' = [call EXCEPT ![t] = IF @ = "inner" THEN "printf" ELSE @]
    /\ UNCHANGED <<logVars, calls>>

-----------------------------------------------------------------------------
(* sm_close_log. *)

CloseLog ==
    /\ pc[Closer] = "idle"
    /\ Goto(Closer, "stop")
    /\ UNCHANGED <<logVars, mutexVars, call, calls>>

StopLock ==
    /\ pc[Closer] = "stop"
    /\ Locked(Closer)
    /\ Goto(Closer, "stopping")
    /\ UNCHANGED <<logVars, call, calls>>

Stop ==
    /\ pc[Closer] = "stopping"
    /\ mstart' = FALSE
    /\ Unlocked(Closer)
    /\ Goto(Closer, "close")
    /\ UNCHANGED <<file, call, calls>>

CloseLock ==
    /\ pc[Closer] = "close"
    /\ Locked(Closer)
    /\ Goto(Closer, "closing")
    /\ UNCHANGED <<logVars, call, calls>>

(* fclose and the memset: a zeroed mutex is a free one of the normal kind,
   and whoever sleeps on it sleeps on. *)
CloseFile ==
    /\ pc[Closer] = "closing"
    /\ mstart' = FALSE
    /\ file' = FALSE
    /\ kind' = "normal" /\ word' = 0 /\ owner' = Nobody /\ depth' = 0
    /\ Goto(Closer, "zeroed")
    /\ UNCHANGED <<asleep, woken, call, calls>>

CloseUnlock ==
    /\ pc[Closer] = "zeroed"
    /\ Unlocked(Closer)
    /\ Goto(Closer, "destroy")
    /\ UNCHANGED <<logVars, call, calls>>

(* pthread_mutex_destroy may refuse a mutex in this condition. *)
Destroy ==
    /\ pc[Closer] = "destroy"
    /\ kind' \in {"normal", "destroyed"}
    /\ Goto(Closer, "done")
    /\ UNCHANGED <<logVars, word, owner, depth, asleep, woken, call, calls>>

-----------------------------------------------------------------------------
PrinterStep(t) == Sleep(t) \/ Lock(t) \/ Test(t) \/ Write(t) \/ Unlock(t)

CloserStep ==
    Sleep(Closer) \/ StopLock \/ Stop \/ CloseLock \/ CloseFile \/ CloseUnlock \/ Destroy

Next == (\E t \in Printers : Enter(t) \/ PrinterStep(t)) \/ CloseLog \/ CloserStep

Spec == Init /\ [][Next]_vars

(* Every thread inside the library is scheduled, and one that wakes up again
   and again to a taken mutex gets it once.  Nobody has to print or to close. *)
Fairness ==
    /\ \A t \in Printers :
          /\ WF_vars(PrinterStep(t)) /\ SF_vars(Lock(t))
    /\ WF_vars(CloserStep) /\ SF_vars(StopLock) /\ SF_vars(CloseLock)

FairSpec == Spec /\ Fairness

-----------------------------------------------------------------------------
(* Properties. *)

(* Every variable keeps to its values; no thread locks more than twice. *)
TypeOK ==
    /\ mstart \in BOOLEAN /\ file \in BOOLEAN
    /\ kind \in {"recursive", "normal", "destroyed"}
    /\ word \in 0..2
    /\ owner \in Threads \cup {Nobody}
    /\ depth \in 0..2
    /\ asleep \subseteq Threads /\ woken \subseteq Threads
    /\ pc \in [Threads -> {"idle", "lock", "test", "write", "unlock", "stop", "stopping",
                           "close", "closing", "zeroed", "destroy", "done"}]
    /\ call \in [Printers -> {"print", "printf", "inner"}]
    /\ calls \in [Printers -> 0..MaxCalls]

(* A line is written by the one thread that owns the log, while it is started
   and its file open: a call that passed the unlocked test of m_start before
   a stop or a close writes nothing after it. *)
WriterOwnsTheLog ==
    \A t \in Printers : pc[t] = "write" => owner = t /\ mstart /\ file

(* sm_close_log returns, however many threads are printing. *)
CloseReturns == pc[Closer] = "stop" ~> pc[Closer] = "done"

(* Until the log is closed every call returns: the call that sm_log_printf
   makes with the mutex held does not block it. *)
CallsReturnUntilClosed ==
    [](pc[Closer] = "idle") => \A t \in Printers : pc[t] = "lock" ~> pc[t] = "idle"

(* The log library is thread-safe (README): a call made by one thread returns
   even if another one closes the log meanwhile. *)
CallsReturn == \A t \in Printers : pc[t] = "lock" ~> pc[t] = "idle"

=============================================================================
