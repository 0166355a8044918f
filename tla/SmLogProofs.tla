---------------------------- MODULE SmLogProofs ----------------------------
(***************************************************************************)
(* What holds of the log library for every set of printing threads,        *)
(* proved: until sm_close_log zeroes it the mutex excludes, sm_log_printf's *)
(* inner call included; after that nobody reaches the file.                *)
(***************************************************************************)
EXTENDS SmLog, TLAPS

(* t stands between a lock and its unlock. *)
Inside(t) ==
    \/ pc[t] \in {"test", "write", "unlock"}
    \/ pc[t] = "lock" /\ call[t] = "inner"

(* How far the closer got tells whether the log is started, its file open and
   its mutex the one sm_init_log made. *)
Phase ==
    /\ pc[Closer] \in {"idle", "stop", "stopping", "close", "closing", "zeroed",
                       "destroy", "done"}
    /\ \A t \in Printers : pc[t] \in {"idle", "lock", "test", "write", "unlock"}
    /\ mstart <=> pc[Closer] \in {"idle", "stop", "stopping"}
    /\ kind = "recursive" <=> pc[Closer] \in {"idle", "stop", "stopping", "close", "closing"}
    /\ file <=> kind = "recursive"

(* As long as the mutex is that one, it is owned by the one thread that stands
   inside, as many times as that thread has locked it. *)
Owning ==
    kind = "recursive" =>
        /\ word = 0 <=> owner = Nobody
        /\ owner = Closer <=> pc[Closer] \in {"stopping", "closing"}
        /\ owner = Closer => depth = 1
        /\ \A t \in Printers :
              /\ owner = t <=> Inside(t)
              /\ Inside(t) => depth = IF call[t] = "inner" /\ pc[t] # "lock" THEN 2 ELSE 1

(* A call that writes has found the log started; an inner call is inside, and
   there is none once the mutex is zeroed. *)
Calling ==
    \A t \in Printers :
        /\ pc[t] = "write" => mstart
        /\ call[t] = "inner" => kind = "recursive" /\ Inside(t)

Inv == TypeOK /\ Phase /\ Owning /\ Calling

-----------------------------------------------------------------------------
(* A release wakes sleepers, and nobody else. *)
LEMMA ReleasedType ==
    ASSUME TypeOK, Released
    PROVE  /\ word' = 0 /\ owner' = Nobody /\ depth' = 0 /\ kind' = kind
           /\ asleep' \subseteq Threads /\ woken' \subseteq Threads
<1>1. asleep' \subseteq asleep
  BY DEF Released, NotifyOneIf, NotifyOne
<1> QED
  BY <1>1 DEF Released, TypeOK

(* What a lock does while the mutex is as sm_init_log made it. *)
LEMMA LockedInv ==
    ASSUME Inv, NEW t \in Threads, Locked(t), kind = "recursive",
           owner = t => depth = 1
    PROVE  /\ kind' = kind /\ owner' = t /\ word' \in 1..2
           /\ depth' = IF owner = t THEN 2 ELSE 1
           /\ owner # t => owner = Nobody
           /\ asleep' \subseteq Threads /\ woken' \subseteq Threads
<1> USE SmLogAssumption DEF Threads
<1>1. CASE owner = t /\ depth' = depth + 1 /\ UNCHANGED <<kind, word, owner, asleep, woken>>
  BY <1>1 DEF Inv, TypeOK, Owning
<1>2. CASE Take(t)
  BY <1>2 DEF Take, Inv, TypeOK, Owning
<1> QED
  BY <1>1, <1>2 DEF Locked

(* What it does to the types whatever the mutex is. *)
LEMMA LockedType ==
    ASSUME TypeOK, NEW t \in Threads, Locked(t), kind # "recursive"
    PROVE  /\ kind' = kind /\ owner' \in Threads \cup {Nobody} /\ word' \in 0..2
           /\ depth' \in 0..2 /\ asleep' \subseteq Threads /\ woken' \subseteq Threads
BY DEF Locked, Take, TypeOK, mutexVars

(* What an unlock does: the owner's takes one turn off, the last frees the
   mutex. *)
LEMMA UnlockedInv ==
    ASSUME TypeOK, NEW t \in Threads, Unlocked(t), kind = "recursive", owner = t,
           depth \in 1..2
    PROVE  /\ kind' = kind /\ asleep' \subseteq Threads /\ woken' \subseteq Threads
           /\ depth = 2 => owner' = t /\ depth' = 1 /\ word' = word
           /\ depth = 1 => owner' = Nobody /\ depth' = 0 /\ word' = 0
<1>1. CASE depth > 1 /\ depth' = depth - 1 /\ UNCHANGED <<kind, word, owner, asleep, woken>>
  BY <1>1 DEF TypeOK
<1>2. CASE depth = 1 /\ Released
  BY <1>2, ReleasedType
<1> QED
  BY <1>1, <1>2 DEF Unlocked

LEMMA UnlockedType ==
    ASSUME TypeOK, NEW t \in Threads, Unlocked(t), kind # "recursive"
    PROVE  /\ kind' = kind /\ owner' \in Threads \cup {Nobody} /\ word' \in 0..2
           /\ depth' \in 0..2 /\ asleep' \subseteq Threads /\ woken' \subseteq Threads
<1>1. CASE UNCHANGED mutexVars
  BY <1>1 DEF TypeOK, mutexVars
<1>2. CASE Released
  BY <1>2, ReleasedType
<1> QED
  BY <1>1, <1>2 DEF Unlocked

-----------------------------------------------------------------------------
(* The steps of a printer. *)
LEMMA PrinterInv ==
    ASSUME Inv, NEW t \in Printers, Enter(t) \/ PrinterStep(t)
    PROVE  Inv'
<1> USE SmLogAssumption DEF Threads, logVars, mutexVars, Goto
<1>0. /\ t \in Threads /\ t # Closer /\ Closer \in Threads
      /\ pc \in [Threads -> {"idle", "lock", "test", "write", "unlock", "stop", "stopping",
                             "close", "closing", "zeroed", "destroy", "done"}]
      /\ call \in [Printers -> {"print", "printf", "inner"}]
  BY DEF Inv, TypeOK
<1>1. CASE Enter(t)
  BY <1>0, <1>1 DEF Enter, Inv, TypeOK, Phase, Owning, Calling, Inside
<1>2. CASE Sleep(t)
  BY <1>0, <1>2 DEF Sleep, Sleeps, Inv, TypeOK, Phase, Owning, Calling, Inside
<1>3. CASE Lock(t)
  <2>1. CASE kind = "recursive"
    <3>1. owner = t => depth = 1 /\ call[t] = "inner"
      BY <1>3, <2>1 DEF Lock, Inv, Owning, Inside
    <3>2. /\ kind' = kind /\ owner' = t /\ word' \in 1..2
          /\ depth' = IF owner = t THEN 2 ELSE 1
          /\ owner # t => owner = Nobody
          /\ asleep' \subseteq Threads /\ woken' \subseteq Threads
      BY <1>0, <1>3, <2>1, <3>1, LockedInv DEF Lock
    <3>3. pc' = [pc EXCEPT ![t] = "test"] /\ UNCHANGED <<mstart, file, call, calls>>
      BY <1>3 DEF Lock
    <3>4. TypeOK' /\ Phase'
      BY <1>0, <3>2, <3>3 DEF Inv, TypeOK, Phase
    <3>5. \A u \in Printers : u # t => ~Inside(u)
      BY <2>1, <3>2 DEF Inv, Owning
    <3>6. owner = t <=> call[t] = "inner"
      BY <1>3, <2>1 DEF Lock, Inv, Owning, Inside
    <3>7. Owning'
      BY <1>0, <2>1, <3>2, <3>3, <3>5, <3>6 DEF Inv, Owning, Inside, TypeOK
    <3>8. Calling'
      BY <1>0, <2>1, <3>2, <3>3 DEF Inv, Calling, Inside
    <3> QED
      BY <3>4, <3>7, <3>8 DEF Inv
  <2>2. CASE kind # "recursive"
    <3>1. /\ kind' = kind /\ owner' \in Threads \cup {Nobody} /\ word' \in 0..2
          /\ depth' \in 0..2 /\ asleep' \subseteq Threads /\ woken' \subseteq Threads
      BY <1>0, <1>3, <2>2, LockedType DEF Lock, Inv
    <3> QED
      BY <1>0, <1>3, <2>2, <3>1 DEF Lock, Inv, TypeOK, Phase, Owning, Calling
  <2> QED
    BY <2>1, <2>2
<1>4. CASE Test(t)
  BY <1>0, <1>4 DEF Test, Inv, TypeOK, Phase, Owning, Calling, Inside
<1>5. CASE Write(t)
  BY <1>0, <1>5 DEF Write, Inv, TypeOK, Phase, Owning, Calling, Inside
<1>6. CASE Unlock(t)
  <2>1. CASE kind = "recursive"
    <3>1. owner = t /\ depth = IF call[t] = "inner" THEN 2 ELSE 1
      BY <1>6, <2>1 DEF Unlock, Inv, Owning, Inside
    <3>2. /\ kind' = kind /\ asleep' \subseteq Threads /\ woken' \subseteq Threads
          /\ depth = 2 => owner' = t /\ depth' = 1 /\ word' = word
          /\ depth = 1 => owner' = Nobody /\ depth' = 0 /\ word' = 0
      BY <1>0, <1>6, <2>1, <3>1, UnlockedInv DEF Unlock, Inv
    <3>3. \A u \in Printers : u # t => ~Inside(u)
      BY <2>1, <3>1 DEF Inv, Owning
    <3>4. UNCHANGED <<mstart, file, calls>>
      BY <1>6 DEF Unlock
    <3>5. CASE call[t] = "inner"
      <4>1. pc' = pc /\ call' = [call EXCEPT ![t] = "printf"]
        BY <1>0, <1>6, <3>5 DEF Unlock
      <4> QED
        BY <1>0, <1>6, <2>1, <3>1, <3>2, <3>3, <3>4, <3>5, <4>1
           DEF Unlock, Inv, TypeOK, Phase, Owning, Calling, Inside
    <3>6. CASE call[t] # "inner"
      <4>1. pc' = [pc EXCEPT ![t] = "idle"] /\ call' = call
        BY <1>0, <1>6, <3>6 DEF Unlock
      <4> QED
        BY <1>0, <2>1, <3>1, <3>2, <3>3, <3>4, <3>6, <4>1
           DEF Inv, TypeOK, Phase, Owning, Calling, Inside
    <3> QED
      BY <3>5, <3>6
  <2>2. CASE kind # "recursive"
    <3>1. /\ kind' = kind /\ owner' \in Threads \cup {Nobody} /\ word' \in 0..2
          /\ depth' \in 0..2 /\ asleep' \subseteq Threads /\ woken' \subseteq Threads
      BY <1>0, <1>6, <2>2, UnlockedType DEF Unlock, Inv
    <3> QED
      BY <1>0, <1>6, <2>2, <3>1 DEF Unlock, Inv, TypeOK, Phase, Owning, Calling
  <2> QED
    BY <2>1, <2>2
<1> QED
  BY <1>1, <1>2, <1>3, <1>4, <1>5, <1>6 DEF PrinterStep

(* The steps of the closer. *)
LEMMA CloserInv ==
    ASSUME Inv, CloseLog \/ CloserStep
    PROVE  Inv'
<1> USE SmLogAssumption DEF Threads, logVars, mutexVars, Goto
<1>0. /\ Closer \in Threads /\ Closer \notin Printers
      /\ pc \in [Threads -> {"idle", "lock", "test", "write", "unlock", "stop", "stopping",
                             "close", "closing", "zeroed", "destroy", "done"}]
  BY DEF Inv, TypeOK
<1>1. CASE CloseLog
  BY <1>0, <1>1 DEF CloseLog, Inv, TypeOK, Phase, Owning, Calling, Inside
<1>2. CASE Sleep(Closer)
  BY <1>0, <1>2 DEF Sleep, Sleeps, Inv, TypeOK, Phase, Owning, Calling, Inside
<1>3. ASSUME StopLock \/ CloseLock PROVE Inv'
  <2>1. kind = "recursive" /\ owner # Closer /\ Locked(Closer)
    BY <1>3 DEF StopLock, CloseLock, Inv, Phase, Owning
  <2>2. /\ kind' = kind /\ owner' = Closer /\ word' \in 1..2 /\ depth' = 1
        /\ owner = Nobody /\ asleep' \subseteq Threads /\ woken' \subseteq Threads
    BY <1>0, <2>1, LockedInv
  <2>3. \A u \in Printers : ~Inside(u)
    BY <2>1, <2>2 DEF Inv, Owning
  <2>a. TypeOK' /\ Phase'
    <3>1. CASE StopLock
      BY <1>0, <2>2, <3>1 DEF StopLock, Inv, TypeOK, Phase
    <3>2. CASE CloseLock
      BY <1>0, <2>2, <3>2 DEF CloseLock, Inv, TypeOK, Phase
    <3> QED
      BY <1>3, <3>1, <3>2
  <2>i. \A u \in Printers : ~Inside(u)'
    BY <1>0, <1>3, <2>3 DEF StopLock, CloseLock, Inside
  <2>b. Owning'
    BY <1>0, <1>3, <2>1, <2>2, <2>3, <2>i DEF StopLock, CloseLock, Owning
  <2>c. Calling'
    BY <1>0, <1>3, <2>1, <2>2, <2>3 DEF StopLock, CloseLock, Inv, Phase, Calling, Inside
  <2> QED
    BY <2>a, <2>b, <2>c DEF Inv
<1>4. CASE Stop
  <2>1. kind = "recursive" /\ owner = Closer /\ depth = 1
    BY <1>4 DEF Stop, Inv, Phase, Owning
  <2>2. /\ kind' = kind /\ owner' = Nobody /\ word' = 0 /\ depth' = 0
        /\ asleep' \subseteq Threads /\ woken' \subseteq Threads
    BY <1>0, <1>4, <2>1, UnlockedInv DEF Stop, Inv
  <2>3. \A u \in Printers : ~Inside(u)
    BY <2>1 DEF Inv, Owning
  <2>t. TypeOK'
    <3>1. mstart' \in BOOLEAN /\ file' \in BOOLEAN
      BY <1>4 DEF Stop, Inv, TypeOK
    <3>2. /\ kind' \in {"recursive", "normal", "destroyed"} /\ word' \in 0..2
          /\ owner' \in Threads \cup {Nobody} /\ depth' \in 0..2
          /\ asleep' \subseteq Threads /\ woken' \subseteq Threads
      BY <1>0, <1>4, <2>1, <2>2 DEF Stop, Inv, TypeOK
    <3>3. /\ call' = call /\ calls' = calls
          /\ pc' \in [Threads -> {"idle", "lock", "test", "write", "unlock", "stop",
                                   "stopping", "close", "closing", "zeroed", "destroy",
                                   "done"}]
      BY <1>0, <1>4 DEF Stop
    <3> QED
      BY <3>1, <3>2, <3>3 DEF Inv, TypeOK
  <2>p. pc'[Closer] = "close" /\ \A u \in Printers : pc'[u] = pc[u]
    BY <1>0, <1>4 DEF Stop
  <2>a. Phase'
    BY <1>0, <1>4, <2>1, <2>2, <2>p DEF Stop, Inv, Phase
  <2>i. \A u \in Printers : ~Inside(u)'
    BY <1>0, <1>4, <2>3 DEF Stop, Inside
  <2>b. Owning'
    BY <1>0, <1>4, <2>1, <2>2, <2>3, <2>i DEF Stop, Owning
  <2>c. Calling'
    BY <1>0, <1>4, <2>1, <2>2, <2>3 DEF Stop, Inv, Phase, Calling, Inside
  <2> QED
    BY <2>t, <2>a, <2>b, <2>c DEF Inv
<1>5. CASE CloseFile
  <2>1. kind = "recursive" /\ owner = Closer
    BY <1>5 DEF CloseFile, Inv, Phase, Owning
  <2>2. \A u \in Printers : ~Inside(u)
    BY <2>1 DEF Inv, Owning
  <2>t. TypeOK'
    <3>1. mstart' \in BOOLEAN /\ file' \in BOOLEAN
      BY <1>5 DEF CloseFile, Inv, TypeOK
    <3>2. /\ kind' \in {"recursive", "normal", "destroyed"} /\ word' \in 0..2
          /\ owner' \in Threads \cup {Nobody} /\ depth' \in 0..2
          /\ asleep' \subseteq Threads /\ woken' \subseteq Threads
      BY <1>0, <1>5, <2>1 DEF CloseFile, Inv, TypeOK
    <3>3. /\ call' = call /\ calls' = calls
          /\ pc' \in [Threads -> {"idle", "lock", "test", "write", "unlock", "stop",
                                   "stopping", "close", "closing", "zeroed", "destroy",
                                   "done"}]
      BY <1>0, <1>5 DEF CloseFile
    <3> QED
      BY <3>1, <3>2, <3>3 DEF Inv, TypeOK
  <2>p. pc'[Closer] = "zeroed" /\ \A u \in Printers : pc'[u] = pc[u]
    BY <1>0, <1>5 DEF CloseFile
  <2>a. Phase'
    BY <1>0, <1>5, <2>1, <2>p DEF CloseFile, Inv, Phase
  <2>i. \A u \in Printers : ~Inside(u)'
    BY <1>0, <1>5, <2>2 DEF CloseFile, Inside
  <2>b. Owning'
    BY <1>0, <1>5, <2>1, <2>2, <2>i DEF CloseFile, Owning
  <2>c. Calling'
    BY <1>0, <1>5, <2>1, <2>2 DEF CloseFile, Inv, Phase, Calling, Inside
  <2> QED
    BY <2>t, <2>a, <2>b, <2>c DEF Inv
<1>6. CASE CloseUnlock
  <2>1. kind # "recursive"
    BY <1>6 DEF CloseUnlock, Inv, Phase
  <2>2. /\ kind' = kind /\ owner' \in Threads \cup {Nobody} /\ word' \in 0..2
        /\ depth' \in 0..2 /\ asleep' \subseteq Threads /\ woken' \subseteq Threads
    BY <1>0, <1>6, <2>1, UnlockedType DEF CloseUnlock, Inv
  <2> QED
    BY <1>0, <1>6, <2>1, <2>2 DEF CloseUnlock, Inv, TypeOK, Phase, Owning, Calling
<1>7. CASE Destroy
  BY <1>0, <1>7 DEF Destroy, Inv, TypeOK, Phase, Owning, Calling
<1> QED
  BY <1>1, <1>2, <1>3, <1>4, <1>5, <1>6, <1>7 DEF CloserStep

-----------------------------------------------------------------------------
(* In every state the mutex excludes as Inv says. *)
THEOREM Invariance == Spec => []Inv
<1>1. Init => Inv
  BY SmLogAssumption
     DEF Init, Inv, TypeOK, Phase, Owning, Calling, Inside, Threads
<1>2. Inv /\ UNCHANGED vars => Inv'
  BY DEF vars, mutexVars, Inv, TypeOK, Phase, Owning, Calling, Inside
<1>3. Inv /\ [Next]_vars => Inv'
  BY <1>2, PrinterInv, CloserInv DEF Next
<1> QED
  BY <1>1, <1>3, PTL DEF Spec

(* Every variable keeps to its values: no thread locks the log more than
   twice. *)
THEOREM TypeCorrect == Spec => []TypeOK
<1>1. Inv => TypeOK
  BY DEF Inv
<1> QED
  BY <1>1, Invariance, PTL

(* However many threads print, a line is written by the owner of the log only,
   into an open file of a started log. *)
THEOREM OneWriter == Spec => []WriterOwnsTheLog
<1>1. Inv => WriterOwnsTheLog
  BY DEF Inv, Phase, Owning, Calling, Inside, WriterOwnsTheLog
<1> QED
  BY <1>1, Invariance, PTL
=============================================================================
