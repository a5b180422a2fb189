---------------------------- MODULE AgendaProofs ----------------------------
(***************************************************************************)
(* Proofs about the agenda: type correctness, the discipline of its mutex  *)
(* with what follows for the tasklets, the order in which tasklets start,  *)
(* and the bound on what a worker still fetches after a stop.              *)
(***************************************************************************)
EXTENDS Agenda, TLAPS

-----------------------------------------------------------------------------
(* The inductive invariant behind LockInv.  The threads are created one     *)
(* after the other, so a thread that does not exist yet has never waited,   *)
(* and neither has the creating thread.                                     *)

SpawnInv ==
  /\ \A t \in Threads : pc[t] = "waiting" => t \in waited
  /\ \A w \in Workers : pc[w] \in {"none", "boot"} => w \notin waited
  /\ pc[Main] \in {"idle", "spawn", "publish"} =>
       /\ Main \notin waited
       /\ \A w \in Workers : w > mainix => pc[w] = "none"
  /\ pc[Main] \in {"idle", "spawn"} => pc[mainix] = "none"
  /\ pc[Main] = "idle" => mainix = 1

IInv == TypeOK /\ LockInv /\ SpawnInv

\* The thread numbers are naturals, the main thread is no worker, and NoOwner
\* is no thread.
LEMMA ThreadFacts ==
  /\ Main \in Threads /\ Main \notin Workers /\ Workers \subseteq Threads
  /\ NoOwner \notin Threads /\ 1 \in Workers
  /\ \A w \in Workers : w \in Nat /\ w < NbJobs
  BY NbJobsAssumption DEF Main, Threads, Workers, NoOwner

\* The invariant holds before rps_run_agenda_mechanism is called.
LEMMA InitInv == Init => IInv
<1> SUFFICES ASSUME Init PROVE IInv
  OBVIOUS
<1> USE DEF Init
<1>1. LockTypes /\ GcTypes /\ TaskTypes /\ PoolTypes
  BY ThreadFacts DEF LockTypes, GcTypes, TaskTypes, PoolTypes
<1>2. QueueTypes
  <2>1. <<>> \in Seq(Tasklets) /\ 0 \in 0 .. MaxAdds
    BY BoundAssumption
  <2> QED BY <2>1 DEF QueueTypes
<1>3. StateTypes
  BY DEF StateTypes, ThreadStates
<1>4. PcTypes
  BY ThreadFacts DEF PcTypes, MainPcs, WorkerPcs
<1>5. LockInv
  BY ThreadFacts DEF LockInv, Holds
<1>6. SpawnInv
  BY ThreadFacts DEF SpawnInv
<1> QED BY <1>1, <1>2, <1>3, <1>4, <1>5, <1>6 DEF IInv, TypeOK, Reasons
-----------------------------------------------------------------------------
(* What the building blocks of the actions do to the types.                 *)

\* Taking or releasing the mutex once leaves an owner that is a thread or none.
LEMMA LockTyped ==
  ASSUME LockTypes, LockInv, NEW t \in Threads,
         Lock(t) \/ Unlock(t)
  PROVE  LockTypes'
<1>1. CASE Lock(t)
  BY <1>1, ThreadFacts DEF Lock, LockTypes
<1>2. CASE Unlock(t)
  BY <1>2, ThreadFacts DEF Unlock, LockTypes, LockInv, lockVars
<1> QED BY <1>1, <1>2

\* add_tasklet leaves typed queues.
LEMMA PushTyped ==
  ASSUME QueueTypes, NEW t \in Tasklets, NEW p \in Prios, Push(t, p)
  PROVE  QueueTypes'
<1>1. Append(fifo[p], t) \in Seq(Tasklets) /\ Append(added[p], t) \in Seq(Tasklets)
  BY DEF QueueTypes
<1>2. nadd + 1 \in 0 .. MaxAdds
  BY BoundAssumption DEF QueueTypes, Push
<1> QED BY <1>1, <1>2 DEF QueueTypes, Push

\* fetch_tasklet_to_run leaves typed queues and returns a tasklet.
LEMMA PopTyped ==
  ASSUME QueueTypes, NEW w \in Workers, NEW p \in Prios, Pop(w, p)
  PROVE  QueueTypes' /\ Head(fifo[p]) \in Tasklets
<1>1. fifo[p] \in Seq(Tasklets) /\ fifo[p] # <<>>
  BY DEF QueueTypes, Pop, Highest
<1>2. Head(fifo[p]) \in Tasklets /\ Tail(fifo[p]) \in Seq(Tasklets)
  BY <1>1
<1>3. Append(started[p], Head(fifo[p])) \in Seq(Tasklets)
  BY <1>2 DEF QueueTypes
<1>4. late[w] \in Nat /\ late[w] + 1 \in Nat
  BY DEF QueueTypes
<1> QED BY <1>2, <1>3, <1>4 DEF QueueTypes, Pop

\* A goto to a program point of the thread's own kind keeps pc typed.
LEMMA GotoTyped ==
  ASSUME PcTypes, NEW t \in Threads, NEW l, Goto(t, l),
         IF t = Main THEN l \in MainPcs ELSE l \in WorkerPcs
  PROVE  PcTypes'
  BY ThreadFacts DEF PcTypes, Goto

\* Each wait adds its thread to those that have waited.
LEMMA WaitTyped ==
  ASSUME TypeOK, LockInv, NEW t \in Threads, WaitBegin(t)
  PROVE  LockTypes' /\ PcTypes' /\ waited' \subseteq Threads
<1>1. LockTypes'
  BY LockTyped DEF WaitBegin, TypeOK
<1>2. PcTypes'
  BY GotoTyped, "waiting" \in MainPcs, "waiting" \in WorkerPcs
  DEF WaitBegin, TypeOK, MainPcs, WorkerPcs
<1> QED BY <1>1, <1>2 DEF WaitBegin, TypeOK, PoolTypes

\* Every step keeps the types; the count of the mutex needs LockInv.
LEMMA TypeStep == IInv /\ [Next]_vars => TypeOK'
<1> SUFFICES ASSUME IInv, [Next]_vars PROVE TypeOK'
  OBVIOUS
<1> USE ThreadFacts DEF IInv, TypeOK, lockVars, queueVars, gcVars, taskVars, poolVars
<1>1. ASSUME MainStart PROVE TypeOK'
  BY <1>1 DEF MainStart, Goto, Die, LockTypes, QueueTypes, GcTypes, TaskTypes, PoolTypes, StateTypes, PcTypes, MainPcs, WorkerPcs,
        ThreadStates, Reasons
<1>2. ASSUME MainSpawn PROVE TypeOK'
  <2>1. LockTypes'
    BY <1>2, LockTyped DEF MainSpawn
  <2>2. PcTypes'
    BY <1>2 DEF MainSpawn, PcTypes, PoolTypes, MainPcs, WorkerPcs
  <2> QED BY <1>2, <2>1, <2>2 DEF MainSpawn, QueueTypes, GcTypes, TaskTypes, PoolTypes, StateTypes
<1>3. ASSUME MainPublish PROVE TypeOK'
  <2>1. LockTypes'
    BY <1>3, LockTyped DEF MainPublish
  <2>2. PcTypes'
    BY <1>3 DEF MainPublish, MoreJobs, Goto, PcTypes, MainPcs
  <2>3. PoolTypes'
    BY <1>3, NbJobsAssumption DEF MainPublish, MoreJobs, PoolTypes, Workers
  <2> QED BY <1>3, <2>1, <2>2, <2>3 DEF MainPublish, QueueTypes, GcTypes, TaskTypes, StateTypes
<1>4. ASSUME MainWait PROVE TypeOK'
  BY <1>4, WaitTyped DEF MainWait, QueueTypes, GcTypes, TaskTypes, PoolTypes, StateTypes
<1>5. ASSUME MainWake PROVE TypeOK'
  <2>1. LockTypes'
    BY <1>5, LockTyped DEF MainWake
  <2>2. PcTypes'
    BY <1>5 DEF MainWake, Goto, PcTypes, MainPcs
  <2> QED BY <1>5, <2>1, <2>2 DEF MainWake, QueueTypes, GcTypes, TaskTypes, PoolTypes, StateTypes
<1>6. ASSUME MainCheck PROVE TypeOK'
  BY <1>6 DEF MainCheck, Goto, Die, LockTypes, QueueTypes, GcTypes, TaskTypes, PoolTypes, StateTypes, PcTypes, MainPcs, WorkerPcs,
        ThreadStates, Reasons
<1>7. ASSUME MainJoin PROVE TypeOK'
  <2>1. PcTypes'
    BY <1>7 DEF MainJoin, MoreJobs, Goto, PcTypes, MainPcs
  <2>2. PoolTypes'
    BY <1>7, NbJobsAssumption DEF MainJoin, MoreJobs, PoolTypes, Workers
  <2> QED BY <1>7, <2>1, <2>2 DEF MainJoin, LockTypes, QueueTypes, GcTypes, TaskTypes, StateTypes
<1>8. ASSUME Stop PROVE TypeOK'
  BY <1>8 DEF Stop, Goto, Die, LockTypes, QueueTypes, GcTypes, TaskTypes, PoolTypes, StateTypes, PcTypes, MainPcs, WorkerPcs,
        ThreadStates, Reasons
<1>9. ASSUME ClientAdd PROVE TypeOK'
  <2>1. QueueTypes'
    BY <1>9, PushTyped DEF ClientAdd
  <2> QED BY <1>9, <2>1 DEF ClientAdd, LockTypes, GcTypes, TaskTypes, PoolTypes, StateTypes, PcTypes
<1>10. ASSUME Allocate PROVE TypeOK'
  BY <1>10 DEF Allocate, Goto, Die, LockTypes, QueueTypes, GcTypes, TaskTypes, PoolTypes, StateTypes, PcTypes, MainPcs, WorkerPcs,
        ThreadStates, Reasons
<1>11. ASSUME NEW w \in Workers, Boot(w) PROVE TypeOK'
  BY <1>11 DEF Boot, Goto, Die, LockTypes, QueueTypes, GcTypes, TaskTypes, PoolTypes, StateTypes, PcTypes, MainPcs, WorkerPcs,
        ThreadStates, Reasons
<1>12. ASSUME NEW w \in Workers, BootTimeout(w) PROVE TypeOK'
  BY <1>12 DEF BootTimeout, Goto, Die, LockTypes, QueueTypes, GcTypes, TaskTypes, PoolTypes, StateTypes, PcTypes, MainPcs, WorkerPcs,
        ThreadStates, Reasons
<1>13. ASSUME NEW w \in Workers, LoopTest(w) PROVE TypeOK'
  BY <1>13 DEF LoopTest, Goto, Die, LockTypes, QueueTypes, GcTypes, TaskTypes, PoolTypes, StateTypes, PcTypes, MainPcs, WorkerPcs,
        ThreadStates, Reasons
<1>14. ASSUME NEW w \in Workers, Threshold(w) PROVE TypeOK'
  BY <1>14 DEF Threshold, Goto, Die, LockTypes, QueueTypes, GcTypes, TaskTypes, PoolTypes, StateTypes, PcTypes, MainPcs, WorkerPcs,
        ThreadStates, Reasons
<1>15. ASSUME NEW w \in Workers, SetNeeds(w) PROVE TypeOK'
  BY <1>15 DEF SetNeeds, Goto, Die, LockTypes, QueueTypes, GcTypes, TaskTypes, PoolTypes, StateTypes, PcTypes, MainPcs, WorkerPcs,
        ThreadStates, Reasons
<1>16. ASSUME NEW w \in Workers, CheckGc(w) PROVE TypeOK'
  BY <1>16 DEF CheckGc, Goto, Die, LockTypes, QueueTypes, GcTypes, TaskTypes, PoolTypes, StateTypes, PcTypes, MainPcs, WorkerPcs,
        ThreadStates, Reasons
<1>17. ASSUME NEW w \in Workers, Dispatch(w) PROVE TypeOK'
  BY <1>17 DEF Dispatch, Goto, Die, LockTypes, QueueTypes, GcTypes, TaskTypes, PoolTypes, StateTypes, PcTypes, MainPcs, WorkerPcs,
        ThreadStates, Reasons
<1>18. ASSUME NEW w \in Workers, FetchTask(w) PROVE TypeOK'
  <2>1. PICK p \in Prios :
           /\ Pop(w, p)
           /\ cur'  = [cur  EXCEPT ![w] = Head(fifo[p])]
           /\ clos' = [clos EXCEPT ![w] = ClosureAfter(w, Head(fifo[p]))]
    BY <1>18 DEF FetchTask
  <2>2. QueueTypes' /\ Head(fifo[p]) \in Tasklets
    BY <2>1, PopTyped
  <2>3. ClosureAfter(w, Head(fifo[p])) \in Tasklets \cup {NoTasklet}
    BY <2>2, TaskletAssumption DEF ClosureAfter, PayloadKinds, TaskTypes
  <2>4. TaskTypes'
    BY <2>1, <2>2, <2>3 DEF TaskTypes
  <2>5. StateTypes' /\ PcTypes'
    BY <1>18 DEF FetchTask, Goto, StateTypes, PcTypes, ThreadStates, WorkerPcs
  <2> QED BY <1>18, <2>2, <2>4, <2>5 DEF FetchTask, LockTypes, GcTypes, PoolTypes
<1>19. ASSUME NEW w \in Workers, FetchNothing(w) PROVE TypeOK'
  BY <1>19 DEF FetchNothing, Goto, Die, LockTypes, QueueTypes, GcTypes, TaskTypes, PoolTypes, StateTypes, PcTypes, MainPcs, WorkerPcs,
        ThreadStates, Reasons
<1>20. ASSUME NEW w \in Workers, WorkerWait(w) PROVE TypeOK'
  BY <1>20, WaitTyped DEF WorkerWait, QueueTypes, GcTypes, TaskTypes, PoolTypes, StateTypes
<1>21. ASSUME NEW w \in Workers, WorkerWake(w) PROVE TypeOK'
  <2>1. LockTypes'
    BY <1>21, LockTyped DEF WorkerWake
  <2>2. PcTypes'
    BY <1>21 DEF WorkerWake, Goto, PcTypes, WorkerPcs
  <2> QED BY <1>21, <2>1, <2>2 DEF WorkerWake, QueueTypes, GcTypes, TaskTypes, PoolTypes, StateTypes
<1>22. ASSUME NEW w \in Workers, ApplyAdd(w) PROVE TypeOK'
  <2>1. QueueTypes'
    BY <1>22, PushTyped DEF ApplyAdd
  <2> QED BY <1>22, <2>1 DEF ApplyAdd, LockTypes, GcTypes, TaskTypes, PoolTypes, StateTypes, PcTypes
<1>23. ASSUME NEW w \in Workers, ApplyReturn(w) PROVE TypeOK'
  <2>1. PcTypes'
    BY <1>23 DEF ApplyReturn, Goto, PcTypes, WorkerPcs
  <2> QED BY <1>23, <2>1 DEF ApplyReturn, LockTypes, QueueTypes, GcTypes, TaskTypes, PoolTypes, StateTypes
<1>24. ASSUME NEW w \in Workers, ApplyThrow(w) PROVE TypeOK'
  BY <1>24 DEF ApplyThrow, Goto, Die, LockTypes, QueueTypes, GcTypes, TaskTypes, PoolTypes, StateTypes, PcTypes, MainPcs, WorkerPcs,
        ThreadStates, Reasons
<1>25. ASSUME NEW w \in Workers, Exit(w) PROVE TypeOK'
  BY <1>25 DEF Exit, Goto, Die, LockTypes, QueueTypes, GcTypes, TaskTypes, PoolTypes, StateTypes, PcTypes, MainPcs, WorkerPcs,
        ThreadStates, Reasons
<1>26. ASSUME NEW w \in Workers, GcEnter(w) PROVE TypeOK'
  <2>1. UNCHANGED <<lockVars, queueVars, gcVars, taskVars, poolVars>>
    BY <1>26 DEF GcEnter
  <2>2. LockTypes' /\ QueueTypes' /\ GcTypes' /\ TaskTypes' /\ PoolTypes'
    BY <2>1 DEF LockTypes, QueueTypes, GcTypes, TaskTypes, PoolTypes
  <2>3. StateTypes'
    BY <1>26 DEF GcEnter, StateTypes, ThreadStates
  <2>4. PcTypes' /\ fatal' \in Reasons
    BY <1>26 DEF GcEnter, Goto, Die, PcTypes, WorkerPcs, Reasons
  <2> QED BY <2>2, <2>3, <2>4
<1>27. ASSUME NEW w \in Workers, GcFrame(w) PROVE TypeOK'
  BY <1>27 DEF GcFrame, Goto, Die, LockTypes, QueueTypes, GcTypes, TaskTypes, PoolTypes, StateTypes, PcTypes, MainPcs, WorkerPcs,
        ThreadStates, Reasons
<1>28. ASSUME NEW w \in Workers, GcWait(w) PROVE TypeOK'
  <2>1. GcTypes'
    <3>1. loopcnt' = loopcnt \/ loopcnt' = [loopcnt EXCEPT ![w] = @ + 1]
      BY <1>28 DEF GcWait
    <3>2. loopcnt' \in [Workers -> Nat]
      BY <3>1 DEF GcTypes
    <3> QED BY <1>28, <3>2 DEF GcWait, GcTypes
  <2>2. PcTypes' /\ fatal' \in Reasons
    BY <1>28 DEF GcWait, Goto, Die, PcTypes, WorkerPcs, Reasons
  <2> QED BY <1>28, <2>1, <2>2 DEF GcWait, LockTypes, QueueTypes, TaskTypes, PoolTypes, StateTypes
<1>29. ASSUME NEW w \in Workers, GcCollect(w) PROVE TypeOK'
  BY <1>29 DEF GcCollect, Goto, Die, LockTypes, QueueTypes, GcTypes, TaskTypes, PoolTypes, StateTypes, PcTypes, MainPcs, WorkerPcs,
        ThreadStates, Reasons
<1>30. ASSUME NEW w \in Workers, GcEnd(w) PROVE TypeOK'
  <2>1. UNCHANGED <<lockVars, queueVars, gcVars, taskVars, poolVars, fatal>>
    BY <1>30 DEF GcEnd
  <2>2. LockTypes' /\ QueueTypes' /\ GcTypes' /\ TaskTypes' /\ PoolTypes' /\ fatal' \in Reasons
    BY <2>1 DEF LockTypes, QueueTypes, GcTypes, TaskTypes, PoolTypes
  <2>3. StateTypes'
    BY <1>30 DEF GcEnd, StateTypes, ThreadStates
  <2>4. PcTypes'
    BY <1>30 DEF GcEnd, Goto, PcTypes, WorkerPcs
  <2> QED BY <2>2, <2>3, <2>4
<1>31. CASE UNCHANGED vars
  <2>1. LockTypes' /\ QueueTypes' /\ GcTypes' /\ fatal' \in Reasons
    BY <1>31 DEF vars, LockTypes, QueueTypes, GcTypes
  <2>2. TaskTypes' /\ PoolTypes' /\ StateTypes' /\ PcTypes'
    BY <1>31 DEF vars, TaskTypes, PoolTypes, StateTypes, PcTypes
  <2> QED BY <2>1, <2>2
<1> QED
  BY <1>1, <1>2, <1>3, <1>4, <1>5, <1>6, <1>7, <1>8, <1>9, <1>10, <1>11, <1>12, <1>13, <1>14, <1>15, <1>16, <1>17, <1>18, <1>19, <1>20, <1>21, <1>22, <1>23, <1>24, <1>25, <1>26, <1>27, <1>28, <1>29, <1>30, <1>31
  DEF Next, MainStep, WorkerStep, WorkerProgress, GcStep

\* A thread that goes from one place to another, neither of them in wait_for
\* nor with the mutex held for publish, leaves LockInv as it was.
LEMMA LockKept ==
  ASSUME LockInv, PcTypes, NEW w \in Workers, UNCHANGED <<owner, depth, waited>>,
         pc[w] # "waiting",
         pc' = pc \/ \E l \in WorkerPcs \ {"waiting"} : Goto(w, l)
  PROVE  LockInv'
<1>1. w \in Threads /\ w # Main
  BY ThreadFacts
<1>2. ASSUME NEW t \in Threads PROVE pc'[t] = pc[t] \/ (t = w /\ pc'[t] # "waiting")
  BY <1>1 DEF Goto, PcTypes
<1>3. ASSUME NEW t \in Threads PROVE Holds(t)' <=> Holds(t)
  BY <1>1, <1>2 DEF Holds
<1> QED BY <1>3 DEF LockInv

\* Every step keeps LockInv: only wait_for's own two halves and the creation
\* of a thread move the mutex.
LEMMA LockStep == IInv /\ [Next]_vars => LockInv'
<1> SUFFICES ASSUME IInv, [Next]_vars PROVE LockInv'
  OBVIOUS
<1> USE ThreadFacts DEF IInv, TypeOK, LockTypes, PoolTypes, PcTypes, LockInv, Holds, SpawnInv,
            lockVars, poolVars
<1>1. ASSUME MainStart PROVE LockInv'
  BY <1>1 DEF MainStart, Goto, Lock, Unlock, CanLock, WaitBegin
<1>2. ASSUME MainSpawn PROVE LockInv'
  BY <1>2 DEF MainSpawn, Goto, Lock, Unlock, CanLock, WaitBegin
<1>3. ASSUME MainPublish PROVE LockInv'
  BY <1>3 DEF MainPublish, MoreJobs, Goto, Lock, Unlock, CanLock, WaitBegin
<1>4. ASSUME MainWait PROVE LockInv'
  BY <1>4 DEF MainWait, Goto, Lock, Unlock, CanLock, WaitBegin
<1>5. ASSUME MainWake PROVE LockInv'
  <2>1. owner = NoOwner /\ depth = 0
    BY <1>5 DEF MainWake, Lock, CanLock
  <2>2. owner' = Main /\ depth' = 1
    BY <1>5, <2>1 DEF MainWake, Lock
  <2>3. Holds(Main)'
    BY <1>5 DEF MainWake, Goto
  <2>4. ASSUME NEW t \in Threads, t # Main PROVE ~Holds(t)'
    BY <1>5, <2>1, <2>4 DEF MainWake, Goto
  <2> QED BY <2>2, <2>3, <2>4
<1>6. ASSUME MainCheck PROVE LockInv'
  BY <1>6 DEF MainCheck, Goto, Lock, Unlock, CanLock, WaitBegin
<1>7. ASSUME MainJoin PROVE LockInv'
  BY <1>7 DEF MainJoin, MoreJobs, Goto, Lock, Unlock, CanLock, WaitBegin
<1>8. ASSUME Stop PROVE LockInv'
  BY <1>8 DEF Stop, Goto, Lock, Unlock, CanLock, WaitBegin
<1>9. ASSUME ClientAdd PROVE LockInv'
  BY <1>9 DEF ClientAdd, Goto, Lock, Unlock, CanLock, WaitBegin
<1>10. ASSUME Allocate PROVE LockInv'
  BY <1>10 DEF Allocate, Goto, Lock, Unlock, CanLock, WaitBegin
<1>11. ASSUME NEW w \in Workers, Boot(w) PROVE LockInv'
  BY <1>11 DEF Boot, Goto, Lock, Unlock, CanLock, WaitBegin
<1>12. ASSUME NEW w \in Workers, BootTimeout(w) PROVE LockInv'
  BY <1>12 DEF BootTimeout, Goto, Lock, Unlock, CanLock, WaitBegin
<1>13. ASSUME NEW w \in Workers, LoopTest(w) PROVE LockInv'
  BY <1>13 DEF LoopTest, Goto, Lock, Unlock, CanLock, WaitBegin
<1>14. ASSUME NEW w \in Workers, Threshold(w) PROVE LockInv'
  BY <1>14 DEF Threshold, Goto, Lock, Unlock, CanLock, WaitBegin
<1>15. ASSUME NEW w \in Workers, SetNeeds(w) PROVE LockInv'
  BY <1>15 DEF SetNeeds, Goto, Lock, Unlock, CanLock, WaitBegin
<1>16. ASSUME NEW w \in Workers, CheckGc(w) PROVE LockInv'
  BY <1>16 DEF CheckGc, Goto, Lock, Unlock, CanLock, WaitBegin
<1>17. ASSUME NEW w \in Workers, Dispatch(w) PROVE LockInv'
  BY <1>17 DEF Dispatch, Goto, Lock, Unlock, CanLock, WaitBegin
<1>18. ASSUME NEW w \in Workers, FetchTask(w) PROVE LockInv'
  BY <1>18 DEF FetchTask, Goto, Lock, Unlock, CanLock, WaitBegin
<1>19. ASSUME NEW w \in Workers, FetchNothing(w) PROVE LockInv'
  BY <1>19 DEF FetchNothing, Goto, Lock, Unlock, CanLock, WaitBegin
<1>20. ASSUME NEW w \in Workers, WorkerWait(w) PROVE LockInv'
  BY <1>20 DEF WorkerWait, Goto, Lock, Unlock, CanLock, WaitBegin
<1>21. ASSUME NEW w \in Workers, WorkerWake(w) PROVE LockInv'
  <2>1. owner = NoOwner /\ depth = 0
    BY <1>21 DEF WorkerWake, Lock, CanLock
  <2>2. owner' = w /\ depth' = 1
    BY <1>21, <2>1 DEF WorkerWake, Lock
  <2>3. Holds(w)'
    BY <1>21 DEF WorkerWake, Goto
  <2>4. ASSUME NEW t \in Threads, t # w PROVE ~Holds(t)'
    BY <1>21, <2>1, <2>4 DEF WorkerWake, Goto
  <2> QED BY <2>2, <2>3, <2>4
<1>22. ASSUME NEW w \in Workers, ApplyAdd(w) PROVE LockInv'
  BY <1>22 DEF ApplyAdd, Goto, Lock, Unlock, CanLock, WaitBegin
<1>23. ASSUME NEW w \in Workers, ApplyReturn(w) PROVE LockInv'
  <2>1. /\ UNCHANGED <<owner, depth, waited>> /\ pc[w] # "waiting"
        /\ pc' = pc \/ \E l \in WorkerPcs \ {"waiting"} : Goto(w, l)
    BY <1>23 DEF ApplyReturn, WorkerPcs
  <2> QED BY <2>1, LockKept
<1>24. ASSUME NEW w \in Workers, ApplyThrow(w) PROVE LockInv'
  <2>1. /\ UNCHANGED <<owner, depth, waited>> /\ pc[w] # "waiting"
        /\ pc' = pc \/ \E l \in WorkerPcs \ {"waiting"} : Goto(w, l)
    BY <1>24 DEF ApplyThrow, WorkerPcs
  <2> QED BY <2>1, LockKept
<1>25. ASSUME NEW w \in Workers, Exit(w) PROVE LockInv'
  BY <1>25 DEF Exit, Goto, Lock, Unlock, CanLock, WaitBegin
<1>26. ASSUME NEW w \in Workers, GcEnter(w) PROVE LockInv'
  <2>1. /\ UNCHANGED <<owner, depth, waited>> /\ pc[w] # "waiting"
        /\ pc' = pc \/ \E l \in WorkerPcs \ {"waiting"} : Goto(w, l)
    BY <1>26 DEF GcEnter, WorkerPcs
  <2> QED BY <2>1, LockKept
<1>27. ASSUME NEW w \in Workers, GcFrame(w) PROVE LockInv'
  <2>1. /\ UNCHANGED <<owner, depth, waited>> /\ pc[w] # "waiting"
        /\ pc' = pc \/ \E l \in WorkerPcs \ {"waiting"} : Goto(w, l)
    BY <1>27 DEF GcFrame, WorkerPcs
  <2> QED BY <2>1, LockKept
<1>28. ASSUME NEW w \in Workers, GcWait(w) PROVE LockInv'
  <2>1. /\ UNCHANGED <<owner, depth, waited>> /\ pc[w] # "waiting"
        /\ pc' = pc \/ \E l \in WorkerPcs \ {"waiting"} : Goto(w, l)
    BY <1>28 DEF GcWait, WorkerPcs
  <2> QED BY <2>1, LockKept
<1>29. ASSUME NEW w \in Workers, GcCollect(w) PROVE LockInv'
  <2>1. /\ UNCHANGED <<owner, depth, waited>> /\ pc[w] # "waiting"
        /\ pc' = pc \/ \E l \in WorkerPcs \ {"waiting"} : Goto(w, l)
    BY <1>29 DEF GcCollect, WorkerPcs
  <2> QED BY <2>1, LockKept
<1>30. ASSUME NEW w \in Workers, GcEnd(w) PROVE LockInv'
  <2>1. /\ UNCHANGED <<owner, depth, waited>> /\ pc[w] # "waiting"
        /\ pc' = pc \/ \E l \in WorkerPcs \ {"waiting"} : Goto(w, l)
    BY <1>30 DEF GcEnd, WorkerPcs
  <2> QED BY <2>1, LockKept
<1>31. CASE UNCHANGED vars
  BY <1>31 DEF vars, Goto, Lock, Unlock, CanLock, WaitBegin
<1> QED
  BY <1>1, <1>2, <1>3, <1>4, <1>5, <1>6, <1>7, <1>8, <1>9, <1>10, <1>11, <1>12, <1>13, <1>14, <1>15, <1>16, <1>17, <1>18, <1>19, <1>20, <1>21, <1>22, <1>23, <1>24, <1>25, <1>26, <1>27, <1>28, <1>29, <1>30, <1>31
  DEF Next, MainStep, WorkerStep, WorkerProgress, GcStep

\* Every step keeps SpawnInv.
LEMMA SpawnStep == IInv /\ [Next]_vars => SpawnInv'
<1> SUFFICES ASSUME IInv, [Next]_vars PROVE SpawnInv'
  OBVIOUS
<1> USE ThreadFacts DEF IInv, TypeOK, LockTypes, PoolTypes, PcTypes, LockInv, Holds, SpawnInv,
            lockVars, poolVars
<1>1. ASSUME MainStart PROVE SpawnInv'
  BY <1>1 DEF MainStart, Goto, Lock, Unlock, CanLock, WaitBegin, MainPcs, WorkerPcs
<1>2. ASSUME MainSpawn PROVE SpawnInv'
  BY <1>2 DEF MainSpawn, Goto, Lock, Unlock, CanLock, WaitBegin, MainPcs, WorkerPcs
<1>3. ASSUME MainPublish PROVE SpawnInv'
  <2>1. CASE mainix + 1 < NbJobs
    <3>1. mainix + 1 \in Workers
      BY <2>1, NbJobsAssumption DEF Workers
    <3>2. mainix' = mainix + 1 /\ pc' = [pc EXCEPT ![Main] = "spawn"]
      BY <1>3, <2>1 DEF MainPublish, MoreJobs, Goto
    <3>3. \A w \in Workers : w > mainix => pc'[w] = "none"
      BY <1>3, <3>2 DEF MainPublish
    <3>4. pc'[mainix'] = "none"
      BY <3>1, <3>2, <3>3
    <3> QED BY <1>3, <3>2, <3>3, <3>4 DEF MainPublish
  <2>2. CASE ~(mainix + 1 < NbJobs)
    BY <1>3, <2>2 DEF MainPublish, MoreJobs, Goto, Workers
  <2> QED BY <2>1, <2>2
<1>4. ASSUME MainWait PROVE SpawnInv'
  BY <1>4 DEF MainWait, Goto, Lock, Unlock, CanLock, WaitBegin, MainPcs, WorkerPcs
<1>5. ASSUME MainWake PROVE SpawnInv'
  BY <1>5 DEF MainWake, Goto, Lock, Unlock, CanLock, WaitBegin, MainPcs, WorkerPcs
<1>6. ASSUME MainCheck PROVE SpawnInv'
  BY <1>6 DEF MainCheck, Goto, Lock, Unlock, CanLock, WaitBegin, MainPcs, WorkerPcs
<1>7. ASSUME MainJoin PROVE SpawnInv'
  BY <1>7 DEF MainJoin, MoreJobs, Goto, Lock, Unlock, CanLock, WaitBegin, MainPcs, WorkerPcs
<1>8. ASSUME Stop PROVE SpawnInv'
  BY <1>8 DEF Stop, Goto, Lock, Unlock, CanLock, WaitBegin, MainPcs, WorkerPcs
<1>9. ASSUME ClientAdd PROVE SpawnInv'
  BY <1>9 DEF ClientAdd, Goto, Lock, Unlock, CanLock, WaitBegin, MainPcs, WorkerPcs
<1>10. ASSUME Allocate PROVE SpawnInv'
  BY <1>10 DEF Allocate, Goto, Lock, Unlock, CanLock, WaitBegin, MainPcs, WorkerPcs
<1>11. ASSUME NEW w \in Workers, Boot(w) PROVE SpawnInv'
  BY <1>11 DEF Boot, Goto, Lock, Unlock, CanLock, WaitBegin, MainPcs, WorkerPcs
<1>12. ASSUME NEW w \in Workers, BootTimeout(w) PROVE SpawnInv'
  BY <1>12 DEF BootTimeout, Goto, Lock, Unlock, CanLock, WaitBegin, MainPcs, WorkerPcs
<1>13. ASSUME NEW w \in Workers, LoopTest(w) PROVE SpawnInv'
  BY <1>13 DEF LoopTest, Goto, Lock, Unlock, CanLock, WaitBegin, MainPcs, WorkerPcs
<1>14. ASSUME NEW w \in Workers, Threshold(w) PROVE SpawnInv'
  BY <1>14 DEF Threshold, Goto, Lock, Unlock, CanLock, WaitBegin, MainPcs, WorkerPcs
<1>15. ASSUME NEW w \in Workers, SetNeeds(w) PROVE SpawnInv'
  BY <1>15 DEF SetNeeds, Goto, Lock, Unlock, CanLock, WaitBegin, MainPcs, WorkerPcs
<1>16. ASSUME NEW w \in Workers, CheckGc(w) PROVE SpawnInv'
  BY <1>16 DEF CheckGc, Goto, Lock, Unlock, CanLock, WaitBegin, MainPcs, WorkerPcs
<1>17. ASSUME NEW w \in Workers, Dispatch(w) PROVE SpawnInv'
  BY <1>17 DEF Dispatch, Goto, Lock, Unlock, CanLock, WaitBegin, MainPcs, WorkerPcs
<1>18. ASSUME NEW w \in Workers, FetchTask(w) PROVE SpawnInv'
  BY <1>18 DEF FetchTask, Goto, Lock, Unlock, CanLock, WaitBegin, MainPcs, WorkerPcs
<1>19. ASSUME NEW w \in Workers, FetchNothing(w) PROVE SpawnInv'
  BY <1>19 DEF FetchNothing, Goto, Lock, Unlock, CanLock, WaitBegin, MainPcs, WorkerPcs
<1>20. ASSUME NEW w \in Workers, WorkerWait(w) PROVE SpawnInv'
  BY <1>20 DEF WorkerWait, Goto, Lock, Unlock, CanLock, WaitBegin, MainPcs, WorkerPcs
<1>21. ASSUME NEW w \in Workers, WorkerWake(w) PROVE SpawnInv'
  BY <1>21 DEF WorkerWake, Goto, Lock, Unlock, CanLock, WaitBegin, MainPcs, WorkerPcs
<1>22. ASSUME NEW w \in Workers, ApplyAdd(w) PROVE SpawnInv'
  BY <1>22 DEF ApplyAdd, Goto, Lock, Unlock, CanLock, WaitBegin, MainPcs, WorkerPcs
<1>23. ASSUME NEW w \in Workers, ApplyReturn(w) PROVE SpawnInv'
  BY <1>23 DEF ApplyReturn, Goto, Lock, Unlock, CanLock, WaitBegin, MainPcs, WorkerPcs
<1>24. ASSUME NEW w \in Workers, ApplyThrow(w) PROVE SpawnInv'
  BY <1>24 DEF ApplyThrow, Goto, Lock, Unlock, CanLock, WaitBegin, MainPcs, WorkerPcs
<1>25. ASSUME NEW w \in Workers, Exit(w) PROVE SpawnInv'
  BY <1>25 DEF Exit, Goto, Lock, Unlock, CanLock, WaitBegin, MainPcs, WorkerPcs
<1>26. ASSUME NEW w \in Workers, GcEnter(w) PROVE SpawnInv'
  <2>1. UNCHANGED <<mainix, waited>> /\ pc[w] \notin {"none", "boot", "waiting"}
    BY <1>26 DEF GcEnter
  <2>2. pc' = pc \/ \E l \in WorkerPcs \ {"none", "boot", "waiting"} : pc' = [pc EXCEPT ![w] = l]
    BY <1>26 DEF GcEnter, Goto, WorkerPcs
  <2> QED BY <2>1, <2>2
<1>27. ASSUME NEW w \in Workers, GcFrame(w) PROVE SpawnInv'
  BY <1>27 DEF GcFrame, Goto, Lock, Unlock, CanLock, WaitBegin, MainPcs, WorkerPcs
<1>28. ASSUME NEW w \in Workers, GcWait(w) PROVE SpawnInv'
  <2>1. UNCHANGED <<mainix, waited>> /\ pc[w] \notin {"none", "boot", "waiting"}
    BY <1>28 DEF GcWait
  <2>2. pc' = pc \/ \E l \in WorkerPcs \ {"none", "boot", "waiting"} : pc' = [pc EXCEPT ![w] = l]
    BY <1>28 DEF GcWait, Goto, WorkerPcs
  <2> QED BY <2>1, <2>2
<1>29. ASSUME NEW w \in Workers, GcCollect(w) PROVE SpawnInv'
  BY <1>29 DEF GcCollect, Goto, Lock, Unlock, CanLock, WaitBegin, MainPcs, WorkerPcs
<1>30. ASSUME NEW w \in Workers, GcEnd(w) PROVE SpawnInv'
  BY <1>30 DEF GcEnd, Goto, Lock, Unlock, CanLock, WaitBegin, MainPcs, WorkerPcs
<1>31. CASE UNCHANGED vars
  BY <1>31 DEF vars, Goto, Lock, Unlock, CanLock, WaitBegin, MainPcs, WorkerPcs
<1> QED
  BY <1>1, <1>2, <1>3, <1>4, <1>5, <1>6, <1>7, <1>8, <1>9, <1>10, <1>11, <1>12, <1>13, <1>14, <1>15, <1>16, <1>17, <1>18, <1>19, <1>20, <1>21, <1>22, <1>23, <1>24, <1>25, <1>26, <1>27, <1>28, <1>29, <1>30, <1>31
  DEF Next, MainStep, WorkerStep, WorkerProgress, GcStep

-----------------------------------------------------------------------------
\* IInv is an invariant of the agenda.
LEMMA Invariance == Spec => []IInv
<1>1. IInv /\ [Next]_vars => IInv'
  BY TypeStep, LockStep, SpawnStep DEF IInv
<1> QED BY <1>1, InitInv, PTL DEF Spec

\* Every variable of the agenda keeps its type, whatever the number of jobs.
THEOREM TypeCorrect == Spec => []TypeOK
<1>1. IInv => TypeOK
  BY DEF IInv
<1> QED BY <1>1, Invariance, PTL

\* The mutex is owned once, by exactly the thread between two of its waits.
THEOREM LockCorrect == Spec => []LockInv
<1>1. IInv => LockInv
  BY DEF IInv
<1> QED BY <1>1, Invariance, PTL

\* Two threads that have both waited once are never outside wait_for together,
\* so the tasklets of such workers never run at the same time.
THEOREM Serialized == Spec => []SerializedAfterWait
<1>1. IInv => SerializedAfterWait
  <2> SUFFICES ASSUME IInv, NEW t \in waited, NEW u \in waited, t # u,
                      pc[t] # "waiting", pc[u] # "waiting"
               PROVE  FALSE
    BY DEF SerializedAfterWait
  <2>1. Holds(t) /\ Holds(u)
    BY DEF Holds
  <2>2. t \in Threads /\ u \in Threads
    BY DEF IInv, TypeOK, PoolTypes
  <2> QED BY <2>1, <2>2 DEF IInv, LockInv
<1> QED BY <1>1, Invariance, PTL

-----------------------------------------------------------------------------
(* The order of the tasklets of a priority.                                 *)

\* The tasklets a added to a queue are those s started, then those f queued.
Ordered(a, s, f) == a = s \o f

\* It stays so when one is appended to a and to f ...
LEMMA OrderedPush ==
  ASSUME NEW S, NEW s \in Seq(S), NEW f \in Seq(S), NEW t \in S,
         NEW a, Ordered(a, s, f)
  PROVE  Ordered(Append(a, t), s, Append(f, t))
  BY DEF Ordered

\* ... and when the head of f moves to the end of s.
LEMMA OrderedPop ==
  ASSUME NEW S, NEW s \in Seq(S), NEW f \in Seq(S), f # <<>>,
         NEW a, Ordered(a, s, f)
  PROVE  Ordered(a, Append(s, Head(f)), Tail(f))
  BY DEF Ordered

\* push_back keeps the order of the tasklets started and queued.
LEMMA PushKeepsOrder ==
  ASSUME QueueTypes, OrderKept, NEW t \in Tasklets, NEW p \in Prios, Push(t, p)
  PROVE  OrderKept'
<1>1. ASSUME NEW q \in Prios PROVE Ordered(added'[q], started'[q], fifo'[q])
  <2>1. started[q] \in Seq(Tasklets) /\ fifo[q] \in Seq(Tasklets)
    BY DEF QueueTypes
  <2>2. Ordered(added[q], started[q], fifo[q])
    BY DEF OrderKept, Ordered
  <2>3. CASE q = p
    <3>1. Ordered(Append(added[q], t), started[q], Append(fifo[q], t))
      BY <2>1, <2>2, OrderedPush
    <3> QED BY <2>3, <3>1 DEF QueueTypes, Push
  <2>4. CASE q # p
    BY <2>2, <2>4 DEF QueueTypes, Push
  <2> QED BY <2>3, <2>4
<1> QED BY <1>1 DEF OrderKept, Ordered

\* pop_front moves the first tasklet queued to the end of those started.
LEMMA PopKeepsOrder ==
  ASSUME QueueTypes, OrderKept, NEW w \in Workers, NEW p \in Prios, Pop(w, p)
  PROVE  OrderKept'
<1>1. ASSUME NEW q \in Prios PROVE Ordered(added'[q], started'[q], fifo'[q])
  <2>1. started[q] \in Seq(Tasklets) /\ fifo[q] \in Seq(Tasklets)
    BY DEF QueueTypes
  <2>2. Ordered(added[q], started[q], fifo[q])
    BY DEF OrderKept, Ordered
  <2>3. CASE q = p
    <3>1. fifo[q] # <<>>
      BY <2>3 DEF Pop, Highest
    <3>2. Ordered(added[q], Append(started[q], Head(fifo[q])), Tail(fifo[q]))
      BY <2>1, <2>2, <3>1, OrderedPop
    <3> QED BY <2>3, <3>2 DEF QueueTypes, Pop
  <2>4. CASE q # p
    BY <2>2, <2>4 DEF QueueTypes, Pop
  <2> QED BY <2>3, <2>4
<1> QED BY <1>1 DEF OrderKept, Ordered

\* The only steps that touch the queues are the two additions and the fetch.
LEMMA QueueSteps ==
  ASSUME [Next]_vars
  PROVE  \/ UNCHANGED queueVars
         \/ \E t \in Tasklets, p \in Prios : Push(t, p)
         \/ \E w \in Workers, p \in Prios : Pop(w, p)
<1>1. CASE UNCHANGED vars
  BY <1>1 DEF vars
<1>2. CASE MainStep \/ Stop \/ Allocate
  BY <1>2 DEF MainStep, MainStart, MainSpawn, MainPublish, MainWait, MainWake,
              MainCheck, MainJoin, Stop, Allocate
<1>3. CASE ClientAdd
  BY <1>3 DEF ClientAdd
<1>4. ASSUME NEW w \in Workers, WorkerStep(w)
      PROVE  \/ UNCHANGED queueVars
             \/ \E t \in Tasklets, p \in Prios : Push(t, p)
             \/ \E p \in Prios : Pop(w, p)
  <2>1. CASE ApplyAdd(w)
    BY <2>1 DEF ApplyAdd
  <2>2. CASE FetchTask(w)
    BY <2>2 DEF FetchTask
  <2>3. CASE GcStep(w)
    BY <2>3 DEF GcStep, GcEnter, GcFrame, GcWait, GcCollect, GcEnd
  <2>4. CASE Boot(w) \/ BootTimeout(w) \/ LoopTest(w) \/ Threshold(w) \/ SetNeeds(w)
             \/ CheckGc(w) \/ Dispatch(w) \/ FetchNothing(w)
    BY <2>4 DEF Boot, BootTimeout, LoopTest, Threshold, SetNeeds, CheckGc, Dispatch,
                FetchNothing
  <2>5. CASE WorkerWait(w) \/ WorkerWake(w) \/ ApplyReturn(w) \/ ApplyThrow(w) \/ Exit(w)
    BY <2>5 DEF WorkerWait, WorkerWake, ApplyReturn, ApplyThrow, Exit
  <2> QED BY <1>4, <2>1, <2>2, <2>3, <2>4, <2>5 DEF WorkerStep, WorkerProgress
<1> QED BY <1>1, <1>2, <1>3, <1>4 DEF Next

\* Tasklets of one priority start once each, in the order in which they were
\* added, whatever the number of workers and of adders.
THEOREM OrderCorrect == Spec => []OrderKept
<1>1. Init => OrderKept
  BY DEF Init, OrderKept
<1>2. IInv /\ OrderKept /\ [Next]_vars => OrderKept'
  <2> SUFFICES ASSUME IInv, OrderKept, [Next]_vars PROVE OrderKept'
    OBVIOUS
  <2>1. QueueTypes
    BY DEF IInv, TypeOK
  <2>2. CASE UNCHANGED queueVars
    BY <2>2 DEF queueVars, OrderKept
  <2> QED BY <2>1, <2>2, QueueSteps, PushKeepsOrder, PopKeepsOrder
<1> QED BY <1>1, <1>2, Invariance, PTL DEF Spec

-----------------------------------------------------------------------------
(* What a worker still fetches after the stop.                              *)

\* Nothing is fetched late before the agenda has run and been stopped; whoever
\* has fetched late is on its way from the fetch to the exit of its loop, whose
\* test it will not pass again.
LateInv ==
  /\ LateFetchBound
  /\ running \/ pc[Main] = "idle" => \A w \in Workers : late[w] = 0
  /\ \A w \in Workers : late[w] = 1 => pc[w] \in {"apply", "loop", "exit", "done"}

\* A worker that has not fetched late may go anywhere, any other only on its way
\* to the exit, when nothing is fetched, started or stopped.
LEMMA MoveKeepsLate ==
  ASSUME PcTypes, LateInv, NEW w \in Workers, NEW l, Goto(w, l),
         UNCHANGED <<late, running>>,
         late[w] = 1 => l \in {"apply", "loop", "exit", "done"}
  PROVE  LateInv'
<1>1. pc'[Main] = pc[Main] /\ \A v \in Workers : pc'[v] = IF v = w THEN l ELSE pc[v]
  BY ThreadFacts DEF Goto, PcTypes
<1> QED BY <1>1 DEF LateInv, LateFetchBound

\* A step that leaves late, running and pc alone changes nothing.
LEMMA StayKeepsLate ==
  ASSUME LateInv, UNCHANGED <<late, running, pc>>
  PROVE  LateInv'
  BY DEF LateInv, LateFetchBound

\* A worker about to fetch has not fetched late.
LEMMA FetchIsFirst ==
  ASSUME QueueTypes, LateInv, NEW w \in Workers, pc[w] = "fetch"
  PROVE  late[w] = 0
<1>1. late[w] \in Nat /\ late[w] <= 1
  BY DEF QueueTypes, LateInv, LateFetchBound
<1>2. late[w] # 1
  BY DEF LateInv
<1> QED BY <1>1, <1>2

\* Before rps_run_agenda_mechanism is called there is no worker.
LEMMA IdleAlone ==
  ASSUME SpawnInv, pc[Main] = "idle", NEW w \in Workers
  PROVE  pc[w] = "none"
<1>1. mainix = 1 /\ pc[mainix] = "none" /\ (w > mainix => pc[w] = "none")
  BY DEF SpawnInv
<1>2. w = 1 \/ w > 1
  BY ThreadFacts, NbJobsAssumption DEF Workers
<1> QED BY <1>1, <1>2

\* Every step keeps LateInv.
LEMMA LateStep == IInv /\ LateInv /\ [Next]_vars => LateInv'
<1> SUFFICES ASSUME IInv, LateInv, [Next]_vars PROVE LateInv'
  OBVIOUS
<1> USE ThreadFacts DEF LateInv, LateFetchBound, IInv, TypeOK, QueueTypes, PcTypes
<1>1. CASE UNCHANGED vars
  BY <1>1 DEF vars, queueVars, poolVars
<1>2. CASE MainStart \/ MainWait \/ MainWake \/ MainCheck \/ MainJoin
  BY <1>2 DEF MainStart, MainWait, MainWake, MainCheck, MainJoin, WaitBegin, Goto,
              queueVars, poolVars
<1>3. CASE MainSpawn
  <2>1. pc[mainix] = "none" /\ mainix \in Workers
    BY <1>3 DEF MainSpawn, SpawnInv, PoolTypes
  <2> QED BY <1>3, <2>1 DEF MainSpawn, queueVars, poolVars
<1>4. CASE MainPublish
  BY <1>4 DEF MainPublish, Goto, queueVars
<1>5. CASE Stop \/ Allocate
  BY <1>5 DEF Stop, Allocate, queueVars, poolVars
<1>6. ASSUME NEW t \in Tasklets, NEW p \in Prios, Push(t, p),
             UNCHANGED <<poolVars, pc>>
      PROVE  LateInv'
  BY <1>6 DEF Push, poolVars
<1>7. ASSUME NEW w \in Workers, LoopTest(w) PROVE LateInv'
  BY <1>7 DEF LoopTest, Goto, queueVars, poolVars
<1>8. ASSUME NEW w \in Workers, FetchTask(w) PROVE LateInv'
  <2>1. PICK p \in Prios : Pop(w, p)
    BY <1>8 DEF FetchTask
  <2>2. pc[w] = "fetch"
    BY <1>8 DEF FetchTask
  <2>3. late[w] = 0 /\ pc[Main] # "idle"
    BY <2>2, FetchIsFirst, IdleAlone
  <2>4. late' = [late EXCEPT ![w] = IF running THEN 0 ELSE 1]
    BY <2>1, <2>3 DEF Pop
  <2>5. Goto(w, "apply") \/ Goto(w, "loop")
    BY <1>8 DEF FetchTask
  <2>6. running' = running /\ pc'[Main] = pc[Main]
    BY <1>8, <2>5 DEF FetchTask, poolVars, Goto
  <2>7. pc'[w] \in {"apply", "loop"} /\ \A v \in Workers : v # w => pc'[v] = pc[v]
    BY <2>5 DEF Goto
  <2> QED BY <2>3, <2>4, <2>6, <2>7
<1>9. ASSUME NEW w \in Workers,
             Boot(w) \/ Threshold(w) \/ SetNeeds(w) \/ CheckGc(w) \/ Dispatch(w)
             \/ FetchNothing(w) \/ WorkerWait(w) \/ WorkerWake(w) \/ GcFrame(w) \/ GcEnd(w)
      PROVE  LateInv'
  <2>1. PICK l : Goto(w, l)
    BY <1>9 DEF Boot, Threshold, SetNeeds, CheckGc, Dispatch, FetchNothing, WorkerWait,
                WorkerWake, WaitBegin, GcFrame, GcEnd
  <2>2. UNCHANGED <<late, running>>
    BY <1>9 DEF Boot, Threshold, SetNeeds, CheckGc, Dispatch, FetchNothing, WorkerWait,
                WorkerWake, GcFrame, GcEnd, queueVars, poolVars
  <2>3. pc[w] \notin {"apply", "loop", "exit", "done"}
    BY <1>9 DEF Boot, Threshold, SetNeeds, CheckGc, Dispatch, FetchNothing, WorkerWait,
                WorkerWake, GcFrame, GcEnd
  <2> QED BY <2>1, <2>2, <2>3, MoveKeepsLate
<1>10. ASSUME NEW w \in Workers, ApplyReturn(w) \/ ApplyThrow(w) \/ Exit(w)
       PROVE  LateInv'
  <2>1. Goto(w, "loop") \/ Goto(w, "done")
    BY <1>10 DEF ApplyReturn, ApplyThrow, Exit
  <2>2. UNCHANGED <<late, running>>
    BY <1>10 DEF ApplyReturn, ApplyThrow, Exit, queueVars, poolVars
  <2> QED BY <2>1, <2>2, MoveKeepsLate
<1>11. ASSUME NEW w \in Workers,
              BootTimeout(w) \/ GcEnter(w) \/ GcWait(w) \/ GcCollect(w)
       PROVE  LateInv'
  <2>1. UNCHANGED pc \/ \E l : Goto(w, l)
    BY <1>11 DEF BootTimeout, GcEnter, GcWait, GcCollect
  <2>2. UNCHANGED <<late, running>>
    BY <1>11 DEF BootTimeout, GcEnter, GcWait, GcCollect, queueVars, poolVars
  <2>3. pc[w] \notin {"apply", "loop", "exit", "done"}
    BY <1>11 DEF BootTimeout, GcEnter, GcWait, GcCollect
  <2> QED BY <2>1, <2>2, <2>3, MoveKeepsLate, StayKeepsLate
<1>12. ASSUME NEW w \in Workers, ApplyAdd(w) PROVE LateInv'
  BY <1>6, <1>12 DEF ApplyAdd
<1>13. CASE ClientAdd
  BY <1>6, <1>13 DEF ClientAdd
<1> QED
  BY <1>1, <1>2, <1>3, <1>4, <1>5, <1>7, <1>8, <1>9, <1>10, <1>11, <1>12, <1>13
  DEF Next, MainStep, WorkerStep, WorkerProgress, GcStep

\* Once the agenda is stopped a worker fetches one more tasklet at most.
THEOREM LateFetchCorrect == Spec => []LateFetchBound
<1>1. Init => LateInv
  BY DEF Init, LateInv, LateFetchBound
<1>2. LateInv => LateFetchBound
  BY DEF LateInv
<1> QED BY <1>1, <1>2, LateStep, Invariance, PTL DEF Spec

-----------------------------------------------------------------------------
(* The barrier before a collection.                                         *)

\* A worker past its boot and not yet joined is in the thread array; only
\* workers inside do_garbage_collect are in the state GC, and they found the
\* collection needed, which it remains; once one is past the barrier nobody is
\* anywhere near a tasklet.
BarrierInv ==
  /\ \A w \in Workers : pc[w] \notin {"none", "boot", "done"} => registered[w]
  /\ \A w \in Workers : wstate[w] = "GC" => pc[w] \in {"gcframe", "gcwait", "gcgo"}
  /\ \A w \in Workers : pc[w] \in {"gcenter", "gcframe", "gcwait", "gcgo"} => needs
  /\ (\E w \in Workers : pc[w] = "gcgo") =>
       \A v \in Workers : pc[v] \notin {"dispatch", "fetch", "apply", "wait", "waiting"}

\* Every step keeps BarrierInv.
LEMMA BarrierStep == IInv /\ BarrierInv /\ [Next]_vars => BarrierInv'
<1> SUFFICES ASSUME IInv, BarrierInv, [Next]_vars PROVE BarrierInv'
  OBVIOUS
<1> USE ThreadFacts DEF BarrierInv, IInv, TypeOK, PcTypes, StateTypes
<1>1. CASE UNCHANGED vars
  BY <1>1 DEF vars, gcVars, poolVars
<1>2. CASE MainStart \/ MainWait \/ MainWake \/ MainCheck
  BY <1>2 DEF MainStart, MainWait, MainWake, MainCheck, WaitBegin, Goto, gcVars, poolVars
<1>3. CASE MainSpawn
  <2>1. pc[mainix] = "none" /\ mainix \in Workers
    BY <1>3 DEF MainSpawn, SpawnInv, PoolTypes
  <2> QED BY <1>3, <2>1 DEF MainSpawn, gcVars, poolVars
<1>4. CASE MainPublish \/ MainJoin
  BY <1>4 DEF MainPublish, MainJoin, Goto, gcVars, PoolTypes
<1>5. CASE Stop \/ ClientAdd \/ Allocate
  BY <1>5 DEF Stop, ClientAdd, Allocate, gcVars, poolVars
<1>6. ASSUME NEW w \in Workers,
             Boot(w) \/ BootTimeout(w) \/ LoopTest(w) \/ Threshold(w) \/ SetNeeds(w)
      PROVE  BarrierInv'
  <2>1. CASE Boot(w)
    BY <2>1 DEF Boot, Goto, gcVars, poolVars
  <2>2. CASE BootTimeout(w)
    BY <2>2 DEF BootTimeout, gcVars, poolVars
  <2>3. CASE LoopTest(w)
    BY <2>3 DEF LoopTest, Goto, gcVars, poolVars
  <2>4. CASE Threshold(w) \/ SetNeeds(w)
    BY <2>4 DEF Threshold, SetNeeds, Goto, gcVars, poolVars
  <2> QED BY <1>6, <2>1, <2>2, <2>3, <2>4
<1>7. ASSUME NEW w \in Workers, CheckGc(w) \/ Dispatch(w) PROVE BarrierInv'
  BY <1>7 DEF CheckGc, Dispatch, Goto, gcVars, poolVars
<1>8. ASSUME NEW w \in Workers, FetchTask(w) \/ FetchNothing(w) PROVE BarrierInv'
  BY <1>8 DEF FetchTask, FetchNothing, Goto, gcVars, poolVars
<1>9. ASSUME NEW w \in Workers,
             WorkerWait(w) \/ WorkerWake(w) \/ ApplyReturn(w) \/ ApplyThrow(w)
             \/ ApplyAdd(w) \/ Exit(w)
      PROVE  BarrierInv'
  BY <1>9 DEF WorkerWait, WorkerWake, ApplyReturn, ApplyThrow, ApplyAdd, Exit, WaitBegin,
              Goto, gcVars, poolVars
<1>10. ASSUME NEW w \in Workers, GcEnter(w) \/ GcFrame(w) \/ GcCollect(w)
       PROVE  BarrierInv'
  <2>1. CASE GcEnter(w)
    BY <2>1 DEF GcEnter, Goto, gcVars, poolVars
  <2>2. CASE GcFrame(w)
    BY <2>2 DEF GcFrame, Goto, poolVars
  <2>3. CASE GcCollect(w)
    BY <2>3 DEF GcCollect, gcVars, poolVars
  <2> QED BY <1>10, <2>1, <2>2, <2>3
<1>11. ASSUME NEW w \in Workers, GcWait(w) PROVE BarrierInv'
  <2>1. CASE UNCHANGED pc
    BY <1>11, <2>1 DEF GcWait, gcVars, poolVars
  <2>2. CASE ~EveryWorkerIsGc /\ Goto(w, "gcwait")
    BY <1>11, <2>2 DEF GcWait, Goto, gcVars, poolVars
  <2>3. CASE EveryWorkerIsGc /\ Goto(w, "gcgo")
    <3>1. \A v \in Workers : pc[v] \notin {"dispatch", "fetch", "apply", "wait", "waiting"}
      BY <2>3 DEF EveryWorkerIsGc
    <3> QED BY <1>11, <2>3, <3>1 DEF GcWait, Goto, gcVars, poolVars
  <2> QED BY <1>11, <2>1, <2>2, <2>3 DEF GcWait
<1>12. ASSUME NEW w \in Workers, GcEnd(w) PROVE BarrierInv'
  BY <1>12 DEF GcEnd, Goto, gcVars, poolVars
<1> QED
  BY <1>1, <1>2, <1>3, <1>4, <1>5, <1>6, <1>7, <1>8, <1>9, <1>10, <1>11, <1>12
  DEF Next, MainStep, WorkerStep, WorkerProgress, GcStep

\* While some worker is past the barrier of do_garbage_collect, none applies a
\* tasklet, whatever the number of workers and the moment each was created.
THEOREM BarrierCorrect == Spec => []NoTaskletAtCollection
<1>1. Init => BarrierInv
  BY ThreadFacts DEF Init, BarrierInv
<1>2. BarrierInv => NoTaskletAtCollection
  BY DEF BarrierInv, NoTaskletAtCollection
<1> QED BY <1>1, <1>2, BarrierStep, Invariance, PTL DEF Spec

-----------------------------------------------------------------------------
(* The closure of a tasklet: a worker's cur and clos change only when it    *)
(* fetches, and a fetch that leads to an application sets both.             *)

\* A step that moves workers at most out of their tasklets.
LEMMA LeavingKeepsClosure ==
  ASSUME OwnClosure, UNCHANGED taskVars,
         \A w \in Workers : pc'[w] = "apply" => pc[w] = "apply"
  PROVE  OwnClosure'
  BY DEF OwnClosure, taskVars

\* Only a fetch brings a worker into a tasklet.
LEMMA ClosureStep == IInv /\ OwnClosure /\ [Next]_vars => OwnClosure'
<1> SUFFICES ASSUME IInv, OwnClosure, [Next]_vars PROVE OwnClosure'
  OBVIOUS
<1> USE ThreadFacts DEF IInv, TypeOK, PcTypes
<1>1. CASE UNCHANGED vars
  BY <1>1, LeavingKeepsClosure DEF vars
<1>2. CASE Stop \/ ClientAdd \/ Allocate
  BY <1>2, LeavingKeepsClosure DEF Stop, ClientAdd, Allocate
<1>3. CASE MainStep
  <2>1. UNCHANGED taskVars
    BY <1>3 DEF MainStep, MainStart, MainSpawn, MainPublish, MainWait, MainWake, MainCheck,
                MainJoin
  <2>2. \A w \in Workers : pc'[w] = "apply" => pc[w] = "apply"
    BY <1>3 DEF MainStep, MainStart, MainSpawn, MainPublish, MainWait, MainWake, MainCheck,
                MainJoin, WaitBegin, Goto
  <2> QED BY <2>1, <2>2, LeavingKeepsClosure
<1>4. ASSUME NEW w \in Workers, FetchTask(w) PROVE OwnClosure'
  <2>1. PICK p \in Prios :
          /\ Pop(w, p)
          /\ cur'  = [cur  EXCEPT ![w] = Head(fifo[p])]
          /\ clos' = [clos EXCEPT ![w] = ClosureAfter(w, Head(fifo[p]))]
    BY <1>4 DEF FetchTask
  <2>2. Head(fifo[p]) \in Tasklets
    BY <2>1, PopTyped
  <2>3. cur'[w] = Head(fifo[p]) /\ clos'[w] = ClosureAfter(w, Head(fifo[p]))
    BY <2>1 DEF TaskTypes
  <2>4. pc'[w] = "apply" => clos'[w] # NoTasklet
    BY <1>4 DEF FetchTask, Goto
  <2>5. Closure[Head(fifo[p])] \in {"closure", "empty", "nopayload"}
    BY <2>2, TaskletAssumption DEF PayloadKinds
  <2>6. pc'[w] = "apply" /\ Closure[cur'[w]] # "nopayload" => clos'[w] = cur'[w]
    BY <2>3, <2>4, <2>5 DEF ClosureAfter
  <2>7. ASSUME NEW v \in Workers, v # w
        PROVE  pc'[v] = pc[v] /\ cur'[v] = cur[v] /\ clos'[v] = clos[v]
    BY <1>4, <2>1, <2>7 DEF FetchTask, Goto, TaskTypes
  <2> QED BY <2>6, <2>7 DEF OwnClosure
<1>5. ASSUME NEW w \in Workers, FetchNothing(w) PROVE OwnClosure'
  <2>1. /\ pc' = [pc EXCEPT ![w] = "wait"]
        /\ cur' = [cur EXCEPT ![w] = NoTasklet] /\ clos' = clos
    BY <1>5 DEF FetchNothing, Goto
  <2> QED BY <2>1 DEF OwnClosure, TaskTypes
<1>6. ASSUME NEW w \in Workers, WorkerStep(w), ~FetchTask(w), ~FetchNothing(w)
      PROVE  OwnClosure'
  <2>1. UNCHANGED taskVars
    BY <1>6 DEF WorkerStep, WorkerProgress, Boot, BootTimeout, LoopTest, Threshold, SetNeeds,
                CheckGc, Dispatch, WorkerWait, WorkerWake, ApplyAdd, ApplyReturn, ApplyThrow,
                Exit, GcStep, GcEnter, GcFrame, GcWait, GcCollect, GcEnd
  <2>2. pc' = pc \/ \E l \in WorkerPcs \ {"apply"} : Goto(w, l)
    BY <1>6 DEF WorkerStep, WorkerProgress, Boot, BootTimeout, LoopTest, Threshold, SetNeeds,
                CheckGc, Dispatch, WorkerWait, WorkerWake, ApplyAdd, ApplyReturn, ApplyThrow,
                Exit, GcStep, GcEnter, GcFrame, GcWait, GcCollect, GcEnd, WaitBegin, WorkerPcs
  <2>3. \A v \in Workers : pc'[v] = "apply" => pc[v] = "apply"
    BY <2>2 DEF Goto
  <2> QED BY <2>1, <2>3, LeavingKeepsClosure
<1> QED BY <1>1, <1>2, <1>3, <1>4, <1>5, <1>6 DEF Next

\* The closure that is applied to a tasklet with a payload is that payload's.
THEOREM ClosureIsOwn == Spec => []OwnClosure
<1>1. Init => OwnClosure
  BY ThreadFacts DEF Init, OwnClosure
<1> QED BY <1>1, ClosureStep, Invariance, PTL DEF Spec

-----------------------------------------------------------------------------
(* Winding down.                                                            *)

\* The places of run_agenda_worker and do_garbage_collect, in an order that only the
\* loop over agenda_is_running_ goes back on.
Place == [none |-> 0, boot |-> 1, threshold |-> 2, setneeds |-> 3, checkgc |-> 4,
          gcenter |-> 5, gcframe |-> 6, gcwait |-> 7, gcgo |-> 8, dispatch |-> 9,
          fetch |-> 10, apply |-> 11, wait |-> 12, waiting |-> 13, loop |-> 14,
          exit |-> 15, done |-> 16]

\* The worker gets to a later place, or takes one of the turns it has left to wait for
\* the others before a collection.
Onward(w) ==
  \/ Place[pc[w]] < Place[pc'[w]]
  \/ pc'[w] = pc[w] /\ loopcnt[w] < loopcnt'[w] /\ loopcnt'[w] <= MaxWaitLoop + 1

\* Once the agenda is stopped a worker goes only forward, wherever it was, and takes no
\* step of its own in vain but those of a tasklet: what StopQuiesces rests on, next to
\* the fairness of the threads.
WindsDown ==
  [][~running => \A w \in Workers :
       (pc'[w] # pc[w] \/ (WorkerProgress(w) /\ fatal' = "no")) => Onward(w)]_vars

\* What a worker does by itself brings it on.
LEMMA ProgressIsOnward ==
  ASSUME IInv, NEW w \in Workers, WorkerProgress(w), fatal' = "no", ~running
  PROVE  Onward(w)
<1> USE ThreadFacts DEF IInv, TypeOK, PcTypes
<1>1. ASSUME NEW l, Goto(w, l) PROVE pc'[w] = l
  BY <1>1 DEF Goto
<1>2. CASE Boot(w)
  BY <1>1, <1>2 DEF Boot, Place, Onward
<1>3. CASE LoopTest(w) \/ Threshold(w) \/ SetNeeds(w) \/ CheckGc(w)
  BY <1>1, <1>3 DEF LoopTest, Threshold, SetNeeds, CheckGc, Place, Onward
<1>4. CASE Dispatch(w)
  BY <1>1, <1>4 DEF Dispatch, Place, Onward
<1>5. CASE FetchTask(w)
  BY <1>1, <1>5 DEF FetchTask, Place, Onward
<1>6. CASE FetchNothing(w)
  BY <1>1, <1>6 DEF FetchNothing, Place, Onward
<1>7. CASE WorkerWait(w) \/ WorkerWake(w)
  BY <1>1, <1>7 DEF WorkerWait, WaitBegin, WorkerWake, Place, Onward
<1>8. CASE ApplyReturn(w) \/ Exit(w)
  BY <1>1, <1>8 DEF ApplyReturn, Exit, Place, Onward
<1>9. CASE GcEnter(w)
  <2>1. pc[w] = "gcenter" /\ Goto(w, "gcframe")
    BY <1>9 DEF GcEnter, Die
  <2> QED BY <1>1, <2>1 DEF Place, Onward
<1>10. CASE GcFrame(w)
  BY <1>1, <1>10 DEF GcFrame, Place, Onward
<1>11. CASE GcWait(w)
  <2>1. /\ pc[w] = "gcwait" /\ ~(loopcnt[w] > MaxWaitLoop)
        /\ loopcnt' = [loopcnt EXCEPT ![w] = loopcnt[w] + 1]
        /\ Goto(w, IF EveryWorkerIsGc THEN "gcgo" ELSE "gcwait")
    BY <1>11 DEF GcWait, Die
  <2>2. loopcnt[w] \in Nat /\ loopcnt'[w] = loopcnt[w] + 1 /\ MaxWaitLoop \in Nat
    BY <2>1, BoundAssumption DEF GcTypes
  <2>3. pc'[w] = (IF EveryWorkerIsGc THEN "gcgo" ELSE "gcwait")
    BY <1>1, <2>1
  <2> QED BY <2>1, <2>2, <2>3 DEF Place, Onward
<1>12. CASE GcCollect(w)
  BY <1>12 DEF GcCollect, Die
<1>13. CASE GcEnd(w)
  BY <1>1, <1>13 DEF GcEnd, Place, Onward
<1> QED BY <1>2, <1>3, <1>4, <1>5, <1>6, <1>7, <1>8, <1>9, <1>10, <1>11, <1>12, <1>13
        DEF WorkerProgress, GcStep

\* Nobody moves a worker but itself, and the main thread that creates it.
LEMMA MovedByItself ==
  ASSUME IInv, [Next]_vars, NEW w \in Workers, pc'[w] # pc[w]
  PROVE  \/ fatal' = "no" /\ (WorkerProgress(w) \/ ApplyThrow(w))
         \/ pc[w] = "none" /\ pc'[w] = "boot"
<1> USE ThreadFacts DEF IInv, TypeOK, PcTypes
<1>1. fatal = "no" /\ Next
  BY DEF vars, Next
<1>2. ~(Stop \/ ClientAdd \/ Allocate)
  BY DEF Stop, ClientAdd, Allocate
<1>3. CASE MainSpawn
  <2>1. pc[mainix] = "none" /\ pc' = [pc EXCEPT ![Main] = "publish", ![mainix] = "boot"]
    BY <1>3 DEF MainSpawn, SpawnInv
  <2> QED BY <2>1
<1>4. ~(MainStart \/ MainPublish \/ MainWait \/ MainWake \/ MainCheck \/ MainJoin)
  BY DEF MainStart, MainPublish, MainWait, MainWake, MainCheck, MainJoin, WaitBegin, Goto
<1>5. ASSUME NEW v \in Workers, WorkerStep(v) PROVE v = w
  <2>1. pc' = pc \/ \E l : pc' = [pc EXCEPT ![v] = l]
    BY <1>5 DEF WorkerStep, WorkerProgress, Boot, BootTimeout, LoopTest, Threshold, SetNeeds,
                CheckGc, Dispatch, FetchTask, FetchNothing, WorkerWait, WorkerWake, ApplyAdd,
                ApplyReturn, ApplyThrow, Exit, GcStep, GcEnter, GcFrame, GcWait, GcCollect,
                GcEnd, WaitBegin, Goto
  <2> QED BY <2>1
<1>6. ASSUME WorkerStep(w)
      PROVE  fatal' = "no" /\ (WorkerProgress(w) \/ ApplyThrow(w))
  <2>1. ~BootTimeout(w) /\ ~ApplyAdd(w) /\ ~GcCollect(w)
    BY DEF BootTimeout, ApplyAdd, GcCollect
  <2>2. fatal' = fatal
    BY <1>6, <2>1
       DEF WorkerStep, WorkerProgress, Boot, LoopTest, Threshold, SetNeeds,
           CheckGc, Dispatch, FetchTask, FetchNothing, WorkerWait, WorkerWake,
           ApplyReturn, ApplyThrow, Exit, GcStep, GcEnter, GcFrame, GcWait, GcEnd
  <2> QED BY <1>1, <1>6, <2>1, <2>2 DEF WorkerStep
<1> QED BY <1>1, <1>2, <1>3, <1>4, <1>5, <1>6 DEF Next, MainStep

\* However many workers there are and whatever they were at when the agenda was
\* stopped, none of them starts another round.
THEOREM WorkersWindDown == Spec => WindsDown
<1>1. IInv /\ [Next]_vars =>
        [~running => \A w \in Workers :
           (pc'[w] # pc[w] \/ (WorkerProgress(w) /\ fatal' = "no")) => Onward(w)]_vars
  <2> SUFFICES ASSUME IInv, [Next]_vars, ~running, NEW w \in Workers,
                      pc'[w] # pc[w] \/ (WorkerProgress(w) /\ fatal' = "no")
               PROVE  Onward(w)
    OBVIOUS
  <2>1. CASE WorkerProgress(w) /\ fatal' = "no"
    BY <2>1, ProgressIsOnward
  <2>2. CASE ApplyThrow(w)
    <3>1. pc[w] = "apply" /\ pc'[w] = "loop"
      BY <2>2, ThreadFacts DEF ApplyThrow, Goto, IInv, TypeOK, PcTypes
    <3> QED BY <3>1 DEF Place, Onward
  <2>3. CASE pc[w] = "none" /\ pc'[w] = "boot"
    BY <2>3 DEF Place, Onward
  <2> QED BY <2>1, <2>2, <2>3, MovedByItself
<1> QED BY <1>1, Invariance, PTL DEF Spec, WindsDown
=============================================================================
