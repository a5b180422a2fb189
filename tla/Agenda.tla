------------------------------- MODULE Agenda -------------------------------
(***************************************************************************)
(* The agenda of RefPerSys: a priority queue of tasklets served by a pool  *)
(* of worker threads (agenda_rps.cc, class Rps_Agenda in refpersys.hh).    *)
(*                                                                         *)
(* Thread 0 is the thread inside rps_run_agenda_mechanism; threads         *)
(* 1..NbJobs-1 run Rps_Agenda::run_agenda_worker.  Every other thread that *)
(* adds tasklets, stops the agenda or allocates is the environment.        *)
(*                                                                         *)
(* The one delicate primitive is agenda_changed_condvar_.wait_for(         *)
(* agenda_mtx_, ...): it is called with the mutex itself, which the caller *)
(* does not hold the first time.  std::condition_variable_any unlocks its  *)
(* argument and locks it again before returning.  Unlocking a recursive    *)
(* glibc mutex one does not own fails with EPERM and changes nothing, so   *)
(* the net effect of the first wait is to ACQUIRE the mutex.  Every wait   *)
(* is timed, so a waiter may always try to wake up: notifications only     *)
(* make it sooner and are not modelled.                                    *)
(***************************************************************************)
EXTENDS Naturals, Sequences

CONSTANTS
  NbJobs,       \* the argument nbjobs: workers are 1..NbJobs-1
  Tasklets,     \* the objects that may be put on the agenda
  Closure,      \* Closure[t]: what the payload of tasklet t holds
  NoTasklet,    \* the null Rps_ObjectRef
  MaxAdds,      \* bound on agenda_add_counter_ (unbounded in the code)
  MaxWaitLoop   \* maxwaitloop of do_garbage_collect (32 in the code)

Workers == 1 .. (NbJobs - 1)
Main    == 0
Threads == {Main} \cup Workers
NoOwner == NbJobs

Prios == 1 .. 3      \* AgPrio_Low, AgPrio_Normal, AgPrio_High

\* A tasklet's payload holds a closure, holds none, or the object has no
\* Rps_PayloadTasklet of its own at all.
PayloadKinds == {"closure", "empty", "nopayload"}

ASSUME NbJobsAssumption  == NbJobs \in Nat /\ NbJobs >= 3   \* RPS_NBJOBS_MIN
ASSUME TaskletAssumption == /\ NoTasklet \notin Tasklets
                            /\ Closure \in [Tasklets -> PayloadKinds]
ASSUME BoundAssumption   == MaxAdds \in Nat /\ MaxWaitLoop \in Nat

VARIABLES
  owner, depth,   \* agenda_mtx_: its owner and recursion count
  fifo,           \* agenda_fifo_[prio]
  nadd,           \* agenda_add_counter_
  running,        \* agenda_is_running_
  needs,          \* agenda_needs_garbcoll_
  little,         \* fewer than agenda_gc_threshold words allocated so far
  registered,     \* agenda_thread_array_[ix] is not null
  wstate,         \* agenda_work_thread_state_[ix]
  callframe,      \* agenda_work_gc_callframe_[ix] is not null
  pc,             \* program counter of every thread
  mainix,         \* the loop variable ix of rps_run_agenda_mechanism
  cur,            \* _f.obtasklet of each worker
  clos,           \* the tasklet _f.clostodo comes from, of each worker
  loopcnt,        \* loopcnt of do_garbage_collect, of each worker
  fatal,          \* "no", or why the process called rps_fatal_stop_at
  added, started, \* history: tasklets added to and fetched from each queue
  late,           \* history: fetches of each worker since the agenda stopped
  waited          \* history: the threads that called wait_for at least once

lockVars  == <<owner, depth>>
queueVars == <<fifo, nadd, added, started, late>>
gcVars    == <<needs, little, callframe, loopcnt>>
taskVars  == <<cur, clos>>
poolVars  == <<running, registered, mainix, waited>>
vars == <<lockVars, queueVars, gcVars, taskVars, poolVars, wstate, pc, fatal>>

ThreadStates == {"None", "Idle", "GC", "EndGC", "Run"}
MainPcs   == {"idle", "spawn", "publish", "unlock", "waiting", "check", "join"}
WorkerPcs == {"none", "boot", "loop", "threshold", "setneeds", "checkgc",
              "dispatch", "fetch", "apply", "wait", "waiting", "exit", "done",
              "gcenter", "gcframe", "gcwait", "gcgo"}
Reasons   == {"no", "not registered", "call frame set", "gc wait timed out",
              "not main thread"}

Init ==
  /\ owner = NoOwner /\ depth = 0
  /\ fifo = [p \in Prios |-> <<>>] /\ nadd = 0
  /\ added = [p \in Prios |-> <<>>] /\ started = [p \in Prios |-> <<>>]
  /\ late = [w \in Workers |-> 0]
  /\ running = FALSE /\ needs = FALSE /\ little \in BOOLEAN
  /\ registered = [w \in Workers |-> FALSE]
  /\ wstate = [w \in Workers |-> "None"]
  /\ callframe = [w \in Workers |-> FALSE]
  /\ pc = [t \in Threads |-> IF t = Main THEN "idle" ELSE "none"]
  /\ mainix = 1
  /\ cur = [w \in Workers |-> NoTasklet]
  /\ clos = [w \in Workers |-> NoTasklet]
  /\ loopcnt = [w \in Workers |-> 0]
  /\ fatal = "no" /\ waited = {}

-----------------------------------------------------------------------------
(* The recursive mutex and the condition variable.                         *)

CanLock(t) == owner \in {NoOwner, t}

Lock(t) == /\ CanLock(t)
           /\ owner' = t
           /\ depth' = depth + 1

\* One unlock by t; a no-op when t is not the owner (EPERM).
Unlock(t) ==
  IF owner = t
  THEN /\ depth' = depth - 1
       /\ owner' = IF depth = 1 THEN NoOwner ELSE t
  ELSE UNCHANGED lockVars

Goto(t, l) == pc' = [pc EXCEPT ![t] = l]

\* wait_for(agenda_mtx_, timeout): the unlock, then the lock it ends with.
WaitBegin(t) == /\ Unlock(t)
                /\ waited' = waited \cup {t}
                /\ Goto(t, "waiting")

Die(why) == fatal' = why

-----------------------------------------------------------------------------
(* add_tasklet and fetch_tasklet_to_run; both hold agenda_mtx_ throughout. *)

\* Mutant: push_front.
PushFront(t, p) ==
  /\ nadd < MaxAdds
  /\ fifo'  = [fifo  EXCEPT ![p] = <<t>> \o @]
  /\ added' = [added EXCEPT ![p] = Append(@, t)]
  /\ nadd'  = nadd + 1
  /\ UNCHANGED <<started, late>>

Push(t, p) ==
  /\ nadd < MaxAdds
  /\ fifo'  = [fifo  EXCEPT ![p] = Append(@, t)]
  /\ added' = [added EXCEPT ![p] = Append(@, t)]
  /\ nadd'  = nadd + 1
  /\ UNCHANGED <<started, late>>

\* Mutant: the loop over priorities stops before AgPrio_Low.
HighestButLow(p) == /\ p > 1 /\ fifo[p] # <<>>
                    /\ \A q \in Prios : q > p => fifo[q] = <<>>

Highest(p) == /\ fifo[p] # <<>>
              /\ \A q \in Prios : q > p => fifo[q] = <<>>

AllEmpty == \A p \in Prios : fifo[p] = <<>>

Pop(w, p) ==
  /\ Highest(p)
  /\ fifo'    = [fifo EXCEPT ![p] = Tail(@)]
  /\ started' = [started EXCEPT ![p] = Append(@, Head(fifo[p]))]
  /\ late'    = [late EXCEPT ![w] = IF running THEN @ ELSE @ + 1]
  /\ UNCHANGED <<nadd, added>>

-----------------------------------------------------------------------------
(* rps_run_agenda_mechanism and rps_stop_agenda_mechanism.                 *)

\* Mutant: ix <= nbjobs.
OneJobTooMany == mainix + 1 <= NbJobs

\* for (int ix = 1; ix < nbjobs; ix++), in both loops over the jobs.
MoreJobs == mainix + 1 < NbJobs

MainStart ==
  /\ pc[Main] = "idle"
  /\ running' = TRUE
  /\ Goto(Main, "spawn")
  /\ UNCHANGED <<lockVars, queueVars, gcVars, taskVars, registered, mainix,
                 waited, wstate, fatal>>

\* Mutant: without the lock_guard.
MainSpawnUnlocked ==
  /\ pc[Main] = "spawn"
  /\ pc' = [pc EXCEPT ![Main] = "publish", ![mainix] = "boot"]
  /\ UNCHANGED <<lockVars, queueVars, gcVars, taskVars, poolVars, wstate, fatal>>

\* Under the lock_guard: the thread starts running before it is stored.
MainSpawn ==
  /\ pc[Main] = "spawn"
  /\ Lock(Main)
  /\ pc' = [pc EXCEPT ![Main] = "publish", ![mainix] = "boot"]
  /\ UNCHANGED <<queueVars, gcVars, taskVars, poolVars, wstate, fatal>>

MainPublish ==
  /\ pc[Main] = "publish"
  /\ registered' = [registered EXCEPT ![mainix] = TRUE]
  /\ Unlock(Main)
  /\ IF MoreJobs
     THEN mainix' = mainix + 1 /\ Goto(Main, "spawn")
     ELSE mainix' = mainix /\ Goto(Main, "unlock")
  /\ UNCHANGED <<queueVars, gcVars, taskVars, running, waited, wstate, fatal>>

MainWait ==
  /\ pc[Main] = "unlock"
  /\ WaitBegin(Main)
  /\ UNCHANGED <<queueVars, gcVars, taskVars, running, registered, mainix,
                 wstate, fatal>>

MainWake ==
  /\ pc[Main] = "waiting"
  /\ Lock(Main)
  /\ Goto(Main, "check")
  /\ UNCHANGED <<queueVars, gcVars, taskVars, poolVars, wstate, fatal>>

MainCheck ==
  /\ pc[Main] = "check"
  /\ mainix' = 1
  /\ Goto(Main, IF running THEN "unlock" ELSE "join")
  /\ UNCHANGED <<lockVars, queueVars, gcVars, taskVars, running, registered,
                 waited, wstate, fatal>>

\* thrp->join() returns once the worker's function has returned.
MainJoin ==
  /\ pc[Main] = "join"
  /\ registered[mainix] => pc[mainix] = "done"
  /\ registered' = [registered EXCEPT ![mainix] = FALSE]
  /\ IF MoreJobs
     THEN mainix' = mainix + 1 /\ UNCHANGED pc
     ELSE mainix' = mainix /\ Goto(Main, "unlock")
  /\ UNCHANGED <<lockVars, queueVars, gcVars, taskVars, running, waited,
                 wstate, fatal>>

\* Called by the event loop when the agenda's delay has run out.
Stop ==
  /\ running
  /\ running' = FALSE
  /\ UNCHANGED <<lockVars, queueVars, gcVars, taskVars, registered, mainix,
                 waited, wstate, pc, fatal>>

-----------------------------------------------------------------------------
(* run_agenda_worker.                                                      *)

\* The new thread polls agenda_thread_array_[ix] until it finds itself ...
Boot(w) ==
  /\ pc[w] = "boot" /\ registered[w]
  /\ wstate' = [wstate EXCEPT ![w] = "Idle"]
  /\ Goto(w, "loop")
  /\ UNCHANGED <<lockVars, queueVars, gcVars, taskVars, poolVars, fatal>>

\* ... or gives up after maxloop polls; a last poll that does find it is not
\* told from a failure.
BootTimeout(w) ==
  /\ pc[w] = "boot"
  /\ Die("not registered")
  /\ UNCHANGED <<lockVars, queueVars, gcVars, taskVars, poolVars, wstate, pc>>

\* Mutant: the loop does not test agenda_is_running_.
LoopForever(w) ==
  /\ pc[w] = "loop"
  /\ Goto(w, "threshold")
  /\ UNCHANGED <<lockVars, queueVars, gcVars, taskVars, poolVars, wstate, fatal>>

\* Mutant: continue instead of leaving the loop.
LoopContinue(w) ==
  /\ pc[w] = "loop"
  /\ Goto(w, IF running THEN "threshold" ELSE "loop")
  /\ UNCHANGED <<lockVars, queueVars, gcVars, taskVars, poolVars, wstate, fatal>>

LoopTest(w) ==
  /\ pc[w] = "loop"
  /\ Goto(w, IF running THEN "threshold" ELSE "exit")
  /\ UNCHANGED <<lockVars, queueVars, gcVars, taskVars, poolVars, wstate, fatal>>

\* agenda_cumulw_gc_ + agenda_gc_threshold > cumulative_allocated_wordcount()
Threshold(w) ==
  /\ pc[w] = "threshold"
  /\ Goto(w, IF little THEN "setneeds" ELSE "checkgc")
  /\ UNCHANGED <<lockVars, queueVars, gcVars, taskVars, poolVars, wstate, fatal>>

SetNeeds(w) ==
  /\ pc[w] = "setneeds"
  /\ needs' = TRUE
  /\ Goto(w, "checkgc")
  /\ UNCHANGED <<lockVars, queueVars, little, callframe, loopcnt, taskVars,
                 poolVars, wstate, fatal>>

CheckGc(w) ==
  /\ pc[w] = "checkgc"
  /\ Goto(w, IF needs THEN "gcenter" ELSE "dispatch")
  /\ UNCHANGED <<lockVars, queueVars, gcVars, taskVars, poolVars, wstate, fatal>>

\* The switch on agenda_work_thread_state_[ix].
Dispatch(w) ==
  /\ pc[w] = "dispatch"
  /\ wstate' = [wstate EXCEPT ![w] = IF @ = "EndGC" THEN "Idle" ELSE @]
  /\ Goto(w, IF wstate[w] \in {"Idle", "Run"} THEN "fetch" ELSE "loop")
  /\ UNCHANGED <<lockVars, queueVars, gcVars, taskVars, poolVars, fatal>>

\* Mutant: only a closure that is there is assigned to _f.clostodo.
ClosureKept(w, t) == IF Closure[t] = "closure" THEN t ELSE clos[w]

\* _f.clostodo is assigned only when the tasklet has a payload of its own, and
\* otherwise still holds the closure of an earlier tasklet.
ClosureAfter(w, t) ==
  CASE Closure[t] = "closure"   -> t
    [] Closure[t] = "empty"     -> NoTasklet
    [] Closure[t] = "nopayload" -> clos[w]

FetchTask(w) ==
  /\ pc[w] = "fetch" /\ CanLock(w)
  /\ \E p \in Prios :
       /\ Pop(w, p)
       /\ cur'  = [cur  EXCEPT ![w] = Head(fifo[p])]
       /\ clos' = [clos EXCEPT ![w] = ClosureAfter(w, Head(fifo[p]))]
  /\ IF clos'[w] # NoTasklet
     THEN wstate' = [wstate EXCEPT ![w] = "Run"] /\ Goto(w, "apply")
     ELSE wstate' = wstate /\ Goto(w, "loop")
  /\ UNCHANGED <<lockVars, gcVars, poolVars, fatal>>

FetchNothing(w) ==
  /\ pc[w] = "fetch" /\ CanLock(w) /\ AllEmpty
  /\ cur' = [cur EXCEPT ![w] = NoTasklet]
  /\ wstate' = [wstate EXCEPT ![w] = "Idle"]
  /\ Goto(w, "wait")
  /\ UNCHANGED <<lockVars, queueVars, gcVars, clos, poolVars, fatal>>

WorkerWait(w) ==
  /\ pc[w] = "wait"
  /\ WaitBegin(w)
  /\ UNCHANGED <<queueVars, gcVars, taskVars, running, registered, mainix,
                 wstate, fatal>>

\* Mutant: a unique_lock whose scope is the wait.
WorkerWakeScoped(w) ==
  /\ pc[w] = "waiting" /\ CanLock(w)
  /\ Goto(w, "loop")
  /\ UNCHANGED <<lockVars, queueVars, gcVars, taskVars, poolVars, wstate, fatal>>

WorkerWake(w) ==
  /\ pc[w] = "waiting"
  /\ Lock(w)
  /\ Goto(w, "loop")
  /\ UNCHANGED <<queueVars, gcVars, taskVars, poolVars, wstate, fatal>>

\* clostodo.apply1(obtasklet): arbitrary code, which may add tasklets, return,
\* or throw a std::exception.
ApplyAdd(w) ==
  /\ pc[w] = "apply" /\ CanLock(w)
  /\ \E t \in Tasklets, p \in Prios : Push(t, p)
  /\ UNCHANGED <<lockVars, gcVars, taskVars, poolVars, wstate, pc, fatal>>

ApplyReturn(w) ==
  /\ pc[w] = "apply"
  /\ Goto(w, "loop")
  /\ UNCHANGED <<lockVars, queueVars, gcVars, taskVars, poolVars, wstate, fatal>>

ApplyThrow(w) ==
  /\ pc[w] = "apply"
  /\ wstate' = [wstate EXCEPT ![w] = "Idle"]
  /\ Goto(w, "loop")
  /\ UNCHANGED <<lockVars, queueVars, gcVars, taskVars, poolVars, fatal>>

Exit(w) ==
  /\ pc[w] = "exit"
  /\ wstate' = [wstate EXCEPT ![w] = "None"]
  /\ Goto(w, "done")
  /\ UNCHANGED <<lockVars, queueVars, gcVars, taskVars, poolVars, fatal>>

-----------------------------------------------------------------------------
(* do_garbage_collect.                                                     *)

GcEnter(w) ==
  /\ pc[w] = "gcenter"
  /\ IF callframe[w]
     THEN Die("call frame set") /\ UNCHANGED <<pc, wstate>>
     ELSE /\ wstate' = [wstate EXCEPT ![w] = "GC"]
          /\ Goto(w, "gcframe")
          /\ UNCHANGED fatal
  /\ UNCHANGED <<lockVars, queueVars, gcVars, taskVars, poolVars>>

GcFrame(w) ==
  /\ pc[w] = "gcframe"
  /\ callframe' = [callframe EXCEPT ![w] = TRUE]
  /\ loopcnt' = [loopcnt EXCEPT ![w] = 0]
  /\ Goto(w, "gcwait")
  /\ UNCHANGED <<lockVars, queueVars, needs, little, taskVars, poolVars, wstate,
                 fatal>>

\* Mutant: workers that do not run a tasklet are good enough.
NoWorkerRuns == \A w \in Workers : registered[w] => wstate[w] # "Run"

\* The predicate of the wait, evaluated under agenda_mtx_: workers that are not
\* in agenda_thread_array_ do not count.
EveryWorkerIsGc == \A w \in Workers : registered[w] => wstate[w] = "GC"

\* One turn of the waiting loop: the predicate holds, or the wait timed out.
GcWait(w) ==
  /\ pc[w] = "gcwait" /\ CanLock(w)
  /\ IF loopcnt[w] > MaxWaitLoop
     THEN Die("gc wait timed out") /\ UNCHANGED <<pc, loopcnt>>
     ELSE /\ loopcnt' = [loopcnt EXCEPT ![w] = @ + 1]
          /\ Goto(w, IF EveryWorkerIsGc THEN "gcgo" ELSE "gcwait")
          /\ UNCHANGED fatal
  /\ UNCHANGED <<lockVars, queueVars, needs, little, callframe, taskVars,
                 poolVars, wstate>>

\* Worker 1 calls rps_garbage_collect under the lock.  Its marking phase asserts
\* rps_is_main_thread() in rps_garbcoll_application, before it reaches the
\* function that would scan the call frames: the process stops here.
GcCollect(w) ==
  /\ pc[w] = "gcgo" /\ w = 1 /\ CanLock(w)
  /\ Die("not main thread")
  /\ UNCHANGED <<lockVars, queueVars, gcVars, taskVars, poolVars, wstate, pc>>

\* Every other worker moves all threads from GC to EndGC and returns.
GcEnd(w) ==
  /\ pc[w] = "gcgo" /\ w # 1
  /\ wstate' = [v \in Workers |->
                  IF registered[v] /\ wstate[v] = "GC" THEN "EndGC" ELSE wstate[v]]
  /\ Goto(w, "loop")
  /\ UNCHANGED <<lockVars, queueVars, gcVars, taskVars, poolVars, fatal>>

-----------------------------------------------------------------------------
(* The other threads of the process.                                       *)

ClientAdd ==
  /\ owner = NoOwner
  /\ \E t \in Tasklets, p \in Prios : Push(t, p)
  /\ UNCHANGED <<lockVars, gcVars, taskVars, poolVars, wstate, pc, fatal>>

\* cumulative_allocated_wordcount() only grows.
Allocate ==
  /\ little
  /\ little' = FALSE
  /\ UNCHANGED <<lockVars, queueVars, needs, callframe, loopcnt, taskVars,
                 poolVars, wstate, pc, fatal>>

-----------------------------------------------------------------------------
MainStep == MainStart \/ MainSpawn \/ MainPublish \/ MainWait \/ MainWake
            \/ MainCheck \/ MainJoin

GcStep(w) == GcEnter(w) \/ GcFrame(w) \/ GcWait(w) \/ GcCollect(w) \/ GcEnd(w)

\* What a worker must go on doing; a tasklet may add tasklets, need not throw,
\* and the boot poll need not time out.
WorkerProgress(w) ==
  \/ Boot(w) \/ LoopTest(w) \/ Threshold(w) \/ SetNeeds(w) \/ CheckGc(w)
  \/ Dispatch(w) \/ FetchTask(w) \/ FetchNothing(w) \/ WorkerWait(w)
  \/ WorkerWake(w) \/ ApplyReturn(w) \/ Exit(w) \/ GcStep(w)

WorkerStep(w) == WorkerProgress(w) \/ BootTimeout(w) \/ ApplyAdd(w)
                 \/ ApplyThrow(w)

Next ==
  /\ fatal = "no"
  /\ \/ MainStep
     \/ \E w \in Workers : WorkerStep(w)
     \/ Stop \/ ClientAdd \/ Allocate

Spec == Init /\ [][Next]_vars

\* Threads are scheduled, timed waits end, tasklets return, and a thread that
\* finds the mutex free again and again gets it at last (strong fairness: the
\* holder releases it for tens of milliseconds at each of its waits).
Fairness ==
  /\ WF_vars(fatal = "no" /\ MainStep)
  /\ SF_vars(fatal = "no" /\ (MainSpawn \/ MainWake))
  /\ \A w \in Workers :
       /\ WF_vars(fatal = "no" /\ WorkerProgress(w))
       /\ SF_vars(fatal = "no" /\ (WorkerWake(w) \/ FetchTask(w)
                                   \/ FetchNothing(w) \/ GcWait(w)))

FairSpec == Spec /\ Fairness
-----------------------------------------------------------------------------
(* Properties.                                                             *)

\* Every variable stays in its type.
LockTypes  == owner \in Threads \cup {NoOwner} /\ depth \in Nat
QueueTypes == /\ fifo \in [Prios -> Seq(Tasklets)] /\ nadd \in 0 .. MaxAdds
              /\ added \in [Prios -> Seq(Tasklets)]
              /\ started \in [Prios -> Seq(Tasklets)]
              /\ late \in [Workers -> Nat]
GcTypes    == /\ needs \in BOOLEAN /\ little \in BOOLEAN
              /\ callframe \in [Workers -> BOOLEAN]
              /\ loopcnt \in [Workers -> Nat]
TaskTypes  == /\ cur \in [Workers -> Tasklets \cup {NoTasklet}]
              /\ clos \in [Workers -> Tasklets \cup {NoTasklet}]
PoolTypes  == /\ running \in BOOLEAN /\ registered \in [Workers -> BOOLEAN]
              /\ mainix \in Workers /\ waited \subseteq Threads
StateTypes == wstate \in [Workers -> ThreadStates]
PcTypes    == /\ pc \in [Threads -> MainPcs \cup WorkerPcs]
              /\ pc[Main] \in MainPcs
              /\ \A w \in Workers : pc[w] \in WorkerPcs
TypeOK == /\ LockTypes /\ QueueTypes /\ GcTypes /\ TaskTypes /\ PoolTypes
          /\ StateTypes /\ PcTypes /\ fatal \in Reasons

\* A thread keeps the mutex from the end of its first wait_for on, except
\* inside the later waits: nothing else unlocks what the wait has locked.
Holds(t) == \/ t \in waited /\ pc[t] # "waiting"
            \/ t = Main /\ pc[t] = "publish"

LockInv == /\ depth = (IF owner = NoOwner THEN 0 ELSE 1)
           /\ \A t \in Threads : owner = t <=> Holds(t)

\* Of the threads that have once waited on the agenda, one at most is outside
\* wait_for: their tasklets run one after the other, never at the same time.
SerializedAfterWait ==
  \A t, u \in waited : t # u => pc[t] = "waiting" \/ pc[u] = "waiting"

\* Whatever the interleaving of adders and workers, the tasklets of a priority
\* are started once each, in the order they were added (add_tasklet pushes at
\* the back, fetch_tasklet_to_run takes from the front).
OrderKept == \A p \in Prios : added[p] = started[p] \o fifo[p]

\* A worker that has passed its test of agenda_is_running_ when the agenda is
\* stopped fetches one more tasklet, and never a second one.
LateFetchBound == \A w \in Workers : late[w] <= 1

\* While some worker is past the barrier of do_garbage_collect no worker is
\* inside a tasklet, late starters included.
NoTaskletAtCollection ==
  (\E w \in Workers : pc[w] = "gcgo") => \A v \in Workers : pc[v] # "apply"

\* A closure found in a tasklet's own payload is applied to that tasklet.
OwnClosure ==
  \A w \in Workers :
    pc[w] = "apply" /\ Closure[cur[w]] # "nopayload" => clos[w] = cur[w]

\* While the agenda runs no tasklet waits for ever, unless others of higher
\* priorities are added for ever, which come first: of each queue tasklets are
\* taken again and again, or it is empty again and again.  Nothing keeps those of
\* AgPrio_High waiting.
AddedAbove(p) == [q \in {x \in Prios : x > p} |-> added[q]]
ServedUnlessOvertaken ==
  \A p \in Prios :
    \/ []<>(fifo[p] = <<>> \/ ~running \/ fatal # "no")
    \/ []<><<started'[p] # started[p] \/ AddedAbove(p)' # AddedAbove(p)>>_vars

\* Once the agenda is stopped no worker stays active: in the end each one has
\* returned, was never created, sleeps in wait_for, or is blocked for ever on
\* the mutex when it comes for the one more tasklet.
Quiet(w) == \/ pc[w] \in {"none", "waiting", "done"}
            \/ pc[w] = "fetch" /\ ~CanLock(w)
StopQuiesces ==
  (pc[Main] # "idle" /\ ~running)
    ~> [](fatal # "no" \/ \A w \in Workers : Quiet(w))

-----------------------------------------------------------------------------
(* What comments and documents say of the agenda, and the code does not do. *)

\* "This does not return till the agenda has stopped": once told to stop, the
\* workers return and rps_run_agenda_mechanism gets to join them all.
AgendaStops ==
  (pc[Main] # "idle" /\ ~running)
    ~> (fatal # "no" \/ \A w \in Workers : pc[w] \in {"none", "done"})

=============================================================================
