------------------------------ MODULE EventLoop ------------------------------
(***************************************************************************)
(* The event loop of the main thread (eventloop_rps.cc) and the start of   *)
(* unix processes (transientobj_rps.cc), which ask it for work through the *)
(* pipe to self.                                                           *)
(*                                                                         *)
(* The functions rps_postpone_* may be called by any thread.  Each pushes  *)
(* one byte on eld_selfpipefifo.  The main thread moves these bytes to the *)
(* pipe, last one first, when poll(2) reports the pipe writable, reads     *)
(* them back when it reports the pipe readable, and handles them.  A       *)
(* request is identified by its rank: kind[i] is the byte posted i-th.     *)
(*                                                                         *)
(* No program of this repository arms the timerfd or gets as far as the    *)
(* loop with the FIFOs of a graphical interface, so neither is polled      *)
(* here with any effect.                                                   *)
(***************************************************************************)
EXTENDS Naturals, SequencesExt

CONSTANTS
  Processes,     \* the objects with a Rps_PayloadUnixProcess
  ReadSize,      \* sizeof(buf) in the reading handler, 128
  PipeCapacity,  \* what a pipe holds, 65536 bytes on Linux
  MaxPosts       \* bound on the number of requests

ASSUME SizesAssumption == /\ ReadSize \in Nat \ {0} /\ PipeCapacity \in Nat \ {0}
                          /\ MaxPosts \in Nat

\* SelfPipe_Dump, SelfPipe_GarbColl, SelfPipe_Quit, SelfPipe_Exit and
\* SelfPipe_Process; only start_process posts the last one.
Kinds == {"D", "G", "Q", "X", "P"}

VARIABLES
  kind,      \* history: the bytes posted, in the order of the calls
  fifo,      \* eld_selfpipefifo
  pipe,      \* the bytes inside the pipe
  buf,       \* the rest of the buffer that the reading handler goes through
  handled,   \* history: the requests handled, in that order
  stop,      \* rps_stop_event_loop_flag
  pc,        \* where the main thread is
  want,      \* wantselfwrite
  revents,   \* the handlers still to be called for the last poll
  due,       \* the elapsed time has reached agenda_timeout
  queue,     \* queue_of_runnable_processes
  fate       \* "alive", or what ended the process

pipeVars == <<kind, fifo, pipe, buf, handled>>
loopVars == <<stop, pc, want, revents, due>>
vars == <<pipeVars, loopVars, queue, fate>>

Pcs   == {"test", "prepare", "delay", "poll", "dispatch", "read", "write", "ended"}
Fates == {"alive", "unexpected byte", "killed by a signal"}

Init ==
  /\ kind = <<>> /\ fifo = <<>> /\ pipe = <<>> /\ buf = <<>> /\ handled = <<>>
  /\ stop = FALSE /\ pc = "test" /\ want = FALSE /\ revents = {} /\ due = FALSE
  /\ queue = <<>> /\ fate = "alive"

-----------------------------------------------------------------------------
(* Calls from any thread.                                                   *)

\* rps_self_pipe_write_byte; the main thread holds eld_mtx while it writes.
PostByte(b) ==
  /\ pc # "write" /\ Len(kind) < MaxPosts
  /\ kind' = Append(kind, b)
  /\ fifo' = Append(fifo, Len(kind) + 1)
  /\ UNCHANGED <<pipe, buf, handled>>

Postpone(b) ==
  /\ b \in Kinds \ {"P"}
  /\ PostByte(b)
  /\ UNCHANGED <<loopVars, queue, fate>>

\* _unixproc_pid is never set, so a process may be started again and again.
StartProcess(p) ==
  /\ PostByte("P")
  /\ queue' = Append(queue, p)
  /\ UNCHANGED <<loopVars, fate>>

DoStop ==
  /\ ~stop
  /\ stop' = TRUE
  /\ UNCHANGED <<pipeVars, pc, want, revents, due, queue, fate>>

DelayRunsOut ==
  /\ ~due
  /\ due' = TRUE
  /\ UNCHANGED <<pipeVars, stop, pc, want, revents, queue, fate>>

\* The signals of the signalfd are not blocked: SIGTERM, SIGINT, SIGXCPU and the
\* alarms keep their default disposition, and SIGCHLD is ignored.
Signal ==
  /\ fate' = "killed by a signal"
  /\ UNCHANGED <<pipeVars, loopVars, queue>>

-----------------------------------------------------------------------------
(* rps_event_loop.                                                          *)

Goto(l) == pc' = l

LoopTest ==
  /\ pc = "test"
  /\ Goto(IF stop THEN "ended" ELSE "prepare")
  /\ UNCHANGED <<pipeVars, stop, want, revents, due, queue, fate>>

\* Mutant: without the negation.
PrepareNegated ==
  /\ pc = "prepare"
  /\ want' = (fifo = <<>>)
  /\ Goto("delay")
  /\ UNCHANGED <<pipeVars, stop, revents, due, queue, fate>>

\* Under eld_mtx: is there something to write to the pipe?
Prepare ==
  /\ pc = "prepare"
  /\ want' = (fifo # <<>>)
  /\ Goto("delay")
  /\ UNCHANGED <<pipeVars, stop, revents, due, queue, fate>>

\* rps_stop_agenda_mechanism, and out of the loop.
CheckDelay ==
  /\ pc = "delay"
  /\ Goto(IF due THEN "ended" ELSE "poll")
  /\ UNCHANGED <<pipeVars, stop, want, revents, due, queue, fate>>

\* poll(2) returns the events there are, none after its timeout.
Poll ==
  /\ pc = "poll"
  /\ revents' = (IF pipe # <<>> THEN {"read"} ELSE {})
                \cup (IF want /\ Len(pipe) < PipeCapacity THEN {"write"} ELSE {})
  /\ Goto("dispatch")
  /\ UNCHANGED <<pipeVars, stop, want, due, queue, fate>>

\* Mutant: i < sizeof(buf).
ReadWholeBuffer ==
  /\ pc = "dispatch" /\ "read" \in revents
  /\ buf'  = [i \in 1 .. ReadSize |-> IF i <= Len(pipe) THEN pipe[i] ELSE 0]
  /\ pipe' = SubSeq(pipe, ReadSize + 1, Len(pipe))
  /\ revents' = revents \ {"read"}
  /\ Goto("read")
  /\ UNCHANGED <<kind, fifo, handled, stop, want, due, queue, fate>>

\* The handlers are called by rank: reading before writing.
CallRead ==
  /\ pc = "dispatch" /\ "read" \in revents
  /\ LET n == IF Len(pipe) < ReadSize THEN Len(pipe) ELSE ReadSize IN
       /\ buf'  = SubSeq(pipe, 1, n)
       /\ pipe' = SubSeq(pipe, n + 1, Len(pipe))
  /\ revents' = revents \ {"read"}
  /\ Goto("read")
  /\ UNCHANGED <<kind, fifo, handled, stop, want, due, queue, fate>>

CallWrite ==
  /\ pc = "dispatch" /\ revents = {"write"}
  /\ revents' = {}
  /\ Goto("write")
  /\ UNCHANGED <<pipeVars, stop, want, due, queue, fate>>

EndDispatch ==
  /\ pc = "dispatch" /\ revents = {}
  /\ Goto("test")
  /\ UNCHANGED <<pipeVars, stop, want, revents, due, queue, fate>>

\* handle_self_pipe_byte_rps of the next byte: dump, collect, stop or both.
Handle ==
  /\ pc = "read" /\ buf # <<>> /\ kind[Head(buf)] # "P"
  /\ handled' = Append(handled, Head(buf))
  /\ buf' = Tail(buf)
  /\ stop' = (stop \/ kind[Head(buf)] \in {"Q", "X"})
  /\ UNCHANGED <<kind, fifo, pipe, pc, want, revents, due, queue, fate>>

\* SelfPipe_Process falls through to the default case, a fatal error.
HandleProcess ==
  /\ pc = "read" /\ buf # <<>> /\ kind[Head(buf)] = "P"
  /\ fate' = "unexpected byte"
  /\ UNCHANGED <<pipeVars, loopVars, queue>>

\* Mutant: the handler leaves its buffer as soon as the loop must stop.
EndReadAtStop ==
  /\ pc = "read" /\ (buf = <<>> \/ stop)
  /\ Goto("dispatch")
  /\ UNCHANGED <<pipeVars, stop, want, revents, due, queue, fate>>

EndRead ==
  /\ pc = "read" /\ buf = <<>>
  /\ Goto("dispatch")
  /\ UNCHANGED <<pipeVars, stop, want, revents, due, queue, fate>>

\* Mutant: back(), then pop_front().
PopOtherEnd ==
  /\ pc = "write" /\ fifo # <<>> /\ Len(pipe) < PipeCapacity
  /\ pipe' = Append(pipe, Last(fifo))
  /\ fifo' = Tail(fifo)
  /\ UNCHANGED <<kind, buf, handled, loopVars, queue, fate>>

\* Mutant: without pop_back().
WriteAgain ==
  /\ pc = "write" /\ fifo # <<>> /\ Len(pipe) < PipeCapacity
  /\ pipe' = Append(pipe, Last(fifo))
  /\ UNCHANGED <<kind, fifo, buf, handled, loopVars, queue, fate>>

\* One turn of the writing loop, under eld_mtx.  The pipe is not O_NONBLOCK: the
\* write blocks while it is full.
WriteByte ==
  /\ pc = "write" /\ fifo # <<>> /\ Len(pipe) < PipeCapacity
  /\ pipe' = Append(pipe, Last(fifo))
  /\ fifo' = Front(fifo)
  /\ UNCHANGED <<kind, buf, handled, loopVars, queue, fate>>

EndWrite ==
  /\ pc = "write" /\ fifo = <<>>
  /\ Goto("dispatch")
  /\ UNCHANGED <<pipeVars, stop, want, revents, due, queue, fate>>

-----------------------------------------------------------------------------
MainStep == LoopTest \/ Prepare \/ CheckDelay \/ Poll \/ CallRead \/ CallWrite
            \/ EndDispatch \/ Handle \/ HandleProcess \/ EndRead \/ WriteByte \/ EndWrite

Next ==
  /\ fate = "alive" /\ pc # "ended"
  /\ \/ MainStep
     \/ \E b \in Kinds : Postpone(b)
     \/ \E p \in Processes : StartProcess(p)
     \/ DoStop \/ DelayRunsOut \/ Signal

Spec == Init /\ [][Next]_vars

\* poll(2) has a timeout, so the main thread goes on unless a write blocks it.
FairSpec == Spec /\ WF_vars(fate = "alive" /\ pc # "ended" /\ MainStep)
-----------------------------------------------------------------------------
(* Properties.                                                              *)

Ranks == 1 .. Len(kind)

\* Every variable stays in its type; what is queued has been posted.
TypeOK ==
  /\ kind \in Seq(Kinds) /\ Len(kind) <= MaxPosts
  /\ fifo \in Seq(Ranks) /\ pipe \in Seq(Ranks) /\ buf \in Seq(Ranks)
  /\ handled \in Seq(Ranks)
  /\ stop \in BOOLEAN /\ pc \in Pcs /\ want \in BOOLEAN /\ due \in BOOLEAN
  /\ revents \subseteq {"read", "write"}
  /\ queue \in Seq(Processes) /\ fate \in Fates

\* A request is always in one place, and there once: waiting in the fifo, in the
\* pipe, in the buffer of the reading handler, or handled.  None is lost or done
\* twice between the two mutex sections, the two ends of the pipe and the handler.
Everywhere == handled \o buf \o pipe \o fifo
NothingLost == ToSet(Everywhere) = Ranks /\ IsInjective(Everywhere)

\* The pipe reverses the requests, but never beyond a batch: as long as the
\* requests fit one read, those handled when the loop comes round are exactly the
\* first so many posted.  Whatever was posted before a quit is done before the
\* loop ends.
BatchesInOrder ==
  (Len(kind) <= ReadSize /\ pc \notin {"read", "write"})
     => \E n \in 0 .. Len(kind) : ToSet(handled) = 1 .. n

\* The main thread blocks on the full pipe, for ever since it is the one that
\* reads it, only when more requests than the pipe can hold were outstanding.
Blocked == pc = "write" /\ fifo # <<>> /\ Len(pipe) = PipeCapacity
BlockedOnlyWhenFull == Blocked => Len(kind) - Len(handled) > PipeCapacity

\* Every request is handled in the end, unless the loop or the process ends, or
\* the main thread blocks.
Served ==
  \A i \in 1 .. MaxPosts :
    i \in Ranks ~> (i \in ToSet(handled) \/ pc = "ended" \/ fate # "alive" \/ Blocked)
=============================================================================
