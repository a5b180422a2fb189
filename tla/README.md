# A TLA+ model of RefPerSys

RefPerSys is a C++ program: a persistent heap of objects and values, with its
own precise garbage collector, an agenda of tasklets served by a pool of
threads, an event loop, a textual store that is loaded at startup and dumped
before exit, and a read eval print loop to drive it all. This directory holds
TLA+ modules that model its parts from the source, TLC configurations that check
them on small instances, and theorems about them proved with TLAPS.

All paths below are relative to the root of the repository (`src/` here).

## 1. Inventory

| Part | Source | State it keeps | Operations | What makes it correct |
|---|---|---|---|---|
| Agenda | `agenda_rps.cc`, class `Rps_Agenda` in `refpersys.hh` | one recursive mutex and condition variable, a deque of tasklets per priority, the running flag, the table of worker threads, a state and a call frame per worker | add, fetch, run, wait, stop, join, collection barrier | each queue is first in first out, no tasklet is run twice or lost, the mutex is released, tasklets and collections never overlap, a stopped agenda comes to rest |
| Garbage collector | `garbcoll_rps.cc`, marking in `inline_rps.hh`, `objects_rps.cc`, `refpersys.hh`, sweeping in `values_rps.cc` | mark bits, the queue of objects to scan, the zone table, `gc_running` | clear marks, mark roots and frames, scan objects, sweep | what can be reached stays, all the rest goes, every collection ends |
| Event loop | `eventloop_rps.cc` | fifo of postponed bytes under `eld_mtx`, the pipe to self, stop and active flags, polled descriptors | postpone a dump, a collection, a quit; poll; call handlers | no request is lost or done twice, order, no blocking |
| Unix processes | `transientobj_rps.cc` | queue and set of runnable processes under one mutex | start, mark, go through the queue | a started process is known to the event loop and to the collector |
| Zone table | `values_rps.cc`, `inline_rps.hh` | `qz_zonvec`, `qz_cnt`, the rank of each zone, all under `qz_mtx` | register, unregister, visit by rank | every live zone has one rank of its own; a scan visits each zone once though it deletes some |
| Objects and their registry | `objects_rps.cc`, `oid_rps.hh`, `refpersys.hh` | maps by oid and by bucket under `ob_idmtx_`, attributes, components, payload, class, space under a mutex per object | create, find, put and remove attributes, replace payloads | an oid has one object, in both maps; an object is found by its oid |
| Symbols, classes | `objects_rps.cc` | table of symbols under `symb_tablemtx`, `rps_symbol_mtx`, method dictionaries, superclasses | make symbols and named classes, find by name, install methods | a name has one symbol, a named class and its symbol refer to each other, no assertion fails, no mutex stays locked |
| Immutable values | `values_rps.cc`, `morevalues_rps.cc`, `scalar_rps.cc` | none | make, compare, hash, search | sets are sorted without duplicates, equal values hash alike |
| Object ids, primes | `oid_rps.hh`, `primes_rps.cc` | none | text to oid and back, bucket number, next prime | round trips, bounds |
| String buffers, dictionaries | `strbufdict_rps.cc` | their contents | append, find, add, remove | |
| Loader | `load_rps.cc` | spaces and objects seen, todos deferred, pass number | manifest, first pass, second pass, todos, roots | what a complete dump wrote is accepted and gives the same heap |
| Dumper | `dump_rps.cc` | objects and plugins to dump, scan queue, opened temporary files, under `du_mtx` | scan, write, back up, rename | everything reachable is written; the scan ends; a crash or a failed write never takes the last good store away |
| Lexer, parser, REPL, commands | `lexer_rps.cc`, `parsrepl_rps.cc`, `suparsrepl_rps.cc`, `repl_rps.cc`, `cmdrepl_rps.cc` | current line and column, look-ahead tokens, environments | next token, look ahead, consume, parse, run a command | look-ahead consumes nothing; a failed parse restores |
| Startup and shutdown | `main_rps.cc` | options | initialize, load, run commands, event loop, dump | order |

Not considered: code generation (`cppgen_rps.cc`, `lightgen_rps.cc`, stubs),
backtraces and formatting (`backtrace_rps.cc`, most of `utilities_rps.cc`), the
web client (`curl_rps.cc`), plugins (straight-line programs), `oldplugins/`,
`attic/`, `bsd/`, generated files and the configuration programs. The JavaScript
of the repository is all in `attic/webroot`: vendored copies of jQuery, jQuery
UI, Vue and Bootstrap, and one script of a web interface that the present program
no longer serves. None of it is part of the running system, which is C++.

### How the parts interact

* The main thread runs `main`, loads the store, runs commands, then
  `rps_event_loop` unless in batch mode, then dumps. The loop is told what to do
  through shared state: any thread may push a byte on a fifo, and
  `rps_do_stop_event_loop` sets a flag.
* When the agenda's delay has run out the event loop calls
  `rps_stop_agenda_mechanism`. Workers share the agenda's mutex with every thread
  that adds a tasklet. Tasklets are closures: arbitrary code that may add
  tasklets, allocate, or throw.
* The collector is called by the event loop for a byte `G`, by the command `!gc`,
  and by the first worker of the agenda. It runs the virtual marking methods of
  all the other parts.
* Every constructor of a quasi-zone puts it in the zone table, and every
  destructor takes it out; the sweep goes through the table while destructors run.
* `rps_dump_into` and `rps_load_from` meet only through files. A dump calls back:
  virtual dumping methods of objects and payloads, and the method of selector
  `generate_code`, which may change the heap that is being dumped.
* `Rps_PayloadUnixProcess::start_process` pushes on its own queue, then posts a
  byte to the event loop, under two mutexes.

### What is hard

Threads: the agenda's mutex is used through `wait_for` in a way that leaves it
locked; the collection barrier reads several atomics that change meanwhile; the
fifo of the event loop is tested in one critical section and emptied in another.
Order: the fifo is emptied from its back. Limits: the pipe has a capacity and its
only reader is its only writer; marking has a maximal depth. Failure: exceptions
of tasklets, of too deep marking, of payloads that cannot be erased; fatal
errors of timed loops; a dump that stops between two renamings, or whose writes
fail unseen; a restart from whatever files are there. Staleness: a name that was
free, an id that was unused, an object found in a table, all used after the mutex
was unlocked. The hazards in
`PROJECT.json` list each at its line.

## 2. The modules

| Module | Models | Checked with | Proofs |
|---|---|---|---|
| `Agenda` | `agenda_rps.cc`: adding, fetching, workers, main function, stop, collection barrier | `MCAgenda` | `AgendaProofs` |
| `GarbageCollector` | `garbcoll_rps.cc` and the marking and sweeping methods | `MCGarbageCollector` | `GarbageCollectorProofs`, `CollectionProofs` |
| `Mailbox` | abstract: requests posted, taken in batches and done | refined by `EventLoop` | |
| `EventLoop` | `eventloop_rps.cc`, `start_process` of `transientobj_rps.cc` | `MCEventLoop` | `EventLoopProofs` |
| `ZoneSet` | abstract: a set of zones and a scan of it | refined by `ZoneTable` | |
| `ZoneTable` | the zone table of `values_rps.cc` and `inline_rps.hh` | `MCZoneTable` | `ZoneTableProofs` |
| `Registry` | oids, the maps of objects, the table of symbols, named classes | `MCRegistry` | `RegistryProofs` |
| `AtomicStore` | abstract: a heap that is saved and loaded in one step | refined by `Persistence` | |
| `Store` | the heap, the files, and the changes of both | `Persistence` | |
| `Dumper` | `dump_rps.cc`, extends `Store` | `Persistence` | |
| `Loader` | `load_rps.cc`, extends `Store` | `Persistence` | |
| `Persistence` | `Dumper` and `Loader` composed: crashes and restarts | `MCPersistence` | `PersistenceProofs`, `StoreProofs` |

Operators whose comment starts with "Mutant:" are deliberate bugs of the kind a
programmer could make (a dropped guard, a wrong end of a queue). No specification
uses them; each is there to show that the property it is paired with in
`PROJECT.json` notices such a bug.

### Agenda

Thread 0 is the one inside `rps_run_agenda_mechanism`, threads 1 to `NbJobs - 1`
run `run_agenda_worker`, and all the others (which add tasklets, stop the agenda,
allocate) are the environment. `pc` has one label per point of the code where
another thread can interfere: between two accesses to shared atomics, before each
lock, inside each wait. Function `add_tasklet` and `fetch_tasklet_to_run` hold
`agenda_mtx_` from end to end and are one step each.

The heart of the model is the mutex. `agenda_changed_condvar_.wait_for(agenda_mtx_, ...)`
is called with the mutex itself by a thread that does not own it.
`condition_variable_any` unlocks its argument, sleeps, and locks it again.
The unlock of a recursive glibc mutex by a thread that is not its owner fails
with EPERM, which `std::recursive_mutex::unlock` ignores. So the first wait of a
thread acquires the mutex, and each later wait releases it only while it sleeps:
`WaitBegin` is one `Unlock` by whoever calls, the wake up is a `Lock`. This is
what the C++ standard calls undefined and what libstdc++ and glibc do. The
external definitions `CanLock`, `Lock`, `Unlock` and `WaitBegin` model these
libraries.

Simplifications. Every wait is timed, so wake ups are always possible and
notifications are not modelled. The predicate of the barrier, which reads the
atomics of all workers under the mutex, is one step, and so is the loop by which a
worker moves the others from `WthrAg_GC` to `WthrAg_EndGC`. The store of
`WthrAg_Idle` at the start of a worker is merged with the end of its boot loop.
The poll of the boot loop may give up at any time, and is the fatal error that
the code calls "won't happen in practice". `little` says whether fewer words than
the threshold were allocated since the start; `agenda_cumulw_gc_` never changes.
`RPS_ASSERT` is always compiled in. A worker that collects reaches the assertion in
`rps_garbcoll_application` that it is the main thread, and ends the process
(`GcCollect`); so `agenda_needs_garbcoll_`, once set, is never reset, as in the
code. In this tree nothing calls `rps_run_agenda_mechanism`; the model takes it as
the entry point that its declaration describes.

What holds (`agenda_safety`, `agenda_liveness`):

* `LockInv`: the mutex is owned by exactly the thread that publishes a worker, or
  that has waited and is not waiting now; never more than once.
* `SerializedAfterWait`: of two threads that have waited, one is waiting. The pool
  does not run tasklets in parallel once its workers have been idle.
* `OrderKept`: what was started from a queue followed by what is in it is what was
  added to it: nothing is lost, run twice or overtaken within a priority.
* `LateFetchBound`: a worker starts one tasklet at most after the stop.
* `NoTaskletAtCollection`: no tasklet is running while a worker is past the
  barrier, though workers start, time out and change each other's state.
* `OwnClosure`: a tasklet whose payload has a closure is run with that closure.
* `ServedUnlessOvertaken`: while the agenda runs each queue is taken from, or is empty,
  again and again, unless tasklets of higher priorities are added for ever. With the
  unbounded additions of the code a lower priority may wait for ever: that is what
  priorities are, and the second case of the property. The run's additions are
  bounded, so there every queue has to drain.
* `StopQuiesces`: after a stop every worker ends, waits, or is blocked for ever.

What a comment says and the code does not do: the agenda does not return when
stopped (`agenda_stop`).

Met while modelling and not given a run. The test at `agenda_rps.cc:225` is the
wrong way round: it asks for collections before a megaword was allocated, never
after (`Threshold`). `_f.clostodo` is never reset, so an object without a tasklet
payload is run with an earlier tasklet's closure (`agenda_rps.cc:247`,
`ClosureAfter`). A worker says it is collecting before it stores its call frame
(302, 303), a worker that is not published yet is not waited for (321), and one
that is past the barrier moves the others on (364): the world is not quite stopped
when worker 1 collects. What does hold is `NoTaskletAtCollection`.

Bounds. Two workers are the smallest pool the code allows (`RPS_NBJOBS_MIN` is 3
with the main thread) and enough for each property, which all speak of two
workers at most. `agenda_safety` has three tasklets with the three kinds of payload
and two additions, which fill one queue twice, or two queues. `agenda_liveness` has one
tasklet with a closure and two additions: it may be in two queues that compete, or be
added by itself while it runs. `agenda_stop` needs one addition only, of one of two
tasklets. `MaxWaitLoop` is 1 instead of 32: it only
bounds how often a waiting worker looks again. The runs about the queues start
with enough words allocated, since otherwise the first turn of each worker starts
a collection that ends the process; the safety run has both cases.

Fairness (`FairSpec`). The main thread and each worker go on when they can. A
tasklet returns (`ApplyReturn` is fair, adding and throwing are not). Strong
fairness for the steps that need the mutex: the threads that hold it release it
for tens of milliseconds at each wait, and glibc lets a waiting thread have a
mutex that stays free. Nothing makes clients add or stop.

### GarbageCollector

A heap is a set of zones with, for each, the references its marking method
follows in its order, and how: through `mark_obj` (which marks and queues an
object) or through `mark_value` (which marks and recurses, with a depth). `work`
is the C++ recursion as a list. Between two collections the program allocates,
appends components (`append_comp1`), drops attributes and components, and returns
from functions. The initial heap is any of a set given by the
MC module. The outcomes of undefined behaviour are states: a reference to a freed
zone leads to `pc = "undefined"`, an exception that leaves `run_gc` to
`"toodeep"`, one in a destructor to `"terminated"`.

What holds (`gc`): `Precise` (marks only reachable zones and frees all the
others, cycles included, in one collection), `ScanOnce` (however many references
lead to an object), `ScannedIntact` (what a scanned object or a marked value
refers to survives), `SafeWhenPlain` (on heaps whose attribute values, components
and sons are no objects, and whose frames hold objects only, nothing reachable is
freed) and `CollectionEnds`. `CarefulIsSafe` is about any number of collections with
the program between them: no reference to a freed object or value is left, in
roots, call frames, zones or the contents of payloads, garbage included, and the only
freed zone that a collector accesses is the payload of an object still there, as long as
the program is careful (`Careful`: the heaps of `SafeWhenPlain`, and a collection finds
objects only in the frames, which it marks). It is what `SafeWhenPlain` of one
collection does not say: that the next one never comes across a zone freed by an earlier
one. Objects may have payloads, as classes and symbols do in every real heap, and a
second collection then may well end in `undefined`: what is claimed is that a payload is
all it trips over. This is as far as safety goes. The two conditions leave out two gaps
of the marking, which neither property would notice, and most heaps of the program do
have objects as attribute values; two violated properties show gaps: an object first
reached as a value is never scanned (`gc_grey`), and the payload of a live object is
never marked (`gc_payload`). A
value that only a call frame holds is not marked either (`garbcoll_rps.cc:91`,
`MarkFrameValue`), and a collection asked for by a byte `G` marks no frames at all;
hence what is assumed of frames.

`Reachable` is defined without the collector: the intersection of all closed sets
around the roots. Bounds: three objects, two values, one payload, 48 shapes with
and without cycles, each with and without the payload, one object that may be given
components until it has two references (`MaxSlots`, any bounds in the proofs), two
collections (marks left from the first would show in the second), and a maximal depth of 1 instead of 100, which a son of a son exceeds.
A zone is allocated with contents fixed at the start, to which an object may get
components later. Fairness: the collector
is one function call, and continues once started.

Simplifications: a class-information payload marks its closures at depth 1, here
0; lexical tokens, which mark themselves in their own way, and the ranks of zones
are left out; the roots are those of `mark_gcroots` and the strong symbols as one
list. One thread runs: both callers that do not end in the failed assertion above
are in the main thread.

### EventLoop

A request is the rank of its byte among all those posted. It travels from `fifo`
to `pipe` to `buf` to `handled`. Each turn of `rps_event_loop` is a sequence of
steps: test the flag, test the fifo under its mutex, test the agenda's delay, poll,
then call the handlers by rank. Other threads post, start processes, or stop the
loop between any two steps, except while the writing handler holds `eld_mtx`.
`Signal` is a signal of the set given to `signalfd`: as nothing blocks these
signals, they end the process.

What holds (`event_loop`): `NothingLost` (each request is in exactly one place),
`BatchesInOrder` (the pipe reverses a batch, but when the loop comes round the
requests done are the first ones posted, as long as all fit one read: a quit
never overtakes what was asked before it), `BlockedOnlyWhenFull` (the main thread
blocks on its own pipe only when more requests are outstanding than it holds)
and `Served` (a request is handled unless the loop or the process ends, or the
write blocks).

Met while modelling and not given a run: the byte that `start_process` posts falls
through to the fatal error of unknown bytes (`eventloop_rps.cc:620`,
`HandleProcess`); `event_loop_is_active` is
never set, so that `rps_event_loop_is_running` always answers no
(`eventloop_rps.cc:635`); `set_of_runnable_processes` is never filled
(`transientobj_rps.cc:382`); and the signals of the signalfd are not blocked
(`eventloop_rps.cc:244`).

Bounds: three requests, a pipe of two bytes and reads of two, so that a read may
leave bytes in the pipe, a batch may exceed a read and a write may block.
Fairness: `poll` has a timeout, so the main thread goes on.

### ZoneTable

Every operation of the table runs under `qz_mtx`, a recursive mutex, so an
operation is a step, and while `every_zone` runs only the destructors that its own
function calls change the table. `Register` takes the first free rank of a window
that starts at a random rank, or appends; `WithoutZones` is what the destructors
of some zones leave. `VisitZone` is the sweep of `run_gc` on one zone: nothing, the
zone, or the zone and the payload its destructor deletes. Each `RPS_ASSERT` of the
table is a test whose failure sets `failed`. The branch of `register_in_zonevec`
that reserves a capacity asks for a capacity of at most 8/9 of the size, which no
vector has: it is dead, and `push_back` grows the vector.

`ScansTheSet` is a refinement: with `zones` the zones in the vector and `todo` those
at the ranks the scan has still to look at, `ZoneTable` implements `ZoneSet`, a set
with a scan in any order. This is what `GarbageCollector`, whose sweep takes zones
from a set `todo`, relies on. `RanksRight` and `RanksHeld` say that ranks and vector
are inverse of each other, `CountRight` what `qz_cnt` is, and `ScanEnds` that a scan
ends (`FairSpec`: a scan is one call).

Bounds: four zones, an initial size of 3 (101 in the code, where `initialize` adds
one slot to 100), a probe of 2 ranks (24) that starts before the last 2 (16) of
tables of more than 3 (128), a vector of 7 ranks at most: probes find a free rank,
find none, are cut at the end, and scans meet ranks that are free, freed, used again
and appended. The proofs need no such bounds.

### Registry

Several threads call `make_object`, `make_new_symbol`, `make_named_class` and
`find_object_by_string`. A critical section of `ob_idmtx_` or `symb_tablemtx` is a
step; `rps_symbol_mtx` and the mutex of a symbol, held over several, are variables.
Making an object is three steps, since `make()` draws an id (reserving nothing: it
passes `nullptr`), registers the object in its constructor, and sets its class.

`RegistryExact`: both maps lead from an id to the one object that has it (two
threads that draw the same id end in the fatal error of `register_objzone`, a
matter of chance, which the model allows). `NamesRight`: the table has exactly the
names of the payloads. `NameStillFree`: `make_new_symbol` may ignore what
`register_name` returns, for `rps_symbol_mtx` keeps its name free since it looked.
`NoAssertFails`: an object found by name has its payload, though it is read after
the table's mutex is unlocked. `ClassesNamed`: a class and its symbol refer to each
other, or the symbol to a later class of that name. `CallsEnd`: every call ends, no
mutex stays locked on the paths that throw.

`ids_drawn` is violated: an id is drawn in 64 bits and its low half kept in 32
(`oid_rps.hh:136`). What is left may be below `min_lo`, `find` then answers
`nullptr` for an object that is registered, and a store that has it is refused.
About one id in a million is such.

Met while modelling: a thread that makes a class by a new name may get the exception
"existing name" though it would accept that symbol, when another makes the symbol
between lines 2115 and 2117. Left out: weak symbols and destruction. Nothing is
destroyed between collections: `clear_payload` is called by the destructor and by
`forget_name` and `forget_object`, which have no caller. In this tree classes and
symbols are made by plugins on the main thread; several threads are what the
mutexes are for.

Bounds: two threads, two names, three calls, five objects, and ids of which one is
invalid; two calls may want one name while a third looks. `Room` leaves a zone to
every call. Fairness: a thread inside a call goes on.

### Persistence

`Store` holds the memory (references, spaces, roots) and the files; a file is
absent, or has contents. `Dumper` is one action per object scanned, per file written
and per `rename`; `Loader` is one step, since nothing else runs then: the
conjunction of its checks. `Persistence` adds a process that ends at any moment and
starts again, is rebuilt with the generated roots, and is dumped to the directory it
was loaded from (`create_directories` at 1584 refuses any other that exists).

A reference is an attribute value, a component, or one that the loader needs. The kind
`object` stands for all that is written and read back with the objects it names:
closures, keys, payload contents; sets and tuples are `set`, doubles `double`. Objects
without a space are transient. Spaces themselves are left out.

Place `need` is for the objects without which loading fails: the class of an object
(`load_rps.cc:533`), the superclass and symbol of a class, selectors of its methods,
elements of an object vector. The dumper writes a null for a transient one
(`objects_rps.cc:1140`, `dump_rps.cc:574`), and `Rps_ObjectRef(jv, ld)` throws on a null
(1153), which is fatal (727). A reference of place `need` thus survives as a reference to
nothing (`Written`), and the loader refuses it (`Refused`). The metaobject of a closure
would be such a place too (962), but only the loader sets one (963), so it has a space.
Likewise any object may become a root (`AddRoot`), also one without a space: the scan
skips it (`dump_rps.cc:252`), the manifest names it (1264).

* `StoreSound`: a store left by a complete dump is accepted by the program built from
  its generated roots exactly when all roots it names were saved, and no reference it
  holds is one the loader refuses: no set or tuple as attribute value, no null where an
  object is needed. So nothing else ever spoils it: counts, spaces, dangling references,
  what earlier dumps left behind.
* `StoreIsAtomic`: refinement of `AtomicStore`. As long as a complete dump is in
  place, loading gives what that dump found in memory when it started. This is so
  though dumps fail, crash, meet a double (a fatal error), or come after a dump that
  was interrupted between two renamings. A dump during which the heap changed, or
  one of whose writes failed, promises nothing (`Unknown`).
* `OldCopyKept`: with backups of two generations, each file of the last good store
  is still there, under its name, with `~` or with `~~`, until the third
  renaming since. Nothing loads the backups: restoring is the user's task.
* `DumpEnds`: the scan reaches a fixpoint on cyclic heaps and the dump ends, or the
  process does. Fairness: a dump is one function call.

The heap may change during a dump: other threads run, since only `du_mtx` is held,
and the dump itself sends `generate_code` once the spaces are written
(`dump_rps.cc:1215`). A failed write is a file without its end, as no stream is
tested. A space file cut before its first object is accepted as empty
(`load_rps.cc:325`). Renamings are taken as successful and durable: there is no
`fsync` in the code, and what a power failure does to unsynced files is left out.

Both sides of the equivalence occur in `store`: a transient root, a null class. A root
without a space is named by the manifest and in no file, though the set of roots is
commented "global roots for garbage collection and persistence"
(`utilities_rps.cc:1472`); `rpsplug_createsymbol.cc:65` makes such a root.

`store_sets` is violated: the loader tests `siz==2` while `siz` is still 0
(`load_rps.cc:897`), reads a dumped set or tuple as null, and asserts in
`loader_put_attr` that it is not null.

Bounds: three objects, one of them transient at first, two spaces, one initial root;
two changes, two dumps, one failed write. The changes can close a cycle, refer to a
transient object, also where the loader needs it, give it a space or make it a root,
use a set and a double. Two dumps are what the
second generation of backups needs, and make a complete dump follow an interrupted
one.

The deadlock check is off wherever the process may end or block for good: fatal
errors and assertions, the end of the event loop, a stopped agenda, a store that
cannot be loaded, calls used up.

### The runs

| Run | Expected | Shows |
|---|---|---|
| `agenda_safety` | passes | queues, mutex, barrier in every interleaving |
| `agenda_liveness` | passes | queues are served; a stopped agenda comes to rest |
| `agenda_stop` | violation | a stopped agenda does not return |
| `gc` | passes | all garbage goes, and on plain heaps nothing else; a careful program has no dangling reference but to payloads; collections end |
| `gc_grey`, `gc_payload` | violation | what keeps the collector from being safe on all heaps |
| `event_loop` | passes | requests are neither lost nor repeated, are done in order, are served |
| `zone_table` | passes | the table is a set, under scans that delete |
| `registry` | passes | maps, names and payloads agree, calls end |
| `ids_drawn` | violation | an object that is not found by its id |
| `store` | passes | dumps are atomic until files are renamed, and recoverable after; what a complete dump wrote is refused for transient roots, transient objects needed and sets, and for nothing else |
| `store_sets` | violation | a dumped set cannot be loaded |

## 3. What is proved

`AgendaProofs` proves, for every number of jobs, every set of tasklets and every
bound, under the assumptions of module `Agenda` (`NbJobs >= 3`, the null
reference is no tasklet, the bounds are natural numbers):

* `TypeCorrect`, `LockCorrect`, `Serialized`, `OrderCorrect`, `LateFetchCorrect`,
  `BarrierCorrect` and `ClosureIsOwn`: the corresponding properties are invariants of `Spec`;
* `WorkersWindDown` (`WindsDown`): while the agenda is stopped a worker only goes
  forward in the order of `Place`, or uses up one of its turns to wait for the others
  before a collection. Additions by its tasklet aside, it takes no step in vain.

The argument. The inductive invariant `IInv` is `TypeOK /\ LockInv /\ SpawnInv`.
`SpawnInv` says that workers are created one after the other, so that one that
does not exist yet, and the thread that creates them, have never waited; without
it `LockInv` could not be kept by the creation of a worker.
In `LockInv` the set of threads that hold the mutex is determined by `waited` and
`pc`, and each step changes `owner`, `depth`, `waited` and `pc` together; two
threads that hold it would both be its owner, which gives `SerializedAfterWait`.
`OrderKept` is inductive over typed queues: an addition extends both sides at the
end, a fetch moves the head of the queue to the end of what was started.
`ClosureIsOwn` (`OwnClosure`) needs only `IInv`: nothing but a fetch brings a worker into
a tasklet, and a fetch keeps an earlier closure only when there is no payload. `LateFetchBound` is not inductive; `LateInv` adds that no fetch is late while the
agenda runs or was never started, and that a worker that has fetched late is in
its tasklet, at its loop test or beyond: the test then fails, since a stopped agenda
is never started again. `NoTaskletAtCollection` is not inductive either; `BarrierInv`
adds that a worker is published once it is past its boot loop, that `WthrAg_GC` is
only ever the state of a worker inside `do_garbage_collect`, that a worker in there
has seen the collection flag, which is never reset, and that once a worker is past
the barrier no other is between its test of that flag and its next loop.

`GarbageCollectorProofs` proves, for every set of zones, every heap (finite or
not), every list of roots and every depth limit, under the assumptions of
module `GarbageCollector` (the kinds of zones are disjoint, the heaps are well
typed, a payload has one owner, the roots are objects followed by `mark_obj`, as
`mark_root_objectref` and `gc_mark_strong_symbols` do):

* `TypeCorrect`, `QueuedOnce` (`ScanOnce`), `AllGarbageGoes` (`Precise`),
  `ScannedKeepTheirs` (`ScannedIntact`) and `PlainHeapsAreSafe`
  (`SafeWhenPlain`) are invariants of `Spec`.

The argument. The references still to follow matter only as a set, so lemmas turn
each marking step into what it does to the elements of `work` and `queue`.
`OnceInv`: while marking, scanned objects are marked and queued ones are marked
and not scanned, without repetition. `PreciseInv`: whatever is marked or still to be
followed is reachable (reachable zones being the least closed set, a step
never leaves it), and a zone visited by the sweep that is still there is marked.
`IntactInv` is the tri-colour invariant, for the zones whose contents were
followed: what they refer to is marked or will be. At the end of
marking nothing is left to follow, hence everything is marked. `PlainInv`
adds that on plain heaps `mark_value` only comes across values, so that every
marked object was queued; the marked set then ends up closed around the roots, and
contains everything reachable. The program runs only between two
collections, where all four say nothing: a collection starts from cleared marks.

`CollectionProofs` proves two more under the same assumptions:

* `CarefulProgramsAreSafe`: `Spec => CarefulIsSafe`. Its hypothesis is a property of
  the whole behaviour, so the theorem combines the others: `SafeInv` says that outside
  of the sweep the zones that exist are closed under references and hold the roots and
  the frames; the contents of a payload count among the references of its owner even
  when the payload is gone. Marking then finds whatever it follows, and an object it
  scans is there, though its payload may not be; the sweep frees no reachable zone by
  `PlainHeapsAreSafe` and leaves nothing else by `AllGarbageGoes`, so what is left at its
  end is the reachable part, which is closed again. During the sweep the invariant does
  not hold, and nothing is claimed but that a destructor may only miss a payload.
  The theorem asks nothing of payloads, and asks that no value slot holds an object: it
  is about the part of a heap's life in which the other gaps of marking stay closed.
* `CollectionsDescend` (`Descends`): each step of a collection that goes on lowers a
  measure. For marking it has four parts, the most important first: the marks, which
  only grow; the references out of call frames; `gc_obscanque`; and `work`. A reference
  out of a frame adds work without marking anything, which is why those references count
  before the queue. They are known by their place from the end of the work, which does
  not move when something is put in front. For the sweep it is the set `todo`.

`ZoneTableProofs` proves, for every finite set of zones, every size, window and
tail that `SizesAssumption` allows:

* `TypeCorrect`, `RanksAreRight`, `RanksAreHeld`, `CountIsRight`, `AssertsHold`, and
* `TableIsASet`: `Spec => ScansTheSet`, the refinement of `ZoneSet`.

The argument. The invariant `IInv` has all of these properties, and that the scan
never goes beyond the vector. None is inductive alone: that no assertion fails
needs the ranks and the count, the count needs that a rank is not shared, since
then the number of zones in the vector is the number of ranks in use. For the
refinement, lemmas say what each operation does to the two sets of the mapping:
those at any rank, and those at ranks not looked at yet; that a zone visited leaves
the second for good is where the ranks being distinct is used.

`RegistryProofs` proves, for any sets of threads, objects and names, and any bounds of
ids: `TypeCorrect`, `RegistryIsExact`, `NamesAreRight`, `NameStaysFree`, `AssertsHold`,
`ClassesAreNamed`. The invariant adds, for each thread and place in its call, that the
object in its hand was made and has no payload yet (`Hands`), that the maker of a
symbol holds `rps_symbol_mtx` and its name is free (`Locks`), and that two threads hold
different unfinished objects (`Apart`), without which one thread's naming could
disturb another's.

`HoldersDoNotWait` (`HoldersGoOn`): a thread that holds `rps_symbol_mtx` or the mutex of
a symbol waits for neither, so no circle of waiting threads can arise. `HoldInv` says
at which places a thread holds which mutex.

`EventLoopProofs` proves, for every capacity of the pipe, size of a read and number
of posts that `SizesAssumption` allows: `TypeCorrect`, `NothingIsLost`
(`NothingLost`), `BatchesStayInOrder` (`BatchesInOrder`), `BlocksOnlyWhenFull`
(`BlockedOnlyWhenFull`), and

* `ReportsStayTrue` (`ReportsHold`): what `poll` reported still holds when its handler
  is called, though threads post meanwhile and the other handler may come first;
* `LoopIsAMailbox`: `Spec => Box!Spec`, the refinement of `Mailbox`: posted requests are
  taken in batches, none twice, a batch is done before the next one is taken, and the
  first ones posted are taken first while all fit one read.

The argument. A sequence of requests is seen as the set it holds without
repetition (`Once`), so each step is a move of some requests from one of four places
to the next: the fifo, the pipe, the buffer, what is done. `PlacesInv` says the four are
disjoint and hold every request, which is `NothingLost`. `CountInv` adds their lengths,
which gives `BlockedOnlyWhenFull`. `OrderInv` is what makes `BatchesInOrder` inductive
although the pipe reverses the requests: while all requests fit one read, a read
empties the pipe, so that what was read is always 1..n for some n, and so is what
left the fifo, unless the main thread is just emptying it. `PollInv` is why reports
stay true: from the test of the fifo on only the main thread takes bytes out of it, and
from `poll` on nothing is put into the pipe before the writing handler. The mailbox
needs all of these: that a read finds a byte, that it comes when the buffer is empty,
that the bytes are new and, when they fit, the next ones.

`PersistenceProofs` proves, for every heap, sequence of spaces, number of dumps, changes
and failed writes that `StoreAssumption` allows (the store the program starts from
refers to no transient object, has no set as attribute value and all that the loader
needs; a missing file is not a file): `TypeCorrect` and `GoodStoreIsKept`
(`OldCopyKept`). What the program does later is not restricted: it may root any object
and refer to transient ones anywhere.

The argument. `Kept(p)` follows the file of the last whole store at path `p` while
`tries` counts the renamings begun since. Until the first of them gets to `p`, the
file is under its name. One renaming shifts the backups of `p` at most once, and only
while a file is under the name itself: so after one renaming it is there or at `~`,
after two there, at `~` or at `~~`, and what a third would overwrite is not claimed.
`TypeInv` adds that a dump outside of its renaming began none yet.

`DumpsDescend` (`DumpDescends`): each step of a dump reaches a later phase (`Stage`) or,
within its phase, scans one more object, writes one more file, or has one file less to
rename or to move out of the way (`Closer`); and what other threads do to the heap
meanwhile undoes none of it.

`StoreProofs` proves, under the same assumptions, `StoreIsSound` (`StoreSound`) and
`DumpsAreAtomic`: `Spec => StoreIsAtomic`, the refinement of `AtomicStore`.

The argument. A snapshot is the reachable part of a heap, and `TrimSame` says that it
is also the reachable part of any part of the heap that has the roots and all that
its objects refer to. `ScanInv`: while the memory does not change and no write fails
(otherwise `shot` is `Unknown` and nothing is claimed), the objects scanned are
filed in their space, and what they refer to was seen, and what was seen is reached from
the roots (`Live`): so a finished scan is such a part, and any null that the loader
would refuse is in the heap that was saved (`SoundIn`), which is what makes `StoreSound`
an equivalence. `TempInv` says what each file written holds. From the manifest on, the promise is about
`Virtual`, the directory as it will be when all files are renamed: it describes the
snapshot (`RenameInv`), and a renaming does not change it, whatever is in memory by
then; with the last one it is the directory (`LastRename`). Loading is the same argument
backwards: the objects known from the files, sets left out, are closed around the
reachable ones (`LoadReloads`). Transient roots are part of a snapshot, and of no
file: loading such a store fails, and the refinement has nothing to map.

Only model-checked: all liveness (`ServedUnlessOvertaken`, `StopQuiesces`, `CollectionEnds`,
`Served`, `ScanEnds`, `CallsEnd`, `DumpEnds`), since fairness, ENABLED and well-founded
induction are out of the prover's reach. The theorems `WorkersWindDown`,
`CollectionsDescend`, `HoldersDoNotWait` and `DumpsDescend` are the safety part of four
of them: that the measure goes down, or that no circle of waiting arises. That a finite
measure cannot go down for ever, and that fairness makes the steps happen, is what TLC
adds on the small instances. These four, `ReportsStayTrue` and `LoopIsAMailbox` are
theorems for all constants and have no run.

## 4. Plan

1. Done: `Agenda`, `GarbageCollector`, `EventLoop`, `ZoneTable`, `Registry`,
   `Persistence` with its parts, and the proofs above.
2. Done: every safety property and every refinement of the passing runs is proved, and
   the measures behind four liveness properties. Left: those of `Served` and `ScanEnds`.
3. Compositions: `Registry` with the sweep, which erases from its maps and its table
   of weak symbols; the dumper with `Registry`, whose mutexes it takes in another order.
4. The loader's deferred todos and payload loaders; loading the agenda, whose
   tasklets get their rank as priority (`agenda_rps.cc:465`).
5. Abstract specifications: done for the mailbox of `EventLoop`. Left: a collector that
   frees the unreachable zones in one step, implemented by `GarbageCollector` for careful
   programs; a bag of prioritized tasks, implemented by `Agenda`.
6. `TokenSource` and the parser, once the parser is finished (section 5); REPL commands.
7. Pure operators: sets and tuples of objects, primes, text of oids, against
   reference definitions.

## 5. Not modelled

The lexer, the parser and the read eval print loop are sequential and mostly about
text. The parser (`parsrepl_rps.cc`) is unfinished: `parse_comparison` (1035),
`parse_sum` (1394), `parse_comparand` (1576) and the parentheses of `parse_primary`
(2519) end in a fatal error, so that only a line of one lone primary parses, and the
places where an operator is consumed (206, 501, 767) are not reached: there is no
look-ahead to check yet. Immutable values, magic
attributes, dictionaries and string buffers have no behaviour over time. Code
generation, the web client, backtraces, utilities, plugins and the configuration
programs read, write or format, and keep no state of the kind checked here. The
JavaScript under `attic/webroot` is vendored, or belongs to a web interface that
is not served any more; nothing in this directory speaks of it.
