-------------------------- MODULE GarbageCollector --------------------------
(***************************************************************************)
(* The mark and sweep collector of RefPerSys: rps_garbage_collect and      *)
(* Rps_GarbageCollector (garbcoll_rps.cc), the marking methods of values   *)
(* and objects (inline_rps.hh, refpersys.hh, objects_rps.cc) and the zone  *)
(* table it sweeps (values_rps.cc).                                        *)
(*                                                                         *)
(* A zone is an object, an immutable value (a sequence of objects, or a    *)
(* tree: a closure or an instance), or the payload of an object.  The      *)
(* contents of a zone are the references its marking method follows, in    *)
(* the order it follows them.  A reference is followed in one of two ways: *)
(*   "obj"  Rps_GarbageCollector::mark_obj: the class and the attribute    *)
(*          keys of an object, the elements of a sequence, a connective;   *)
(*   "val"  Rps_GarbageCollector::mark_value: attribute values, components,*)
(*          the sons of a tree.  Such a value may well be an object.       *)
(*                                                                         *)
(* The C++ recursion of mark_value is the list work of references still to *)
(* be followed, innermost first.  One thread runs everything here: today's *)
(* program never starts the agenda's workers (rps_run_agenda_mechanism has *)
(* no caller), and both callers of rps_garbage_collect that do not abort   *)
(* run in the main thread.                                                 *)
(***************************************************************************)
EXTENDS Naturals, Sequences

CONSTANTS
  Objects, Values, Payloads,   \* the zones, by kind
  NoPayload,                   \* a null ob_payload
  Unerasable,                  \* payloads whose is_erasable() is false
  Heaps,          \* initial contents of every zone: functions from Zones
  Owners,         \* initial payloads: functions from Objects
  Roots,          \* references followed by mark_gcroots and strong symbols
  FrameZones,     \* zones the call frames may hold
  MaxDepth,       \* max_gc_mark_depth, 100 in the code
  MaxSlots,       \* bounds on the references in the objects that get more
  MaxCollections  \* bound on gc_count_

Zones == Objects \cup Values \cup Payloads
Markable == Objects \cup Values
Slot  == [via : {"obj"}, to : Objects] \cup [via : {"val"}, to : Markable]

ASSUME ZonesAssumption ==
  /\ Objects \cap Values = {} /\ Objects \cap Payloads = {}
  /\ Values \cap Payloads = {} /\ NoPayload \notin Zones
  /\ Unerasable \subseteq Payloads /\ FrameZones \subseteq Markable
ASSUME HeapsAssumption ==
  /\ \A s \in Heaps : s \in [Zones -> Seq(Slot)]
  /\ \A f \in Owners : /\ f \in [Objects -> Payloads \cup {NoPayload}]
                       /\ \A x, y \in Objects : f[x] = f[y] /\ f[x] # NoPayload
                                                => x = y
  /\ Roots \in Seq([via : {"obj"}, to : Objects])
ASSUME BoundsAssumption ==
  MaxDepth \in Nat /\ MaxSlots \in [Objects -> Nat] /\ MaxCollections \in Nat

VARIABLES
  heap,       \* the zones registered in qz_zonvec
  slots,      \* slots[z]: the references in zone z
  payload,    \* ob_payload of every object
  frame,      \* the zones in the call frames, innermost first
  pc,         \* where the collector is
  marked,     \* the zones whose qz_gcinfo has the mark bit
  queue,      \* gc_obscanque
  work,       \* the references mark_value and its callers still have to follow
  todo,       \* the zones every_zone has not visited yet
  withframes, \* whether gc_rootmarkers marks the call frames
  scanned,    \* history: the objects mark_gc_inside was called on
  ncol        \* gc_count_

heapVars == <<heap, slots, payload, frame>>
markVars == <<marked, queue, work, scanned>>
vars == <<heapVars, markVars, pc, todo, withframes, ncol>>

\* "toodeep": the exception of mark_value leaves run_gc with gc_running set, and
\* the destructor of the collector asserts it is not.  "undefined": a freed zone
\* was accessed.  "terminated": clear_payload threw inside a destructor.
Pcs  == {"idle", "mark", "sweep", "toodeep", "undefined", "terminated"}
Item == [via : {"obj", "val", "raw"}, to : Markable, depth : Nat]

Elems(s) == {s[i] : i \in DOMAIN s}
To(s)    == {x.to : x \in Elems(s)}

Items(sl, d) ==
  [i \in DOMAIN sl |-> [via |-> sl[i].via, to |-> sl[i].to, depth |-> d]]

Init ==
  /\ slots \in Heaps /\ payload \in Owners
  /\ heap = Markable \cup {p \in Payloads : \E x \in Objects : payload[x] = p}
  /\ frame \in {<<>>} \cup {<<z>> : z \in FrameZones}
  /\ pc = "idle" /\ marked = {} /\ queue = <<>> /\ work = <<>>
  /\ todo = {} /\ withframes = FALSE /\ scanned = {} /\ ncol = 0

-----------------------------------------------------------------------------
(* The collector.                                                          *)

\* Mutant: the marks of the previous collection are not cleared.
ClearQueueOnly == queue' = <<>> /\ scanned' = {} /\ UNCHANGED marked

\* clear_all_gcmarks, and the empty gc_obscanque of a new collector.
ClearAll == marked' = {} /\ queue' = <<>> /\ scanned' = {}

\* What mark_call_stack follows.
FrameItems == [i \in DOMAIN frame |-> [via |-> "raw", to |-> frame[i], depth |-> 0]]

\* rps_garbage_collect, called by the event loop for a 'G' byte (no marker for
\* the call frames) or by the REPL's !gc (which marks its own call stack): clear
\* all marks, then follow the roots and, virtually, the values of the frames.
StartGC ==
  /\ pc = "idle" /\ ncol < MaxCollections
  /\ ncol' = ncol + 1
  /\ withframes' \in BOOLEAN
  /\ ClearAll
  /\ work' = Items(Roots, 0) \o
       (IF withframes' THEN FrameItems ELSE <<>>)
  /\ pc' = "mark"
  /\ UNCHANGED <<heapVars, todo>>

\* The reference to follow next designates a zone that was freed.
FollowDangling ==
  /\ pc = "mark" /\ work # <<>> /\ Head(work).to \notin heap
  /\ pc' = "undefined"
  /\ UNCHANGED <<heapVars, markVars, todo, withframes, ncol>>

Following(via) ==
  /\ pc = "mark" /\ work # <<>> /\ Head(work).to \in heap
  /\ Head(work).via \in via

\* Mutant: gc_obscanque gets the objects that are marked too.
QueueAlways(o) == marked' = marked \cup {o} /\ queue' = Append(queue, o)

\* An object that is not marked yet is marked and queued.
QueueObject(o) ==
  IF o \in marked
  THEN UNCHANGED <<marked, queue>>
  ELSE marked' = marked \cup {o} /\ queue' = Append(queue, o)

\* Mutant: all that a call frame holds is queued like objects.
MarkAnyObj ==
  /\ Following({"obj", "raw"})
  /\ QueueObject(Head(work).to)
  /\ work' = Tail(work)
  /\ UNCHANGED <<heapVars, pc, todo, withframes, scanned, ncol>>

\* mark_obj.  A call frame calls Rps_ObjectZone::gc_mark of its objects, which
\* does the same.
MarkObj ==
  /\ Following({"obj", "raw"}) /\ Head(work).to \in Objects
  /\ QueueObject(Head(work).to)
  /\ work' = Tail(work)
  /\ UNCHANGED <<heapVars, pc, todo, withframes, scanned, ncol>>

\* Mutant: the sons of a tree and the elements of a sequence are not followed.
InsideNothing(z, d) == <<>>

\* What the virtual gc_mark of a zone follows.  Rps_ObjectZone::gc_mark returns
\* at once when its zone is marked, and Rps_Value::gc_mark has just marked it.
Inside(z, d) == IF z \in Objects THEN <<>> ELSE Items(slots[z], d)

\* mark_value, that is Rps_Value::gc_mark, within the depth limit.
MarkValue ==
  /\ Following({"val"})
  /\ Head(work).to \in marked \/ Head(work).depth <= MaxDepth
  /\ LET z == Head(work).to  d == Head(work).depth IN
       IF z \in marked
       THEN work' = Tail(work) /\ UNCHANGED marked
       ELSE /\ marked' = marked \cup {z}
            /\ work' = Inside(z, d + 1) \o Tail(work)
  /\ UNCHANGED <<heapVars, pc, queue, todo, withframes, scanned, ncol>>

\* mark_value throws "too deep gc_mark" after it has marked the value.
MarkTooDeep ==
  /\ Following({"val"})
  /\ Head(work).to \notin marked /\ Head(work).depth > MaxDepth
  /\ marked' = marked \cup {Head(work).to}
  /\ pc' = "toodeep"
  /\ UNCHANGED <<heapVars, queue, work, todo, withframes, scanned, ncol>>

\* gc_mark_frame calls the virtual gc_mark of a value: its contents are
\* followed, the value itself gets no mark.
MarkFrameValue ==
  /\ Following({"raw"}) /\ Head(work).to \in Values
  /\ work' = Inside(Head(work).to, Head(work).depth + 1) \o Tail(work)
  /\ UNCHANGED <<heapVars, pc, marked, queue, todo, withframes, scanned, ncol>>

\* Mutant: the payload is not marked.
NoPayloadItems(o) == <<>>

\* Mutant: front() without pop_front().
WholeQueue == queue

\* gc_obscanque.pop_front().
RestOfQueue == Tail(queue)

\* mark_gc_inside of the first object of gc_obscanque: class, attributes and
\* components, then the contents of its payload.  The payload gets no mark.
PayloadItems(o) == IF payload[o] = NoPayload THEN <<>> ELSE Items(slots[payload[o]], 0)

ScanObject ==
  /\ pc = "mark" /\ work = <<>> /\ queue # <<>>
  /\ LET o == Head(queue) IN
       /\ payload[o] = NoPayload \/ payload[o] \in heap
       /\ work' = Items(slots[o], 0) \o PayloadItems(o)
       /\ scanned' = scanned \cup {o}
  /\ queue' = RestOfQueue
  /\ UNCHANGED <<heapVars, pc, marked, todo, withframes, ncol>>

\* The owner of a payload that an earlier collection has freed.
ScanDangling ==
  /\ pc = "mark" /\ work = <<>> /\ queue # <<>>
  /\ payload[Head(queue)] \notin heap \cup {NoPayload}
  /\ pc' = "undefined"
  /\ UNCHANGED <<heapVars, markVars, todo, withframes, ncol>>

EndMark ==
  /\ pc = "mark" /\ work = <<>> /\ queue = <<>>
  /\ pc' = "sweep" /\ todo' = heap
  /\ UNCHANGED <<heapVars, markVars, withframes, ncol>>

\* every_zone visits the zone table by rank; ranks are drawn at random, so any
\* order is possible.  A marked zone, or one freed since, is left alone.
SweepKeep(z) ==
  /\ pc = "sweep" /\ z \in todo /\ (z \in marked \/ z \notin heap)
  /\ todo' = todo \ {z}
  /\ UNCHANGED <<heapVars, markVars, pc, withframes, ncol>>

Garbage(z) == pc = "sweep" /\ z \in todo /\ z \in heap \ marked

\* delete of a value or of a payload.
SweepPlain(z) ==
  /\ Garbage(z) /\ z \notin Objects
  /\ heap' = heap \ {z} /\ todo' = todo \ {z}
  /\ UNCHANGED <<slots, payload, frame, markVars, pc, withframes, ncol>>

\* ~Rps_ObjectZone clears the payload first: it is deleted too, unless it cannot
\* be erased, or was freed before its owner.
SweepObject(z) ==
  /\ Garbage(z) /\ z \in Objects
  /\ payload[z] \in (heap \ Unerasable) \cup {NoPayload}
  /\ heap' = heap \ {z, payload[z]} /\ todo' = todo \ {z}
  /\ UNCHANGED <<slots, payload, frame, markVars, pc, withframes, ncol>>

SweepBadObject(z) ==
  /\ Garbage(z) /\ z \in Objects
  /\ payload[z] \notin (heap \ Unerasable) \cup {NoPayload}
  /\ pc' = IF payload[z] \in heap THEN "terminated" ELSE "undefined"
  /\ UNCHANGED <<heapVars, markVars, todo, withframes, ncol>>

EndSweep ==
  /\ pc = "sweep" /\ todo = {}
  /\ pc' = "idle"
  /\ UNCHANGED <<heapVars, markVars, todo, withframes, ncol>>

-----------------------------------------------------------------------------
(* The program between two collections.                                    *)

Targets(z) == To(slots[z])

\* A new zone, with references to zones that exist, kept in a call frame.
\* register_in_zonevec puts it in the zone table, without the mark.
Allocate(z) ==
  /\ pc = "idle" /\ z \in Markable \ heap /\ Targets(z) \subseteq heap
  /\ heap' = heap \cup {z}
  /\ marked' = marked \ {z} /\ scanned' = scanned \ {z}
  /\ frame' = <<z>> \o frame
  /\ payload' = [o \in Objects |-> IF o = z THEN NoPayload ELSE payload[o]]
  /\ UNCHANGED <<slots, queue, work, pc, todo, withframes, ncol>>

\* The innermost call returns: its frame goes away.
Return ==
  /\ pc = "idle" /\ frame # <<>>
  /\ frame' = Tail(frame)
  /\ UNCHANGED <<heap, slots, payload, markVars, pc, todo, withframes, ncol>>

\* An object loses its last attribute or component; it keeps its class.
Unlink(o) ==
  /\ pc = "idle" /\ o \in heap /\ Len(slots[o]) > 1
  /\ slots' = [slots EXCEPT ![o] = SubSeq(@, 1, Len(@) - 1)]
  /\ UNCHANGED <<heap, payload, frame, markVars, pc, todo, withframes, ncol>>

\* append_comp1 of a zone that a call frame holds.
AppendComp(o, z) ==
  /\ pc = "idle" /\ o \in heap /\ Len(slots[o]) < MaxSlots[o] /\ z \in Elems(frame)
  /\ slots' = [slots EXCEPT ![o] = Append(@, [via |-> "val", to |-> z])]
  /\ UNCHANGED <<heap, payload, frame, markVars, pc, todo, withframes, ncol>>

-----------------------------------------------------------------------------
Mark  == FollowDangling \/ MarkObj \/ MarkValue \/ MarkTooDeep \/ MarkFrameValue
         \/ ScanObject \/ ScanDangling \/ EndMark
SweepZone(z) == SweepKeep(z) \/ SweepPlain(z) \/ SweepObject(z) \/ SweepBadObject(z)
Sweep == (\E z \in Zones : SweepZone(z)) \/ EndSweep
Mutator == \/ \E z \in Markable : Allocate(z)
           \/ Return
           \/ \E o \in Objects : Unlink(o) \/ \E z \in Markable : AppendComp(o, z)

Next == StartGC \/ Mark \/ Sweep \/ Mutator

Spec == Init /\ [][Next]_vars

\* The collector is one function call: once started it keeps running.
FairSpec == Spec /\ WF_vars(Mark \/ Sweep)
-----------------------------------------------------------------------------
(* Properties.                                                             *)

\* Every variable stays in its type.
TypeOK ==
  /\ heap \subseteq Zones
  /\ slots \in [Zones -> Seq(Slot)]
  /\ payload \in [Objects -> Payloads \cup {NoPayload}]
  /\ frame \in Seq(Markable)
  /\ pc \in Pcs
  /\ marked \subseteq Markable
  /\ queue \in Seq(Objects)
  /\ work \in Seq(Item)
  /\ todo \subseteq Zones
  /\ withframes \in BOOLEAN
  /\ scanned \subseteq Objects
  /\ ncol \in 0 .. MaxCollections

\* The references a collection starts from, and those out of a zone, with the
\* contents of its payload.
Anchors == To(Roots) \cup (IF withframes THEN Elems(frame) ELSE {})
Succ(z) == Targets(z) \cup
           (IF z \in Objects /\ payload[z] # NoPayload THEN Targets(payload[z]) ELSE {})

Closed(S) == \A z \in S : Succ(z) \subseteq S

\* The zones on some path from the anchors: the least closed set around them.
Reachable == {z \in Markable : \A S \in SUBSET Markable :
                                 Anchors \subseteq S /\ Closed(S) => z \in S}

\* The collector never marks a zone that cannot be reached from its roots, and
\* nothing else survives once every zone has been visited: all garbage, cycles
\* included, goes in one collection (mark_obj, mark_value, run_gc).
Precise ==
  /\ pc \in {"mark", "sweep"} => marked \subseteq Reachable
  /\ pc = "sweep" /\ todo = {} => heap \subseteq Reachable

\* An object is queued at most once and scanned at most once, however many
\* references lead to it: the queue holds marked objects not scanned so far.
ScanOnce ==
  pc = "mark" =>
    /\ Elems(queue) \subseteq marked \ scanned
    /\ \A i, j \in DOMAIN queue : queue[i] = queue[j] => i = j

\* Sweeping frees nothing that a scanned object, its payload's contents or a
\* marked value refers to.
ScannedIntact ==
  pc = "sweep" =>
    /\ \A o \in scanned : Succ(o) \subseteq heap
    /\ \A v \in marked \cap Values : Targets(v) \subseteq heap

\* On a heap where no attribute value, component or son is an object, and the
\* marked call frames hold objects only, a collection frees no reachable zone.
PlainZones == \A z \in Zones : \A i \in DOMAIN slots[z] :
                slots[z][i].via = "val" => slots[z][i].to \in Values
Plain == PlainZones /\ (withframes => Elems(frame) \subseteq Objects)
SafeWhenPlain == Plain /\ pc = "sweep" => Reachable \subseteq heap

\* By whatever number of collections, the only freed zone the collector accesses is
\* the payload of an object that still exists, and the program is left no reference
\* to a freed object or value, in its roots, its call frames, the zones themselves or
\* the contents of payloads, as long as no attribute value, component or son is an
\* object, and a collection finds in the call frames, which it marks, objects only.
Careful ==
  /\ PlainZones
  /\ pc \in {"mark", "sweep"} =>
       Elems(frame) \subseteq Objects /\ (withframes \/ frame = <<>>)
OnlyPayloadsDangle ==
  /\ pc = "undefined" =>
       /\ work = <<>>
       /\ \E o \in heap \cap Objects : payload[o] \notin heap \cup {NoPayload}
  /\ pc = "idle" => /\ To(Roots) \cup Elems(frame) \subseteq heap
                    /\ Closed(heap)
CarefulIsSafe == []Careful => []OnlyPayloadsDangle

\* A collection that starts comes to its end: the recursion of mark_value, the
\* draining of gc_obscanque and the sweep all terminate.
CollectionEnds == pc = "mark" ~> pc \notin {"mark", "sweep"}

-----------------------------------------------------------------------------
(* What the documentation says of the collector, and the code does not do.  *)

\* "tri-color mark and sweep": when marking is over no object is grey, that is
\* marked and still waiting for its contents to be scanned.
NoGreyLeft == pc = "sweep" => marked \cap Objects \subseteq scanned

\* "Mutable objects may contain pointers to quasivalues (notably in their
\* payload), that is to garbage collected zones": an object that survives keeps
\* its payload.
PayloadKept ==
  pc = "sweep" => \A o \in marked \cap Objects : payload[o] \in heap \cup {NoPayload}

=============================================================================
