-------------------------- MODULE CollectionProofs --------------------------
(* What holds of the program and its collections together: while no value  *)
(* slot holds an object and the call frames hold objects only, no reference *)
(* dangles but those of objects to their payloads; and every step of a     *)
(* collection brings it nearer to its end.                                 *)
EXTENDS GarbageCollectorProofs

-----------------------------------------------------------------------------
(* No reference dangles but those to payloads.                              *)

\* Outside of the sweep, the zones that exist are closed under references and
\* hold the roots and the call frames: garbage too, for what it refers to was
\* there when it was made and goes in the same sweep.  The contents of a payload
\* count among the references of its owner, whether or not it was freed.
SafeInv ==
  /\ pc = "undefined" =>
       /\ work = <<>>
       /\ \E o \in heap \cap Objects : payload[o] \notin heap \cup {NoPayload}
  /\ pc = "sweep" => work = <<>>
  /\ pc \in {"idle", "mark"} => /\ To(Roots) \cup Elems(frame) \subseteq heap
                                /\ Closed(heap)

\* What the collector does not change.
LEMMA ClosedKept ==
  ASSUME UNCHANGED heapVars
  PROVE  /\ Closed(heap)' <=> Closed(heap)
         /\ (To(Roots) \cup Elems(frame) \subseteq heap)'
              <=> To(Roots) \cup Elems(frame) \subseteq heap
<1>1. UNCHANGED <<heap, slots, payload, frame>>
  BY DEF heapVars
<1>2. \A z : Succ(z)' = Succ(z)
  BY <1>1 DEF Succ, Targets
<1>3. Closed(heap)' <=> Closed(heap)
  BY <1>1, <1>2 DEF Closed
<1> QED BY <1>1, <1>3

\* A heap closed under references that has the roots has all that can be reached.
LEMMA ReachableInHeap ==
  ASSUME TypeOK, SafeInv, pc = "mark"
  PROVE  Reachable \subseteq heap
<1> DEFINE S == heap \cap Markable
<1>1. Anchors \subseteq heap /\ Closed(heap)
  BY DEF SafeInv, Anchors
<1>2. Anchors \subseteq Markable
  BY RootTargets DEF Anchors
<1>3. Closed(S)
  BY <1>1, SuccTyped DEF Closed
<1>4. S \in SUBSET Markable /\ Anchors \subseteq S
  BY <1>1, <1>2
<1> QED BY <1>3, <1>4 DEF Reachable

\* The steps of marking find every zone they follow, payloads excepted.
LEMMA MarkIsSafe ==
  ASSUME TypeOK, OnceInv, PreciseInv, SafeInv, Mark
  PROVE  SafeInv'
<1>1. CASE FollowDangling
  <2>1. pc = "mark" /\ work # <<>> /\ Head(work).to \notin heap
    BY <1>1 DEF FollowDangling
  <2>2. Head(work) \in Elems(work)
    BY <2>1, ElemsHeadTail DEF TypeOK
  <2>3. Head(work).to \in Reachable
    BY <2>1, <2>2 DEF PreciseInv, To
  <2> QED BY <2>1, <2>3, ReachableInHeap
<1>2. CASE ScanDangling
  <2> DEFINE o == Head(queue)
  <2>1. /\ pc = "mark" /\ pc' = "undefined" /\ work = <<>> /\ work' = work
        /\ heap' = heap /\ payload' = payload
        /\ payload[o] \notin heap \cup {NoPayload}
    BY <1>2 DEF ScanDangling, heapVars, markVars
  <2>2. queue \in Seq(Objects) /\ queue # <<>>
    BY <1>2 DEF ScanDangling, TypeOK
  <2>3. o \in Objects /\ o \in Elems(queue)
    BY <2>2, ElemsHeadTail
  <2>4. o \in Reachable
    BY <2>1, <2>3 DEF OnceInv, PreciseInv
  <2>5. o \in heap \cap Objects
    BY <2>1, <2>3, <2>4, ReachableInHeap
  <2> HIDE DEF o
  <2> QED BY <2>1, <2>5 DEF SafeInv
<1>3. CASE MarkObj \/ MarkValue \/ MarkTooDeep \/ MarkFrameValue \/ ScanObject
  <2>1. UNCHANGED heapVars /\ pc = "mark" /\ pc' \in {"mark", "toodeep"}
    BY <1>3 DEF MarkObj, MarkValue, MarkTooDeep, MarkFrameValue, ScanObject, Following
  <2> QED BY <2>1, ClosedKept DEF SafeInv
<1>4. CASE EndMark
  <2>1. work' = <<>> /\ pc' = "sweep"
    BY <1>4 DEF EndMark, markVars
  <2> QED BY <2>1 DEF SafeInv
<1> QED BY <1>1, <1>2, <1>3, <1>4 DEF Mark

\* The sweep ends with the zones that can be reached, and they are closed.
LEMMA SweepIsSafe ==
  ASSUME TypeOK, Precise, SafeWhenPlain, SafeInv, Careful, Sweep
  PROVE  SafeInv'
<1>1. ASSUME NEW z \in Zones, SweepZone(z) PROVE SafeInv'
  <2>1. pc = "sweep" /\ work' = work
    BY <1>1 DEF SweepZone, SweepKeep, SweepPlain, SweepObject, SweepBadObject, Garbage,
                markVars
  <2>2. CASE SweepBadObject(z)
    <3>1. /\ heap' = heap /\ payload' = payload /\ z \in heap \cap Objects
          /\ payload[z] # NoPayload
          /\ pc' = IF payload[z] \in heap THEN "terminated" ELSE "undefined"
      BY <2>2 DEF SweepBadObject, Garbage, heapVars
    <3> QED BY <2>1, <3>1 DEF SafeInv
  <2>3. CASE ~SweepBadObject(z)
    <3>1. pc' = "sweep"
      BY <1>1, <2>1, <2>3 DEF SweepZone, SweepKeep, SweepPlain, SweepObject
    <3> QED BY <2>1, <3>1 DEF SafeInv
  <2> QED BY <2>2, <2>3
<1>2. CASE EndSweep
  <2>1. pc = "sweep" /\ todo = {} /\ pc' = "idle" /\ UNCHANGED heapVars
    BY <1>2 DEF EndSweep
  <2>2. Plain /\ (withframes \/ frame = <<>>)
    BY <2>1 DEF Careful, Plain
  <2>3. heap = Reachable
    BY <2>1, <2>2 DEF Precise, SafeWhenPlain
  <2>4. Anchors \subseteq heap /\ Closed(heap)
    BY <2>3, ReachableClosed
  <2>5. To(Roots) \cup Elems(frame) \subseteq heap
    BY <2>2, <2>4, ElemsEmpty DEF Anchors
  <2> QED BY <2>1, <2>4, <2>5, ClosedKept DEF SafeInv
<1> QED BY <1>1, <1>2 DEF Sweep

\* Changing the references of one object, to what it had and the zones of X, changes
\* those of no other zone: no payload is an object.
LEMMA SuccAfter ==
  ASSUME TypeOK, NEW o \in Objects, NEW X, UNCHANGED payload,
         \A y \in Zones \ {o} : slots'[y] = slots[y],
         Targets(o)' \subseteq Targets(o) \cup X
  PROVE  \A y \in Zones : Succ(y)' \subseteq Succ(y) \cup X
<1> SUFFICES ASSUME NEW y \in Zones PROVE Succ(y)' \subseteq Succ(y) \cup X
  OBVIOUS
<1>1. Targets(y)' \subseteq Targets(y) \cup X
  BY DEF Targets
<1>2. ASSUME y \in Objects, payload[y] # NoPayload
      PROVE  slots'[payload[y]] = slots[payload[y]]
  BY <1>2, ZonesAssumption DEF TypeOK, Zones
<1> QED BY <1>1, <1>2 DEF Succ, Targets

\* The program makes references only to zones that exist.
LEMMA MutatorIsSafe ==
  ASSUME TypeOK, SafeInv, Mutator
  PROVE  SafeInv'
<1>1. pc = "idle" /\ pc' = "idle"
  BY DEF Mutator, Allocate, Return, Unlink, AppendComp
<1>2. /\ heap \subseteq Zones /\ To(Roots) \cup Elems(frame) \subseteq heap
      /\ \A y \in heap : Succ(y) \subseteq heap
  BY <1>1 DEF SafeInv, Closed, TypeOK
<1> SUFFICES /\ To(Roots) \cup Elems(frame') \subseteq heap'
             /\ \A y \in heap' : Succ(y)' \subseteq heap'
  BY <1>1 DEF SafeInv, Closed
<1>3. ASSUME NEW z \in Markable, Allocate(z)
      PROVE  /\ To(Roots) \cup Elems(frame') \subseteq heap'
             /\ \A y \in heap' : Succ(y)' \subseteq heap'
  <2>1. /\ heap' = heap \cup {z} /\ slots' = slots /\ Targets(z) \subseteq heap
        /\ frame' = Cat(<<z>>, frame)
        /\ payload' = [o \in Objects |-> IF o = z THEN NoPayload ELSE payload[o]]
    BY <1>3 DEF Allocate, Cat
  <2>2. \A y : Targets(y)' = Targets(y)
    BY <2>1 DEF Targets
  <2>4. Succ(z)' = Targets(z)
    BY <2>1, <2>2 DEF Succ
  <2>5. ASSUME NEW y \in heap, y # z PROVE Succ(y)' = Succ(y)
    <3>1. y \in Objects => payload'[y] = payload[y]
      BY <2>1, <2>5
    <3>2. \A x : Targets(x)' = Targets(x)
      BY <2>2
    <3>3. y \in Objects => Targets(payload[y])' = Targets(payload'[y])
      BY <2>1, <3>1 DEF Targets
    <3> QED BY <2>1, <3>1, <3>2, <3>3 DEF Succ, Targets
  <2>3. Elems(frame') = {z} \cup Elems(frame)
    <3> DEFINE q == <<z>>
    <3>1. q \in Seq(Markable) /\ frame \in Seq(Markable) /\ frame' = Cat(q, frame)
      BY <2>1 DEF TypeOK
    <3>2. Elems(q) = {q[i] : i \in DOMAIN q} /\ DOMAIN q = {1} /\ q[1] = z
      BY DEF Elems
    <3> HIDE DEF q
    <3>3. Elems(Cat(q, frame)) = Elems(q) \cup Elems(frame)
      BY <3>1, ElemsCat
    <3> QED BY <3>1, <3>2, <3>3
  <2> QED BY <1>2, <2>1, <2>3, <2>4, <2>5
<1>4. ASSUME Return
      PROVE  /\ To(Roots) \cup Elems(frame') \subseteq heap'
             /\ \A y \in heap' : Succ(y)' \subseteq heap'
  <2>1. /\ heap' = heap /\ slots' = slots /\ payload' = payload
        /\ frame # <<>> /\ frame' = Tail(frame)
    BY <1>4 DEF Return
  <2>2. \A y : Succ(y)' = Succ(y)
    BY <2>1 DEF Succ, Targets
  <2>3. Elems(frame') \subseteq Elems(frame)
    BY <2>1, ElemsHeadTail DEF TypeOK
  <2> QED BY <1>2, <2>1, <2>2, <2>3
<1>5. ASSUME NEW o \in Objects, Unlink(o)
      PROVE  /\ To(Roots) \cup Elems(frame') \subseteq heap'
             /\ \A y \in heap' : Succ(y)' \subseteq heap'
  <2> DEFINE rest == SubSeq(slots[o], 1, Len(slots[o]) - 1)
  <2>1. /\ heap' = heap /\ frame' = frame /\ payload' = payload /\ Len(slots[o]) > 1
        /\ slots' = [slots EXCEPT ![o] = rest]
    BY <1>5 DEF Unlink
  <2>2. slots[o] \in Seq(Slot) /\ o \in Zones
    BY DEF TypeOK, Zones
  <2>3. Elems(rest) \subseteq Elems(slots[o])
    BY <2>1, <2>2 DEF Elems
  <2> HIDE DEF rest
  <2>4. slots'[o] = rest /\ \A y \in Zones \ {o} : slots'[y] = slots[y]
    BY <2>1, <2>2 DEF TypeOK
  <2>5. Targets(o)' \subseteq Targets(o)
    BY <2>3, <2>4 DEF Targets, To
  <2>6. \A y \in Zones : Succ(y)' \subseteq Succ(y) \cup {}
    BY <2>1, <2>4, <2>5, SuccAfter
  <2> QED BY <1>2, <2>1, <2>6
<1>6. ASSUME NEW o \in Objects, NEW z \in Markable, AppendComp(o, z)
      PROVE  /\ To(Roots) \cup Elems(frame') \subseteq heap'
             /\ \A y \in heap' : Succ(y)' \subseteq heap'
  <2> DEFINE x == [via |-> "val", to |-> z]
             more == Append(slots[o], x)
  <2>1. /\ heap' = heap /\ frame' = frame /\ payload' = payload /\ z \in Elems(frame)
        /\ slots' = [slots EXCEPT ![o] = more]
    BY <1>6 DEF AppendComp
  <2>2. slots[o] \in Seq(Slot) /\ o \in Zones /\ x \in Slot /\ x.to = z
    BY DEF TypeOK, Zones, Slot
  <2> HIDE DEF x
  <2>3. Elems(more) = Elems(slots[o]) \cup {x}
    BY <2>2, ElemsAppend
  <2> HIDE DEF more
  <2>4. slots'[o] = more /\ \A y \in Zones \ {o} : slots'[y] = slots[y]
    BY <2>1, <2>2 DEF TypeOK
  <2>5. Targets(o)' \subseteq Targets(o) \cup {z}
    BY <2>2, <2>3, <2>4 DEF Targets, To
  <2>6. \A y \in Zones : Succ(y)' \subseteq Succ(y) \cup {z}
    BY <2>1, <2>4, <2>5, SuccAfter
  <2> QED BY <1>2, <2>1, <2>6
<1> QED BY <1>3, <1>4, <1>5, <1>6 DEF Mutator

\* Every step keeps the references from dangling, while Careful holds.
LEMMA SafeStep ==
  TypeOK /\ OnceInv /\ PreciseInv /\ Precise /\ SafeWhenPlain /\ SafeInv
    /\ Careful /\ [Next]_vars => SafeInv'
<1> SUFFICES ASSUME TypeOK, OnceInv, PreciseInv, Precise, SafeWhenPlain, SafeInv,
                    Careful, [Next]_vars
             PROVE  SafeInv'
  OBVIOUS
<1>1. CASE StartGC
  <2>1. pc = "idle" /\ pc' = "mark" /\ UNCHANGED heapVars
    BY <1>1 DEF StartGC
  <2> QED BY <2>1, ClosedKept DEF SafeInv
<1>2. CASE UNCHANGED vars
  <2>1. pc' = pc /\ UNCHANGED heapVars /\ work' = work
    BY <1>2 DEF vars, markVars
  <2>2. heap' = heap /\ payload' = payload
    BY <2>1 DEF heapVars
  <2> QED BY <2>1, <2>2, ClosedKept DEF SafeInv
<1> QED BY <1>1, <1>2, MarkIsSafe, SweepIsSafe, MutatorIsSafe DEF Next

\* However many collections there are, and whatever the program does in between, the
\* payloads of objects that still exist are all that is freed too early, while no
\* value slot holds an object and the marked frames hold objects only: of the three
\* gaps in marking, the payloads' does no harm to objects and values.
THEOREM CarefulProgramsAreSafe == Spec => CarefulIsSafe
<1>1. Init /\ TypeOK => SafeInv
  <2> SUFFICES ASSUME Init, TypeOK PROVE SafeInv
    OBVIOUS
  <2>1. pc = "idle" /\ Markable \subseteq heap /\ heap \subseteq Zones
    BY DEF Init, TypeOK
  <2>2. \A z \in heap : Succ(z) \subseteq Markable
    <3>1. \A z \in Markable : Succ(z) \subseteq Markable
      BY SuccTyped
    <3>2. ASSUME NEW z \in Payloads PROVE Succ(z) \subseteq Markable
      <4>1. slots[z] \in Seq(Slot) /\ z \notin Objects
        BY ZonesAssumption DEF TypeOK, Zones
      <4>2. Elems(slots[z]) \subseteq Slot
        BY <4>1, ElemsIn
      <4> QED BY <4>1, <4>2 DEF Succ, Targets, To, Slot, Markable
    <3> QED BY <2>1, <3>1, <3>2 DEF Zones, Markable
  <2> QED BY <2>1, <2>2, RootTargets DEF SafeInv, Closed
<1>2. SafeInv => OnlyPayloadsDangle
  BY DEF SafeInv, OnlyPayloadsDangle
<1>3. Init => OnceInv /\ PreciseInv
  BY DEF Init, PreciseInv, OnceInv
<1> QED BY <1>1, <1>2, <1>3, OnceStep, PreciseStep, SafeStep, TypeCorrect, AllGarbageGoes,
           PlainHeapsAreSafe, PTL DEF Spec, CarefulIsSafe
-----------------------------------------------------------------------------
(* A collection comes nearer to its end.                                    *)

\* The places of the references out of call frames, counted from the end of the
\* work: what is put in front of them does not move them.
RawPlaces(w) == {k \in Nat : k < Len(w) /\ w[Len(w) - k].via = "raw"}

\* The measure of a marking step, from its most important part: the marks, of which
\* there are as many as zones at most; the references out of frames; gc_obscanque;
\* and the work.
Nearer ==
  \/ marked \subseteq marked' /\ marked' # marked
  \/ /\ marked' = marked
     /\ RawPlaces(work') \subseteq RawPlaces(work) /\ RawPlaces(work') # RawPlaces(work)
  \/ marked' = marked /\ RawPlaces(work') = RawPlaces(work) /\ Len(queue') < Len(queue)
  \/ /\ marked' = marked /\ RawPlaces(work') = RawPlaces(work) /\ queue' = queue
     /\ Len(work') < Len(work)

\* Work without references out of call frames.
LEMMA NoRawPlaces ==
  ASSUME NEW w \in Seq(Item), \A x \in Elems(w) : x.via # "raw"
  PROVE  RawPlaces(w) = {}
<1> SUFFICES ASSUME NEW k \in Nat, k < Len(w) PROVE w[Len(w) - k].via # "raw"
  BY DEF RawPlaces
<1>1. Len(w) - k \in DOMAIN w
  OBVIOUS
<1> QED BY <1>1 DEF Elems

\* Such work in front of other work changes none of its places.
LEMMA RawPlacesCat ==
  ASSUME NEW s \in Seq(Item), NEW t \in Seq(Item), \A x \in Elems(s) : x.via # "raw"
  PROVE  RawPlaces(Cat(s, t)) = RawPlaces(t)
<1> DEFINE u == Cat(s, t)
<1>1. /\ Len(u) = Len(s) + Len(t) /\ Len(s) \in Nat /\ Len(t) \in Nat
      /\ \A i \in 1 .. Len(s) + Len(t) :
           u[i] = IF i <= Len(s) THEN s[i] ELSE t[i - Len(s)]
  <2>1. Len(s) \in Nat /\ Len(t) \in Nat
    OBVIOUS
  <2>2. /\ Len(u) = Len(s) + Len(t)
        /\ \A i \in 1 .. Len(s) + Len(t) :
             u[i] = IF i <= Len(s) THEN s[i] ELSE t[i - Len(s)]
    BY CatAt
  <2> QED BY <2>1, <2>2
<1> HIDE DEF u
<1>2. ASSUME NEW k \in Nat, k < Len(t) PROVE u[Len(u) - k] = t[Len(t) - k]
  <2> DEFINE i == Len(u) - k
  <2>1. i \in 1 .. Len(s) + Len(t) /\ ~(i <= Len(s)) /\ i - Len(s) = Len(t) - k
    BY <1>1, <1>2
  <2> HIDE DEF i
  <2>2. u[i] = t[Len(t) - k]
    BY <1>1, <2>1
  <2> QED BY <2>2 DEF i
<1>3. ASSUME NEW k \in Nat, k < Len(u), ~(k < Len(t)) PROVE u[Len(u) - k].via # "raw"
  <2> DEFINE i == Len(u) - k
  <2>1. i \in 1 .. Len(s) + Len(t) /\ i <= Len(s) /\ i \in DOMAIN s
    BY <1>1, <1>3
  <2> HIDE DEF i
  <2>2. u[i] = s[i] /\ s[i] \in Elems(s)
    BY <1>1, <2>1 DEF Elems
  <2> QED BY <2>2 DEF i
<1>4. \A k \in Nat : k < Len(t) => k < Len(u)
  BY <1>1
<1>5. RawPlaces(u) = RawPlaces(t)
  BY <1>2, <1>3, <1>4 DEF RawPlaces
<1> QED BY <1>5 DEF u

\* Following the first reference takes its place away, and no other.
LEMMA RawPlacesTail ==
  ASSUME NEW w \in Seq(Item), w # <<>>
  PROVE  /\ Tail(w) \in Seq(Item) /\ Len(Tail(w)) < Len(w)
         /\ RawPlaces(Tail(w)) \subseteq RawPlaces(w)
         /\ Head(w).via = "raw" => RawPlaces(Tail(w)) # RawPlaces(w)
         /\ Head(w).via # "raw" => RawPlaces(Tail(w)) = RawPlaces(w)
<1> DEFINE t == Tail(w)
<1>1. /\ Len(w) \in Nat \ {0} /\ Len(t) = Len(w) - 1 /\ t \in Seq(Item)
      /\ \A i \in 1 .. Len(t) : t[i] = w[i + 1]
      /\ Head(w) = w[1]
  OBVIOUS
<1> HIDE DEF t
<1>2. ASSUME NEW k \in Nat, k < Len(t) PROVE k < Len(w) /\ t[Len(t) - k] = w[Len(w) - k]
  <2> DEFINE i == Len(t) - k
  <2>1. i \in 1 .. Len(t) /\ i + 1 = Len(w) - k /\ k < Len(w)
    BY <1>1, <1>2
  <2> HIDE DEF i
  <2>2. t[i] = w[Len(w) - k]
    BY <1>1, <2>1
  <2> QED BY <2>1, <2>2 DEF i
<1>3. RawPlaces(t) \subseteq RawPlaces(w)
  BY <1>2 DEF RawPlaces
<1> DEFINE e == Len(w) - 1
<1>4. e \in Nat /\ e < Len(w) /\ w[Len(w) - e] = Head(w) /\ ~(e < Len(t))
  BY <1>1
<1>5. \A k \in Nat : k < Len(w) => k = e \/ k < Len(t)
  BY <1>1
<1> HIDE DEF e
<1>6. ASSUME Head(w).via = "raw" PROVE RawPlaces(t) # RawPlaces(w)
  <2>1. e \in RawPlaces(w) /\ e \notin RawPlaces(t)
    BY <1>4, <1>6 DEF RawPlaces
  <2> QED BY <2>1
<1>7. ASSUME Head(w).via # "raw" PROVE RawPlaces(w) \subseteq RawPlaces(t)
  BY <1>2, <1>4, <1>5, <1>7 DEF RawPlaces
<1>8. Len(t) < Len(w)
  BY <1>1
<1> QED BY <1>1, <1>3, <1>6, <1>7, <1>8 DEF t

\* What the virtual gc_mark of a value follows are no references out of a frame.
LEMMA InsideNotRaw ==
  ASSUME TypeOK, NEW z \in Markable, NEW d \in Nat
  PROVE  Inside(z, d) \in Seq(Item) /\ \A x \in Elems(Inside(z, d)) : x.via # "raw"
<1>1. slots[z] \in Seq(Slot) /\ z \in Zones
  BY DEF TypeOK, Zones, Markable
<1>2. Elems(Items(slots[z], d)) = ItemsOf(slots[z], d)
  BY <1>1, ElemsItems DEF ItemsOf
<1>3. \A x \in Elems(Items(slots[z], d)) : x.via # "raw"
  BY <1>1, <1>2, ItemsOfZone
<1>4. Inside(z, d) \in Seq(Item)
  BY InsideTyped
<1> QED BY <1>3, <1>4, ElemsEmpty DEF Inside

\* Every step of marking lowers the measure.
LEMMA MarkingDescends ==
  ASSUME TypeOK, MarkObj \/ MarkValue \/ MarkFrameValue \/ ScanObject
  PROVE  Nearer
<1>1. CASE MarkObj
  <2>1. work # <<>> /\ work' = Tail(work) /\ QueueObject(Head(work).to)
    BY <1>1 DEF MarkObj, Following
  <2>2. work \in Seq(Item)
    BY DEF TypeOK
  <2>3. CASE Head(work).to \in marked
    BY <2>1, <2>2, <2>3, RawPlacesTail DEF Nearer, QueueObject
  <2>4. CASE Head(work).to \notin marked
    BY <2>1, <2>4 DEF Nearer, QueueObject
  <2> QED BY <2>3, <2>4
<1>2. CASE MarkValue
  <2>1. work # <<>> /\ Head(work).via = "val" /\ queue' = queue
    BY <1>2 DEF MarkValue, Following
  <2>2. work \in Seq(Item)
    BY DEF TypeOK
  <2>3. CASE Head(work).to \in marked
    <3>1. work' = Tail(work) /\ marked' = marked
      BY <1>2, <2>3 DEF MarkValue
    <3> QED BY <2>1, <2>2, <3>1, RawPlacesTail DEF Nearer
  <2>4. CASE Head(work).to \notin marked
    BY <1>2, <2>4 DEF MarkValue, Nearer
  <2> QED BY <2>3, <2>4
<1>3. CASE MarkFrameValue
  <2> DEFINE z == Head(work).to
             d == Head(work).depth + 1
  <2>1. /\ work # <<>> /\ Head(work).via = "raw" /\ marked' = marked
        /\ work' = Cat(Inside(z, d), Tail(work))
    BY <1>3 DEF MarkFrameValue, Following, Cat
  <2>2. work \in Seq(Item) /\ z \in Markable /\ d \in Nat
    BY <2>1, WorkHead DEF TypeOK
  <2> HIDE DEF z, d
  <2>3. Inside(z, d) \in Seq(Item) /\ \A x \in Elems(Inside(z, d)) : x.via # "raw"
    BY <2>2, InsideNotRaw
  <2>4. /\ Tail(work) \in Seq(Item) /\ RawPlaces(Tail(work)) \subseteq RawPlaces(work)
        /\ RawPlaces(Tail(work)) # RawPlaces(work)
    BY <2>1, <2>2, RawPlacesTail
  <2>5. RawPlaces(work') = RawPlaces(Tail(work))
    BY <2>1, <2>3, <2>4, RawPlacesCat
  <2> QED BY <2>1, <2>4, <2>5 DEF Nearer
<1>4. CASE ScanObject
  <2>1. PICK o \in Objects :
          /\ work = <<>> /\ queue # <<>> /\ queue' = Tail(queue)
          /\ Elems(work') = ItemsOf(slots[o], 0) \cup
               (IF payload[o] = NoPayload THEN {} ELSE ItemsOf(slots[payload[o]], 0))
    BY <1>4, WorkAfterScan
  <2>2. \A x \in ItemsOf(slots[o], 0) : x.via # "raw"
    BY ItemsOfZone DEF Zones
  <2>3. ASSUME payload[o] # NoPayload
        PROVE  \A x \in ItemsOf(slots[payload[o]], 0) : x.via # "raw"
    <3>1. payload[o] \in Zones
      BY <2>3 DEF TypeOK, Zones
    <3> QED BY <3>1, ItemsOfZone
  <2>4. \A x \in Elems(work') : x.via # "raw"
    BY <2>1, <2>2, <2>3
  <2>5. work \in Seq(Item) /\ work' \in Seq(Item)
    <3>1. [Next]_vars
      BY <1>4 DEF Next, Mark
    <3>2. TypeOK'
      BY <3>1, TypeStep
    <3> QED BY <3>2 DEF TypeOK
  <2>6. RawPlaces(work') = {} /\ RawPlaces(work) = {}
    BY <2>1, <2>4, <2>5, NoRawPlaces, ElemsEmpty
  <2>7. Len(queue') < Len(queue)
    <3>1. queue \in Seq(Objects)
      BY DEF TypeOK
    <3> QED BY <2>1, <3>1
  <2>8. marked' = marked
    BY <1>4 DEF ScanObject
  <2> QED BY <2>6, <2>7, <2>8 DEF Nearer
<1> QED BY <1>1, <1>2, <1>3, <1>4

\* A step of a collection that goes on lowers the measure of marking, or takes a zone
\* off those the sweep has to visit.  On finitely many zones neither can go on for
\* ever: this is what CollectionEnds rests on, next to the fairness of the collector.
Descends ==
  [][/\ pc = "mark" /\ pc' = "mark" => Nearer
     /\ pc = "sweep" /\ pc' = "sweep" => todo' \subseteq todo /\ todo' # todo]_vars

\* Whatever the heap, cyclic or deep, no step of a collection is taken in vain.
THEOREM CollectionsDescend == Spec => Descends
<1>1. TypeOK /\ [Next]_vars =>
        [/\ pc = "mark" /\ pc' = "mark" => Nearer
         /\ pc = "sweep" /\ pc' = "sweep" => todo' \subseteq todo /\ todo' # todo]_vars
  <2> SUFFICES ASSUME TypeOK, [Next]_vars, ~UNCHANGED vars
               PROVE  /\ pc = "mark" /\ pc' = "mark" => Nearer
                      /\ pc = "sweep" /\ pc' = "sweep" => todo' \subseteq todo /\ todo' # todo
    OBVIOUS
  <2>1. ASSUME pc = "mark", pc' = "mark" PROVE Nearer
    <3>1. ~StartGC
      BY <2>1 DEF StartGC
    <3> QED BY <2>1, <3>1, MarkingCases, MarkingDescends
  <2>2. ASSUME pc = "sweep", pc' = "sweep" PROVE todo' \subseteq todo /\ todo' # todo
    <3>1. ~EndMark
      BY <2>2 DEF EndMark
    <3>2. PICK z \in Zones : SweepKeep(z) \/ SweepPlain(z) \/ SweepObject(z)
      BY <2>2, <3>1, SweepingCases
    <3>3. z \in todo /\ todo' = todo \ {z}
      BY <3>2 DEF SweepKeep, SweepPlain, SweepObject, Garbage
    <3> QED BY <3>3
  <2> QED BY <2>1, <2>2
<1> QED BY <1>1, TypeCorrect, PTL DEF Spec, Descends
=============================================================================
