----------------------- MODULE GarbageCollectorProofs -----------------------
(***************************************************************************)
(* Theorems about the collector, for all heaps, roots and bounds.          *)
(* OnceInv, PreciseInv, IntactInv and PlainInv are inductive, given the     *)
(* types; PreciseInv also needs OnceInv, and PlainInv needs IntactInv.      *)
(***************************************************************************)
EXTENDS GarbageCollector, TLAPS

-----------------------------------------------------------------------------
(* Sequences as lists of work.                                              *)

\* The concatenation of two sequences, as a name that can be cited.
Cat(s, t) == s \o t

\* The elements of a sequence over S are in S.
LEMMA ElemsIn ==
  ASSUME NEW S, NEW s \in Seq(S)
  PROVE  Elems(s) \subseteq S
  BY DEF Elems

\* A sequence whose elements are in T is a sequence over T.
LEMMA SeqOfElems ==
  ASSUME NEW S, NEW T, NEW s \in Seq(S), Elems(s) \subseteq T
  PROVE  s \in Seq(T)
  BY DEF Elems

\* The empty sequence has no element.
LEMMA ElemsEmpty == Elems(<<>>) = {}
  BY DEF Elems

\* The length and the elements of a concatenation, by index.
LEMMA CatAt ==
  ASSUME NEW S, NEW s \in Seq(S), NEW t \in Seq(S)
  PROVE  /\ Cat(s, t) \in Seq(S)
         /\ Len(Cat(s, t)) = Len(s) + Len(t)
         /\ \A i \in 1 .. Len(s) + Len(t) :
              Cat(s, t)[i] = IF i <= Len(s) THEN s[i] ELSE t[i - Len(s)]
  BY DEF Cat

\* A concatenation has the elements of both its parts.
LEMMA ElemsCat ==
  ASSUME NEW S, NEW s \in Seq(S), NEW t \in Seq(S)
  PROVE  Elems(Cat(s, t)) = Elems(s) \cup Elems(t)
<1> DEFINE u == Cat(s, t)
<1>1. /\ u \in Seq(S) /\ Len(u) = Len(s) + Len(t)
      /\ \A i \in 1 .. Len(s) + Len(t) :
           u[i] = IF i <= Len(s) THEN s[i] ELSE t[i - Len(s)]
  BY CatAt
<1> HIDE DEF u
<1>2. Elems(u) \subseteq Elems(s) \cup Elems(t)
  <2> SUFFICES ASSUME NEW i \in 1 .. Len(s) + Len(t) PROVE u[i] \in Elems(s) \cup Elems(t)
    BY <1>1 DEF Elems
  <2>1. CASE i <= Len(s)
    BY <1>1, <2>1 DEF Elems
  <2>2. CASE ~(i <= Len(s))
    <3>1. i - Len(s) \in 1 .. Len(t)
      BY <2>2
    <3> QED BY <1>1, <2>2, <3>1 DEF Elems
  <2> QED BY <2>1, <2>2
<1>3. Elems(s) \subseteq Elems(u)
  BY <1>1 DEF Elems
<1>4. ASSUME NEW i \in 1 .. Len(t) PROVE t[i] \in Elems(u)
  <2> DEFINE k == Len(s) + i
  <2>1. Len(s) \in Nat /\ Len(t) \in Nat /\ DOMAIN u = 1 .. Len(u)
    BY <1>1
  <2>2. k \in 1 .. Len(s) + Len(t) /\ ~(k <= Len(s)) /\ k - Len(s) = i
    BY <2>1
  <2>3. u[k] = t[i]
    BY <1>1, <2>2
  <2> QED BY <1>1, <2>1, <2>2, <2>3 DEF Elems
<1>5. Elems(t) \subseteq Elems(u)
  BY <1>4 DEF Elems
<1> QED BY <1>2, <1>3, <1>5 DEF u

\* Appending adds one element.
LEMMA ElemsAppend ==
  ASSUME NEW S, NEW s \in Seq(S), NEW e \in S
  PROVE  Append(s, e) \in Seq(S) /\ Elems(Append(s, e)) = Elems(s) \cup {e}
<1>1. /\ Append(s, e) \in Seq(S)
      /\ Len(Append(s, e)) = Len(s) + 1
      /\ \A i \in 1 .. Len(s) : Append(s, e)[i] = s[i]
      /\ Append(s, e)[Len(s) + 1] = e
  OBVIOUS
<1> QED BY <1>1 DEF Elems

\* The elements of a sequence are its head and those of its tail.
LEMMA ElemsHeadTail ==
  ASSUME NEW S, NEW s \in Seq(S), s # <<>>
  PROVE  /\ Head(s) \in S /\ Tail(s) \in Seq(S)
         /\ Elems(s) = {Head(s)} \cup Elems(Tail(s))
<1>1. /\ Head(s) = s[1] /\ Tail(s) \in Seq(S) /\ Len(Tail(s)) = Len(s) - 1
      /\ \A i \in 1 .. Len(Tail(s)) : Tail(s)[i] = s[i + 1]
      /\ Len(s) \in Nat \ {0}
  OBVIOUS
<1>2. ASSUME NEW i \in 1 .. Len(s) PROVE s[i] \in {Head(s)} \cup Elems(Tail(s))
  <2>1. CASE i = 1 BY <2>1, <1>1
  <2>2. CASE i # 1
    <3>1. i - 1 \in DOMAIN Tail(s) /\ Tail(s)[i - 1] = s[i] BY <2>2, <1>1
    <3> QED BY <3>1 DEF Elems
  <2> QED BY <2>1, <2>2
<1> QED BY <1>1, <1>2 DEF Elems

\* The items made from a list of references: the same targets, at one depth.
LEMMA ElemsItems ==
  ASSUME NEW sl \in Seq(Slot), NEW d \in Nat
  PROVE  /\ Items(sl, d) \in Seq(Item)
         /\ Elems(Items(sl, d)) = {[via |-> x.via, to |-> x.to, depth |-> d] : x \in Elems(sl)}
<1>1. Len(sl) \in Nat /\ DOMAIN sl = 1 .. Len(sl) /\ \A i \in 1 .. Len(sl) : sl[i] \in Slot
  OBVIOUS
<1>a. \A x \in Slot : x.via \in {"obj", "val"} /\ x.to \in Markable
  BY DEF Slot, Markable
<1>b. \A i \in 1 .. Len(sl) : [via |-> sl[i].via, to |-> sl[i].to, depth |-> d] \in Item
  BY <1>1, <1>a DEF Item
<1>2. Items(sl, d) \in [1 .. Len(sl) -> Item]
  BY <1>1, <1>b DEF Items
<1>3. Items(sl, d) \in Seq(Item)
  BY <1>1, <1>2
<1> QED BY <1>1, <1>3 DEF Items, Elems

\* The roots are references like any other.
LEMMA RootsTyped == Roots \in Seq(Slot)
<1> DEFINE S == [via : {"obj"}, to : Objects]
<1>1. Roots \in Seq(S)
  BY HeapsAssumption
<1>2. S \subseteq Slot
  BY DEF Slot
<1> HIDE DEF S
<1>3. Elems(Roots) \subseteq Slot
  BY <1>1, <1>2, ElemsIn
<1> QED BY <1>1, <1>3, SeqOfElems

\* The same for the items made from the call frames.
LEMMA ElemsFrameItems ==
  ASSUME frame \in Seq(Markable)
  PROVE  /\ FrameItems \in Seq(Item)
         /\ Elems(FrameItems) = {[via |-> "raw", to |-> z, depth |-> 0] : z \in Elems(frame)}
<1>1. Len(frame) \in Nat /\ DOMAIN frame = 1 .. Len(frame)
      /\ \A i \in 1 .. Len(frame) : frame[i] \in Markable
  OBVIOUS
<1>2. FrameItems \in [1 .. Len(frame) -> Item]
  BY <1>1 DEF FrameItems, Item
<1>3. FrameItems \in Seq(Item)
  BY <1>1, <1>2
<1> QED BY <1>1, <1>3 DEF FrameItems, Elems

-----------------------------------------------------------------------------
(* Types.                                                                   *)

\* The reference to follow next is well typed, and so are the others.
LEMMA WorkHead ==
  ASSUME TypeOK, work # <<>>
  PROVE  /\ Head(work) \in Item /\ Head(work).to \in Markable
         /\ Head(work).depth \in Nat /\ Tail(work) \in Seq(Item)
<1>1. work \in Seq(Item)
  BY DEF TypeOK
<1>2. Head(work) \in Item /\ Tail(work) \in Seq(Item)
  BY <1>1, ElemsHeadTail
<1> QED BY <1>2 DEF Item

\* What the virtual gc_mark of a zone follows is well typed.
LEMMA InsideTyped ==
  ASSUME TypeOK, NEW z \in Markable, NEW d \in Nat
  PROVE  Inside(z, d) \in Seq(Item)
<1>1. slots[z] \in Seq(Slot)
  BY DEF TypeOK, Zones, Markable
<1>2. Items(slots[z], d) \in Seq(Item)
  BY <1>1, ElemsItems
<1>3. <<>> \in Seq(Item)
  OBVIOUS
<1> QED BY <1>2, <1>3 DEF Inside

\* So is what the marking of a payload follows.
LEMMA PayloadItemsTyped ==
  ASSUME TypeOK, NEW o \in Objects
  PROVE  PayloadItems(o) \in Seq(Item)
<1>1. CASE payload[o] = NoPayload
  BY <1>1 DEF PayloadItems
<1>2. CASE payload[o] # NoPayload
  <2>1. slots[payload[o]] \in Seq(Slot)
    BY <1>2 DEF TypeOK, Zones
  <2> QED BY <1>2, <2>1, ElemsItems DEF PayloadItems
<1> QED BY <1>1, <1>2

\* Queueing an object keeps the types of the marks and of gc_obscanque.
LEMMA QueueTyped ==
  ASSUME TypeOK, NEW o \in Objects, QueueObject(o)
  PROVE  marked' \subseteq Markable /\ queue' \in Seq(Objects)
<1>1. marked \subseteq Markable /\ queue \in Seq(Objects)
  BY DEF TypeOK
<1>2. Append(queue, o) \in Seq(Objects)
  BY <1>1, ElemsAppend
<1> QED BY <1>1, <1>2 DEF QueueObject, Markable

\* The initial heaps are well typed.
LEMMA InitTypes == Init => TypeOK
<1> SUFFICES ASSUME Init PROVE TypeOK
  OBVIOUS
<1>1. slots \in [Zones -> Seq(Slot)] /\ payload \in [Objects -> Payloads \cup {NoPayload}]
  BY HeapsAssumption DEF Init
<1>2. frame \in Seq(Markable)
  <2>1. ASSUME NEW z \in FrameZones PROVE <<z>> \in Seq(Markable)
    <3>1. z \in Markable
      BY ZonesAssumption
    <3> QED BY <3>1
  <2>2. <<>> \in Seq(Markable)
    OBVIOUS
  <2>3. frame = <<>> \/ \E z \in FrameZones : frame = <<z>>
    BY DEF Init
  <2> QED BY <2>1, <2>2, <2>3
<1>3. heap \subseteq Zones
  BY DEF Init, Zones, Markable
<1>4. ncol \in 0 .. MaxCollections
  BY BoundsAssumption DEF Init
<1>5. queue \in Seq(Objects) /\ work \in Seq(Item)
  BY DEF Init
<1>6. pc \in Pcs /\ marked = {} /\ todo = {} /\ scanned = {} /\ withframes \in BOOLEAN
  BY DEF Init, Pcs
<1> QED BY <1>1, <1>2, <1>3, <1>4, <1>5, <1>6 DEF TypeOK

\* Every step of the collector and of the program keeps the types.
LEMMA TypeStep == TypeOK /\ [Next]_vars => TypeOK'
<1> SUFFICES ASSUME TypeOK, [Next]_vars PROVE TypeOK'
  OBVIOUS
<1> USE DEF heapVars, markVars
<1>1. CASE StartGC
  <2>1. Items(Roots, 0) \in Seq(Item)
    BY RootsTyped, ElemsItems
  <2>2. FrameItems \in Seq(Item)
    BY ElemsFrameItems DEF TypeOK
  <2>3. <<>> \in Seq(Item)
    OBVIOUS
  <2>4. work' = Cat(Items(Roots, 0), IF withframes' THEN FrameItems ELSE <<>>)
    BY <1>1 DEF StartGC, Cat
  <2>5. work' \in Seq(Item)
    BY <2>1, <2>2, <2>3, <2>4, CatAt
  <2>6. ncol' \in 0 .. MaxCollections
    BY <1>1, BoundsAssumption DEF StartGC, TypeOK
  <2> QED BY <1>1, <2>5, <2>6 DEF StartGC, ClearAll, TypeOK, Pcs
<1>2. CASE FollowDangling \/ MarkTooDeep
  BY <1>2, WorkHead DEF FollowDangling, MarkTooDeep, Following, TypeOK, Pcs
<1>3. CASE MarkObj
  BY <1>3, WorkHead, QueueTyped DEF MarkObj, Following, TypeOK
<1>4. CASE MarkValue
  <2> DEFINE z == Head(work).to
             d == Head(work).depth
  <2>1. z \in Markable /\ d \in Nat /\ Tail(work) \in Seq(Item)
    BY <1>4, WorkHead DEF MarkValue, Following
  <2>a. d + 1 \in Nat
    BY <2>1
  <2>b. Inside(z, d + 1) \in Seq(Item)
    BY <2>1, <2>a, InsideTyped
  <2>2. Cat(Inside(z, d + 1), Tail(work)) \in Seq(Item)
    BY <2>1, <2>b, CatAt
  <2>3. work' \in Seq(Item) /\ marked' \subseteq Markable
    BY <1>4, <2>1, <2>2 DEF MarkValue, Cat, TypeOK
  <2> QED BY <1>4, <2>3 DEF MarkValue, TypeOK
<1>5. CASE MarkFrameValue
  <2> DEFINE z == Head(work).to
             d == Head(work).depth
  <2>1. z \in Markable /\ d \in Nat /\ Tail(work) \in Seq(Item)
    BY <1>5, WorkHead DEF MarkFrameValue, Following
  <2>a. d + 1 \in Nat
    BY <2>1
  <2>b. Inside(z, d + 1) \in Seq(Item)
    BY <2>1, <2>a, InsideTyped
  <2>2. Cat(Inside(z, d + 1), Tail(work)) \in Seq(Item)
    BY <2>1, <2>b, CatAt
  <2> QED BY <1>5, <2>2 DEF MarkFrameValue, Cat, TypeOK
<1>6. CASE ScanObject
  <2> DEFINE o == Head(queue)
  <2>1. o \in Objects /\ Tail(queue) \in Seq(Objects)
    BY <1>6, ElemsHeadTail DEF ScanObject, TypeOK
  <2>2. Items(slots[o], 0) \in Seq(Item)
    BY <2>1, ElemsItems DEF TypeOK, Zones
  <2>3. Cat(Items(slots[o], 0), PayloadItems(o)) \in Seq(Item)
    BY <2>1, <2>2, PayloadItemsTyped, CatAt
  <2> QED BY <1>6, <2>1, <2>3 DEF ScanObject, RestOfQueue, Cat, TypeOK
<1>7. CASE ScanDangling \/ EndMark \/ EndSweep
  BY <1>7 DEF ScanDangling, EndMark, EndSweep, TypeOK, Pcs
<1>8. CASE \E z \in Zones : SweepZone(z)
  BY <1>8 DEF SweepZone, SweepKeep, SweepPlain, SweepObject, SweepBadObject, TypeOK, Pcs
<1>9. ASSUME NEW z \in Markable, Allocate(z) PROVE TypeOK'
  <2>1. <<z>> \in Seq(Markable)
    OBVIOUS
  <2>2. Cat(<<z>>, frame) \in Seq(Markable)
    BY <2>1, CatAt DEF TypeOK
  <2>3. frame' \in Seq(Markable)
    BY <1>9, <2>2 DEF Allocate, Cat
  <2> QED BY <1>9, <2>3 DEF Allocate, TypeOK, Zones, Markable
<1>10. CASE Return
  BY <1>10, ElemsHeadTail DEF Return, TypeOK
<1>11. ASSUME NEW o \in Objects, Unlink(o) PROVE TypeOK'
  <2>1. slots[o] \in Seq(Slot)
    BY DEF TypeOK, Zones
  <2>2. SubSeq(slots[o], 1, Len(slots[o]) - 1) \in Seq(Slot)
    BY <2>1, <1>11 DEF Unlink
  <2> QED BY <1>11, <2>2 DEF Unlink, TypeOK
<1>12. ASSUME NEW o \in Objects, NEW z \in Markable, AppendComp(o, z) PROVE TypeOK'
  <2>1. slots[o] \in Seq(Slot) /\ [via |-> "val", to |-> z] \in Slot
    BY DEF TypeOK, Zones, Slot
  <2>2. Append(slots[o], [via |-> "val", to |-> z]) \in Seq(Slot)
    BY <2>1, ElemsAppend
  <2>3. slots' = [slots EXCEPT ![o] = Append(slots[o], [via |-> "val", to |-> z])]
    BY <1>12 DEF AppendComp
  <2>4. slots' \in [Zones -> Seq(Slot)]
    BY <2>2, <2>3 DEF TypeOK
  <2> QED BY <1>12, <2>4 DEF AppendComp, TypeOK
<1>13. CASE UNCHANGED vars
  BY <1>13 DEF vars, TypeOK
<1> QED BY <1>1, <1>2, <1>3, <1>4, <1>5, <1>6, <1>7, <1>8, <1>9, <1>10, <1>11, <1>12, <1>13
        DEF Next, Mark, Sweep, Mutator

\* Every variable of the collector stays in its type, whatever the heap.
THEOREM TypeCorrect == Spec => []TypeOK
  BY InitTypes, TypeStep, PTL DEF Spec
-----------------------------------------------------------------------------
(* What a step does to the work, the queue and the marks.                   *)

\* The references a step of marking leaves, whatever their order: for instance
\* those of a zone which is not an object, at a given depth.
ItemsOf(sl, d) == {[via |-> x.via, to |-> x.to, depth |-> d] : x \in Elems(sl)}

\* Where a step can leave the collector.
LEMMA PcAfter ==
  /\ FollowDangling \/ MarkTooDeep \/ ScanDangling => pc' \notin {"mark", "sweep"}
  /\ EndMark => pc' = "sweep"
  /\ EndSweep \/ Mutator => pc' = "idle"
  /\ \A z \in Zones : SweepBadObject(z) => pc' \notin {"mark", "sweep"}
  /\ \A z \in Zones : SweepKeep(z) \/ SweepPlain(z) \/ SweepObject(z)
                        => pc = "sweep" /\ pc' = "sweep"
  /\ StartGC => pc' = "mark"
  /\ MarkObj \/ MarkValue \/ MarkFrameValue \/ ScanObject => pc = "mark" /\ pc' = "mark"
<1>1. FollowDangling \/ MarkTooDeep \/ ScanDangling => pc' \notin {"mark", "sweep"}
  BY DEF FollowDangling, MarkTooDeep, ScanDangling
<1>2. (EndMark => pc' = "sweep") /\ (EndSweep => pc' = "idle")
  BY DEF EndMark, EndSweep
<1>3. Mutator => pc' = "idle"
  BY DEF Mutator, Allocate, Return, Unlink, AppendComp
<1>4. \A z \in Zones : SweepBadObject(z) => pc' \notin {"mark", "sweep"}
  BY DEF SweepBadObject
<1>5. \A z \in Zones : SweepKeep(z) \/ SweepPlain(z) \/ SweepObject(z)
                         => pc = "sweep" /\ pc' = "sweep"
  BY DEF SweepKeep, SweepPlain, SweepObject, Garbage
<1>6. StartGC => pc' = "mark"
  BY DEF StartGC
<1>7. MarkObj \/ MarkValue \/ MarkFrameValue \/ ScanObject => pc = "mark" /\ pc' = "mark"
  BY DEF MarkObj, MarkValue, MarkFrameValue, ScanObject, Following
<1> QED BY <1>1, <1>2, <1>3, <1>4, <1>5, <1>6, <1>7

\* The steps that leave the collector marking.
LEMMA MarkingCases ==
  ASSUME [Next]_vars, pc' = "mark"
  PROVE  \/ StartGC
         \/ /\ pc = "mark"
            /\ MarkObj \/ MarkValue \/ MarkFrameValue \/ ScanObject \/ UNCHANGED vars
<1>1. CASE UNCHANGED vars
  BY <1>1 DEF vars
<1>2. CASE Next
  BY <1>2, PcAfter DEF Next, Mark, Sweep, SweepZone
<1> QED BY <1>1, <1>2

\* The steps that leave it sweeping.
LEMMA SweepingCases ==
  ASSUME [Next]_vars, pc' = "sweep"
  PROVE  \/ EndMark
         \/ /\ pc = "sweep"
            /\ \/ \E z \in Zones : SweepKeep(z) \/ SweepPlain(z) \/ SweepObject(z)
               \/ UNCHANGED vars
<1>1. CASE UNCHANGED vars
  BY <1>1 DEF vars
<1>2. CASE Next
  BY <1>2, PcAfter DEF Next, Mark, Sweep, SweepZone
<1> QED BY <1>1, <1>2

\* What a new collection has to follow.
LEMMA WorkAtStart ==
  ASSUME TypeOK, StartGC
  PROVE  Elems(work') = ItemsOf(Roots, 0) \cup
           (IF withframes' THEN {[via |-> "raw", to |-> z, depth |-> 0] : z \in Elems(frame)}
                           ELSE {})
<1>1. /\ Items(Roots, 0) \in Seq(Item) /\ Elems(Items(Roots, 0)) = ItemsOf(Roots, 0)
  BY RootsTyped, ElemsItems DEF ItemsOf
<1>2. /\ FrameItems \in Seq(Item)
      /\ Elems(FrameItems) = {[via |-> "raw", to |-> z, depth |-> 0] : z \in Elems(frame)}
  BY ElemsFrameItems DEF TypeOK
<1>3. <<>> \in Seq(Item) /\ Elems(<<>>) = {}
  BY ElemsEmpty
<1> DEFINE frames == IF withframes' THEN FrameItems ELSE <<>>
<1>4. work' = Cat(Items(Roots, 0), frames)
  BY DEF StartGC, Cat
<1>5. frames \in Seq(Item)
      /\ Elems(frames) = IF withframes'
                         THEN {[via |-> "raw", to |-> z, depth |-> 0] : z \in Elems(frame)}
                         ELSE {}
  BY <1>2, <1>3
<1> HIDE DEF frames
<1>6. Elems(work') = Elems(Items(Roots, 0)) \cup Elems(frames)
  BY <1>1, <1>4, <1>5, ElemsCat
<1> QED BY <1>1, <1>5, <1>6

\* What the virtual gc_mark of a zone adds to the work.
LEMMA WorkInside ==
  ASSUME TypeOK, NEW z \in Markable, NEW d \in Nat, NEW rest \in Seq(Item)
  PROVE  Elems(Cat(Inside(z, d), rest)) =
           (IF z \in Objects THEN {} ELSE ItemsOf(slots[z], d)) \cup Elems(rest)
<1>1. slots[z] \in Seq(Slot)
  BY DEF TypeOK, Zones, Markable
<1>2. Items(slots[z], d) \in Seq(Item) /\ Elems(Items(slots[z], d)) = ItemsOf(slots[z], d)
  BY <1>1, ElemsItems DEF ItemsOf
<1>3. <<>> \in Seq(Item) /\ Elems(<<>>) = {}
  BY ElemsEmpty
<1>4. Inside(z, d) \in Seq(Item)
  BY InsideTyped
<1>5. Elems(Cat(Inside(z, d), rest)) = Elems(Inside(z, d)) \cup Elems(rest)
  BY <1>4, ElemsCat
<1> QED BY <1>2, <1>3, <1>5 DEF Inside

\* Following a reference to a value, or to an object by way of mark_value.
LEMMA WorkAfterValue ==
  ASSUME TypeOK, MarkValue
  PROVE  \E x \in Item :
           /\ x.via = "val" /\ x.to \in heap /\ Elems(work) = {x} \cup Elems(Tail(work))
           /\ marked' = marked \cup {x.to}
           /\ \/ x.to \in marked /\ Elems(work') = Elems(Tail(work))
              \/ /\ x.to \notin marked
                 /\ Elems(work') = Elems(Tail(work)) \cup
                      (IF x.to \in Objects THEN {} ELSE ItemsOf(slots[x.to], x.depth + 1))
<1> DEFINE x == Head(work)
<1>1. work # <<>> /\ x.via = "val" /\ x.to \in heap
  BY DEF MarkValue, Following
<1>2. x \in Item /\ x.to \in Markable /\ x.depth \in Nat /\ Tail(work) \in Seq(Item)
  <2>1. work # <<>>
    BY <1>1
  <2>2. x = Head(work)
    OBVIOUS
  <2> HIDE DEF x
  <2> QED BY <2>1, <2>2, WorkHead
<1>3. Elems(work) = {x} \cup Elems(Tail(work))
  BY <1>1, ElemsHeadTail DEF TypeOK
<1>4. x.depth + 1 \in Nat
  BY <1>2
<1>5. Elems(Cat(Inside(x.to, x.depth + 1), Tail(work))) =
        (IF x.to \in Objects THEN {} ELSE ItemsOf(slots[x.to], x.depth + 1)) \cup Elems(Tail(work))
  <2> DEFINE z == x.to
             d == x.depth + 1
             rest == Tail(work)
  <2>1. z \in Markable /\ d \in Nat /\ rest \in Seq(Item)
    BY <1>2, <1>4
  <2> HIDE DEF z, d, rest
  <2>2. Elems(Cat(Inside(z, d), rest)) =
          (IF z \in Objects THEN {} ELSE ItemsOf(slots[z], d)) \cup Elems(rest)
    BY <2>1, WorkInside
  <2> QED BY <2>2 DEF z, d, rest
<1>6. marked' = marked \cup {x.to}
  BY DEF MarkValue
<1>7. \/ x.to \in marked /\ work' = Tail(work)
      \/ x.to \notin marked /\ work' = Cat(Inside(x.to, x.depth + 1), Tail(work))
  BY DEF MarkValue, Cat
<1> HIDE DEF x
<1>8. \/ x.to \in marked /\ Elems(work') = Elems(Tail(work))
      \/ /\ x.to \notin marked
         /\ Elems(work') = Elems(Tail(work)) \cup
              (IF x.to \in Objects THEN {} ELSE ItemsOf(slots[x.to], x.depth + 1))
  BY <1>5, <1>7
<1> QED BY <1>1, <1>2, <1>3, <1>6, <1>8

\* Following the contents of a value that a call frame holds.
LEMMA WorkAfterFrameValue ==
  ASSUME TypeOK, MarkFrameValue
  PROVE  \E x \in Item :
           /\ x.via = "raw" /\ x.to \in Values /\ Elems(work) = {x} \cup Elems(Tail(work))
           /\ Elems(work') = Elems(Tail(work)) \cup ItemsOf(slots[x.to], x.depth + 1)
<1> DEFINE x == Head(work)
<1>1. work # <<>> /\ x.via = "raw" /\ x.to \in Values
  BY DEF MarkFrameValue, Following
<1>2. x \in Item /\ x.to \in Markable /\ x.depth \in Nat /\ Tail(work) \in Seq(Item)
  <2>1. work # <<>>
    BY <1>1
  <2>2. x = Head(work)
    OBVIOUS
  <2> HIDE DEF x
  <2> QED BY <2>1, <2>2, WorkHead
<1>3. Elems(work) = {x} \cup Elems(Tail(work))
  BY <1>1, ElemsHeadTail DEF TypeOK
<1>4. x.depth + 1 \in Nat
  BY <1>2
<1>5. Elems(Cat(Inside(x.to, x.depth + 1), Tail(work))) =
        (IF x.to \in Objects THEN {} ELSE ItemsOf(slots[x.to], x.depth + 1)) \cup Elems(Tail(work))
  <2> DEFINE z == x.to
             d == x.depth + 1
             rest == Tail(work)
  <2>1. z \in Markable /\ d \in Nat /\ rest \in Seq(Item)
    BY <1>2, <1>4
  <2> HIDE DEF z, d, rest
  <2>2. Elems(Cat(Inside(z, d), rest)) =
          (IF z \in Objects THEN {} ELSE ItemsOf(slots[z], d)) \cup Elems(rest)
    BY <2>1, WorkInside
  <2> QED BY <2>2 DEF z, d, rest
<1>6. work' = Cat(Inside(x.to, x.depth + 1), Tail(work)) /\ x.to \notin Objects
  BY <1>1, ZonesAssumption DEF MarkFrameValue, Cat
<1> HIDE DEF x
<1>7. Elems(work') = Elems(Tail(work)) \cup ItemsOf(slots[x.to], x.depth + 1)
  BY <1>5, <1>6
<1> QED BY <1>1, <1>2, <1>3, <1>7

\* Following a reference to an object.
LEMMA WorkAfterObj ==
  ASSUME TypeOK, MarkObj
  PROVE  \E x \in Item :
           /\ x.via \in {"obj", "raw"} /\ x.to \in Objects \cap heap
           /\ Elems(work) = {x} \cup Elems(work')
           /\ marked' = marked \cup {x.to}
           /\ \/ x.to \in marked /\ queue' = queue
              \/ /\ x.to \notin marked /\ queue' = Append(queue, x.to)
                 /\ Elems(queue') = Elems(queue) \cup {x.to}
<1> DEFINE x == Head(work)
<1>1. work # <<>> /\ x.via \in {"obj", "raw"} /\ x.to \in Objects \cap heap /\ QueueObject(x.to)
  BY DEF MarkObj, Following
<1>2. x \in Item
  BY <1>1, WorkHead
<1>3. Elems(work) = {x} \cup Elems(work')
  BY <1>1, ElemsHeadTail DEF TypeOK, MarkObj
<1>4. Elems(Append(queue, x.to)) = Elems(queue) \cup {x.to}
  BY <1>1, ElemsAppend DEF TypeOK
<1>5. /\ marked' = marked \cup {x.to}
      /\ \/ x.to \in marked /\ queue' = queue
         \/ x.to \notin marked /\ queue' = Append(queue, x.to)
  BY <1>1 DEF QueueObject
<1> HIDE DEF x
<1> QED BY <1>1, <1>2, <1>3, <1>4, <1>5

\* Scanning an object, with its payload, leaves its successors to be followed.
LEMMA WorkAfterScan ==
  ASSUME TypeOK, ScanObject
  PROVE  \E o \in Objects :
           /\ scanned' = scanned \cup {o} /\ work = <<>>
           /\ queue # <<>> /\ o = Head(queue) /\ queue' = Tail(queue)
           /\ Elems(queue) = {o} \cup Elems(queue')
           /\ Elems(work') = ItemsOf(slots[o], 0) \cup
                (IF payload[o] = NoPayload THEN {} ELSE ItemsOf(slots[payload[o]], 0))
<1> DEFINE o == Head(queue)
<1>1. /\ queue # <<>> /\ queue' = Tail(queue) /\ work = <<>> /\ scanned' = scanned \cup {o}
      /\ work' = Cat(Items(slots[o], 0), PayloadItems(o))
  BY DEF ScanObject, RestOfQueue, Cat
<1>2. o \in Objects /\ Elems(queue) = {o} \cup Elems(queue')
  BY <1>1, ElemsHeadTail DEF TypeOK
<1> HIDE DEF o
<1>3. slots[o] \in Seq(Slot)
  BY <1>2 DEF TypeOK, Zones
<1>4. Items(slots[o], 0) \in Seq(Item) /\ Elems(Items(slots[o], 0)) = ItemsOf(slots[o], 0)
  BY <1>3, ElemsItems DEF ItemsOf
<1>5. PayloadItems(o) \in Seq(Item)
  BY <1>2, PayloadItemsTyped
<1>6. Elems(PayloadItems(o)) =
        IF payload[o] = NoPayload THEN {} ELSE ItemsOf(slots[payload[o]], 0)
  <2>1. CASE payload[o] = NoPayload
    BY <2>1, ElemsEmpty DEF PayloadItems
  <2>2. CASE payload[o] # NoPayload
    <3>1. slots[payload[o]] \in Seq(Slot)
      BY <1>2, <2>2 DEF TypeOK, Zones
    <3>2. Elems(Items(slots[payload[o]], 0)) = ItemsOf(slots[payload[o]], 0)
      BY <3>1, ElemsItems DEF ItemsOf
    <3> QED BY <2>2, <3>2 DEF PayloadItems
  <2> QED BY <2>1, <2>2
<1>7. Elems(work') = Elems(Items(slots[o], 0)) \cup Elems(PayloadItems(o))
  BY <1>1, <1>4, <1>5, ElemsCat
<1> QED BY <1>1, <1>2, <1>4, <1>6, <1>7 DEF o
-----------------------------------------------------------------------------
(* Every object is queued once.                                             *)

Distinct(s) == \A i, j \in DOMAIN s : s[i] = s[j] => i = j

\* While it marks, what was scanned or waits to be is marked.
OnceInv ==
  pc = "mark" =>
    /\ scanned \subseteq marked
    /\ Elems(queue) \subseteq marked \ scanned
    /\ Distinct(queue)

\* A new element at the end of a list without repetition makes no repetition.
LEMMA DistinctAppend ==
  ASSUME NEW S, NEW s \in Seq(S), NEW e \in S, Distinct(s), e \notin Elems(s)
  PROVE  Distinct(Append(s, e))
<1>1. /\ DOMAIN Append(s, e) = 1 .. Len(s) + 1 /\ DOMAIN s = 1 .. Len(s) /\ Len(s) \in Nat
      /\ \A i \in 1 .. Len(s) : Append(s, e)[i] = s[i]
      /\ Append(s, e)[Len(s) + 1] = e
  OBVIOUS
<1>2. \A i \in 1 .. Len(s) : s[i] # e
  BY <1>1 DEF Elems
<1>3. \A i \in 1 .. Len(s) + 1 : i \in 1 .. Len(s) \/ i = Len(s) + 1
  BY <1>1
<1> QED BY <1>1, <1>2, <1>3 DEF Distinct

\* The head of such a list occurs once, and the tail has no repetition either.
LEMMA DistinctTail ==
  ASSUME NEW S, NEW s \in Seq(S), s # <<>>, Distinct(s)
  PROVE  Distinct(Tail(s)) /\ Head(s) \notin Elems(Tail(s))
<1>1. /\ Head(s) = s[1] /\ Len(s) \in Nat \ {0}
      /\ DOMAIN s = 1 .. Len(s) /\ DOMAIN Tail(s) = 1 .. Len(s) - 1
      /\ \A i \in 1 .. Len(s) - 1 : Tail(s)[i] = s[i + 1]
  OBVIOUS
<1>2. \A i \in 1 .. Len(s) - 1 : i + 1 \in 1 .. Len(s) /\ i + 1 # 1
  BY <1>1
<1>3. 1 \in 1 .. Len(s)
  BY <1>1
<1>4. \A i, j \in 1 .. Len(s) - 1 : i + 1 = j + 1 => i = j
  OBVIOUS
<1>5. Distinct(Tail(s))
  BY <1>1, <1>2, <1>4 DEF Distinct
<1>6. Head(s) \notin Elems(Tail(s))
  BY <1>1, <1>2, <1>3 DEF Distinct, Elems
<1> QED BY <1>5, <1>6

\* No step queues an object again.
LEMMA OnceStep == TypeOK /\ OnceInv /\ [Next]_vars => OnceInv'
<1> SUFFICES ASSUME TypeOK, OnceInv, [Next]_vars, pc' = "mark"
             PROVE  /\ scanned' \subseteq marked'
                    /\ Elems(queue') \subseteq marked' \ scanned'
                    /\ Distinct(queue')
  BY DEF OnceInv
<1>1. CASE StartGC
  BY <1>1 DEF StartGC, ClearAll, Elems, Distinct
<1>2. CASE pc = "mark" /\ MarkObj
  <2>1. PICK x \in Item :
          /\ x.to \in Objects /\ marked' = marked \cup {x.to}
          /\ \/ x.to \in marked /\ queue' = queue
             \/ /\ x.to \notin marked /\ queue' = Append(queue, x.to)
                /\ Elems(queue') = Elems(queue) \cup {x.to}
    BY <1>2, WorkAfterObj
  <2>2. queue \in Seq(Objects) /\ scanned' = scanned
    BY <1>2 DEF MarkObj, TypeOK
  <2>3. CASE x.to \in marked /\ queue' = queue
    BY <1>2, <2>1, <2>2, <2>3 DEF OnceInv
  <2>4. CASE x.to \notin marked /\ queue' = Append(queue, x.to)
    <3>1. x.to \notin Elems(queue) /\ x.to \notin scanned
      BY <1>2, <2>4 DEF OnceInv
    <3>2. Distinct(queue')
      BY <1>2, <2>1, <2>2, <2>4, <3>1, DistinctAppend DEF OnceInv
    <3> QED BY <1>2, <2>1, <2>2, <2>4, <3>1, <3>2 DEF OnceInv
  <2> QED BY <2>1, <2>3, <2>4
<1>3. CASE pc = "mark" /\ MarkValue
  <2>1. marked \subseteq marked' /\ queue' = queue /\ scanned' = scanned
    BY <1>3 DEF MarkValue
  <2> QED BY <1>3, <2>1 DEF OnceInv
<1>4. CASE pc = "mark" /\ MarkFrameValue
  BY <1>4 DEF MarkFrameValue, OnceInv
<1>5. CASE pc = "mark" /\ ScanObject
  <2>1. PICK o \in Objects :
          /\ scanned' = scanned \cup {o} /\ queue # <<>>
          /\ o = Head(queue) /\ queue' = Tail(queue)
          /\ Elems(queue) = {o} \cup Elems(queue')
    BY <1>5, WorkAfterScan
  <2>2. queue \in Seq(Objects) /\ marked' = marked
    BY <1>5 DEF ScanObject, TypeOK
  <2>3. Distinct(queue') /\ o \notin Elems(queue')
    BY <1>5, <2>1, <2>2, DistinctTail DEF OnceInv
  <2> QED BY <1>5, <2>1, <2>2, <2>3 DEF OnceInv
<1>6. CASE pc = "mark" /\ UNCHANGED vars
  BY <1>6 DEF vars, markVars, OnceInv
<1> QED BY <1>1, <1>2, <1>3, <1>4, <1>5, <1>6, MarkingCases

\* An object is queued and scanned at most once in a collection, whatever the
\* heap: the condition of mark_obj on the mark bit is enough.
THEOREM QueuedOnce == Spec => []ScanOnce
<1>1. Init => OnceInv
  BY DEF Init, OnceInv
<1>2. OnceInv => ScanOnce
  BY DEF OnceInv, ScanOnce, Distinct
<1> QED BY <1>1, <1>2, OnceStep, TypeCorrect, PTL DEF Spec

-----------------------------------------------------------------------------
(* What can be reached.                                                     *)

\* The references out of a zone lead to zones that can be marked.
LEMMA SuccTyped ==
  ASSUME TypeOK, NEW z \in Markable
  PROVE  /\ Targets(z) \subseteq Succ(z) /\ Succ(z) \subseteq Markable
         /\ z \notin Objects => Succ(z) = Targets(z)
         /\ \A x \in Elems(slots[z]) : x.to \in Targets(z)
<1>1. \A y \in Zones : Targets(y) \subseteq Markable
  <2> SUFFICES ASSUME NEW y \in Zones PROVE Targets(y) \subseteq Markable
    OBVIOUS
  <2>1. slots[y] \in Seq(Slot)
    BY DEF TypeOK
  <2>2. Elems(slots[y]) \subseteq Slot
    BY <2>1, ElemsIn
  <2> QED BY <2>2 DEF Targets, To, Slot, Markable
<1>2. z \in Zones /\ (z \in Objects /\ payload[z] # NoPayload => payload[z] \in Zones)
  BY DEF TypeOK, Zones, Markable
<1> QED BY <1>1, <1>2 DEF Succ, Targets, To

\* The roots are objects, and the call frames hold zones that can be marked.
LEMMA RootTargets ==
  ASSUME TypeOK
  PROVE  To(Roots) \subseteq Markable /\ Elems(frame) \subseteq Markable
<1>1. Elems(Roots) \subseteq Slot
  BY RootsTyped, ElemsIn
<1>2. To(Roots) \subseteq Markable
  BY <1>1 DEF To, Slot, Markable
<1>3. Elems(frame) \subseteq Markable
  BY ElemsIn DEF TypeOK
<1> QED BY <1>2, <1>3

\* The zones a collection starts from can be reached, and so can what a zone
\* that can be reached refers to.
LEMMA ReachableClosed ==
  ASSUME TypeOK
  PROVE  Anchors \subseteq Reachable /\ Closed(Reachable)
<1>1. Anchors \subseteq Markable
  BY RootTargets DEF Anchors
<1>2. Anchors \subseteq Reachable
  BY <1>1 DEF Reachable
<1>3. ASSUME NEW z \in Reachable PROVE Succ(z) \subseteq Reachable
  <2>1. z \in Markable /\ \A S \in SUBSET Markable : Anchors \subseteq S /\ Closed(S) => z \in S
    BY DEF Reachable
  <2>2. Succ(z) \subseteq Markable
    BY <2>1, SuccTyped
  <2>3. \A S \in SUBSET Markable : Anchors \subseteq S /\ Closed(S) => Succ(z) \subseteq S
    BY <2>1 DEF Closed
  <2> QED BY <2>2, <2>3 DEF Reachable
<1> QED BY <1>2, <1>3 DEF Closed

\* A step of the collector changes nothing of what can be reached.
LEMMA ReachableKept ==
  ASSUME UNCHANGED <<slots, payload, frame, withframes>>
  PROVE  /\ Reachable' = Reachable /\ Anchors' = Anchors /\ Plain' = Plain
         /\ \A z \in Zones : Succ(z)' = Succ(z) /\ Targets(z)' = Targets(z)
<1>1. Anchors' = Anchors /\ Plain' = Plain
  BY DEF Anchors, Plain, PlainZones
<1>2. \A z : Succ(z)' = Succ(z) /\ Targets(z)' = Targets(z)
  BY DEF Succ, Targets
<1>3. \A S : Closed(S)' = Closed(S)
  BY <1>2 DEF Closed
<1>4. Reachable' = Reachable
  BY <1>1, <1>3 DEF Reachable
<1> QED BY <1>1, <1>2, <1>4
-----------------------------------------------------------------------------
(* Only garbage is freed late, and all of it is freed.                      *)

\* All that is marked, or still to be followed, can be reached from the roots;
\* in the sweep, what was visited and is still there was marked.
PreciseInv ==
  /\ pc \in {"mark", "sweep"} => marked \subseteq Reachable
  /\ pc = "mark" => To(work) \subseteq Reachable
  /\ pc = "sweep" => heap \ todo \subseteq marked

\* No step follows a reference out of what can be reached.
LEMMA PreciseStep == TypeOK /\ OnceInv /\ PreciseInv /\ [Next]_vars => PreciseInv'
<1> SUFFICES ASSUME TypeOK, OnceInv, PreciseInv, [Next]_vars PROVE PreciseInv'
  OBVIOUS
<1>1. ASSUME pc' = "mark" PROVE marked' \subseteq Reachable' /\ To(work') \subseteq Reachable'
  <2>1. CASE StartGC
    <3>1. frame' = frame
      BY <2>1 DEF StartGC, heapVars
    <3>2. To(Roots) \subseteq Anchors' /\ (withframes' => Elems(frame) \subseteq Anchors')
      BY <3>1 DEF Anchors
    <3>3. Anchors' \subseteq Reachable'
      BY <3>1, RootTargets DEF Reachable, Anchors
    <3>4. To(work') \subseteq To(Roots) \cup (IF withframes' THEN Elems(frame) ELSE {})
      BY <2>1, WorkAtStart DEF ItemsOf, To
    <3>5. marked' = {}
      BY <2>1 DEF StartGC, ClearAll
    <3> QED BY <3>2, <3>3, <3>4, <3>5
  <2>2. CASE pc = "mark" /\ MarkObj
    <3>1. Reachable' = Reachable
      BY <2>2, ReachableKept DEF MarkObj, heapVars
    <3>2. PICK x \in Item : Elems(work) = {x} \cup Elems(work') /\ marked' = marked \cup {x.to}
      BY <2>2, WorkAfterObj
    <3> QED BY <2>2, <3>1, <3>2 DEF PreciseInv, To
  <2>3. CASE pc = "mark" /\ MarkValue
    <3>1. Reachable' = Reachable
      BY <2>3, ReachableKept DEF MarkValue, heapVars
    <3>2. PICK x \in Item :
            /\ Elems(work) = {x} \cup Elems(Tail(work))
            /\ marked' = marked \cup {x.to}
            /\ Elems(work') \subseteq Elems(Tail(work)) \cup ItemsOf(slots[x.to], x.depth + 1)
      BY <2>3, WorkAfterValue
    <3>3. x.to \in Reachable
      BY <2>3, <3>2 DEF PreciseInv, To
    <3>4. Targets(x.to) \subseteq Reachable
      BY <3>3, ReachableClosed, SuccTyped DEF Closed, Reachable
    <3>5. \A y \in Elems(work') : y \in Elems(work) \/ y.to \in Targets(x.to)
      BY <3>2 DEF ItemsOf, Targets, To
    <3> QED BY <2>3, <3>1, <3>2, <3>3, <3>4, <3>5 DEF PreciseInv, To
  <2>4. CASE pc = "mark" /\ MarkFrameValue
    <3>1. Reachable' = Reachable /\ marked' = marked
      BY <2>4, ReachableKept DEF MarkFrameValue, heapVars
    <3>2. PICK x \in Item :
            /\ Elems(work) = {x} \cup Elems(Tail(work))
            /\ Elems(work') = Elems(Tail(work)) \cup ItemsOf(slots[x.to], x.depth + 1)
      BY <2>4, WorkAfterFrameValue
    <3>3. x.to \in Reachable
      BY <2>4, <3>2 DEF PreciseInv, To
    <3>4. Targets(x.to) \subseteq Reachable
      BY <3>3, ReachableClosed, SuccTyped DEF Closed, Reachable
    <3>5. \A y \in Elems(work') : y \in Elems(work) \/ y.to \in Targets(x.to)
      BY <3>2 DEF ItemsOf, Targets, To
    <3> QED BY <2>4, <3>1, <3>2, <3>4, <3>5 DEF PreciseInv, To
  <2>5. CASE pc = "mark" /\ ScanObject
    <3>1. Reachable' = Reachable /\ marked' = marked
      BY <2>5, ReachableKept DEF ScanObject, heapVars
    <3>2. PICK o \in Objects :
            /\ Elems(queue) = {o} \cup Elems(queue')
            /\ Elems(work') = ItemsOf(slots[o], 0) \cup
                 (IF payload[o] = NoPayload THEN {} ELSE ItemsOf(slots[payload[o]], 0))
      BY <2>5, WorkAfterScan
    <3>3. o \in Reachable
      BY <2>5, <3>2 DEF PreciseInv, OnceInv
    <3>4. Succ(o) \subseteq Reachable
      BY <3>3, ReachableClosed DEF Closed
    <3>5. \A y \in Elems(work') : y.to \in Succ(o)
      BY <3>2 DEF ItemsOf, Succ, Targets, To
    <3> QED BY <2>5, <3>1, <3>4, <3>5 DEF PreciseInv, To
  <2>6. CASE pc = "mark" /\ UNCHANGED vars
    <3>1. Reachable' = Reachable
      BY <2>6, ReachableKept DEF vars, heapVars
    <3> QED BY <2>6, <3>1 DEF vars, markVars, PreciseInv, To
  <2> QED BY <1>1, <2>1, <2>2, <2>3, <2>4, <2>5, <2>6, MarkingCases
<1>2. ASSUME pc' = "sweep" PROVE marked' \subseteq Reachable' /\ heap' \ todo' \subseteq marked'
  <2>1. CASE EndMark
    <3>1. Reachable' = Reachable
      BY <2>1, ReachableKept DEF EndMark, heapVars
    <3> QED BY <2>1, <3>1 DEF EndMark, heapVars, markVars, PreciseInv
  <2>2. ASSUME pc = "sweep", NEW z \in Zones, SweepKeep(z) \/ SweepPlain(z) \/ SweepObject(z)
        PROVE  marked' \subseteq Reachable' /\ heap' \ todo' \subseteq marked'
    <3>1. UNCHANGED <<slots, payload, frame, withframes, marked>>
      BY <2>2 DEF SweepKeep, SweepPlain, SweepObject, heapVars, markVars
    <3>2. Reachable' = Reachable
      BY <3>1, ReachableKept
    <3>3. heap \ todo \subseteq marked /\ marked \subseteq Reachable
      BY <2>2 DEF PreciseInv
    <3>4. heap' \ todo' \subseteq marked
      BY <2>2, <3>3 DEF SweepKeep, SweepPlain, SweepObject, heapVars
    <3> QED BY <3>1, <3>2, <3>3, <3>4
  <2>3. CASE pc = "sweep" /\ UNCHANGED vars
    <3>1. Reachable' = Reachable
      BY <2>3, ReachableKept DEF vars, heapVars
    <3> QED BY <2>3, <3>1 DEF vars, heapVars, markVars, PreciseInv
  <2> QED BY <1>2, <2>1, <2>2, <2>3, SweepingCases
<1> QED BY <1>1, <1>2 DEF PreciseInv

\* The collector marks nothing that cannot be reached, and one collection frees
\* all that cannot be, cycles included, for every heap and every set of roots.
THEOREM AllGarbageGoes == Spec => []Precise
<1>1. Init => PreciseInv /\ OnceInv
  BY DEF Init, PreciseInv, OnceInv
<1>2. PreciseInv => Precise
  BY DEF PreciseInv, Precise
<1> QED BY <1>1, <1>2, OnceStep, PreciseStep, TypeCorrect, PTL DEF Spec
-----------------------------------------------------------------------------
(* What was scanned loses nothing.                                          *)

\* The zones that will be marked, or found marked, and the zones whose contents
\* were followed by a virtual gc_mark or by the draining of the queue.
Pending == {x.to : x \in {y \in Elems(work) : y.via # "raw"}}
Settled == scanned \cup (marked \cap Values)

\* The tri-colour invariant: what a settled zone refers to is marked or pending.
IntactInv ==
  /\ pc \in {"mark", "sweep"} => marked \subseteq heap
  /\ pc = "mark" => \A z \in Settled : Succ(z) \subseteq marked \cup Pending
  /\ pc = "sweep" => \A z \in Settled : Succ(z) \subseteq marked

\* The items made of the contents of a zone: their targets, and how they are
\* followed.
LEMMA ItemsOfZone ==
  ASSUME TypeOK, NEW z \in Zones, NEW d \in Nat
  PROVE  /\ Targets(z) = {x.to : x \in ItemsOf(slots[z], d)}
         /\ \A x \in ItemsOf(slots[z], d) : x.via \in {"obj", "val"}
         /\ Plain => \A x \in ItemsOf(slots[z], d) : x.via = "val" => x.to \in Values
<1>1. slots[z] \in Seq(Slot)
  BY DEF TypeOK
<1>2. Elems(slots[z]) \subseteq Slot
  BY <1>1, ElemsIn
<1>3. \A y \in Slot : y.via \in {"obj", "val"}
  BY DEF Slot
<1>4. Plain => \A y \in Elems(slots[z]) : y.via = "val" => y.to \in Values
  <2> SUFFICES ASSUME Plain, NEW i \in DOMAIN slots[z], slots[z][i].via = "val"
               PROVE  slots[z][i].to \in Values
    BY DEF Elems
  <2> QED BY DEF Plain, PlainZones
<1>5. Targets(z) = {x.to : x \in ItemsOf(slots[z], d)}
  <2> DEFINE E == Elems(slots[z])
  <2>1. Targets(z) = {x.to : x \in E}
    BY DEF Targets, To
  <2>2. ItemsOf(slots[z], d) = {[via |-> x.via, to |-> x.to, depth |-> d] : x \in E}
    BY DEF ItemsOf
  <2> HIDE DEF E
  <2>3. ASSUME NEW t \in Targets(z) PROVE \E x \in ItemsOf(slots[z], d) : x.to = t
    <3>1. PICK y \in E : t = y.to
      BY <2>1
    <3>2. [via |-> y.via, to |-> y.to, depth |-> d] \in ItemsOf(slots[z], d)
      BY <2>2
    <3> QED BY <3>1, <3>2
  <2>4. \A x \in ItemsOf(slots[z], d) : x.to \in Targets(z)
    BY <2>1, <2>2
  <2> QED BY <2>3, <2>4
<1>6. \A x \in ItemsOf(slots[z], d) : x.via \in {"obj", "val"}
  BY <1>2, <1>3 DEF ItemsOf
<1>7. Plain => \A x \in ItemsOf(slots[z], d) : x.via = "val" => x.to \in Values
  BY <1>4 DEF ItemsOf
<1> QED BY <1>5, <1>6, <1>7

\* A value gets settled when it is marked, an object when it is scanned, and all
\* that it refers to is pending at that step.
LEMMA IntactStep == TypeOK /\ IntactInv /\ [Next]_vars => IntactInv'
<1> SUFFICES ASSUME TypeOK, IntactInv, [Next]_vars PROVE IntactInv'
  OBVIOUS
<1>1. scanned \subseteq Objects /\ Objects \cap Values = {} /\ Objects \cup Values \subseteq Zones
  BY ZonesAssumption DEF TypeOK, Zones, Markable
<1>2. ASSUME pc' = "mark"
      PROVE  /\ marked' \subseteq heap'
             /\ \A z \in Settled' : Succ(z)' \subseteq marked' \cup Pending'
  <2>1. CASE StartGC
    BY <2>1 DEF StartGC, ClearAll, Settled
  <2>2. CASE pc = "mark" /\ MarkObj
    <3>1. \A z \in Zones : Succ(z)' = Succ(z)
      BY <2>2, ReachableKept DEF MarkObj, heapVars
    <3>2. PICK x \in Item :
            /\ x.to \in Objects \cap heap /\ Elems(work) = {x} \cup Elems(work')
            /\ marked' = marked \cup {x.to}
      BY <2>2, WorkAfterObj
    <3>3. heap' = heap /\ scanned' = scanned
      BY <2>2 DEF MarkObj, heapVars
    <3>4. Settled' = Settled /\ Settled \subseteq Zones
      BY <1>1, <3>2, <3>3 DEF Settled
    <3>5. marked \cup Pending \subseteq marked' \cup Pending'
      BY <3>2 DEF Pending
    <3>6. /\ marked \subseteq heap
          /\ \A z \in Settled : Succ(z) \subseteq marked \cup Pending
      BY <2>2 DEF IntactInv
    <3>7. ASSUME NEW z \in Settled' PROVE Succ(z)' \subseteq marked' \cup Pending'
      BY <3>1, <3>4, <3>5, <3>6
    <3> QED BY <3>2, <3>3, <3>6, <3>7
  <2>3. CASE pc = "mark" /\ MarkValue
    <3>1. \A z \in Zones : Succ(z)' = Succ(z)
      BY <2>3, ReachableKept DEF MarkValue, heapVars
    <3>2. PICK x \in Item :
            /\ x.to \in heap /\ Elems(work) = {x} \cup Elems(Tail(work))
            /\ marked' = marked \cup {x.to}
            /\ \/ x.to \in marked /\ Elems(work') = Elems(Tail(work))
               \/ /\ x.to \notin marked
                  /\ Elems(work') = Elems(Tail(work)) \cup
                       (IF x.to \in Objects THEN {} ELSE ItemsOf(slots[x.to], x.depth + 1))
      BY <2>3, WorkAfterValue
    <3>3. heap' = heap /\ scanned' = scanned
      BY <2>3 DEF MarkValue, heapVars
    <3>4. marked \cup Pending \subseteq marked' \cup Pending'
      BY <3>2 DEF Pending
    <3>5. /\ marked \subseteq heap
          /\ \A z \in Settled : Succ(z) \subseteq marked \cup Pending
      BY <2>3 DEF IntactInv
    <3>6. ASSUME NEW z \in Settled' PROVE Succ(z)' \subseteq marked' \cup Pending'
      <4>1. CASE z \in Settled
        BY <1>1, <3>1, <3>4, <3>5, <4>1 DEF Settled
      <4>2. CASE z \notin Settled
        <5>1. z = x.to /\ z \in Values /\ z \notin marked
          BY <3>2, <3>3, <4>2 DEF Settled
        <5>2. z \notin Objects /\ z \in Zones /\ z \in Markable /\ x.depth + 1 \in Nat
          BY <1>1, <5>1 DEF Item, Markable
        <5>3. ItemsOf(slots[z], x.depth + 1) \subseteq Elems(work')
          BY <3>2, <5>1, <5>2
        <5>4. Targets(z) \subseteq Pending'
          BY <5>2, <5>3, ItemsOfZone DEF Pending
        <5>5. Succ(z) = Targets(z)
          BY <5>2, SuccTyped
        <5> QED BY <3>1, <5>2, <5>4, <5>5
      <4> QED BY <4>1, <4>2
    <3> QED BY <3>2, <3>3, <3>5, <3>6
  <2>4. CASE pc = "mark" /\ MarkFrameValue
    <3>1. \A z \in Zones : Succ(z)' = Succ(z)
      BY <2>4, ReachableKept DEF MarkFrameValue, heapVars
    <3>2. PICK x \in Item :
            /\ x.via = "raw" /\ Elems(work) = {x} \cup Elems(Tail(work))
            /\ Elems(work') = Elems(Tail(work)) \cup ItemsOf(slots[x.to], x.depth + 1)
      BY <2>4, WorkAfterFrameValue
    <3>3. UNCHANGED <<heap, scanned, marked>>
      BY <2>4 DEF MarkFrameValue, heapVars
    <3>4. Pending \subseteq Pending'
      BY <3>2 DEF Pending
    <3>5. /\ marked \subseteq heap
          /\ \A z \in Settled : Succ(z) \subseteq marked \cup Pending
      BY <2>4 DEF IntactInv
    <3>6. Settled' = Settled /\ Settled \subseteq Zones
      BY <1>1, <3>3 DEF Settled
    <3> QED BY <3>1, <3>3, <3>4, <3>5, <3>6
  <2>5. CASE pc = "mark" /\ ScanObject
    <3>1. \A z \in Zones : Succ(z)' = Succ(z)
      BY <2>5, ReachableKept DEF ScanObject, heapVars
    <3>2. PICK o \in Objects :
            /\ scanned' = scanned \cup {o} /\ work = <<>>
            /\ Elems(work') = ItemsOf(slots[o], 0) \cup
                 (IF payload[o] = NoPayload THEN {} ELSE ItemsOf(slots[payload[o]], 0))
      BY <2>5, WorkAfterScan
    <3>3. heap' = heap /\ marked' = marked
      BY <2>5 DEF ScanObject, heapVars
    <3>4. Pending = {}
      BY <3>2, ElemsEmpty DEF Pending
    <3>5. /\ marked \subseteq heap
          /\ \A z \in Settled : Succ(z) \subseteq marked
      BY <2>5, <3>4 DEF IntactInv
    <3>6. Succ(o) \subseteq Pending'
      <4>1. Targets(o) \subseteq Pending'
        BY <1>1, <3>2, ItemsOfZone DEF Pending
      <4>2. ASSUME payload[o] # NoPayload PROVE Targets(payload[o]) \subseteq Pending'
        <5>1. payload[o] \in Zones
          BY <4>2 DEF TypeOK, Zones
        <5>2. ItemsOf(slots[payload[o]], 0) \subseteq Elems(work')
          BY <3>2, <4>2
        <5>3. /\ Targets(payload[o]) = {x.to : x \in ItemsOf(slots[payload[o]], 0)}
              /\ \A x \in ItemsOf(slots[payload[o]], 0) : x.via \in {"obj", "val"}
          BY <5>1, ItemsOfZone
        <5> QED BY <5>2, <5>3 DEF Pending
      <4> QED BY <4>1, <4>2 DEF Succ
    <3>7. \A z \in Settled' : z \in Zones /\ (z \in Settled \/ z = o)
      BY <1>1, <3>2, <3>3 DEF Settled
    <3> QED BY <3>1, <3>3, <3>5, <3>6, <3>7
  <2>6. CASE pc = "mark" /\ UNCHANGED vars
    <3>1. \A z \in Zones : Succ(z)' = Succ(z)
      BY <2>6, ReachableKept DEF vars, heapVars
    <3>2. Settled' = Settled /\ Pending' = Pending /\ Settled \subseteq Zones
      BY <1>1, <2>6 DEF Settled, Pending, vars, markVars
    <3> QED BY <2>6, <3>1, <3>2 DEF vars, heapVars, markVars, IntactInv
  <2> QED BY <1>2, <2>1, <2>2, <2>3, <2>4, <2>5, <2>6, MarkingCases
<1>3. ASSUME pc' = "sweep"
      PROVE  marked' \subseteq heap' /\ \A z \in Settled' : Succ(z)' \subseteq marked'
  <2>1. CASE EndMark
    <3>1. \A z \in Zones : Succ(z)' = Succ(z)
      BY <2>1, ReachableKept DEF EndMark, heapVars
    <3>2. pc = "mark" /\ Pending = {} /\ UNCHANGED <<heap, marked, scanned>>
      BY <2>1, ElemsEmpty DEF EndMark, Pending, heapVars, markVars
    <3>3. Settled' = Settled /\ Settled \subseteq Zones
      BY <1>1, <3>2 DEF Settled
    <3> QED BY <3>1, <3>2, <3>3 DEF IntactInv
  <2>2. ASSUME pc = "sweep", NEW y \in Zones, SweepKeep(y) \/ SweepPlain(y) \/ SweepObject(y)
        PROVE  marked' \subseteq heap' /\ \A z \in Settled' : Succ(z)' \subseteq marked'
    <3>1. UNCHANGED <<slots, payload, frame, withframes, marked, scanned>>
      BY <2>2 DEF SweepKeep, SweepPlain, SweepObject, heapVars, markVars
    <3>2. \A z \in Zones : Succ(z)' = Succ(z)
      BY <3>1, ReachableKept
    <3>3. Settled' = Settled /\ Settled \subseteq Zones
      BY <1>1, <3>1 DEF Settled
    <3>4. marked \subseteq heap /\ \A z \in Settled : Succ(z) \subseteq marked
      BY <2>2 DEF IntactInv
    <3>5. marked \subseteq heap'
      <4>1. CASE SweepKeep(y)
        BY <3>4, <4>1 DEF SweepKeep, heapVars
      <4>2. CASE SweepPlain(y)
        BY <3>4, <4>2 DEF SweepPlain, Garbage
      <4>3. CASE SweepObject(y)
        <5>1. y \notin marked /\ y \in Objects /\ heap' = heap \ {y, payload[y]}
          BY <4>3 DEF SweepObject, Garbage
        <5>2. payload[y] \notin marked
          BY <5>1, ZonesAssumption DEF TypeOK, Zones, Markable
        <5> QED BY <3>4, <5>1, <5>2
      <4> QED BY <2>2, <4>1, <4>2, <4>3
    <3> QED BY <3>1, <3>2, <3>3, <3>4, <3>5
  <2>3. CASE pc = "sweep" /\ UNCHANGED vars
    <3>1. \A z \in Zones : Succ(z)' = Succ(z)
      BY <2>3, ReachableKept DEF vars, heapVars
    <3>2. Settled' = Settled /\ Settled \subseteq Zones
      BY <1>1, <2>3 DEF Settled, vars, markVars
    <3> QED BY <2>3, <3>1, <3>2 DEF vars, heapVars, markVars, IntactInv
  <2> QED BY <1>3, <2>1, <2>2, <2>3, SweepingCases
<1> QED BY <1>2, <1>3 DEF IntactInv

\* Whatever the heap, the sweep frees nothing that a scanned object, the payload
\* of one, or a marked value refers to.
THEOREM ScannedKeepTheirs == Spec => []ScannedIntact
<1>1. Init => IntactInv
  BY DEF Init, IntactInv
<1>2. TypeOK /\ IntactInv => ScannedIntact
  <2> SUFFICES ASSUME TypeOK, IntactInv, pc = "sweep"
               PROVE  /\ \A o \in scanned : Succ(o) \subseteq heap
                      /\ \A v \in marked \cap Values : Targets(v) \subseteq heap
    BY DEF ScannedIntact
  <2>1. marked \subseteq heap /\ \A z \in Settled : Succ(z) \subseteq marked
    BY DEF IntactInv
  <2>2. \A v \in Values : Targets(v) \subseteq Succ(v)
    BY DEF Succ
  <2> QED BY <2>1, <2>2 DEF Settled
<1> QED BY <1>1, <1>2, IntactStep, TypeCorrect, PTL DEF Spec
-----------------------------------------------------------------------------
(* Nothing that can be reached is freed from a plain heap.                  *)

\* On a plain heap every marked object is queued or scanned, for mark_value only
\* comes across values, and the roots are marked or will be: when marking ends
\* the marked zones are closed.
PlainInv ==
  Plain =>
    /\ pc = "mark" =>
         /\ marked \cap Objects \subseteq scanned \cup Elems(queue)
         /\ Anchors \subseteq marked \cup To(work)
         /\ \A x \in Elems(work) : /\ x.via = "val" => x.to \in Values
                                   /\ x.via = "raw" => x.to \in Objects
    /\ pc = "sweep" => Anchors \subseteq marked /\ Closed(marked)

\* mark_value marks no object of a plain heap, and no frame holds a value.
LEMMA PlainStep == TypeOK /\ IntactInv /\ PlainInv /\ [Next]_vars => PlainInv'
<1> SUFFICES ASSUME TypeOK, IntactInv, PlainInv, [Next]_vars, Plain' PROVE PlainInv'
  BY DEF PlainInv
<1>1. Objects \cap Values = {} /\ Objects \cup Values \subseteq Zones /\ marked \subseteq Zones
  BY ZonesAssumption DEF TypeOK, Zones, Markable
<1>2. ASSUME pc' = "mark"
      PROVE  /\ marked' \cap Objects \subseteq scanned' \cup Elems(queue')
             /\ Anchors' \subseteq marked' \cup To(work')
             /\ \A x \in Elems(work') : /\ x.via = "val" => x.to \in Values
                                        /\ x.via = "raw" => x.to \in Objects
  <2>1. CASE StartGC
    <3>1. marked' = {} /\ frame' = frame /\ (withframes' => Elems(frame) \subseteq Objects)
      BY <2>1 DEF StartGC, ClearAll, heapVars, Plain
    <3> DEFINE raws == IF withframes'
                       THEN {[via |-> "raw", to |-> z, depth |-> 0] : z \in Elems(frame)}
                       ELSE {}
    <3>2. Elems(work') = ItemsOf(Roots, 0) \cup raws
      BY <2>1, WorkAtStart
    <3>3. \A x \in ItemsOf(Roots, 0) : x.via = "obj"
      <4> DEFINE S == [via : {"obj"}, to : Objects]
      <4>1. Roots \in Seq(S)
        BY HeapsAssumption
      <4>2. \A y \in S : y.via = "obj"
        OBVIOUS
      <4> HIDE DEF S
      <4>3. Elems(Roots) \subseteq S
        BY <4>1, ElemsIn
      <4> QED BY <4>2, <4>3 DEF ItemsOf
    <3>4. \A x \in raws : x.via = "raw" /\ x.to \in Objects
      BY <3>1
    <3>5. \A t \in To(Roots) : \E x \in ItemsOf(Roots, 0) : x.to = t
      <4> SUFFICES ASSUME NEW y \in Elems(Roots)
                   PROVE  \E x \in ItemsOf(Roots, 0) : x.to = y.to
        BY DEF To
      <4>1. [via |-> y.via, to |-> y.to, depth |-> 0] \in ItemsOf(Roots, 0)
        BY DEF ItemsOf
      <4> QED BY <4>1
    <3>6. withframes' => \A t \in Elems(frame) : \E x \in raws : x.to = t
      <4> SUFFICES ASSUME withframes', NEW t \in Elems(frame) PROVE \E x \in raws : x.to = t
        OBVIOUS
      <4>1. [via |-> "raw", to |-> t, depth |-> 0] \in raws
        OBVIOUS
      <4> QED BY <4>1
    <3> HIDE DEF raws
    <3>7. Anchors' \subseteq To(work')
      BY <3>1, <3>2, <3>5, <3>6 DEF Anchors, To
    <3> QED BY <3>1, <3>2, <3>3, <3>4, <3>7
  <2>2. CASE pc = "mark" /\ MarkObj
    <3>1. Anchors' = Anchors /\ Plain
      BY <2>2, ReachableKept DEF MarkObj, heapVars
    <3>2. PICK x \in Item :
            /\ Elems(work) = {x} \cup Elems(work') /\ marked' = marked \cup {x.to}
            /\ \/ x.to \in marked /\ queue' = queue
               \/ Elems(queue') = Elems(queue) \cup {x.to}
      BY <2>2, WorkAfterObj
    <3>3. scanned' = scanned
      BY <2>2 DEF MarkObj
    <3> QED BY <2>2, <3>1, <3>2, <3>3 DEF PlainInv, To
  <2>3. CASE pc = "mark" /\ MarkValue
    <3>1. Anchors' = Anchors /\ Plain
      BY <2>3, ReachableKept DEF MarkValue, heapVars
    <3>2. PICK x \in Item :
            /\ x.via = "val" /\ Elems(work) = {x} \cup Elems(Tail(work))
            /\ marked' = marked \cup {x.to}
            /\ Elems(Tail(work)) \subseteq Elems(work')
            /\ Elems(work') \subseteq Elems(Tail(work)) \cup ItemsOf(slots[x.to], x.depth + 1)
      BY <2>3, WorkAfterValue
    <3>3. x.to \in Values /\ x.to \in Zones /\ x.depth + 1 \in Nat
      BY <1>1, <2>3, <3>1, <3>2 DEF PlainInv, Item
    <3>4. \A y \in ItemsOf(slots[x.to], x.depth + 1) :
            y.via # "raw" /\ (y.via = "val" => y.to \in Values)
      BY <3>1, <3>3, ItemsOfZone
    <3>5. scanned' = scanned /\ queue' = queue
      BY <2>3 DEF MarkValue
    <3> QED BY <1>1, <2>3, <3>1, <3>2, <3>3, <3>4, <3>5 DEF PlainInv, To
  <2>4. CASE pc = "mark" /\ MarkFrameValue
    <3>1. Plain
      BY <2>4, ReachableKept DEF MarkFrameValue, heapVars
    <3>2. PICK x \in Item :
            /\ x.via = "raw" /\ x.to \in Values /\ Elems(work) = {x} \cup Elems(Tail(work))
      BY <2>4, WorkAfterFrameValue
    <3> QED BY <1>1, <2>4, <3>1, <3>2 DEF PlainInv
  <2>5. CASE pc = "mark" /\ ScanObject
    <3>1. Anchors' = Anchors /\ Plain
      BY <2>5, ReachableKept DEF ScanObject, heapVars
    <3>2. PICK o \in Objects :
            /\ scanned' = scanned \cup {o} /\ work = <<>>
            /\ Elems(queue) = {o} \cup Elems(queue')
            /\ Elems(work') = ItemsOf(slots[o], 0) \cup
                 (IF payload[o] = NoPayload THEN {} ELSE ItemsOf(slots[payload[o]], 0))
      BY <2>5, WorkAfterScan
    <3>3. marked' = marked
      BY <2>5 DEF ScanObject
    <3>4. To(work) = {}
      BY <3>2, ElemsEmpty DEF To
    <3>5. \A y \in ItemsOf(slots[o], 0) : y.via # "raw" /\ (y.via = "val" => y.to \in Values)
      BY <1>1, <3>1, ItemsOfZone
    <3>6. ASSUME payload[o] # NoPayload
          PROVE  \A y \in ItemsOf(slots[payload[o]], 0) :
                   y.via # "raw" /\ (y.via = "val" => y.to \in Values)
      <4>1. payload[o] \in Zones
        BY <3>6 DEF TypeOK, Zones
      <4> QED BY <3>1, <4>1, ItemsOfZone
    <3>7. Anchors \subseteq marked /\ marked \cap Objects \subseteq scanned \cup Elems(queue)
      BY <2>5, <3>1, <3>4 DEF PlainInv
    <3> QED BY <3>1, <3>2, <3>3, <3>5, <3>6, <3>7
  <2>6. CASE pc = "mark" /\ UNCHANGED vars
    <3>1. Anchors' = Anchors /\ Plain
      BY <2>6, ReachableKept DEF vars, heapVars
    <3> QED BY <2>6, <3>1 DEF vars, markVars, PlainInv, To
  <2> QED BY <1>2, <2>1, <2>2, <2>3, <2>4, <2>5, <2>6, MarkingCases
<1>3. ASSUME pc' = "sweep" PROVE Anchors' \subseteq marked' /\ Closed(marked)' /\ marked' = marked
  <2>1. UNCHANGED <<slots, payload, frame, withframes, marked>>
    BY <1>3, SweepingCases
       DEF EndMark, SweepKeep, SweepPlain, SweepObject, vars, heapVars, markVars
  <2>2. Anchors' = Anchors /\ Plain /\ \A z \in Zones : Succ(z)' = Succ(z)
    BY <2>1, ReachableKept
  <2>3. Anchors \subseteq marked /\ Closed(marked)
    <3>1. CASE pc = "sweep"
      BY <2>2, <3>1 DEF PlainInv
    <3>2. CASE EndMark
      <4>1. pc = "mark" /\ Pending = {} /\ To(work) = {} /\ Elems(queue) = {}
        BY <3>2, ElemsEmpty DEF EndMark, Pending, To
      <4>2. Anchors \subseteq marked /\ marked \cap Objects \subseteq scanned
        BY <2>2, <4>1 DEF PlainInv
      <4>3. marked \subseteq Settled
        BY <4>2 DEF Settled, TypeOK, Markable
      <4> QED BY <4>1, <4>2, <4>3 DEF IntactInv, Closed
    <3> QED BY <1>3, <3>1, <3>2, SweepingCases
  <2> QED BY <1>1, <2>1, <2>2, <2>3 DEF Closed
<1> QED BY <1>2, <1>3 DEF PlainInv

\* On a plain heap, whatever its shape, a collection frees only garbage.
THEOREM PlainHeapsAreSafe == Spec => []SafeWhenPlain
<1>1. Init => IntactInv /\ PlainInv
  BY DEF Init, IntactInv, PlainInv
<1>2. TypeOK /\ IntactInv /\ PlainInv => SafeWhenPlain
  <2> SUFFICES ASSUME TypeOK, IntactInv, PlainInv, Plain, pc = "sweep"
               PROVE  Reachable \subseteq heap
    BY DEF SafeWhenPlain
  <2>1. Anchors \subseteq marked /\ Closed(marked) /\ marked \subseteq heap
    BY DEF PlainInv, IntactInv
  <2>2. marked \in SUBSET Markable
    BY DEF TypeOK
  <2> QED BY <2>1, <2>2 DEF Reachable
<1> QED BY <1>1, <1>2, IntactStep, PlainStep, TypeCorrect, PTL DEF Spec
=============================================================================
