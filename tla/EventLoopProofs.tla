--------------------------- MODULE EventLoopProofs ---------------------------
(***************************************************************************)
(* Proofs about the event loop, for pipes, buffers and numbers of requests *)
(* of any size: a request is followed from the fifo to the pipe, the       *)
(* buffer of the reading handler and what was handled, all seen as sets.   *)
(***************************************************************************)
EXTENDS EventLoop, SequenceTheorems, TLAPS

-----------------------------------------------------------------------------
(* Sequences without repetition, as sets.                                  *)

\* s has no repetition, and the elements of S.
Once(s, S) == ToSet(s) = S /\ IsInjective(s)

\* The empty sequence has the empty set of elements.
LEMMA OnceEmpty == ASSUME NEW S PROVE Once(<<>>, S) <=> S = {}
BY DEF Once, ToSet, IsInjective

\* A sequence and a new element put at its end.
LEMMA OnceAppend ==
  ASSUME NEW T, NEW s \in Seq(T), NEW S, Once(s, S), NEW x \in T, x \notin S
  PROVE  Once(Append(s, x), S \cup {x})
<1> DEFINE r == Append(s, x)
<1>1. Len(s) \in Nat /\ DOMAIN s = 1 .. Len(s) /\ DOMAIN r = 1 .. (Len(s) + 1)
  OBVIOUS
<1>2. (\A i \in 1 .. Len(s) : r[i] = s[i]) /\ r[Len(s) + 1] = x
  OBVIOUS
<1> HIDE DEF r
<1>3. \A i \in DOMAIN r : i \in DOMAIN s \/ i = Len(s) + 1
  BY <1>1
<1>4. DOMAIN s \subseteq DOMAIN r /\ Len(s) + 1 \in DOMAIN r
  BY <1>1
<1>5. ToSet(r) = S \cup {x}
  BY <1>1, <1>2, <1>3, <1>4 DEF Once, ToSet
<1>6. \A i \in DOMAIN s : s[i] # x
  BY DEF Once, ToSet
<1>7. IsInjective(r)
  BY <1>1, <1>2, <1>3, <1>6 DEF Once, IsInjective
<1> QED BY <1>5, <1>7 DEF Once, r

\* A sequence cut in two.
LEMMA OnceSplit ==
  ASSUME NEW T, NEW s \in Seq(T), NEW S, Once(s, S), NEW n \in 0 .. Len(s)
  PROVE  LET a == SubSeq(s, 1, n)
             b == SubSeq(s, n + 1, Len(s))
         IN  /\ a \in Seq(T) /\ b \in Seq(T)
             /\ Len(a) = n /\ Len(b) = Len(s) - n
             /\ Once(a, ToSet(a)) /\ Once(b, ToSet(b))
             /\ ToSet(a) \cup ToSet(b) = S /\ ToSet(a) \cap ToSet(b) = {}
<1> DEFINE a == SubSeq(s, 1, n)
           b == SubSeq(s, n + 1, Len(s))
<1>1. /\ Len(s) \in Nat /\ n \in Nat /\ n <= Len(s)
      /\ DOMAIN s = 1 .. Len(s) /\ s \in [1 .. Len(s) -> T]
  OBVIOUS
<1>2. a \in Seq(T) /\ Len(a) = n /\ DOMAIN a = 1 .. n
  BY <1>1
<1>3. b \in Seq(T) /\ Len(b) = Len(s) - n /\ DOMAIN b = 1 .. (Len(s) - n)
  <2>1. n + 1 \in Int /\ Len(s) \in Int /\ \A i \in (n + 1) .. Len(s) : s[i] \in T
    BY <1>1
  <2>2. b \in Seq(T) /\ Len(b) = IF n + 1 <= Len(s) THEN Len(s) - (n + 1) + 1 ELSE 0
    BY <2>1, SubSeqProperties
  <2> HIDE DEF a, b
  <2>3. Len(b) = Len(s) - n
    <3>1. CASE n + 1 <= Len(s)
      BY <1>1, <2>2, <3>1
    <3>2. CASE n = Len(s)
      BY <1>1, <2>2, <3>2
    <3>3. Len(s) \in Nat /\ n \in Nat /\ n <= Len(s)
      BY <1>1
    <3>4. n + 1 <= Len(s) \/ n = Len(s)
      BY <3>3
    <3> QED BY <3>1, <3>2, <3>4
  <2> QED BY <2>2, <2>3
<1>4. \A i \in 1 .. n : a[i] = s[i]
  BY <1>1
<1>5. \A i \in 1 .. (Len(s) - n) : b[i] = s[n + i]
  BY <1>1
<1> HIDE DEF a, b
<1>6. IsInjective(a) /\ IsInjective(b)
  <2>1. \A i \in DOMAIN a : i \in DOMAIN s
    BY <1>1, <1>2
  <2>2. \A i \in DOMAIN b : n + i \in DOMAIN s
    BY <1>1, <1>3
  <2>3. \A i, j \in DOMAIN b : n + i = n + j => i = j
    BY <1>1, <1>3
  <2>4. IsInjective(a)
    BY <2>1, <1>2, <1>4 DEF IsInjective, Once
  <2>5. \A i \in DOMAIN b : b[i] = s[n + i]
    BY <1>3, <1>5
  <2>6. IsInjective(b)
    BY <2>2, <2>3, <2>5 DEF IsInjective, Once
  <2> QED BY <2>4, <2>6
<1>7. ToSet(a) \cap ToSet(b) = {}
  <2> SUFFICES ASSUME NEW i \in DOMAIN a, NEW j \in DOMAIN b, a[i] = b[j]
               PROVE FALSE
    BY DEF ToSet
  <2>1. i \in DOMAIN s /\ n + j \in DOMAIN s /\ i # n + j
    BY <1>1, <1>2, <1>3
  <2> QED BY <2>1, <1>2, <1>3, <1>4, <1>5 DEF IsInjective, Once
<1>8. ToSet(a) \cup ToSet(b) = ToSet(s)
  <2>1. \A i \in DOMAIN a : i \in DOMAIN s /\ a[i] = s[i]
    BY <1>1, <1>2, <1>4
  <2>2. \A i \in DOMAIN b : n + i \in DOMAIN s /\ b[i] = s[n + i]
    BY <1>1, <1>3, <1>5
  <2>3. ASSUME NEW k \in DOMAIN s PROVE s[k] \in ToSet(a) \cup ToSet(b)
    <3>1. CASE k <= n
      BY <3>1, <1>1, <1>2, <1>4 DEF ToSet
    <3>2. CASE ~(k <= n)
      <4>1. k - n \in DOMAIN b /\ n + (k - n) = k
        BY <3>2, <1>1, <1>3
      <4> QED BY <4>1, <2>2 DEF ToSet
    <3> QED BY <3>1, <3>2
  <2> QED BY <2>1, <2>2, <2>3 DEF ToSet
<1> QED BY <1>2, <1>3, <1>6, <1>7, <1>8 DEF a, b, Once

\* Its first element and the others.
LEMMA OnceTail ==
  ASSUME NEW T, NEW s \in Seq(T), s # <<>>, NEW S, Once(s, S)
  PROVE  /\ Head(s) \in S /\ Head(s) \in T /\ Tail(s) \in Seq(T)
         /\ Len(Tail(s)) = Len(s) - 1 /\ Once(Tail(s), S \ {Head(s)})
<1> DEFINE a == SubSeq(s, 1, 1)
           b == SubSeq(s, 1 + 1, Len(s))
<1>1. 1 \in 0 .. Len(s) /\ Len(s) \in Nat
  OBVIOUS
<1>2. /\ Len(a) = 1 /\ Once(b, ToSet(b))
      /\ ToSet(a) \cup ToSet(b) = S /\ ToSet(a) \cap ToSet(b) = {}
  BY <1>1, OnceSplit
<1>3. DOMAIN a = {1} /\ a[1] = Head(s)
  BY <1>1
<1>4. ToSet(a) = {Head(s)}
  BY <1>3 DEF ToSet
<1>5. Tail(s) = b /\ Tail(s) \in Seq(T) /\ Len(Tail(s)) = Len(s) - 1 /\ Head(s) \in T
  BY <1>1
<1> HIDE DEF a, b
<1>6. Head(s) \in S /\ ToSet(b) = S \ {Head(s)}
  BY <1>2, <1>4
<1> QED BY <1>2, <1>5, <1>6

\* Its last element and the others.
LEMMA OnceFront ==
  ASSUME NEW T, NEW s \in Seq(T), s # <<>>, NEW S, Once(s, S)
  PROVE  /\ Last(s) \in S /\ Last(s) \in T /\ Front(s) \in Seq(T)
         /\ Len(Front(s)) = Len(s) - 1 /\ Once(Front(s), S \ {Last(s)})
<1> DEFINE n == Len(s) - 1
           a == SubSeq(s, 1, n)
           b == SubSeq(s, n + 1, Len(s))
<1>1. Len(s) \in Nat \ {0} /\ n \in 0 .. Len(s) /\ Len(s) - n = 1 /\ n + 1 = Len(s)
  OBVIOUS
<1>2. s[Len(s)] \in T
  BY <1>1
<1>3. DOMAIN b = {1} /\ b[1] = s[Len(s)]
  BY <1>1
<1> HIDE DEF n
<1>4. /\ a \in Seq(T) /\ Len(a) = n /\ Once(a, ToSet(a))
      /\ ToSet(a) \cup ToSet(b) = S /\ ToSet(a) \cap ToSet(b) = {}
  BY <1>1, OnceSplit
<1>5. ToSet(b) = {s[Len(s)]}
  BY <1>3 DEF ToSet
<1>6. Front(s) = a /\ Last(s) = s[Len(s)]
  BY DEF Front, Last, n
<1> HIDE DEF a, b
<1>7. Last(s) \in S /\ ToSet(a) = S \ {Last(s)}
  BY <1>4, <1>5, <1>6
<1> QED BY <1>2, <1>4, <1>6, <1>7 DEF n

\* Two sequences without a common element, one after the other.
LEMMA OnceConcat ==
  ASSUME NEW T, NEW s \in Seq(T), NEW t \in Seq(T), NEW S, NEW U,
         Once(s, S), Once(t, U), S \cap U = {}
  PROVE  s \o t \in Seq(T) /\ Once(s \o t, S \cup U)
<1> DEFINE r == s \o t
<1>1. /\ Len(s) \in Nat /\ Len(t) \in Nat /\ r \in Seq(T)
      /\ DOMAIN s = 1 .. Len(s) /\ DOMAIN t = 1 .. Len(t)
      /\ DOMAIN r = 1 .. (Len(s) + Len(t))
  OBVIOUS
<1>2. \A i \in DOMAIN s : r[i] = s[i]
  OBVIOUS
<1>3. \A i \in DOMAIN t : r[Len(s) + i] = t[i]
  OBVIOUS
<1> HIDE DEF r
<1>4. \A k \in DOMAIN r : k \in DOMAIN s \/ \E i \in DOMAIN t : k = Len(s) + i
  <2> SUFFICES ASSUME NEW k \in DOMAIN r, k \notin DOMAIN s
               PROVE  \E i \in DOMAIN t : k = Len(s) + i
    OBVIOUS
  <2>1. k - Len(s) \in DOMAIN t /\ k = Len(s) + (k - Len(s))
    BY <1>1
  <2> QED BY <2>1
<1>5. /\ \A i \in DOMAIN s : i \in DOMAIN r
      /\ \A i \in DOMAIN t : Len(s) + i \in DOMAIN r
  BY <1>1
<1>6. ToSet(r) = S \cup U
  BY <1>2, <1>3, <1>4, <1>5 DEF ToSet, Once
<1>7. \A i \in DOMAIN s, j \in DOMAIN t : s[i] # t[j]
  BY DEF ToSet, Once
<1>8. ASSUME NEW k \in DOMAIN r, NEW l \in DOMAIN r, r[k] = r[l] PROVE k = l
  <2>1. CASE k \in DOMAIN s /\ l \in DOMAIN s
    BY <2>1, <1>2, <1>8 DEF Once, IsInjective
  <2>2. ASSUME k \notin DOMAIN s, l \notin DOMAIN s PROVE k = l
    <3>1. PICK i \in DOMAIN t : k = Len(s) + i
      BY <2>2, <1>4
    <3>2. PICK j \in DOMAIN t : l = Len(s) + j
      BY <2>2, <1>4
    <3>3. t[i] = t[j]
      BY <3>1, <3>2, <1>3, <1>8
    <3> QED BY <3>1, <3>2, <3>3 DEF Once, IsInjective
  <2>3. CASE k \in DOMAIN s /\ l \notin DOMAIN s
    BY <2>3, <1>2, <1>3, <1>4, <1>7, <1>8
  <2>4. CASE k \notin DOMAIN s /\ l \in DOMAIN s
    BY <2>4, <1>2, <1>3, <1>4, <1>7, <1>8
  <2> QED BY <2>1, <2>2, <2>3, <2>4
<1>9. IsInjective(r)
  BY <1>8 DEF IsInjective
<1> QED BY <1>1, <1>6, <1>9 DEF r, Once

-----------------------------------------------------------------------------
(* The invariant.                                                          *)

\* The four places share no request, have none twice, and have them all.
PlacesInv ==
  /\ Once(handled, ToSet(handled)) /\ Once(buf, ToSet(buf))
  /\ Once(pipe, ToSet(pipe)) /\ Once(fifo, ToSet(fifo))
  /\ ToSet(handled) \cap ToSet(buf) = {} /\ ToSet(handled) \cap ToSet(pipe) = {}
  /\ ToSet(handled) \cap ToSet(fifo) = {} /\ ToSet(buf) \cap ToSet(pipe) = {}
  /\ ToSet(buf) \cap ToSet(fifo) = {} /\ ToSet(pipe) \cap ToSet(fifo) = {}
  /\ ToSet(handled) \cup ToSet(buf) \cup ToSet(pipe) \cup ToSet(fifo) = Ranks

CountInv == Len(kind) = Len(handled) + Len(buf) + Len(pipe) + Len(fifo)

\* The buffer is empty outside of the reading handler.
PhaseInv == pc # "read" => buf = <<>>

\* As long as all requests fit one read, those that were read are the first ones,
\* and so are those that left the fifo unless it is being emptied.
FirstOnes(S) == \E n \in Nat : S = 1 .. n
OrderInv ==
  Len(kind) <= ReadSize =>
    /\ FirstOnes(ToSet(handled) \cup ToSet(buf))
    /\ pc # "write" => FirstOnes(ToSet(handled) \cup ToSet(buf) \cup ToSet(pipe))
    /\ pc = "read" => pipe = <<>>

IInv == TypeOK /\ PlacesInv /\ CountInv /\ PhaseInv /\ OrderInv

\* The invariant holds before the loop is created.
LEMMA Start == Init => IInv
<1> SUFFICES ASSUME Init PROVE IInv
  OBVIOUS
<1>0. /\ kind = <<>> /\ handled = <<>> /\ buf = <<>> /\ pipe = <<>> /\ fifo = <<>>
      /\ queue = <<>>
  BY DEF Init
<1>1. ToSet(<<>>) = {} /\ Once(<<>>, {}) /\ Len(<<>>) = 0
  BY OnceEmpty DEF Once
<1>2. 1 .. Len(kind) = {} /\ FirstOnes({})
  <2>1. 1 .. 0 = {}
    OBVIOUS
  <2> QED BY <1>0, <1>1, <2>1 DEF FirstOnes
<1>3. PlacesInv
  BY <1>0, <1>1, <1>2 DEF PlacesInv, Ranks
<1>4. CountInv
  BY <1>0, <1>1 DEF CountInv
<1>5. PhaseInv
  BY <1>0 DEF PhaseInv
<1>6. OrderInv
  BY <1>0, <1>1, <1>2 DEF OrderInv
<1>7. TypeOK
  <2>1. \A T : <<>> \in Seq(T)
    OBVIOUS
  <2>2. Len(kind) <= MaxPosts
    BY <1>0, <1>1, SizesAssumption
  <2>3. /\ stop \in BOOLEAN /\ pc \in Pcs /\ want \in BOOLEAN /\ due \in BOOLEAN
        /\ revents \subseteq {"read", "write"} /\ fate \in Fates
    BY DEF Init, Pcs, Fates
  <2> QED BY <1>0, <2>1, <2>2, <2>3 DEF TypeOK
<1> QED BY <1>3, <1>4, <1>5, <1>6, <1>7 DEF IInv

\* Steps that move no request.
LEMMA Moveless ==
  ASSUME IInv, UNCHANGED pipeVars, pc' # "read" => pc # "read" \/ buf = <<>>,
         pc = "write" => pc' = "write" \/ fifo = <<>>, pc' = "read" => pc = "read"
  PROVE  PlacesInv' /\ CountInv' /\ PhaseInv' /\ OrderInv'
<1>1. /\ kind' = kind /\ handled' = handled /\ buf' = buf /\ pipe' = pipe /\ fifo' = fifo
      /\ Ranks' = Ranks
  BY DEF pipeVars, Ranks
<1>2. PlacesInv' /\ CountInv' /\ PhaseInv'
  BY <1>1 DEF IInv, PlacesInv, CountInv, PhaseInv
<1>3. OrderInv'
  <2>1. CASE pc = "write" /\ pc' # "write"
    <3>1. ToSet(fifo) = {}
      BY <2>1 DEF ToSet
    <3>2. ToSet(handled) \cup ToSet(buf) \cup ToSet(pipe) = 1 .. Len(kind)
      BY <3>1 DEF IInv, PlacesInv, Ranks
    <3>3. Len(kind) \in Nat
      BY DEF IInv, TypeOK
    <3> QED BY <1>1, <2>1, <3>2, <3>3 DEF IInv, OrderInv, FirstOnes
  <2>2. CASE pc # "write" \/ pc' = "write"
    BY <1>1, <2>2 DEF IInv, OrderInv
  <2> QED BY <2>1, <2>2
<1> QED BY <1>2, <1>3

\* Sequences of ranks are that still when there are more ranks.
LEMMA Wider ==
  ASSUME NEW n \in Nat, NEW s \in Seq(1 .. n)
  PROVE  s \in Seq(1 .. (n + 1))
OBVIOUS

\* Posting appends a rank that no place holds yet.
LEMMA PostByteRight ==
  ASSUME IInv, NEW b \in Kinds, PostByte(b), UNCHANGED <<stop, pc, want, revents, due>>
  PROVE  /\ PlacesInv' /\ CountInv' /\ PhaseInv' /\ OrderInv'
         /\ kind' \in Seq(Kinds) /\ Len(kind') <= MaxPosts
         /\ fifo' \in Seq(Ranks') /\ pipe' \in Seq(Ranks')
         /\ buf' \in Seq(Ranks') /\ handled' \in Seq(Ranks')
<1> DEFINE n == Len(kind)
<1>1. /\ pc # "write" /\ n < MaxPosts /\ kind' = Append(kind, b) /\ pc' = pc
      /\ fifo' = Append(fifo, n + 1) /\ pipe' = pipe /\ buf' = buf /\ handled' = handled
  BY DEF PostByte
<1>2. n \in Nat /\ MaxPosts \in Nat
  BY SizesAssumption DEF IInv, TypeOK
<1>3. kind' \in Seq(Kinds) /\ Len(kind') = n + 1
  BY <1>1, AppendProperties DEF IInv, TypeOK
<1>4. Ranks = 1 .. n /\ Ranks' = 1 .. (n + 1)
  BY <1>3 DEF Ranks
<1> HIDE DEF n
<1>5. Ranks' = Ranks \cup {n + 1} /\ n + 1 \notin Ranks
  BY <1>2, <1>4
<1>6. /\ fifo \in Seq(1 .. (n + 1)) /\ pipe \in Seq(1 .. (n + 1))
      /\ buf \in Seq(1 .. (n + 1)) /\ handled \in Seq(1 .. (n + 1))
  BY <1>2, <1>4, Wider DEF IInv, TypeOK
<1>7. n + 1 \in 1 .. (n + 1)
  BY <1>2
<1>8. n + 1 \notin ToSet(handled) \cup ToSet(buf) \cup ToSet(pipe) \cup ToSet(fifo)
  BY <1>5 DEF IInv, PlacesInv
<1>9. /\ fifo' \in Seq(1 .. (n + 1)) /\ Len(fifo') = Len(fifo) + 1
      /\ Once(fifo', ToSet(fifo) \cup {n + 1})
  BY <1>1, <1>6, <1>7, <1>8, OnceAppend, AppendProperties DEF IInv, PlacesInv
<1>10. ToSet(fifo') = ToSet(fifo) \cup {n + 1}
  BY <1>9 DEF Once
<1>11. PlacesInv'
  BY <1>1, <1>5, <1>8, <1>9, <1>10 DEF IInv, PlacesInv
<1>12. CountInv'
  <2>1. Len(handled) \in Nat /\ Len(buf) \in Nat /\ Len(pipe) \in Nat /\ Len(fifo) \in Nat
    BY DEF IInv, TypeOK
  <2> QED BY <2>1, <1>1, <1>3, <1>9 DEF IInv, CountInv, n
<1>13. PhaseInv'
  BY <1>1 DEF IInv, PhaseInv
<1>14. OrderInv'
  <2>1. Len(kind') <= ReadSize => Len(kind) <= ReadSize
    BY <1>2, <1>3, SizesAssumption DEF n
  <2> QED BY <1>1, <2>1 DEF IInv, OrderInv
<1>15. Len(kind') <= MaxPosts
  BY <1>1, <1>2, <1>3
<1> QED BY <1>1, <1>3, <1>4, <1>6, <1>9, <1>11, <1>12, <1>13, <1>14, <1>15

\* What TypeOK says of the requests.
PipeTypes ==
  /\ kind \in Seq(Kinds) /\ Len(kind) <= MaxPosts
  /\ fifo \in Seq(Ranks) /\ pipe \in Seq(Ranks) /\ buf \in Seq(Ranks)
  /\ handled \in Seq(Ranks)

\* A handled request leaves what was read and is done.
LEMMA HandleRight ==
  ASSUME IInv, Handle
  PROVE  PipeTypes' /\ PlacesInv' /\ CountInv' /\ PhaseInv' /\ OrderInv'
<1> DEFINE h == Head(buf)
<1>1. /\ pc = "read" /\ buf # <<>> /\ handled' = Append(handled, h) /\ buf' = Tail(buf)
      /\ UNCHANGED <<kind, fifo, pipe, pc>> /\ Ranks' = Ranks
  BY DEF Handle, Ranks
<1>2. /\ h \in ToSet(buf) /\ h \in Ranks /\ buf' \in Seq(Ranks)
      /\ Len(buf') = Len(buf) - 1 /\ Once(buf', ToSet(buf) \ {h})
  <2>1. buf \in Seq(Ranks) /\ Once(buf, ToSet(buf))
    BY DEF IInv, TypeOK, PlacesInv
  <2>2. /\ h \in ToSet(buf) /\ h \in Ranks /\ Tail(buf) \in Seq(Ranks)
        /\ Len(Tail(buf)) = Len(buf) - 1 /\ Once(Tail(buf), ToSet(buf) \ {h})
    BY <1>1, <2>1, OnceTail
  <2> QED BY <1>1, <2>2
<1> HIDE DEF h
<1>3. /\ handled' \in Seq(Ranks) /\ Len(handled') = Len(handled) + 1
      /\ Once(handled', ToSet(handled) \cup {h})
  <2>1. h \notin ToSet(handled) /\ Once(handled, ToSet(handled))
    BY <1>2 DEF IInv, PlacesInv
  <2>2. handled \in Seq(Ranks)
    BY DEF IInv, TypeOK
  <2>3. Once(Append(handled, h), ToSet(handled) \cup {h})
    BY <1>2, <2>1, <2>2, OnceAppend
  <2>4. Append(handled, h) \in Seq(Ranks) /\ Len(Append(handled, h)) = Len(handled) + 1
    BY <1>2, <2>2, AppendProperties
  <2> QED BY <1>1, <2>3, <2>4
<1>4. ToSet(buf') = ToSet(buf) \ {h} /\ ToSet(handled') = ToSet(handled) \cup {h}
  BY <1>2, <1>3 DEF Once
<1>5. PlacesInv'
  <2>1. /\ Once(handled', ToSet(handled')) /\ Once(buf', ToSet(buf'))
        /\ Once(pipe', ToSet(pipe')) /\ Once(fifo', ToSet(fifo'))
    BY <1>1, <1>2, <1>3, <1>4 DEF IInv, PlacesInv
  <2>2. ToSet(pipe') = ToSet(pipe) /\ ToSet(fifo') = ToSet(fifo) /\ h \in ToSet(buf)
    BY <1>1, <1>2
  <2>3. /\ ToSet(handled') \cap ToSet(buf') = {} /\ ToSet(handled') \cap ToSet(pipe') = {}
        /\ ToSet(handled') \cap ToSet(fifo') = {} /\ ToSet(buf') \cap ToSet(pipe') = {}
        /\ ToSet(buf') \cap ToSet(fifo') = {} /\ ToSet(pipe') \cap ToSet(fifo') = {}
    BY <1>4, <2>2 DEF IInv, PlacesInv
  <2>4. ToSet(handled') \cup ToSet(buf') \cup ToSet(pipe') \cup ToSet(fifo') = Ranks
    BY <1>4, <2>2 DEF IInv, PlacesInv
  <2> QED BY <1>1, <2>1, <2>3, <2>4 DEF PlacesInv
<1>6. CountInv'
  <2>1. Len(handled) \in Nat /\ Len(buf) \in Nat /\ Len(pipe) \in Nat /\ Len(fifo) \in Nat
    BY DEF IInv, TypeOK
  <2>2. Len(kind) = Len(handled) + Len(buf) + Len(pipe) + Len(fifo)
    BY DEF IInv, CountInv
  <2>3. /\ Len(kind') = Len(kind)
        /\ Len(handled') = Len(handled) + 1 /\ Len(buf') = Len(buf) - 1
        /\ Len(pipe') = Len(pipe) /\ Len(fifo') = Len(fifo)
    BY <1>1, <1>2, <1>3
  <2>4. Len(kind') = Len(handled') + Len(buf') + Len(pipe') + Len(fifo')
    BY <2>1, <2>2, <2>3
  <2> QED BY <2>4 DEF CountInv
<1>7. PhaseInv'
  BY <1>1 DEF PhaseInv
<1>8. OrderInv'
  <2>1. ToSet(handled') \cup ToSet(buf') = ToSet(handled) \cup ToSet(buf)
    BY <1>2, <1>4
  <2> QED BY <1>1, <2>1 DEF IInv, OrderInv
<1>9. PipeTypes'
  BY <1>1, <1>2, <1>3 DEF IInv, TypeOK, PipeTypes
<1> QED BY <1>5, <1>6, <1>7, <1>8, <1>9

\* A read moves requests from the pipe to the buffer.
LEMMA CallReadRight ==
  ASSUME IInv, CallRead
  PROVE  PipeTypes' /\ PlacesInv' /\ CountInv' /\ PhaseInv' /\ OrderInv'
<1> DEFINE n == IF Len(pipe) < ReadSize THEN Len(pipe) ELSE ReadSize
<1>1. /\ pc = "dispatch" /\ pc' = "read" /\ Ranks' = Ranks
      /\ buf' = SubSeq(pipe, 1, n) /\ pipe' = SubSeq(pipe, n + 1, Len(pipe))
      /\ UNCHANGED <<kind, fifo, handled>>
  BY DEF CallRead, Ranks, Goto
<1>2. /\ Len(pipe) \in Nat /\ n \in 0 .. Len(pipe)
      /\ Len(pipe) <= ReadSize => n = Len(pipe)
  BY SizesAssumption DEF IInv, TypeOK
<1> HIDE DEF n
<1>3. /\ buf' \in Seq(Ranks) /\ pipe' \in Seq(Ranks)
      /\ Len(buf') = n /\ Len(pipe') = Len(pipe) - n
      /\ Once(buf', ToSet(buf')) /\ Once(pipe', ToSet(pipe'))
      /\ ToSet(buf') \cup ToSet(pipe') = ToSet(pipe)
      /\ ToSet(buf') \cap ToSet(pipe') = {}
  BY <1>1, <1>2, OnceSplit DEF IInv, TypeOK, PlacesInv
<1>4. buf = <<>> /\ ToSet(buf) = {} /\ Len(buf) = 0
  BY <1>1 DEF IInv, PhaseInv, ToSet
<1>5. PlacesInv'
  BY <1>1, <1>3, <1>4 DEF IInv, PlacesInv
<1>6. CountInv'
  <2>1. Len(handled) \in Nat /\ Len(fifo) \in Nat /\ n \in Nat
    BY <1>2 DEF IInv, TypeOK
  <2>2. Len(kind) = Len(handled) + Len(buf) + Len(pipe) + Len(fifo)
    BY DEF IInv, CountInv
  <2>3. /\ Len(kind') = Len(kind)
        /\ Len(handled') = Len(handled) /\ Len(buf') = n
        /\ Len(pipe') = Len(pipe) - n /\ Len(fifo') = Len(fifo)
    BY <1>1, <1>3
  <2>4. Len(kind') = Len(handled') + Len(buf') + Len(pipe') + Len(fifo')
    BY <2>1, <2>2, <2>3, <1>2, <1>4
  <2> QED BY <2>4 DEF CountInv
<1>7. PhaseInv'
  BY <1>1 DEF PhaseInv
<1>8. ASSUME Len(kind) <= ReadSize
      PROVE  /\ FirstOnes(ToSet(handled') \cup ToSet(buf'))
             /\ FirstOnes(ToSet(handled') \cup ToSet(buf') \cup ToSet(pipe'))
             /\ pipe' = <<>>
  <2>1. Len(pipe) <= Len(kind)
    <3>1. Len(handled) \in Nat /\ Len(fifo) \in Nat
      BY DEF IInv, TypeOK
    <3> QED BY <3>1, <1>2, <1>4 DEF IInv, CountInv
  <2>2. n = Len(pipe)
    BY <1>2, <1>8, <2>1, SizesAssumption DEF IInv, TypeOK
  <2>3. Len(pipe') = 0
    BY <1>2, <1>3, <2>2
  <2>4. pipe' = <<>>
    BY <1>3, <2>3
  <2>5. ToSet(pipe') = {}
    BY <2>4 DEF ToSet
  <2>6. ToSet(buf') = ToSet(pipe)
    BY <1>3, <2>5
  <2>7. FirstOnes(ToSet(handled) \cup ToSet(buf) \cup ToSet(pipe))
    BY <1>1, <1>8 DEF IInv, OrderInv
  <2>8. ToSet(handled') \cup ToSet(buf') = ToSet(handled) \cup ToSet(buf) \cup ToSet(pipe)
    BY <1>1, <1>4, <2>6
  <2>9. ToSet(handled') \cup ToSet(buf') \cup ToSet(pipe') = ToSet(handled') \cup ToSet(buf')
    BY <2>5
  <2> QED BY <2>4, <2>7, <2>8, <2>9
<1>9. OrderInv'
  BY <1>1, <1>8 DEF OrderInv
<1>10. PipeTypes'
  BY <1>1, <1>3 DEF IInv, TypeOK, PipeTypes
<1> QED BY <1>5, <1>6, <1>7, <1>9, <1>10

\* A write moves a request from the fifo to the pipe.
LEMMA WriteByteRight ==
  ASSUME IInv, WriteByte
  PROVE  PipeTypes' /\ PlacesInv' /\ CountInv' /\ PhaseInv' /\ OrderInv'
<1> DEFINE l == Last(fifo)
<1>1. /\ pc = "write" /\ fifo # <<>> /\ pipe' = Append(pipe, l) /\ fifo' = Front(fifo)
      /\ UNCHANGED <<kind, buf, handled, pc>> /\ Ranks' = Ranks
  BY DEF WriteByte, Ranks, loopVars
<1>2. /\ l \in ToSet(fifo) /\ l \in Ranks /\ fifo' \in Seq(Ranks)
      /\ Len(fifo') = Len(fifo) - 1 /\ Once(fifo', ToSet(fifo) \ {l})
  <2>1. fifo \in Seq(Ranks) /\ Once(fifo, ToSet(fifo))
    BY DEF IInv, TypeOK, PlacesInv
  <2>2. /\ l \in ToSet(fifo) /\ l \in Ranks /\ Front(fifo) \in Seq(Ranks)
        /\ Len(Front(fifo)) = Len(fifo) - 1 /\ Once(Front(fifo), ToSet(fifo) \ {l})
    BY <1>1, <2>1, OnceFront
  <2> QED BY <1>1, <2>2
<1> HIDE DEF l
<1>3. /\ pipe' \in Seq(Ranks) /\ Len(pipe') = Len(pipe) + 1
      /\ Once(pipe', ToSet(pipe) \cup {l})
  <2>1. l \notin ToSet(pipe)
    BY <1>2 DEF IInv, PlacesInv
  <2> QED BY <1>1, <1>2, <2>1, OnceAppend, AppendProperties DEF IInv, TypeOK, PlacesInv
<1>4. ToSet(fifo') = ToSet(fifo) \ {l} /\ ToSet(pipe') = ToSet(pipe) \cup {l}
  BY <1>2, <1>3 DEF Once
<1>5. PlacesInv'
  BY <1>1, <1>2, <1>3, <1>4 DEF IInv, PlacesInv
<1>6. CountInv'
  <2>1. Len(handled) \in Nat /\ Len(buf) \in Nat /\ Len(pipe) \in Nat /\ Len(fifo) \in Nat
    BY DEF IInv, TypeOK
  <2>2. Len(kind) = Len(handled) + Len(buf) + Len(pipe) + Len(fifo)
    BY DEF IInv, CountInv
  <2>3. /\ Len(kind') = Len(kind)
        /\ Len(handled') = Len(handled) /\ Len(buf') = Len(buf)
        /\ Len(pipe') = Len(pipe) + 1 /\ Len(fifo') = Len(fifo) - 1
    BY <1>1, <1>2, <1>3
  <2>4. Len(kind') = Len(handled') + Len(buf') + Len(pipe') + Len(fifo')
    BY <2>1, <2>2, <2>3
  <2> QED BY <2>4 DEF CountInv
<1>7. PhaseInv'
  BY <1>1 DEF IInv, PhaseInv
<1>8. OrderInv'
  BY <1>1 DEF IInv, OrderInv
<1>9. PipeTypes'
  BY <1>1, <1>2, <1>3 DEF IInv, TypeOK, PipeTypes
<1> QED BY <1>5, <1>6, <1>7, <1>8, <1>9

\* The steps of the loop and of other threads that move no request.
Quiet == \/ LoopTest \/ Prepare \/ CheckDelay \/ Poll \/ CallWrite \/ EndDispatch
         \/ HandleProcess \/ EndRead \/ EndWrite
         \/ DoStop \/ DelayRunsOut \/ Signal

\* What TypeOK says of the rest of the state.
LoopTypes == /\ stop \in BOOLEAN /\ pc \in Pcs /\ want \in BOOLEAN /\ due \in BOOLEAN
             /\ revents \subseteq {"read", "write"}
             /\ queue \in Seq(Processes) /\ fate \in Fates

\* TypeOK, cut into the pipe's part and the loop's.
LEMMA Types == TypeOK <=> PipeTypes /\ LoopTypes
BY DEF TypeOK, PipeTypes, LoopTypes

\* The steps that move no request keep the invariant.
LEMMA QuietRight ==
  ASSUME IInv, Quiet
  PROVE  PipeTypes' /\ PlacesInv' /\ CountInv' /\ PhaseInv' /\ OrderInv'
<1>1. UNCHANGED pipeVars
  BY DEF Quiet, LoopTest, Prepare, CheckDelay, Poll, CallWrite, EndDispatch,
         HandleProcess, EndRead, EndWrite, DoStop, DelayRunsOut, Signal
<1>2. /\ pc' # "read" => pc # "read" \/ buf = <<>>
      /\ pc = "write" => pc' = "write" \/ fifo = <<>>
      /\ pc' = "read" => pc = "read"
  BY DEF Quiet, LoopTest, Prepare, CheckDelay, Poll, CallWrite, EndDispatch,
         HandleProcess, EndRead, EndWrite, DoStop, DelayRunsOut, Signal, Goto, loopVars
<1>3. PipeTypes'
  BY <1>1 DEF IInv, TypeOK, PipeTypes, pipeVars, Ranks
<1> QED BY <1>1, <1>2, <1>3, Moveless

\* The steps that move no request keep the types.
LEMMA MainTypes ==
  ASSUME LoopTypes, MainStep PROVE LoopTypes'
<1> USE DEF LoopTypes, Pcs, Fates, Goto
<1>1. CASE LoopTest       BY <1>1 DEF LoopTest
<1>2. CASE Prepare        BY <1>2 DEF Prepare
<1>3. CASE CheckDelay     BY <1>3 DEF CheckDelay
<1>4. CASE Poll           BY <1>4 DEF Poll
<1>5. CASE CallRead       BY <1>5 DEF CallRead
<1>6. CASE CallWrite      BY <1>6 DEF CallWrite
<1>7. CASE EndDispatch    BY <1>7 DEF EndDispatch
<1>8. CASE Handle
  <2>1. stop' \in BOOLEAN
    BY <1>8 DEF Handle
  <2> QED BY <1>8, <2>1 DEF Handle
<1>9. CASE HandleProcess  BY <1>9 DEF HandleProcess, loopVars
<1>10. CASE EndRead       BY <1>10 DEF EndRead
<1>11. CASE WriteByte     BY <1>11 DEF WriteByte, loopVars
<1>12. CASE EndWrite      BY <1>12 DEF EndWrite
<1> QED BY <1>1, <1>2, <1>3, <1>4, <1>5, <1>6, <1>7, <1>8, <1>9, <1>10, <1>11, <1>12
        DEF MainStep

\* Every step keeps the invariant.
LEMMA Step == IInv /\ [Next]_vars => IInv'
<1> SUFFICES ASSUME IInv, [Next]_vars PROVE IInv'
  OBVIOUS
<1>0. LoopTypes /\ PipeTypes
  BY Types DEF IInv
<1>1. CASE MainStep
  <2>1. LoopTypes'
    BY <1>0, <1>1, MainTypes
  <2>2. Handle \/ CallRead \/ WriteByte \/ Quiet
    BY <1>1 DEF MainStep, Quiet
  <2>3. PipeTypes' /\ PlacesInv' /\ CountInv' /\ PhaseInv' /\ OrderInv'
    BY <2>2, HandleRight, CallReadRight, WriteByteRight, QuietRight
  <2> QED BY <2>1, <2>3, Types DEF IInv, TypeOK, PipeTypes, LoopTypes
<1>2. CASE DoStop \/ DelayRunsOut \/ Signal
  <2>1. LoopTypes'
    BY <1>0, <1>2 DEF LoopTypes, DoStop, DelayRunsOut, Signal, loopVars, Fates
  <2>2. PipeTypes' /\ PlacesInv' /\ CountInv' /\ PhaseInv' /\ OrderInv'
    BY <1>2, QuietRight DEF Quiet
  <2> QED BY <2>1, <2>2 DEF IInv, TypeOK, PipeTypes, LoopTypes
<1>3. ASSUME NEW b \in Kinds, PostByte(b), UNCHANGED <<loopVars, fate>>,
             queue' \in Seq(Processes)
      PROVE  IInv'
  <2>1. LoopTypes'
    BY <1>0, <1>3 DEF LoopTypes, loopVars
  <2>2. PipeTypes' /\ PlacesInv' /\ CountInv' /\ PhaseInv' /\ OrderInv'
    BY <1>3, PostByteRight DEF loopVars, PipeTypes
  <2> QED BY <2>1, <2>2 DEF IInv, TypeOK, PipeTypes, LoopTypes
<1>4. ASSUME NEW b \in Kinds, Postpone(b) PROVE IInv'
  BY <1>0, <1>3, <1>4 DEF Postpone, LoopTypes
<1>5. ASSUME NEW p \in Processes, StartProcess(p) PROVE IInv'
  <2>1. queue' \in Seq(Processes)
    BY <1>0, <1>5, AppendProperties DEF StartProcess, LoopTypes
  <2> QED BY <1>3, <1>5, <2>1 DEF StartProcess, Kinds
<1>6. CASE UNCHANGED vars
  <2>1. UNCHANGED <<kind, fifo, pipe, buf, handled, stop, pc, want, revents, due, queue, fate>>
    BY <1>6 DEF vars, pipeVars, loopVars
  <2> QED BY <2>1 DEF IInv, TypeOK, PlacesInv, CountInv, PhaseInv, OrderInv, Ranks
<1> QED BY <1>1, <1>2, <1>4, <1>5, <1>6 DEF Next

-----------------------------------------------------------------------------
(* What follows.                                                           *)

\* The invariant holds of every event loop.
THEOREM Inductive == Spec => []IInv
BY Start, Step, PTL DEF Spec

\* Every variable of the loop stays in its type.
THEOREM TypeCorrect == Spec => []TypeOK
BY Inductive, PTL DEF IInv

\* A request is in one place and there once: none is lost, none is done twice.
THEOREM NothingIsLost == Spec => []NothingLost
<1>1. IInv => NothingLost
  <2> SUFFICES ASSUME IInv PROVE NothingLost
    OBVIOUS
  <2>1. /\ handled \o buf \in Seq(Ranks)
        /\ Once(handled \o buf, ToSet(handled) \cup ToSet(buf))
    BY OnceConcat DEF IInv, TypeOK, PlacesInv
  <2>2. /\ (handled \o buf) \o pipe \in Seq(Ranks)
        /\ Once((handled \o buf) \o pipe, ToSet(handled) \cup ToSet(buf) \cup ToSet(pipe))
    <3>1. (ToSet(handled) \cup ToSet(buf)) \cap ToSet(pipe) = {}
      BY DEF IInv, PlacesInv
    <3> QED BY <2>1, <3>1, OnceConcat DEF IInv, TypeOK, PlacesInv
  <2>3. Once(((handled \o buf) \o pipe) \o fifo, Ranks)
    <3>1. (ToSet(handled) \cup ToSet(buf) \cup ToSet(pipe)) \cap ToSet(fifo) = {}
      BY DEF IInv, PlacesInv
    <3> QED BY <2>2, <3>1, OnceConcat DEF IInv, TypeOK, PlacesInv
  <2> QED BY <2>3 DEF NothingLost, Everywhere, Once
<1> QED BY <1>1, Inductive, PTL

\* Requests are done batch by batch: while all fit one read, those done when the
\* loop comes round are the first so many posted.
THEOREM BatchesStayInOrder == Spec => []BatchesInOrder
<1>1. IInv => BatchesInOrder
  <2> SUFFICES ASSUME IInv, Len(kind) <= ReadSize, pc \notin {"read", "write"}
               PROVE  \E n \in 0 .. Len(kind) : ToSet(handled) = 1 .. n
    BY DEF BatchesInOrder
  <2>1. ToSet(buf) = {}
    BY DEF IInv, PhaseInv, ToSet
  <2>2. PICK n \in Nat : ToSet(handled) \cup ToSet(buf) = 1 .. n
    BY DEF IInv, OrderInv, FirstOnes
  <2>3. ToSet(handled) = 1 .. n /\ ToSet(handled) \subseteq 1 .. Len(kind)
    BY <2>1, <2>2 DEF IInv, PlacesInv, Ranks
  <2>4. Len(kind) \in Nat
    BY DEF IInv, TypeOK
  <2>5. n <= Len(kind)
    <3>1. CASE n = 0
      BY <2>4, <3>1
    <3>2. CASE n # 0
      <4>1. n \in 1 .. n
        BY <3>2
      <4> QED BY <2>3, <2>4, <4>1
    <3> QED BY <3>1, <3>2
  <2> QED BY <2>3, <2>4, <2>5
<1> QED BY <1>1, Inductive, PTL

\* The main thread blocks on its own pipe only when more requests are outstanding
\* than the pipe holds.
THEOREM BlocksOnlyWhenFull == Spec => []BlockedOnlyWhenFull
<1>1. IInv => BlockedOnlyWhenFull
  <2> SUFFICES ASSUME IInv, fifo # <<>>, Len(pipe) = PipeCapacity
               PROVE  Len(kind) - Len(handled) > PipeCapacity
    BY DEF BlockedOnlyWhenFull, Blocked
  <2>1. /\ Len(handled) \in Nat /\ Len(buf) \in Nat /\ Len(pipe) \in Nat
        /\ Len(fifo) \in Nat \ {0}
    BY DEF IInv, TypeOK
  <2>2. Len(kind) = Len(handled) + Len(buf) + Len(pipe) + Len(fifo)
    BY DEF IInv, CountInv
  <2> QED BY <2>1, <2>2
<1> QED BY <1>1, Inductive, PTL

-----------------------------------------------------------------------------
(* What poll reported.                                                     *)

\* What poll reported still holds when its handler is called, although other threads
\* post meanwhile and another handler may come first: the read finds a byte and does
\* not block, and there is a byte to write, and room for it in the pipe.
ReportsHold ==
  pc = "dispatch" =>
    /\ "read" \in revents => pipe # <<>>
    /\ revents = {"write"} => fifo # <<>> /\ Len(pipe) < PipeCapacity

\* From Prepare on only the main thread takes bytes out of the fifo, and from Poll on
\* it puts none into the pipe before the writing handler.
PollInv ==
  /\ want /\ pc \in {"delay", "poll"} => fifo # <<>>
  /\ "read" \in revents => pipe # <<>> /\ pc = "dispatch"
  /\ "write" \in revents =>
       fifo # <<>> /\ Len(pipe) < PipeCapacity /\ pc \in {"dispatch", "read"}

\* Every step keeps the reports true.
LEMMA PollStep == TypeOK /\ PollInv /\ [Next]_vars => PollInv'
<1> SUFFICES ASSUME TypeOK, PollInv, [Next]_vars PROVE PollInv'
  OBVIOUS
<1>1. ASSUME UNCHANGED <<fifo, pipe, want, revents>>, pc' = pc PROVE PollInv'
  BY <1>1 DEF PollInv
<1>2. CASE \/ Handle \/ HandleProcess \/ DoStop \/ DelayRunsOut \/ Signal \/ UNCHANGED vars
  <2>1. UNCHANGED <<fifo, pipe, want, revents>> /\ pc' = pc
    BY <1>2 DEF Handle, HandleProcess, DoStop, DelayRunsOut, Signal, vars, pipeVars, loopVars
  <2> QED BY <1>1, <2>1
<1>3. ASSUME NEW b \in Kinds, PostByte(b), UNCHANGED loopVars PROVE PollInv'
  <2>1. fifo' = Append(fifo, Len(kind) + 1) /\ UNCHANGED <<pipe, want, revents, pc>>
    BY <1>3 DEF PostByte, loopVars
  <2>2. Len(kind) + 1 \in Nat /\ fifo \in Seq(Nat)
    BY DEF TypeOK, Ranks
  <2>3. fifo' # <<>>
    BY <2>1, <2>2, AppendProperties
  <2> QED BY <2>1, <2>3 DEF PollInv
<1>4. CASE LoopTest \/ CheckDelay \/ EndDispatch \/ EndRead \/ EndWrite
  <2>1. UNCHANGED <<fifo, pipe, want, revents>>
    BY <1>4 DEF LoopTest, CheckDelay, EndDispatch, EndRead, EndWrite, pipeVars
  <2>2. /\ pc' \in {"delay", "poll"} => pc = "delay"
        /\ pc = "dispatch" => revents = {}
        /\ pc = "read" => pc' = "dispatch"
    BY <1>4 DEF LoopTest, CheckDelay, EndDispatch, EndRead, EndWrite, Goto
  <2> QED BY <2>1, <2>2 DEF PollInv
<1>5. CASE Prepare
  <2>1. pc = "prepare" /\ pc' = "delay" /\ want' = (fifo # <<>>) /\ fifo' = fifo
        /\ revents' = revents
    BY <1>5 DEF Prepare, Goto, pipeVars
  <2> QED BY <2>1 DEF PollInv
<1>6. CASE Poll
  <2>1. /\ pc = "poll" /\ pc' = "dispatch" /\ UNCHANGED <<fifo, pipe, want>>
        /\ "read" \in revents' => pipe # <<>>
        /\ "write" \in revents' => want /\ Len(pipe) < PipeCapacity
    BY <1>6 DEF Poll, Goto, pipeVars
  <2> QED BY <2>1 DEF PollInv
<1>7. CASE CallRead
  <2> DEFINE n == IF Len(pipe) < ReadSize THEN Len(pipe) ELSE ReadSize
  <2>1. /\ pc = "dispatch" /\ pc' = "read" /\ pipe' = SubSeq(pipe, n + 1, Len(pipe))
        /\ revents' = revents \ {"read"} /\ UNCHANGED <<fifo, want>>
    BY <1>7 DEF CallRead, Goto
  <2>2. pipe \in Seq(Ranks) /\ Len(pipe) \in Nat /\ n \in 0 .. Len(pipe)
    BY SizesAssumption DEF TypeOK
  <2> HIDE DEF n
  <2>3. Len(pipe') <= Len(pipe) /\ Len(pipe') \in Nat
    BY <2>1, <2>2
  <2>4. "write" \in revents => Len(pipe') < PipeCapacity
    BY <2>2, <2>3, SizesAssumption DEF PollInv
  <2> QED BY <2>1, <2>4 DEF PollInv
<1>8. CASE CallWrite
  <2>1. revents' = {} /\ pc' = "write"
    BY <1>8 DEF CallWrite, Goto
  <2> QED BY <2>1 DEF PollInv
<1>9. CASE WriteByte
  <2>1. pc = "write" /\ pc' = "write" /\ revents' = revents
    BY <1>9 DEF WriteByte, loopVars
  <2> QED BY <2>1 DEF PollInv
<1> QED BY <1>2, <1>3, <1>4, <1>5, <1>6, <1>7, <1>8, <1>9
        DEF Next, MainStep, Postpone, StartProcess, Kinds

\* No handler is called on a report that is out of date.
THEOREM ReportsStayTrue == Spec => []ReportsHold
<1>1. Init => PollInv
  BY DEF Init, PollInv
<1>2. PollInv => ReportsHold
  BY DEF PollInv, ReportsHold
<1> QED BY <1>1, <1>2, PollStep, TypeCorrect, PTL DEF Spec

-----------------------------------------------------------------------------
(* The loop implements Mailbox.                                            *)

\* A batch is what the reading handler has in its buffer.
Box == INSTANCE Mailbox WITH Size   <- ReadSize,
                             posted <- Len(kind),
                             batch  <- ToSet(buf),
                             done   <- ToSet(handled)

\* Every step of the loop is a step of the mailbox, or changes nothing of it.
LEMMA BoxStep ==
  IInv /\ PollInv /\ IInv' /\ [Next]_vars => [Box!Next]_(Box!vars)
<1> SUFFICES ASSUME IInv, PollInv, IInv', [Next]_vars PROVE [Box!Next]_(Box!vars)
  OBVIOUS
<1>1. ASSUME UNCHANGED <<kind, buf, handled>> PROVE UNCHANGED Box!vars
  BY <1>1 DEF Box!vars
<1>2. CASE Quiet \/ WriteByte \/ UNCHANGED vars
  <2>1. UNCHANGED <<kind, buf, handled>>
    BY <1>2 DEF Quiet, LoopTest, Prepare, CheckDelay, Poll, CallWrite, EndDispatch,
           HandleProcess, EndRead, EndWrite, DoStop, DelayRunsOut, Signal, WriteByte,
           pipeVars, vars
  <2> QED BY <1>1, <2>1
<1>3. ASSUME NEW b \in Kinds, PostByte(b) PROVE Box!Post
  <2>1. kind' = Append(kind, b) /\ UNCHANGED <<buf, handled>>
    BY <1>3 DEF PostByte
  <2>2. Len(kind') = Len(kind) + 1
    BY <2>1, AppendProperties DEF IInv, TypeOK
  <2> QED BY <2>1, <2>2 DEF Box!Post
<1>4. CASE CallRead
  <2>1. /\ pc = "dispatch" /\ "read" \in revents /\ pc' = "read"
        /\ UNCHANGED <<kind, handled>>
    BY <1>4 DEF CallRead, Goto
  <2>2. ToSet(buf) = {}
    BY <2>1 DEF IInv, PhaseInv, ToSet
  <2>3. ToSet(buf') # {}
    <3> DEFINE n == IF Len(pipe) < ReadSize THEN Len(pipe) ELSE ReadSize
    <3>1. pipe \in Seq(Ranks) /\ pipe # <<>> /\ buf' = SubSeq(pipe, 1, n)
      BY <1>4, <2>1 DEF CallRead, PollInv, IInv, TypeOK
    <3>2. n \in 1 .. Len(pipe)
      BY <3>1, SizesAssumption
    <3> HIDE DEF n
    <3>3. 1 \in DOMAIN buf'
      BY <3>1, <3>2
    <3> QED BY <3>3 DEF ToSet
  <2>4. ToSet(buf') \subseteq Ranks \ ToSet(handled) /\ ToSet(buf') \in SUBSET Ranks
    <3>1. Ranks' = Ranks
      BY <2>1 DEF Ranks
    <3> QED BY <2>1, <3>1 DEF IInv, PlacesInv
  <2>5. Len(kind) <= ReadSize => \E n \in Nat : ToSet(handled) \cup ToSet(buf') = 1 .. n
    BY <2>1 DEF IInv, OrderInv, FirstOnes
  <2>6. Box!Take(ToSet(buf'))
    BY <2>1, <2>2, <2>3, <2>4, <2>5 DEF Box!Take, Ranks
  <2> QED BY <2>4, <2>6 DEF Box!Next, Ranks
<1>5. CASE Handle
  <2> DEFINE h == Head(buf)
  <2>1. /\ buf # <<>> /\ kind' = kind
        /\ handled' = Append(handled, h) /\ buf' = Tail(buf)
    BY <1>5 DEF Handle
  <2>2. buf \in Seq(Ranks) /\ Once(buf, ToSet(buf)) /\ handled \in Seq(Ranks)
        /\ Once(handled, ToSet(handled)) /\ ToSet(handled) \cap ToSet(buf) = {}
    BY DEF IInv, TypeOK, PlacesInv
  <2>3. h \in ToSet(buf) /\ h \in Ranks /\ Once(Tail(buf), ToSet(buf) \ {h})
    BY <2>1, <2>2, OnceTail
  <2> HIDE DEF h
  <2>4. Once(Append(handled, h), ToSet(handled) \cup {h})
    BY <2>2, <2>3, OnceAppend
  <2>5. ToSet(buf') = ToSet(buf) \ {h} /\ ToSet(handled') = ToSet(handled) \cup {h}
    BY <2>1, <2>3, <2>4 DEF Once
  <2>6. Box!Do(h)
    BY <2>1, <2>3, <2>5 DEF Box!Do
  <2> QED BY <2>3, <2>6 DEF Box!Next
<1>6. Box!Post => Box!Next
  BY DEF Box!Next
<1> QED BY <1>2, <1>3, <1>4, <1>5, <1>6
        DEF Next, MainStep, Quiet, Postpone, StartProcess, Kinds

\* Between the postponing threads and the handlers a mailbox is all there is to see of
\* the fifo, the pipe, the buffer and the polls.
THEOREM LoopIsAMailbox == Spec => Box!Spec
<1>1. Init => Box!Init
  <2> SUFFICES ASSUME Init PROVE Box!Init
    OBVIOUS
  <2>1. kind = <<>> /\ buf = <<>> /\ handled = <<>>
    BY DEF Init
  <2>2. Len(kind) = 0 /\ ToSet(buf) = {} /\ ToSet(handled) = {}
    BY <2>1 DEF ToSet
  <2> QED BY <2>2 DEF Box!Init
<1>2. Init => PollInv
  BY DEF Init, PollInv
<1> QED BY <1>1, <1>2, PollStep, TypeCorrect, Inductive, BoxStep, PTL DEF Spec, Box!Spec
=============================================================================
