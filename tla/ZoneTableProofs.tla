--------------------------- MODULE ZoneTableProofs ---------------------------
(***************************************************************************)
(* Theorems about the zone table, for any set of zones, any sizes and any   *)
(* probes: IInv is inductive, no assertion of the table fails, and the      *)
(* table implements ZoneSet.                                                *)
(***************************************************************************)
EXTENDS ZoneTable, FiniteSetTheorems, TLAPS

-----------------------------------------------------------------------------
(* A vector v of n slots and the ranks r of the zones, without the state.    *)

In(n, v) == {v[i] : i \in 0 .. (n - 1)} \ {NoZone}

Typed(n, v, r) == /\ n \in Nat \ {0} /\ v \in [0 .. (n - 1) -> Zones \cup {NoZone}]
                  /\ r \in [Zones -> Nat]

Right(n, v, r) ==
  /\ \A i \in 0 .. (n - 1) : v[i] # NoZone => r[v[i]] = i /\ i > 0
  /\ \A z \in Zones : r[z] > 0 => r[z] \in 0 .. (n - 1) /\ v[r[z]] = z

\* The slots are more numerous than the zones: rank 0 stays free.
LEMMA FewerZones ==
  ASSUME NEW n, NEW v, NEW r, Typed(n, v, r), Right(n, v, r)
  PROVE  /\ IsFiniteSet(In(n, v)) /\ In(n, v) \subseteq Zones
         /\ Cardinality(In(n, v)) \in Nat /\ Cardinality(In(n, v)) < n
<1> DEFINE S == In(n, v)
           f == [z \in S |-> r[z]]
<1>1. S \subseteq Zones /\ n \in Nat /\ n > 0
  BY DEF Typed, In
<1>2. IsFiniteSet(S)
  BY <1>1, ZonesAssumption, FS_Subset
<1>3. ASSUME NEW z \in S PROVE f[z] \in 1 .. (n - 1) /\ v[f[z]] = z
  <2>1. PICK i \in 0 .. (n - 1) : v[i] = z /\ z # NoZone
    BY DEF In
  <2>2. r[z] = i /\ i > 0
    BY <2>1 DEF Right
  <2> QED BY <1>1, <2>1, <2>2
<1>4. f \in Injection(S, 1 .. (n - 1))
  BY <1>3 DEF Injection, IsInjective
<1>5. IsFiniteSet(1 .. (n - 1)) /\ Cardinality(1 .. (n - 1)) = n - 1
  <2>1. 1 \in Int /\ n - 1 \in Int
    BY <1>1
  <2>2. Cardinality(1 .. (n - 1)) = IF 1 > n - 1 THEN 0 ELSE (n - 1) - 1 + 1
    BY <2>1, FS_Interval
  <2> QED BY <1>1, <2>1, <2>2, FS_Interval
<1>6. Cardinality(S) <= Cardinality(1 .. (n - 1))
  BY <1>4, <1>5, FS_Injection
<1>7. Cardinality(S) \in Nat
  BY <1>2, FS_CardinalityType
<1> QED BY <1>1, <1>2, <1>5, <1>6, <1>7

\* A zone that is not there may go to the end.
LEMMA AppendKeeps ==
  ASSUME NEW n, NEW v, NEW r, Typed(n, v, r), Right(n, v, r),
         NEW z \in Zones, z \notin In(n, v),
         NEW w \in [0 .. n -> Zones \cup {NoZone}], NEW q \in [Zones -> Nat],
         \A i \in 0 .. n : w[i] = IF i = n THEN z ELSE v[i],
         \A y \in Zones : q[y] = IF y = z THEN n ELSE r[y]
  PROVE  Typed(n + 1, w, q) /\ Right(n + 1, w, q) /\ In(n + 1, w) = In(n, v) \cup {z}
<1>1. n \in Nat /\ n > 0 /\ (n + 1) - 1 = n /\ z # NoZone
  BY ZonesAssumption DEF Typed
<1>2. \A i \in 0 .. (n - 1) : i \in 0 .. n /\ i # n /\ w[i] = v[i]
  BY <1>1
<1>3. n \in 0 .. n /\ w[n] = z
  BY <1>1
<1>4. \A i \in 0 .. n : i = n \/ i \in 0 .. (n - 1)
  BY <1>1
<1>5. In(n + 1, w) = In(n, v) \cup {z}
  <2>1. In(n + 1, w) = {w[i] : i \in 0 .. n} \ {NoZone}
    BY <1>1 DEF In
  <2> QED BY <1>1, <1>2, <1>3, <1>4, <2>1 DEF In
<1>6. \A i \in 0 .. (n - 1) : v[i] # z
  BY <1>1 DEF In
<1>7. \A y \in Zones : q[y] = IF y = z THEN n ELSE r[y]
  BY DEF Typed
<1>8. Typed(n + 1, w, q)
  BY <1>1 DEF Typed
<1>9. ASSUME NEW i \in 0 .. n, w[i] # NoZone PROVE q[w[i]] = i /\ i > 0
  <2>1. CASE i = n
    BY <1>1, <1>3, <1>7, <2>1
  <2>2. CASE i \in 0 .. (n - 1)
    <3>1. v[i] \in Zones /\ v[i] # z /\ w[i] = v[i]
      BY <1>2, <1>6, <1>9, <2>2 DEF Typed
    <3> QED BY <1>7, <1>9, <2>2, <3>1 DEF Right
  <2> QED BY <1>4, <2>1, <2>2
<1>10. ASSUME NEW y \in Zones, q[y] > 0 PROVE q[y] \in 0 .. n /\ w[q[y]] = y
  <2>1. CASE y = z
    BY <1>3, <1>7, <2>1
  <2>2. CASE y # z
    <3>1. r[y] = q[y] /\ r[y] \in 0 .. (n - 1) /\ v[r[y]] = y
      BY <1>7, <1>10, <2>2 DEF Right
    <3> QED BY <1>2, <3>1
  <2> QED BY <2>1, <2>2
<1>11. Right(n + 1, w, q)
  BY <1>1, <1>9, <1>10 DEF Right
<1> QED BY <1>5, <1>8, <1>11

\* The vector w and the ranks q are v and r once z has taken slot k.
Taken(n, v, r, z, k, w, q) ==
  /\ k \in 0 .. (n - 1) /\ k > 0 /\ v[k] = NoZone
  /\ w \in [0 .. (n - 1) -> Zones \cup {NoZone}] /\ q \in [Zones -> Nat]
  /\ \A i \in 0 .. (n - 1) : w[i] = IF i = k THEN z ELSE v[i]
  /\ \A y \in Zones : q[y] = IF y = z THEN k ELSE r[y]

\* It may also take a free slot, but not the first.
LEMMA TakeKeeps ==
  ASSUME NEW n, NEW v, NEW r, Typed(n, v, r), Right(n, v, r),
         NEW z \in Zones, z \notin In(n, v),
         NEW k, NEW w, NEW q, Taken(n, v, r, z, k, w, q)
  PROVE  Typed(n, w, q) /\ Right(n, w, q) /\ In(n, w) = In(n, v) \cup {z}
<1>1. z # NoZone /\ \A i \in 0 .. (n - 1) : w[i] = IF i = k THEN z ELSE v[i]
  BY ZonesAssumption DEF Typed, Taken
<1>2. \A y \in Zones : q[y] = IF y = z THEN k ELSE r[y]
  BY DEF Typed, Taken
<1>3. \A i \in 0 .. (n - 1) : v[i] # z
  BY <1>1 DEF In
<1>4. Typed(n, w, q)
  BY DEF Typed, Taken
<1>5. In(n, w) = In(n, v) \cup {z}
  BY <1>1 DEF In, Taken
<1>6. ASSUME NEW i \in 0 .. (n - 1), w[i] # NoZone PROVE q[w[i]] = i /\ i > 0
  <2>1. CASE i = k
    BY <1>1, <1>2, <2>1 DEF Taken
  <2>2. CASE i # k
    <3>1. v[i] \in Zones /\ v[i] # z /\ w[i] = v[i]
      BY <1>1, <1>3, <1>6, <2>2 DEF Typed
    <3> QED BY <1>2, <1>6, <3>1 DEF Right
  <2> QED BY <2>1, <2>2
<1>7. ASSUME NEW y \in Zones, q[y] > 0 PROVE q[y] \in 0 .. (n - 1) /\ w[q[y]] = y
  <2>1. CASE y = z
    BY <1>1, <1>2, <2>1 DEF Taken
  <2>2. CASE y # z
    <3>1. r[y] = q[y] /\ r[y] \in 0 .. (n - 1) /\ v[r[y]] = y
      BY <1>2, <1>7, <2>2 DEF Right
    <3>2. r[y] # k
      BY <3>1, ZonesAssumption DEF Taken
    <3> QED BY <1>1, <3>1, <3>2
  <2> QED BY <2>1, <2>2
<1>8. Right(n, w, q)
  BY <1>6, <1>7 DEF Right
<1> QED BY <1>4, <1>5, <1>8

\* The vector w and the ranks q are v and r once the zones of D have left.
Left(n, v, r, D, w, q) ==
  /\ w \in [0 .. (n - 1) -> Zones \cup {NoZone}] /\ q \in [Zones -> Nat]
  /\ \A i \in 0 .. (n - 1) : w[i] = IF v[i] \in D THEN NoZone ELSE v[i]
  /\ \A y \in Zones : q[y] = IF y \in D THEN 0 ELSE r[y]

\* Any zones may leave.
LEMMA WithoutKeeps ==
  ASSUME NEW n, NEW v, NEW r, Typed(n, v, r), Right(n, v, r), NEW D, D \subseteq In(n, v),
         NEW w, NEW q, Left(n, v, r, D, w, q)
  PROVE  Typed(n, w, q) /\ Right(n, w, q) /\ In(n, w) = In(n, v) \ D
<1>1. NoZone \notin D
  BY DEF In
<1>2. Typed(n, w, q)
  BY DEF Typed, Left
<1>3. In(n, w) = In(n, v) \ D
  BY <1>1 DEF In, Left
<1>4. ASSUME NEW i \in 0 .. (n - 1), w[i] # NoZone PROVE q[w[i]] = i /\ i > 0
  <2>1. w[i] = v[i] /\ v[i] \notin D /\ v[i] \in Zones
    BY <1>4 DEF Typed, Left
  <2> QED BY <1>1, <1>4, <2>1 DEF Right, Left
<1>5. ASSUME NEW y \in Zones, q[y] > 0 PROVE q[y] \in 0 .. (n - 1) /\ w[q[y]] = y
  <2>1. y \notin D /\ q[y] = r[y]
    BY <1>5 DEF Left
  <2> QED BY <1>5, <2>1 DEF Right, Left
<1>6. Right(n, w, q)
  BY <1>4, <1>5 DEF Right
<1> QED BY <1>2, <1>3, <1>6

-----------------------------------------------------------------------------
(* The state of the table.                                                   *)

IInv == /\ TypeOK /\ RanksRight /\ RanksHeld /\ CountRight /\ NoAssertFails
        /\ nbzones <= size

\* What IInv says of the vector.
LEMMA Table ==
  ASSUME IInv
  PROVE  /\ Typed(size, zonvec, rank) /\ Right(size, zonvec, rank)
         /\ Registered = In(size, zonvec)
         /\ IsFiniteSet(Registered) /\ Registered \subseteq Zones
         /\ Cardinality(Registered) \in Nat /\ cnt = Cardinality(Registered)
<1>1. Typed(size, zonvec, rank) /\ Right(size, zonvec, rank)
  BY DEF IInv, TypeOK, RanksRight, RanksHeld, Typed, Right, Ranks
<1>2. Registered = In(size, zonvec)
  BY DEF Registered, In, Ranks
<1> QED BY <1>1, <1>2, FewerZones DEF IInv, CountRight

\* A zone of the table passes the assertions of unregister_in_zonevec.
LEMMA MayLeave ==
  ASSUME IInv, NEW z \in Registered
  PROVE  MayUnregister(z)
<1>1. PICK i \in Ranks : zonvec[i] = z /\ z # NoZone
  BY DEF Registered
<1>2. rank[z] = i /\ i > 0 /\ i < size /\ zonvec[rank[z]] = z
  BY <1>1 DEF IInv, TypeOK, RanksRight, Ranks
<1>3. cnt > 0 /\ cnt < size
  <2>1. Cardinality(Registered) # 0
    BY Table, FS_EmptySet
  <2> QED BY <2>1, Table DEF IInv, CountRight
<1> QED BY <1>2, <1>3 DEF MayUnregister

\* Registering a zone, wherever it goes, adds it and keeps the invariant.
LEMMA RegisterStep ==
  ASSUME IInv, NEW z \in Zones, Register(z)
  PROVE  IInv' /\ Registered' = Registered \cup {z} /\ zix' = zix
<1>1. /\ Typed(size, zonvec, rank) /\ Right(size, zonvec, rank)
      /\ Registered = In(size, zonvec) /\ IsFiniteSet(Registered)
      /\ z \notin In(size, zonvec)
  BY Table DEF Register
<1>2. ASSUME Append(z)
      PROVE  /\ Typed(size', zonvec', rank') /\ Right(size', zonvec', rank')
             /\ In(size', zonvec') = In(size, zonvec) \cup {z} /\ size' = size + 1
  <2>1. /\ size' = size + 1
        /\ zonvec' \in [0 .. size -> Zones \cup {NoZone}] /\ rank' \in [Zones -> Nat]
        /\ \A i \in 0 .. size : zonvec'[i] = IF i = size THEN z ELSE zonvec[i]
        /\ \A y \in Zones : rank'[y] = IF y = z THEN size ELSE rank[y]
    BY <1>1, <1>2 DEF Append, Typed
  <2> QED BY <1>1, <2>1, AppendKeeps
<1>3. ASSUME NEW rk \in 1 .. (size - Tail), TakeRank(z, rk)
      PROVE  /\ Typed(size', zonvec', rank') /\ Right(size', zonvec', rank')
             /\ In(size', zonvec') = In(size, zonvec) \cup {z} /\ size' = size
  <2>1. PICK i \in Free(rk) : /\ zonvec' = [zonvec EXCEPT ![i] = z]
                              /\ rank' = [rank EXCEPT ![z] = i]
    BY <1>3 DEF TakeRank
  <2>2. size' = size /\ i \in 0 .. (size - 1) /\ rk <= i /\ zonvec[i] = NoZone
    BY <1>3, <2>1 DEF TakeRank, Free, Probed, Ranks
  <2>3. i > 0
    BY <2>2
  <2>4. Taken(size, zonvec, rank, z, i, zonvec', rank')
    BY <1>1, <2>1, <2>2, <2>3 DEF Typed, Taken
  <2>5. Typed(size, zonvec', rank') /\ Right(size, zonvec', rank')
        /\ In(size, zonvec') = In(size, zonvec) \cup {z}
    BY <1>1, <2>4, TakeKeeps
  <2> QED BY <2>2, <2>5
<1>4. /\ Typed(size', zonvec', rank') /\ Right(size', zonvec', rank')
      /\ In(size', zonvec') = In(size, zonvec) \cup {z}
      /\ size' = size \/ size' = size + 1
  BY <1>2, <1>3 DEF Register
<1>5. Registered' = Registered \cup {z}
  BY <1>1, <1>4 DEF Registered, In, Ranks
<1>6. Cardinality(Registered') = Cardinality(Registered) + 1
  BY <1>1, <1>5, FS_AddElement
<1>7. Cardinality(Registered') < size'
  <2>1. Cardinality(In(size', zonvec')) < size'
    BY <1>4, FewerZones
  <2> QED BY <1>1, <1>4, <1>5, <2>1
<1>8. cnt' = cnt + 1 /\ UNCHANGED <<zix, nbzones, nscan, failed>>
  BY DEF Register, scanVars
<1>9. CountRight'
  BY <1>6, <1>7, <1>8 DEF IInv, CountRight
<1>10. RanksRight' /\ RanksHeld'
  BY <1>4 DEF RanksRight, RanksHeld, Right, Ranks
<1>11. TypeOK'
  <2>1. failed' \in BOOLEAN
    BY <1>8 DEF IInv, TypeOK
  <2>2. /\ size' \in Nat \ {0} /\ zonvec' \in [Ranks' -> Zones \cup {NoZone}]
        /\ rank' \in [Zones -> Nat]
    BY <1>4 DEF Typed, Ranks
  <2>3. cnt' \in Nat /\ zix' \in Nat /\ nbzones' \in Nat /\ nscan' \in Nat
    BY <1>8 DEF IInv, TypeOK
  <2> QED BY <2>1, <2>2, <2>3 DEF TypeOK
<1>12. nbzones' <= size'
  BY <1>4, <1>8 DEF IInv, TypeOK
<1> QED BY <1>5, <1>8, <1>9, <1>10, <1>11, <1>12 DEF IInv, NoAssertFails

\* So does the removal of zones of the table.
LEMMA WithoutStep ==
  ASSUME IInv, NEW D, D \subseteq Registered, WithoutZones(D),
         failed' = failed, nbzones' = nbzones, zix' \in Nat, nscan' = nscan
  PROVE  IInv' /\ Registered' = Registered \ D
<1>1. /\ Typed(size, zonvec, rank) /\ Right(size, zonvec, rank)
      /\ Registered = In(size, zonvec) /\ IsFiniteSet(Registered)
      /\ D \subseteq In(size, zonvec)
  BY Table
<1>2. /\ size' = size /\ cnt' = cnt - Cardinality(D)
      /\ Left(size, zonvec, rank, D, zonvec', rank')
  BY <1>1 DEF WithoutZones, Ranks, Typed, Left
<1>3. /\ Typed(size, zonvec', rank') /\ Right(size, zonvec', rank')
      /\ In(size, zonvec') = In(size, zonvec) \ D
  BY <1>1, <1>2, WithoutKeeps
<1>4. Registered' = Registered \ D
  BY <1>1, <1>2, <1>3 DEF Registered, In, Ranks
<1>5. /\ Cardinality(Registered') = Cardinality(Registered) - Cardinality(D)
      /\ Cardinality(D) \in Nat
  <2>1. IsFiniteSet(D) /\ Registered \cap D = D
    BY <1>1, FS_Subset
  <2>2. Cardinality(Registered \ D) = Cardinality(Registered) - Cardinality(Registered \cap D)
    BY <1>1, FS_Difference
  <2> QED BY <1>4, <2>1, <2>2, FS_CardinalityType
<1>6. Cardinality(Registered') < size' /\ Cardinality(Registered') \in Nat
  <2>1. Cardinality(In(size, zonvec')) < size /\ Cardinality(In(size, zonvec')) \in Nat
    BY <1>3, FewerZones
  <2> QED BY <1>1, <1>2, <1>3, <1>4, <2>1
<1>7. CountRight' /\ cnt' \in Nat
  BY <1>2, <1>5, <1>6 DEF IInv, CountRight
<1>8. TypeOK' /\ RanksRight' /\ RanksHeld'
  BY <1>2, <1>3, <1>7 DEF IInv, TypeOK, RanksRight, RanksHeld, Typed, Right, Ranks
<1> QED BY <1>2, <1>4, <1>7, <1>8 DEF IInv, NoAssertFails

\* What a visit does: no assertion fails, and only the visited zone and a zone
\* that its destructor deletes may go.
LEMMA VisitStep ==
  ASSUME IInv, VisitZone
  PROVE  /\ zix \in Ranks /\ zonvec[zix] \in Registered /\ rank[zonvec[zix]] = zix
         /\ zix' = zix + 1 /\ UNCHANGED <<nbzones, nscan, failed>>
         /\ \/ UNCHANGED tableVars
            \/ \E p \in Registered : WithoutZones({zonvec[zix], p})
<1> DEFINE z == zonvec[zix]
<1>1. zix \in Ranks /\ z # NoZone /\ zix < nbzones
  BY DEF VisitZone, Scanning, IInv, TypeOK, Ranks
<1>2. z \in Registered /\ rank[z] = zix
  BY <1>1 DEF Registered, IInv, RanksRight
<1>3. ASSUME NEW p \in Registered
      PROVE  MayUnregister(z) /\ MayUnregister(p) /\ cnt >= Cardinality({z, p})
  <2>1. {z, p} \in SUBSET Registered
    BY <1>2
  <2>2. IsFiniteSet({z, p}) /\ Cardinality({z, p}) <= Cardinality(Registered)
    BY <2>1, Table, FS_Subset
  <2>3. Cardinality({z, p}) \in Nat
    BY <2>2, FS_CardinalityType
  <2>4. cnt = Cardinality(Registered) /\ cnt \in Nat
    BY Table
  <2> QED BY <1>2, <2>2, <2>3, <2>4, MayLeave
<1> QED BY <1>1, <1>2, <1>3 DEF VisitZone, tableVars

\* A step that leaves the table alone keeps the invariant.
LEMMA SameTable ==
  ASSUME IInv, UNCHANGED <<tableVars, failed>>,
         zix' \in Nat, nscan' \in Nat, nbzones' \in Nat, nbzones' <= size
  PROVE  IInv' /\ Registered' = Registered /\ Ranks' = Ranks
<1>1. UNCHANGED <<size, zonvec, rank, cnt, failed>>
  BY DEF tableVars
<1>2. Registered' = Registered /\ Ranks' = Ranks
  BY <1>1 DEF Registered, Ranks
<1>3. failed' \in BOOLEAN
  BY <1>1 DEF IInv, TypeOK
<1>4. TypeOK'
  BY <1>1, <1>2, <1>3 DEF IInv, TypeOK
<1>5. RanksRight' /\ RanksHeld' /\ CountRight' /\ NoAssertFails'
  BY <1>1, <1>2 DEF IInv, RanksRight, RanksHeld, CountRight, NoAssertFails
<1> QED BY <1>1, <1>2, <1>4, <1>5 DEF IInv

\* The invariant is inductive.
LEMMA Step == IInv /\ [Next]_vars => IInv'
<1> SUFFICES ASSUME IInv, [Next]_vars PROVE IInv'
  OBVIOUS
<1>1. ASSUME NEW z \in Zones, Register(z) PROVE IInv'
  BY <1>1, RegisterStep
<1>2. ASSUME NEW z \in Zones, Unregister(z) PROVE IInv'
  <2>1. z \in Registered /\ WithoutZones({z}) /\ UNCHANGED <<failed, zix, nbzones, nscan>>
    BY <1>2, MayLeave DEF Unregister, scanVars
  <2>2. zix' \in Nat
    BY <2>1 DEF IInv, TypeOK
  <2> QED BY <2>1, <2>2, WithoutStep
<1>3. CASE BeginScan
  <2>1. UNCHANGED <<tableVars, failed>> /\ zix' = 1 /\ nbzones' = size /\ nscan' = nscan + 1
    BY <1>3 DEF BeginScan
  <2>2. zix' \in Nat /\ nscan' \in Nat /\ nbzones' \in Nat /\ nbzones' <= size
    BY <2>1 DEF IInv, TypeOK
  <2> QED BY <2>1, <2>2, SameTable
<1>4. CASE SkipFree \/ EndScan
  <2>1. UNCHANGED <<tableVars, failed, nbzones, nscan>> /\ zix' \in {0, zix + 1}
    BY <1>4 DEF SkipFree, EndScan
  <2>2. zix' \in Nat /\ nscan' \in Nat /\ nbzones' \in Nat /\ nbzones' <= size
    BY <2>1 DEF IInv, TypeOK
  <2> QED BY <2>1, <2>2, SameTable
<1>5. CASE VisitZone
  <2>1. zix' \in Nat /\ UNCHANGED <<nbzones, nscan, failed>> /\ zonvec[zix] \in Registered
    BY <1>5, VisitStep DEF IInv, TypeOK
  <2>2. CASE UNCHANGED tableVars
    <3>1. nscan' \in Nat /\ nbzones' \in Nat /\ nbzones' <= size
      BY <2>1 DEF IInv, TypeOK
    <3> QED BY <2>1, <2>2, <3>1, SameTable
  <2>3. ASSUME NEW p \in Registered, WithoutZones({zonvec[zix], p}) PROVE IInv'
    BY <2>1, <2>3, WithoutStep
  <2> QED BY <1>5, <2>2, <2>3, VisitStep
<1>6. CASE UNCHANGED vars
  <2>1. UNCHANGED <<tableVars, failed, zix, nscan, nbzones>>
    BY <1>6 DEF vars, scanVars
  <2>2. zix' \in Nat /\ nscan' \in Nat /\ nbzones' \in Nat /\ nbzones' <= size
    BY <2>1 DEF IInv, TypeOK
  <2> QED BY <2>1, <2>2, SameTable
<1> QED BY <1>1, <1>2, <1>3, <1>4, <1>5, <1>6 DEF Next, Scan

\* The first table, all slots free, satisfies it.
LEMMA First == Init => IInv /\ Registered = {} /\ Unvisited = {} /\ ~Scanning
<1> SUFFICES ASSUME Init PROVE IInv /\ Registered = {} /\ Unvisited = {} /\ ~Scanning
  OBVIOUS
<1>1. /\ size \in Nat \ {0} /\ zonvec \in [Ranks -> Zones \cup {NoZone}]
      /\ \A i \in Ranks : zonvec[i] = NoZone
  BY SizesAssumption DEF Init, Ranks
<1>2. Registered = {} /\ Unvisited = {} /\ ~Scanning
  BY <1>1 DEF Init, Registered, Unvisited, Scanning
<1>3. CountRight
  BY <1>1, <1>2, FS_EmptySet DEF Init, CountRight
<1>4. failed \in BOOLEAN /\ NoAssertFails
  BY DEF Init, NoAssertFails
<1>5. rank \in [Zones -> Nat] /\ \A z \in Zones : ~(rank[z] > 0)
  BY DEF Init
<1>6. cnt \in Nat /\ zix \in Nat /\ nbzones \in Nat /\ nscan \in Nat /\ nbzones <= size
  BY <1>1 DEF Init
<1>7. RanksRight /\ RanksHeld
  BY <1>1, <1>5 DEF RanksRight, RanksHeld
<1>8. TypeOK
  BY <1>1, <1>4, <1>5, <1>6 DEF TypeOK
<1> QED BY <1>2, <1>3, <1>4, <1>6, <1>7, <1>8 DEF IInv

\* The invariant holds of every table.
THEOREM Inductive == Spec => []IInv
BY First, Step, PTL DEF Spec

\* Every field of the table keeps its type.
THEOREM TypeCorrect == Spec => []TypeOK
BY Inductive, PTL DEF IInv

\* A zone in the table is at its own rank and nowhere else.
THEOREM RanksAreRight == Spec => []RanksRight
BY Inductive, PTL DEF IInv

\* A zone that has a rank is found at it.
THEOREM RanksAreHeld == Spec => []RanksHeld
BY Inductive, PTL DEF IInv

\* qz_cnt is the number of zones, and stays below the size of the table.
THEOREM CountIsRight == Spec => []CountRight
BY Inductive, PTL DEF IInv

\* No assertion of the table fails.
THEOREM AssertsHold == Spec => []NoAssertFails
BY Inductive, PTL DEF IInv

-----------------------------------------------------------------------------
(* The table implements ZoneSet.                                             *)

\* Every step of the table is a step of the set, or changes nothing of it.
LEMMA SetStep == IInv /\ [Next]_vars => [Set!Next]_(Set!vars)
<1> SUFFICES ASSUME IInv, [Next]_vars PROVE [Set!Next]_(Set!vars)
  OBVIOUS
<1>0. Registered \subseteq Zones
  BY Table
<1>1. ASSUME NEW z \in Zones, Register(z) PROVE Set!Add(z)
  <2>1. Registered' = Registered \cup {z} /\ zix' = zix /\ zix = 0
    BY <1>1, RegisterStep DEF Register, Scanning, IInv, TypeOK
  <2>2. ~Scanning /\ Scanning' = Scanning /\ Unvisited = {} /\ Unvisited' = {}
    BY <2>1 DEF Scanning, Unvisited
  <2> QED BY <1>1, <2>1, <2>2 DEF Set!Add, Register
<1>2. ASSUME NEW z \in Zones, Unregister(z) PROVE Set!Remove(z)
  <2>1. z \in Registered /\ WithoutZones({z}) /\ UNCHANGED <<failed, zix, nbzones, nscan>>
    BY <1>2, MayLeave DEF Unregister, scanVars
  <2>2. zix' \in Nat /\ zix = 0
    BY <1>2, <2>1 DEF IInv, TypeOK, Unregister, Scanning
  <2>3. Registered' = Registered \ {z}
    BY <2>1, <2>2, WithoutStep
  <2>4. ~Scanning /\ Scanning' = Scanning /\ Unvisited = {} /\ Unvisited' = {}
    BY <2>1, <2>2 DEF Scanning, Unvisited
  <2> QED BY <2>1, <2>3, <2>4 DEF Set!Remove
<1>3. CASE BeginScan
  <2>1. ~Scanning /\ Scanning' = TRUE /\ Registered' = Registered
    BY <1>3 DEF BeginScan, Scanning, tableVars, Registered, Ranks
  <2>2. {j \in Ranks' : Scanning' /\ zix' <= j /\ j < nbzones'} = Ranks \ {0}
    BY <1>3, <2>1 DEF BeginScan, tableVars, Ranks, IInv, TypeOK
  <2>3. 0 \in Ranks /\ zonvec[0] = NoZone
    BY DEF IInv, TypeOK, RanksRight, Ranks
  <2>4. Unvisited' = Registered
    BY <1>3, <2>2, <2>3 DEF Unvisited, Registered, BeginScan, tableVars
  <2> QED BY <2>1, <2>4 DEF Set!Begin, Set!Next
<1>4. CASE SkipFree
  <2>1. Scanning /\ Scanning' = Scanning /\ Registered' = Registered
    BY <1>4 DEF SkipFree, Scanning, tableVars, Registered, Ranks, IInv, TypeOK
  <2>2. Unvisited' = Unvisited
    <3>1. \A j \in Ranks : (zix <= j <=> j = zix \/ zix' <= j)
      BY <1>4 DEF SkipFree, IInv, TypeOK, Ranks
    <3>2. zonvec[zix] = NoZone /\ UNCHANGED <<zonvec, size, nbzones>>
      BY <1>4 DEF SkipFree, tableVars
    <3> QED BY <2>1, <3>1, <3>2 DEF Unvisited, Ranks
  <2> QED BY <2>1, <2>2 DEF Set!vars
<1>5. CASE VisitZone
  <2> DEFINE z == zonvec[zix]
             later == {j \in Ranks : zix + 1 <= j /\ j < nbzones}
  <2>1. /\ zix \in Ranks /\ z \in Registered /\ rank[z] = zix /\ zix' = zix + 1
        /\ UNCHANGED <<nbzones, nscan, failed>> /\ Scanning /\ zix < nbzones /\ zix \in Nat
    BY <1>5, VisitStep DEF VisitZone, IInv, TypeOK
  <2>2. Scanning' = Scanning /\ zix' \in Nat
    BY <2>1 DEF Scanning
  <2>3. {j \in Ranks : Scanning /\ zix <= j /\ j < nbzones} = later \cup {zix}
    BY <2>1 DEF Ranks, IInv, TypeOK
  <2>4. z \in Unvisited /\ Unvisited \ {z} = {zonvec[j] : j \in later} \ {NoZone}
    <3>1. \A j \in later : zonvec[j] # z
      BY <2>1 DEF IInv, RanksRight, Registered, Ranks, TypeOK
    <3>2. z # NoZone
      BY <2>1 DEF Registered
    <3> HIDE DEF later
    <3> QED BY <2>3, <3>1, <3>2 DEF Unvisited
  <2>5. CASE UNCHANGED tableVars
    <3>1. Registered' = Registered /\ Ranks' = Ranks /\ zonvec' = zonvec
      BY <2>5 DEF tableVars, Registered, Ranks
    <3>2. Unvisited' = {zonvec[j] : j \in later} \ {NoZone}
      BY <2>1, <2>2, <3>1 DEF Unvisited
    <3>3. Set!Visit(z, {})
      BY <2>1, <2>2, <2>4, <3>1, <3>2 DEF Set!Visit
    <3> QED BY <1>0, <2>1, <3>3 DEF Set!Next
  <2>6. ASSUME NEW p \in Registered, WithoutZones({z, p}) PROVE Set!Next
    <3>1. Registered' = Registered \ {z, p}
      BY <2>1, <2>2, <2>6, WithoutStep
    <3>2. Ranks' = Ranks
          /\ \A j \in Ranks : zonvec'[j] = IF zonvec[j] \in {z, p} THEN NoZone ELSE zonvec[j]
      BY <2>6 DEF WithoutZones, Ranks
    <3>3. Unvisited' = {zonvec'[j] : j \in later} \ {NoZone}
      BY <2>1, <2>2, <3>2 DEF Unvisited
    <3>4. later \subseteq Ranks
      OBVIOUS
    <3> HIDE DEF later
    <3>5. Unvisited' = ({zonvec[j] : j \in later} \ {NoZone}) \ {z, p}
      <4>1. z # NoZone /\ p # NoZone
        BY <2>1, <2>6 DEF Registered
      <4>2. ASSUME NEW j \in later
            PROVE  zonvec'[j] = IF zonvec[j] \in {z, p} THEN NoZone ELSE zonvec[j]
        BY <3>2, <3>4
      <4> HIDE DEF z
      <4>3. ASSUME NEW u \in Unvisited'
            PROVE  u \in {zonvec[j] : j \in later} /\ u # NoZone /\ u # z /\ u # p
        BY <3>3, <4>1, <4>2
      <4>4. ASSUME NEW j \in later, zonvec[j] # NoZone, zonvec[j] # z, zonvec[j] # p
            PROVE  zonvec[j] \in Unvisited'
        <5>1. zonvec'[j] = zonvec[j]
          BY <4>2, <4>4
        <5> QED BY <3>3, <4>4, <5>1
      <4> QED BY <4>3, <4>4
    <3>6. Set!Visit(z, {z, p})
      BY <2>1, <2>2, <2>4, <3>1, <3>5 DEF Set!Visit
    <3>7. z \in Zones /\ {z, p} \in SUBSET Zones
      BY <1>0, <2>1
    <3> QED BY <3>6, <3>7 DEF Set!Next
  <2> QED BY <1>5, <2>5, <2>6, VisitStep
<1>6. CASE EndScan
  <2>1. Scanning /\ Scanning' = FALSE /\ Registered' = Registered
    BY <1>6 DEF EndScan, Scanning, tableVars, Registered, Ranks
  <2>2. Unvisited = {} /\ Unvisited' = {}
    BY <1>6, <2>1 DEF EndScan, Unvisited, IInv, TypeOK, Ranks
  <2> QED BY <2>1, <2>2 DEF Set!End, Set!Next
<1>7. CASE UNCHANGED vars
  BY <1>7 DEF vars, tableVars, scanVars, Set!vars, Registered, Unvisited, Scanning, Ranks
<1> QED BY <1>1, <1>2, <1>3, <1>4, <1>5, <1>6, <1>7 DEF Next, Scan, Set!Next

\* The scan of a vector that changes under it is the scan of a set.
THEOREM TableIsASet == Spec => ScansTheSet
<1>1. Init => Set!Init
  BY First DEF Set!Init
<1> QED BY <1>1, Inductive, SetStep, PTL DEF Spec, ScansTheSet, Set!Spec
==============================================================================
