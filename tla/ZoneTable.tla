------------------------------ MODULE ZoneTable ------------------------------
(***************************************************************************)
(* The table of all quasi-zones of RefPerSys: Rps_QuasiZone::qz_zonvec     *)
(* (values_rps.cc) and its scan every_zone (inline_rps.hh), in which the   *)
(* sweep of run_gc (garbcoll_rps.cc) deletes zones, so that the table      *)
(* changes under the loop that goes through it.                            *)
(*                                                                         *)
(* Every operation runs under qz_mtx, a recursive mutex: registering and   *)
(* unregistering are one step, and while a scan holds the mutex only the   *)
(* destructors that the scan itself calls change the table.                *)
(*                                                                         *)
(* The branch of register_in_zonevec that reserves a capacity is left out: *)
(* it asks for a capacity below 8/9 of the size, which no vector has.      *)
(***************************************************************************)
EXTENDS Naturals, FiniteSets

CONSTANTS
  Zones,        \* the zones the program may allocate
  NoZone,       \* nullptr
  InitialSize,  \* size of qz_zonvec after initialize(), 101 in the code
  ProbeAbove,   \* size above which free ranks are looked for, 128
  Tail,         \* the last ranks, where no probe starts, 16
  Window,       \* how many ranks are probed, 24
  MaxSize,      \* bound on the size of qz_zonvec
  MaxScans      \* bound on the number of scans

ASSUME ZonesAssumption == NoZone \notin Zones /\ IsFiniteSet(Zones)
ASSUME SizesAssumption == /\ InitialSize \in Nat \ {0} /\ ProbeAbove \in Nat
                          /\ Tail \in Nat /\ Tail <= ProbeAbove
                          /\ Window \in Nat
                          /\ MaxSize \in Nat /\ MaxScans \in Nat

VARIABLES
  size,     \* qz_zonvec.size()
  zonvec,   \* qz_zonvec, by rank
  rank,     \* qz_rank of every registered zone, 0 for the others
  cnt,      \* qz_cnt
  zix,      \* the rank every_zone looks at; 0 when no scan goes on
  nbzones,  \* the size of the table when the scan began
  failed,   \* whether an RPS_ASSERT of an operation failed
  nscan     \* the number of scans

tableVars == <<size, zonvec, rank, cnt>>
scanVars  == <<zix, nbzones, nscan>>
vars == <<tableVars, scanVars, failed>>

Ranks      == 0 .. (size - 1)
Registered == {zonvec[i] : i \in Ranks} \ {NoZone}
Scanning   == zix > 0

Init ==
  /\ size = InitialSize
  /\ zonvec = [i \in 0 .. (InitialSize - 1) |-> NoZone]
  /\ rank = [z \in Zones |-> 0]
  /\ cnt = 0 /\ zix = 0 /\ nbzones = 0 /\ failed = FALSE /\ nscan = 0

-----------------------------------------------------------------------------
(* Registering and unregistering.                                          *)

\* The ranks that a probe starting at rk looks at.
Probed(rk) == {i \in Ranks : rk <= i /\ i < rk + Window}
Free(rk)   == {i \in Probed(rk) : zonvec[i] = NoZone}

\* Mutant: a rank is taken without looking whether it is free.
TakeAnyRank(z, rk) ==
  /\ size > ProbeAbove
  /\ zonvec' = [zonvec EXCEPT ![rk] = z]
  /\ rank' = [rank EXCEPT ![z] = rk]
  /\ UNCHANGED size

\* register_in_zonevec takes the first free rank that the probe meets.
TakeRank(z, rk) ==
  /\ size > ProbeAbove
  /\ \E i \in Free(rk) :
       /\ \A j \in Free(rk) : i <= j
       /\ zonvec' = [zonvec EXCEPT ![i] = z]
       /\ rank' = [rank EXCEPT ![z] = i]
  /\ UNCHANGED size

\* Mutant: the slot that reserve made room for is written without push_back.
AppendInPlace(z) ==
  /\ size < MaxSize /\ size' = size + 1
  /\ zonvec' = [zonvec EXCEPT ![size] = z]
  /\ rank' = [rank EXCEPT ![z] = size]

\* Otherwise the zone goes to the end of the vector.
Append(z) ==
  /\ size < MaxSize /\ size' = size + 1
  /\ zonvec' = [i \in 0 .. size |-> IF i = size THEN z ELSE zonvec[i]]
  /\ rank' = [rank EXCEPT ![z] = size]

\* Mutant: the count is not kept for a rank that is used again.
RegisterUncounted(z) ==
  /\ ~Scanning /\ ~failed /\ z \notin Registered
  /\ \/ size <= ProbeAbove /\ Append(z) /\ cnt' = cnt + 1
     \/ \E rk \in 1 .. (size - Tail) :
          \/ TakeRank(z, rk) /\ UNCHANGED cnt
          \/ size > ProbeAbove /\ Free(rk) = {} /\ Append(z) /\ cnt' = cnt + 1
  /\ UNCHANGED <<scanVars, failed>>

\* register_in_zonevec, called by the constructor of every quasi-zone.
Register(z) ==
  /\ ~Scanning /\ ~failed /\ z \notin Registered
  /\ \/ size <= ProbeAbove /\ Append(z)
     \/ \E rk \in 1 .. (size - Tail) :
          \/ TakeRank(z, rk)
          \/ size > ProbeAbove /\ Free(rk) = {} /\ Append(z)
  /\ cnt' = cnt + 1
  /\ UNCHANGED <<scanVars, failed>>

\* The assertions of unregister_in_zonevec.
MayUnregister(z) == /\ rank[z] > 0 /\ rank[z] < size
                    /\ cnt > 0 /\ cnt < size
                    /\ zonvec[rank[z]] = z

\* Mutant: the slot of a deleted zone keeps its pointer.
WithoutMarks(dead) ==
  /\ rank' = [z \in Zones |-> IF z \in dead THEN 0 ELSE rank[z]]
  /\ cnt' = cnt - Cardinality(dead)
  /\ UNCHANGED <<zonvec, size>>

\* The table once the zones of dead have unregistered themselves.
WithoutZones(dead) ==
  /\ zonvec' = [i \in Ranks |-> IF zonvec[i] \in dead THEN NoZone ELSE zonvec[i]]
  /\ rank' = [z \in Zones |-> IF z \in dead THEN 0 ELSE rank[z]]
  /\ cnt' = cnt - Cardinality(dead)
  /\ UNCHANGED size

\* The destructor of a zone that is deleted outside of a scan: the payload of an
\* object that gets another one, or none.
Unregister(z) ==
  /\ ~Scanning /\ ~failed /\ z \in Registered
  /\ IF MayUnregister(z)
     THEN WithoutZones({z}) /\ UNCHANGED failed
     ELSE failed' = TRUE /\ UNCHANGED tableVars
  /\ UNCHANGED scanVars

-----------------------------------------------------------------------------
(* The scan.                                                               *)

\* Mutant: the scan stops before the last rank.
BeginShortScan ==
  /\ ~Scanning /\ ~failed /\ nscan < MaxScans
  /\ zix' = 1 /\ nbzones' = size - 1 /\ nscan' = nscan + 1
  /\ UNCHANGED <<tableVars, failed>>

\* every_zone takes the mutex and reads the size of the table.
BeginScan ==
  /\ ~Scanning /\ ~failed /\ nscan < MaxScans
  /\ zix' = 1 /\ nbzones' = size /\ nscan' = nscan + 1
  /\ UNCHANGED <<tableVars, failed>>

\* Mutant: a free rank is not stepped over.
SkipNothing ==
  /\ Scanning /\ ~failed /\ zix < nbzones /\ zonvec[zix] = NoZone
  /\ UNCHANGED vars

\* A free rank has nothing to visit.
SkipFree ==
  /\ Scanning /\ ~failed /\ zix < nbzones /\ zonvec[zix] = NoZone
  /\ zix' = zix + 1
  /\ UNCHANGED <<tableVars, nbzones, nscan, failed>>

\* every_zone gives a zone to the function of run_gc, which lets it live, or
\* deletes it, and with it the payload p that its destructor deletes.
VisitZone ==
  /\ Scanning /\ ~failed /\ zix < nbzones /\ zonvec[zix] # NoZone
  /\ LET z == zonvec[zix] IN
     \/ rank[z] # zix /\ failed' = TRUE /\ UNCHANGED <<tableVars, zix>>
     \/ /\ rank[z] = zix
        /\ zix' = zix + 1
        /\ \/ UNCHANGED <<tableVars, failed>>
           \/ \E p \in Registered :
                IF MayUnregister(z) /\ MayUnregister(p) /\ cnt >= Cardinality({z, p})
                THEN WithoutZones({z, p}) /\ UNCHANGED failed
                ELSE failed' = TRUE /\ UNCHANGED tableVars
  /\ UNCHANGED <<nbzones, nscan>>

EndScan ==
  /\ Scanning /\ ~failed /\ zix >= nbzones
  /\ zix' = 0
  /\ UNCHANGED <<tableVars, nbzones, nscan, failed>>

Scan == SkipFree \/ VisitZone \/ EndScan

Next == \/ \E z \in Zones : Register(z) \/ Unregister(z)
        \/ BeginScan \/ Scan

Spec == Init /\ [][Next]_vars

\* A scan is one call of every_zone.
FairSpec == Spec /\ WF_vars(Scan)

-----------------------------------------------------------------------------
(* Properties.                                                             *)

\* Every field has a value of its type, and the vector has a slot for each rank.
TypeOK ==
  /\ size \in Nat \ {0} /\ zonvec \in [Ranks -> Zones \cup {NoZone}]
  /\ rank \in [Zones -> Nat] /\ cnt \in Nat
  /\ zix \in Nat /\ nbzones \in Nat /\ failed \in BOOLEAN /\ nscan \in Nat

\* A zone is in the table at its own rank and nowhere else, whatever probes,
\* deletions and scans came before: register_in_zonevec never takes the rank of
\* another zone and unregister_in_zonevec never leaves a pointer to a freed one.
RanksRight ==
  \A i \in Ranks : zonvec[i] # NoZone => rank[zonvec[i]] = i /\ i > 0

\* A zone that has a rank is found at it.
RanksHeld == \A z \in Zones : rank[z] > 0 => rank[z] \in Ranks /\ zonvec[rank[z]] = z

\* qz_cnt counts the zones of the table, deletions during a scan included, and
\* stays below its size, as unregister_in_zonevec asserts.
CountRight == cnt = Cardinality(Registered) /\ cnt < size

\* No assertion of the table fails, inside a scan or out of it.
NoAssertFails == ~failed

\* The zones the scan has still to give to its function.
Unvisited ==
  {zonvec[i] : i \in {j \in Ranks : Scanning /\ zix <= j /\ j < nbzones}} \ {NoZone}

Set == INSTANCE ZoneSet WITH
  zones <- Registered, scanning <- Scanning, todo <- Unvisited

\* The scan of a vector that loses zones under it is the scan of a set: every zone
\* that was there when it began and that nothing deleted is visited, once.
ScansTheSet == Set!Spec

\* every_zone returns, for it does not look at ranks added behind its back.
ScanEnds == Scanning ~> ~Scanning
==============================================================================
