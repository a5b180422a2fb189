------------------------------- MODULE ZoneSet -------------------------------
(***************************************************************************)
(* What the zone table promises, whatever the way it gives its ranks: a    *)
(* set of zones, and a scan that gives every zone which was there when it  *)
(* began to a function, once, in any order, unless a function deleted it.  *)
(* GarbageCollector sweeps such a set; ZoneTable implements it.            *)
(***************************************************************************)
CONSTANT Zones

VARIABLES
  zones,     \* the zones of the table
  scanning,  \* whether a scan goes on, which excludes any other operation
  todo       \* the zones the scan has still to visit

vars == <<zones, scanning, todo>>

Init == zones = {} /\ scanning = FALSE /\ todo = {}

Add(z) ==
  /\ ~scanning /\ z \in Zones \ zones
  /\ zones' = zones \cup {z}
  /\ UNCHANGED <<scanning, todo>>

Remove(z) ==
  /\ ~scanning /\ z \in zones
  /\ zones' = zones \ {z}
  /\ UNCHANGED <<scanning, todo>>

Begin ==
  /\ ~scanning
  /\ scanning' = TRUE /\ todo' = zones
  /\ UNCHANGED zones

\* Visiting z deletes nothing, or z, or z and the zones its destructor deletes.
Visit(z, dead) ==
  /\ scanning /\ z \in todo
  /\ dead \subseteq zones /\ (dead = {} \/ z \in dead)
  /\ zones' = zones \ dead
  /\ todo' = todo \ ({z} \cup dead)
  /\ UNCHANGED scanning

End ==
  /\ scanning /\ todo = {}
  /\ scanning' = FALSE
  /\ UNCHANGED <<zones, todo>>

Next == \/ \E z \in Zones : Add(z) \/ Remove(z)
        \/ Begin \/ End
        \/ \E z \in Zones, dead \in SUBSET Zones : Visit(z, dead)

Spec == Init /\ [][Next]_vars
==============================================================================
