----------------------------- MODULE MCZoneTable -----------------------------
(* A small instance of ZoneTable: ranks are looked for in any table of more  *)
(* than InitialSize ranks, and the probes of two ranks do not reach them all.*)
EXTENDS ZoneTable

CONSTANTS z1, z2, z3, z4

FourZones == {z1, z2, z3, z4}
==============================================================================
