------------------------------ MODULE MCRegistry ------------------------------
(* A small instance of Registry: two threads, two names, three calls.  A call  *)
(* makes two objects at most, so that there are zones and ids enough; the low  *)
(* half of an id is truncated, as in the program, where it may become 0.       *)
EXTENDS Registry

CONSTANTS t1, t2, n1, n2

TwoThreads == {t1, t2}
TwoNames   == {n1, n2}
FiveZones  == 1 .. 5
===============================================================================
