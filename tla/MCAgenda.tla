------------------------------ MODULE MCAgenda ------------------------------
(* Small instances of the agenda for TLC.                                   *)
EXTENDS Agenda, TLC

CONSTANTS t1, t2, t3

\* One tasklet, which may be added several times.
OneClosure == t1 :> "closure"

\* Two tasklets with closures of their own.
BothClosures == (t1 :> "closure") @@ (t2 :> "closure")

\* One of each kind: t2 has an empty payload, t3 no tasklet payload at all.
EveryKind == (t1 :> "closure") @@ (t2 :> "empty") @@ (t3 :> "nopayload")

\* Runs about the queues start with enough words allocated, so that no worker
\* ever asks for a collection.
InitMuch == Init /\ ~little
SpecMuch == InitMuch /\ [][Next]_vars
FairMuch == SpecMuch /\ Fairness
=============================================================================
