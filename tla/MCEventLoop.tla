----------------------------- MODULE MCEventLoop -----------------------------
(* Small instances of the event loop for TLC.                               *)
EXTENDS EventLoop

CONSTANT p1
=============================================================================
