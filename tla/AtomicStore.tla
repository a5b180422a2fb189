----------------------------- MODULE AtomicStore -----------------------------
(***************************************************************************)
(* What the persistent store promises, without files: a dump takes the     *)
(* memory as it was when the dump began and makes it the saved heap in one *)
(* step; a program that was stopped starts again from the saved heap.      *)
(* While files are being replaced, and after a failure then, the saved     *)
(* heap is Unknown until a later dump is completed.                        *)
(***************************************************************************)
CONSTANTS
  Unknown,          \* no snapshot to speak of
  Reloaded(_)       \* what is loaded from a saved heap

VARIABLES
  up,     \* the program runs
  mem,    \* the persistent part of its memory
  shot,   \* the memory at the start of the last dump, or Unknown
  saved   \* the heap that the next start will load, or Unknown

vars == <<up, mem, shot, saved>>

Init == up = TRUE /\ saved = mem /\ shot = Unknown

\* The program changes its memory, perhaps under the nose of the dump.
Change == /\ up /\ shot' \in {shot, Unknown}
          /\ UNCHANGED <<up, saved>>

Begin == /\ up /\ shot' = mem
         /\ UNCHANGED <<up, mem, saved>>

\* A write went wrong and nobody noticed, or the dump is over.
Forget == shot' = Unknown /\ UNCHANGED <<up, mem, saved>>

Open == up /\ saved' = Unknown /\ UNCHANGED <<up, mem, shot>>

\* The dump is completed; what it saves is what it found at its start.
Commit == up /\ saved' = shot /\ UNCHANGED <<up, mem, shot>>

Crash == up /\ ~up' /\ shot' = Unknown /\ UNCHANGED saved

Load == /\ ~up /\ up'
        /\ saved # Unknown => mem' = Reloaded(saved)
        /\ UNCHANGED <<shot, saved>>

Next == Change \/ Begin \/ Forget \/ Open \/ Commit \/ Crash \/ Load

Spec == Init /\ [][Next]_vars
=============================================================================
