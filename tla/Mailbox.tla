------------------------------- MODULE Mailbox -------------------------------
(***************************************************************************)
(* What the pipe to self promises to those who postpone work, whatever the *)
(* queues in between: requests are taken in batches, none before it is     *)
(* posted and none twice, and a batch is done before the next is taken.    *)
(* While all of them fit one batch, a request is not taken before an       *)
(* earlier one is.  EventLoop implements it.                               *)
(***************************************************************************)
EXTENDS Naturals

CONSTANT Size    \* what surely fits one batch

VARIABLES
  posted,    \* how many requests were posted; each is known by its rank
  batch,     \* the requests taken and not yet done
  done       \* the requests done

vars == <<posted, batch, done>>

Init == posted = 0 /\ batch = {} /\ done = {}

Post == posted' = posted + 1 /\ UNCHANGED <<batch, done>>

Take(new) ==
  /\ batch = {} /\ new # {} /\ new \subseteq (1 .. posted) \ done
  /\ posted <= Size => \E n \in Nat : done \cup new = 1 .. n
  /\ batch' = new
  /\ UNCHANGED <<posted, done>>

Do(i) ==
  /\ i \in batch
  /\ batch' = batch \ {i} /\ done' = done \cup {i}
  /\ UNCHANGED posted

Next == \/ Post
        \/ \E new \in SUBSET (1 .. posted) : Take(new)
        \/ \E i \in batch : Do(i)

Spec == Init /\ [][Next]_vars
==============================================================================
