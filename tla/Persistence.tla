----------------------------- MODULE Persistence -----------------------------
(* The dumper, the loader and a program that changes its heap, stops at any  *)
(* moment and starts again.                                                  *)
EXTENDS Dumper, Loader

Next == StartDump \/ Dump \/ DumpFails \/ Mutate \/ Crash \/ Load \/ Rebuild

Spec == Init /\ [][Next]_vars

\* The dump is one function call of the main thread: it goes on once started.
FairSpec == Spec /\ WF_vars(Dump)
-----------------------------------------------------------------------------
(* Properties.                                                               *)

FileTypes(d) ==
  /\ DOMAIN d = Paths
  /\ \A s \in Spaces : d[s] # NoFile =>
       /\ DOMAIN d[s].obs \subseteq Objects /\ d[s].nb \in Nat /\ d[s].cut \in BOOLEAN
       /\ \A o \in DOMAIN d[s].obs : d[s].obs[o] \subseteq Reference
  /\ d[Gen] # NoFile => d[Gen].roots \subseteq Objects
  /\ d[Manifest] # NoFile =>
       d[Manifest].roots \subseteq Objects /\ Listed(d) \subseteq Spaces

\* Every variable stays in its type; only persistent objects are scanned or put in
\* a space file.
TypeOK ==
  /\ refs \in [Objects -> SUBSET Reference]
  /\ space \in [Objects -> Spaces \cup {NoSpace}]
  /\ roots \subseteq Objects
  /\ pc \in {"down", "idle", "scan", "spaces", "gen", "manifest", "rename"}
  /\ toscan \subseteq seen /\ seen \subseteq Persistent
  /\ members \in [Spaces -> SUBSET seen]
  /\ FileTypes(temp) /\ FileTypes(disk) /\ FileTypes(bak) /\ FileTypes(bak2)
  /\ binary \subseteq Objects
  /\ changes \in 0 .. MaxChanges /\ dumps \in 0 .. MaxDumps
  /\ shorts \in 0 .. MaxShorts /\ whole \in BOOLEAN /\ tries \in 0 .. MaxDumps

\* The heap that the files describe.
Stored == Trim([o \in Known(disk) |-> disk[Home(disk, o)].obs[o]],
               [o \in Known(disk) |-> Home(disk, o)], disk[Manifest].roots)

\* What of a saved heap lets it be loaded again: its roots are among its objects,
\* and no reference of them is one that the loader refuses.
RootsSaved(s) == s.roots \subseteq DOMAIN s.refs
Readable(s)   == \A o \in DOMAIN s.refs : \A c \in s.refs[o] : ~Refused(c)

\* A store left by a complete dump can be loaded by the program compiled with the
\* roots it generated exactly when the heap it saved had no transient root, no
\* transient object where the loader needs one, and no set or tuple as attribute
\* value.  Nothing else spoils it: no dangling reference, no object twice or
\* missing, whatever dumps were interrupted before.
StoreSound ==
  whole => (Loads(disk, Cardinality(disk[Gen].roots))
            <=> RootsSaved(Stored) /\ Readable(Stored))

\* The dump that a crash, a failed write or a change of the heap spoils does not
\* take the last good store away: each file of it is there, under its name or a
\* backup's, until a third renaming starts.
OldCopyKept ==
  tries <= 2 =>
    \A p \in Paths : good[p] # NoFile => good[p] \in {disk[p], bak[p], bak2[p]}

\* What is loaded from a saved heap: sets and tuples are lost.
AfterLoad(s) == Trim([o \in DOMAIN s.refs |-> Read(s.refs[o])], s.space, s.roots)

\* A dump is atomic as long as no file is renamed: what can be loaded then is what
\* the last complete dump found in memory when it started, however many dumps,
\* failures and crashes came in between (refinement of AtomicStore).
Atomic == INSTANCE AtomicStore WITH
            up <- pc # "down",
            mem <- Snapshot,
            saved <- IF whole THEN Stored ELSE Unknown,
            Reloaded <- AfterLoad
StoreIsAtomic == Atomic!Spec

\* A dump ends, cycles of references notwithstanding: scanning reaches a fixpoint.
DumpEnds == (pc \notin {"idle", "down"}) ~> (pc \in {"idle", "down"})

-----------------------------------------------------------------------------
(* What comments and the store's format promise, and the code does not do.   *)

\* "attribute = { string } { double } { set } { tuple }": sets and tuples may be
\* attribute values; a complete store that has some can be loaded, if its roots
\* and the objects the loader needs are there.
DumpedStoreLoads ==
  whole /\ RootsSaved(Stored)
    /\ (\A o \in DOMAIN Stored.refs : \A c \in Stored.refs[o] : c.place = "need" => c.to # {})
  => Loads(disk, Cardinality(disk[Gen].roots))
=============================================================================
