-------------------------------- MODULE Store --------------------------------
(***************************************************************************)
(* The persistent store of RefPerSys, and the memory it is a copy of: what *)
(* dump_rps.cc writes and load_rps.cc reads.                               *)
(*                                                                         *)
(* An object holds references: attribute values, components, and those a   *)
(* loader needs (class, superclass, symbol of a class, selectors of its    *)
(* methods, elements of an object vector).  A value is an object (or a     *)
(* closure, which is stored and read back likewise), a set or tuple of     *)
(* objects, or a double.  An object that has no space is transient.  Keys  *)
(* and other payload contents behave as attribute values that are objects. *)
(* The objects that are spaces are left out: the initial space keeps them. *)
(*                                                                         *)
(* A file is named by its path: the generated roots, the manifest, or one  *)
(* per space.  Dumps go to the directory the program was loaded from; in   *)
(* any other, the second dump is refused (create_directories, 1584).       *)
(***************************************************************************)
EXTENDS Naturals, Sequences, FiniteSets

CONSTANTS
  Objects,
  SpaceSeq,      \* the spaces, in the order of their oids
  NoSpace,       \* the null space of a transient object
  NoFile,        \* no file of that name
  Unknown,       \* no snapshot
  Fillings,      \* the references the program may put, with their object
  FirstRefs, FirstSpace, FirstRoots,   \* the heap of the repository's own store
  MaxChanges, MaxDumps, MaxShorts      \* bounds

Spaces == {SpaceSeq[i] : i \in DOMAIN SpaceSeq}
Places    == {"attr", "comp", "need"}
Reference ==
  {c \in [place : Places, kind : {"object", "set", "double"}, to : SUBSET Objects] :
     /\ c.place = "need" => c.kind = "object"
     /\ c.kind = "object" => \A x, y \in c.to : x = y}

Gen      == "generated/rps-roots.hh"
Manifest == "rps_manifest.json"

\* What files may hold: a space file, the generated roots, the manifest.
Contents   == UNION {[D -> SUBSET Reference] : D \in SUBSET Objects}
SpaceFiles == [nb : Nat, obs : Contents, cut : BOOLEAN]
GenFiles   == [roots : SUBSET Objects, cut : BOOLEAN]
Manifests  == [spaces : SUBSET Spaces, roots : SUBSET Objects, cut : BOOLEAN]

\* The repository's own store keeps no reference to a transient object, and neither
\* a set as attribute value nor a null where the loader needs an object.
FirstPersistent == {o \in Objects : FirstSpace[o] # NoSpace}

ASSUME StoreAssumption ==
  /\ IsFiniteSet(Objects) /\ SpaceSeq \in Seq(Spaces)
  /\ Gen \notin Spaces /\ Manifest \notin Spaces
  /\ Fillings \subseteq [of : Objects, ref : Reference]
  /\ \A f \in Fillings : f.ref.kind = "object" => f.ref.to # {}
  /\ FirstRefs \in [Objects -> SUBSET Reference]
  /\ FirstSpace \in [Objects -> Spaces \cup {NoSpace}]
  /\ FirstRoots \subseteq FirstPersistent /\ FirstRoots # {}
  /\ \A o \in FirstPersistent : \A c \in FirstRefs[o] :
       /\ c.to \subseteq FirstPersistent
       /\ c.place = "attr" => c.kind # "set"
       /\ c.place = "need" => c.to # {}
  /\ NoSpace \notin Spaces /\ MaxChanges \in Nat /\ MaxDumps \in Nat
  /\ MaxShorts \in Nat
  /\ NoFile \notin SpaceFiles /\ NoFile \notin GenFiles /\ NoFile \notin Manifests

VARIABLES
  refs, space, roots,     \* the memory: ob_attrs and ob_comps, ob_space, root set
  pc,                     \* where the main thread is in a dump, "idle" or "down"
  seen, toscan,           \* du_mapobjects, du_scanque
  members,                \* du_spacemap
  temp,                   \* the files with the temporary suffix of this dump
  disk, bak, bak2,        \* the files, those with ~ and those with ~~
  binary,                 \* the roots compiled in the program
  changes, dumps, shorts, \* how many so far: shorts are writes that fail
  shot,                   \* history: the memory when the dump started
  whole,                  \* history: disk is all of the last dump, none failed
  good, tries             \* history: the last whole store, renamings begun since

memVars  == <<refs, space, roots>>
scanVars == <<seen, toscan, members>>
diskVars == <<disk, bak, bak2>>
histVars == <<whole, good, tries>>
vars == <<memVars, scanVars, diskVars, histVars, pc, temp, binary, changes, dumps, shorts, shot>>

PathSeq  == <<Gen>> \o SpaceSeq \o <<Manifest>>   \* the order of du_openedpathset
Paths    == {PathSeq[i] : i \in DOMAIN PathSeq}
NoFiles  == [p \in Paths |-> NoFile]

\* The objects reached from the objects rs by way of the references of map f.
Reached(f, rs) ==
  {o \in DOMAIN f : \A S \in SUBSET DOMAIN f :
     /\ rs \cap DOMAIN f \subseteq S
     /\ \A x \in S : \A c \in f[x] : c.to \cap DOMAIN f \subseteq S
     => o \in S}

\* The part of a heap that can be reached.
Trim(f, sp, rs) ==
  LET live == Reached(f, rs) IN
    [refs |-> [o \in live |-> f[o]], space |-> [o \in live |-> sp[o]], roots |-> rs]

Persistent == {o \in Objects : space[o] # NoSpace}

\* dump_json_content: a reference to a transient object is skipped, or written as a
\* null that does no harm; where the loader needs an object the null stays, a
\* reference to nothing.  A set keeps its other elements.
Written(o) ==
  {[c EXCEPT !.to = @ \cap Persistent] :
     c \in {x \in refs[o] : x.kind = "object" /\ x.place # "need" => x.to \subseteq Persistent}}

\* The memory as a dump ought to save it.
Snapshot == Trim([o \in Persistent |-> Written(o)], space, roots)

\* A space file: nbobjects of its prologue, its objects, and whether the last of
\* them is incomplete.
SpaceFile(obs) == [nb |-> Cardinality(DOMAIN obs), obs |-> obs, cut |-> FALSE]
GenFile        == [roots |-> roots, cut |-> FALSE]
\* Mutant: the manifest names the roots the program was compiled with.
ManifestCompiled == [spaces |-> {s \in Spaces : members[s] # {}}, roots |-> binary,
                     cut |-> FALSE]

ManifestFile   == [spaces |-> {s \in Spaces : members[s] # {}}, roots |-> roots,
                   cut |-> FALSE]

\* What is left of a space file when its end could not be written.
Shortened(f) ==
  {[nb |-> f.nb, obs |-> [o \in T |-> f.obs[o]], cut |-> b] :
     T \in SUBSET DOMAIN f.obs, b \in BOOLEAN}
    \ {f, [nb |-> f.nb, obs |-> <<>>, cut |-> TRUE]}

InSpace(s) == {o \in Objects : FirstSpace[o] = s}
FirstDisk ==
  [p \in Paths |->
     CASE p = Gen      -> [roots |-> FirstRoots, cut |-> FALSE]
       [] p = Manifest -> [spaces |-> {s \in Spaces : InSpace(s) # {}},
                           roots |-> FirstRoots, cut |-> FALSE]
       [] OTHER -> IF InSpace(p) = {} THEN NoFile
                   ELSE SpaceFile([o \in InSpace(p) |-> FirstRefs[o]])]

\* A program that has just loaded the store of the repository.
Init ==
  /\ refs = FirstRefs /\ space = FirstSpace /\ roots = FirstRoots
  /\ pc = "idle" /\ seen = {} /\ toscan = {} /\ members = [s \in Spaces |-> {}]
  /\ temp = NoFiles /\ disk = FirstDisk /\ bak = NoFiles /\ bak2 = NoFiles
  /\ binary = FirstRoots /\ changes = 0 /\ dumps = 0 /\ shorts = 0
  /\ shot = Unknown /\ whole = TRUE /\ good = FirstDisk /\ tries = 0

-----------------------------------------------------------------------------
(* The program changes its memory: other threads, and the method of selector *)
(* generate_code that the dump itself calls after it has written the spaces. *)

Dumping == pc \in {"scan", "spaces", "gen", "manifest"}

Change ==
  /\ pc # "down" /\ changes < MaxChanges
  /\ changes' = changes + 1
  /\ shot' = IF Dumping THEN Unknown ELSE shot
  /\ UNCHANGED <<pc, scanVars, temp, diskVars, histVars, binary, dumps, shorts>>

\* put_attr with a new key, append_comp1.
Put(f) ==
  /\ Change
  /\ refs' = [refs EXCEPT ![f.of] = @ \cup {f.ref}]
  /\ UNCHANGED <<space, roots>>

\* remove_attr.
Remove(o) ==
  /\ Change
  /\ \E c \in refs[o] : c.place = "attr" /\ refs' = [refs EXCEPT ![o] = @ \ {c}]
  /\ UNCHANGED <<space, roots>>

\* put_space: of a new object, and by make_named_class of the symbol it found,
\* whatever space that one had.  (The same space again changes nothing here.)
PutSpace(o, s) ==
  /\ Change
  /\ space[o] # s
  /\ space' = [space EXCEPT ![o] = s]
  /\ UNCHANGED <<refs, roots>>

\* rps_add_root_object, of any object, be it transient.
AddRoot(o) ==
  /\ Change
  /\ roots' = roots \cup {o}
  /\ UNCHANGED <<refs, space>>

Mutate == \/ \E f \in Fillings : Put(f)
          \/ \E o \in Objects, s \in Spaces : PutSpace(o, s)
          \/ \E o \in Objects : Remove(o) \/ AddRoot(o)

NoMemory == /\ refs' = [o \in Objects |-> {}]
            /\ space' = [o \in Objects |-> NoSpace]
            /\ roots' = {}

\* The Rps_Dumper is gone; the files with its temporary suffix are never used.
NoDumper == /\ seen' = {} /\ toscan' = {} /\ members' = [s \in Spaces |-> {}]
            /\ temp' = NoFiles /\ shot' = Unknown

\* The process ends at any time: killed, a fatal error, or its normal end.
Crash ==
  /\ pc # "down"
  /\ pc' = "down" /\ NoMemory /\ NoDumper
  /\ UNCHANGED <<diskVars, histVars, binary, changes, dumps, shorts>>
=============================================================================
