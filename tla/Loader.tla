------------------------------- MODULE Loader -------------------------------
(***************************************************************************)
(* rps_load_from and Rps_Loader (load_rps.cc).  Loading reads files that   *)
(* nothing else touches, in one thread, before the program does anything:  *)
(* it is one step, which fails (a fatal error) when a check does.          *)
(***************************************************************************)
EXTENDS Store

Listed(d) == d[Manifest].spaces

\* parse_manifest_file.
ManifestOK(d) == d[Manifest] # NoFile /\ ~d[Manifest].cut

\* The prologue is parsed only when the first object comes: a file that ends
\* before it is taken for an empty one.
CountOK(f) == DOMAIN f.obs = {} \/ Cardinality(DOMAIN f.obs) = f.nb

\* first_pass_space of every listed space: an object in two files is fatal.
FirstPassOK(d) ==
  /\ \A s \in Listed(d) : d[s] # NoFile /\ CountOK(d[s])
  /\ \A s, t \in Listed(d) : s # t => DOMAIN d[s].obs \cap DOMAIN d[t].obs = {}

Known(d) == UNION {DOMAIN d[s].obs : s \in Listed(d)}

Home(d, o) == CHOOSE s \in Listed(d) : o \in DOMAIN d[s].obs

\* Sets, tuples and instances are read as null (the size tested is still 0, and
\* the member names differ from the written ones); loader_put_attr asserts that
\* a value is not null.  The constructor of Rps_ObjectRef throws on a null.
Refused(c) == \/ c.kind = "set" /\ c.place = "attr"
              \/ c.place = "need" /\ c.to = {}
Read(cs)   == {c \in cs : c.kind # "set"}

\* second_pass_space: every reference must be to a known object.
ObjectOK(d, cs) ==
  /\ \A c \in cs : ~Refused(c)
  /\ \A c \in Read(cs) : c.to \subseteq Known(d)
SecondPassOK(d) ==
  \A s \in Listed(d) :
    ~d[s].cut /\ \A o \in DOMAIN d[s].obs : ObjectOK(d, d[s].obs[o])

\* load_install_roots: every root is known, and there are RPS_NB_ROOT_OB of them.
RootsOK(d, nb) == /\ d[Manifest].roots \subseteq Known(d)
                  /\ Cardinality(d[Manifest].roots) = nb

Loads(d, nb) == ManifestOK(d) /\ FirstPassOK(d) /\ SecondPassOK(d) /\ RootsOK(d, nb)

Load ==
  /\ pc = "down" /\ Loads(disk, Cardinality(binary))
  /\ pc' = "idle"
  /\ refs' = [o \in Objects |->
                IF o \in Known(disk) THEN Read(disk[Home(disk, o)].obs[o]) ELSE {}]
  /\ space' = [o \in Objects |->
                IF o \in Known(disk) THEN Home(disk, o) ELSE NoSpace]
  /\ roots' = disk[Manifest].roots
  /\ UNCHANGED <<scanVars, temp, diskVars, histVars, binary, changes, dumps,
                 shorts, shot>>

\* make: the program is compiled with the generated roots.
Rebuild ==
  /\ pc = "down" /\ disk[Gen] # NoFile /\ ~disk[Gen].cut
  /\ binary' = disk[Gen].roots
  /\ UNCHANGED <<memVars, pc, scanVars, temp, diskVars, histVars, changes, dumps,
                 shorts, shot>>
=============================================================================
