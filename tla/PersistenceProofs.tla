-------------------------- MODULE PersistenceProofs --------------------------
(* Proofs about the persistent store, for every heap, number of spaces,      *)
(* dumps and failures.                                                       *)
EXTENDS Persistence, FiniteSetTheorems, TLAPS

\* A directory: a file or no file at every path.
Directory(d) == d = [p \in Paths |-> d[p]]
Directories == /\ Directory(temp) /\ Directory(disk) /\ Directory(bak)
               /\ Directory(bak2) /\ Directory(good)

\* The paths of a dump.
LEMMA PathFacts == Gen \in Paths /\ Manifest \in Paths /\ Spaces \subseteq Paths
<1>1. <<Gen>> \in Seq({Gen}) /\ <<Manifest>> \in Seq({Manifest})
  OBVIOUS
<1>2. DOMAIN PathSeq = 1 .. (Len(SpaceSeq) + 2)
  BY StoreAssumption DEF PathSeq
<1>3. PathSeq[1] = Gen /\ PathSeq[Len(SpaceSeq) + 2] = Manifest
  BY StoreAssumption DEF PathSeq
<1>4. \A i \in DOMAIN SpaceSeq : PathSeq[i + 1] = SpaceSeq[i]
  BY StoreAssumption DEF PathSeq
<1>5. Len(SpaceSeq) \in Nat /\ DOMAIN SpaceSeq = 1 .. Len(SpaceSeq)
  BY StoreAssumption
<1>6. \A i \in DOMAIN SpaceSeq : i + 1 \in DOMAIN PathSeq
  BY <1>2, <1>5
<1> QED BY <1>2, <1>3, <1>4, <1>5, <1>6 DEF Paths, Spaces

\* Replacing one entry of a directory.
LEMMA Replace ==
  ASSUME NEW d, Directory(d), NEW p \in Paths, NEW f
  PROVE  /\ Directory([d EXCEPT ![p] = f])
         /\ [d EXCEPT ![p] = f][p] = f
         /\ \A q \in Paths : q # p => [d EXCEPT ![p] = f][q] = d[q]
  BY DEF Directory

-----------------------------------------------------------------------------
(* The last good store is kept.                                              *)

\* Path p waits for its renaming.
Waits(p) == pc = "rename" /\ temp[p] # NoFile

\* How far the renamings begun since the last whole store may have moved its file
\* at path p.  One renaming shifts the backups of p at most once, and only while a
\* file is there under the name itself.
Kept(p) ==
  good[p] # NoFile =>
    /\ tries = 0 => disk[p] = good[p]
    /\ tries = 1 => /\ good[p] \in {disk[p], bak[p]}
                    /\ Waits(p) /\ disk[p] # NoFile => disk[p] = good[p]
    /\ tries = 2 => /\ good[p] \in {disk[p], bak[p], bak2[p]}
                    /\ Waits(p) /\ disk[p] # NoFile /\ bak[p] # NoFile
                         => good[p] \in {disk[p], bak[p]}

KeptInv == /\ Directories /\ tries \in Nat
           /\ tries = 0 /\ pc = "rename" => Pending = {}
           /\ \A p \in Paths : Kept(p)

\* A store nobody renamed anything of is where it was.
LEMMA KeptInit == Init => KeptInv
  BY DEF Init, KeptInv, Kept, Waits, Directories, Directory, NoFiles, FirstDisk

\* Steps outside of a renaming.
LEMMA KeptOutside ==
  ASSUME KeptInv, UNCHANGED <<diskVars, good, tries>>, Directory(temp'), pc' # "rename"
  PROVE  KeptInv'
  BY DEF KeptInv, Kept, Waits, Directories, Directory, diskVars

\* Each renaming of a file keeps what is left of the good store.
LEMMA KeptRename ==
  ASSUME KeptInv, NEW p \in Paths, Shift(p) \/ Backup(p) \/ Install(p)
  PROVE  KeptInv'
<1> USE DEF KeptInv, Directories, histVars
<1>1. pc = "rename" /\ temp[p] # NoFile /\ Waits(p) /\ tries # 0
  BY DEF Shift, Backup, Install, Renaming, Pending, Waits
<1>2. CASE Shift(p)
  <2>1. /\ bak' = [bak EXCEPT ![p] = NoFile] /\ bak2' = [bak2 EXCEPT ![p] = bak[p]]
        /\ disk[p] # NoFile /\ bak[p] # NoFile
        /\ UNCHANGED <<pc, temp, disk, good, tries>>
    BY <1>2 DEF Shift
  <2>2. Directory(bak') /\ bak'[p] = NoFile /\ Directory(bak2') /\ bak2'[p] = bak[p]
    BY <2>1 DEF Directory
  <2>3. \A q \in Paths : q # p => bak'[q] = bak[q] /\ bak2'[q] = bak2[q]
    BY <2>1, Replace
  <2>4. Kept(p)'
    BY <1>1, <2>1, <2>2 DEF Kept, Waits
  <2>5. \A q \in Paths : Kept(q)'
    BY <2>1, <2>3, <2>4 DEF Kept, Waits
  <2> QED BY <1>1, <2>1, <2>2, <2>5 DEF Directory
<1>3. CASE Backup(p)
  <2>1. /\ bak' = [bak EXCEPT ![p] = disk[p]] /\ disk' = [disk EXCEPT ![p] = NoFile]
        /\ disk[p] # NoFile /\ bak[p] = NoFile
        /\ UNCHANGED <<pc, temp, bak2, good, tries>>
    BY <1>3 DEF Backup
  <2>2. Directory(bak') /\ bak'[p] = disk[p] /\ Directory(disk') /\ disk'[p] = NoFile
    BY <2>1 DEF Directory
  <2>3. \A q \in Paths : q # p => bak'[q] = bak[q] /\ disk'[q] = disk[q]
    BY <2>1, Replace
  <2>4. Kept(p)'
    BY <1>1, <2>1, <2>2 DEF Kept, Waits
  <2>5. \A q \in Paths : Kept(q)'
    BY <2>1, <2>3, <2>4 DEF Kept, Waits
  <2> QED BY <1>1, <2>1, <2>2, <2>5 DEF Directory
<1>4. CASE Install(p)
  <2>1. /\ disk' = [disk EXCEPT ![p] = temp[p]] /\ temp' = [temp EXCEPT ![p] = NoFile]
        /\ disk[p] = NoFile /\ UNCHANGED <<pc, bak, bak2>>
        /\ whole' = (Pending = {p} /\ shot # Unknown)
        /\ good' = IF whole' THEN disk' ELSE good
        /\ tries' = IF whole' THEN 0 ELSE tries
    BY <1>4 DEF Install
  <2>2. Directory(disk') /\ Directory(temp') /\ temp'[p] = NoFile
    BY <2>1 DEF Directory
  <2>3. \A q \in Paths : q # p => disk'[q] = disk[q] /\ temp'[q] = temp[q]
    BY <2>1, Replace
  <2>4. CASE whole'
    <3>1. Pending' = {}
      BY <2>1, <2>2, <2>3, <2>4 DEF Pending
    <3>2. \A q \in Paths : Kept(q)'
      BY <2>1, <2>4 DEF Kept
    <3> QED BY <2>1, <2>2, <2>4, <3>1, <3>2 DEF Directory
  <2>5. CASE ~whole'
    <3>1. good' = good /\ tries' = tries
      BY <2>1, <2>5
    <3>2. Kept(p)'
      BY <1>1, <2>1, <2>2, <3>1 DEF Kept, Waits
    <3>3. \A q \in Paths : Kept(q)'
      BY <2>1, <2>3, <3>1, <3>2 DEF Kept, Waits
    <3> QED BY <1>1, <2>1, <2>2, <3>1, <3>3 DEF Directory
  <2> QED BY <2>4, <2>5
<1> QED BY <1>2, <1>3, <1>4

\* Every step keeps it.
LEMMA KeptStep == KeptInv /\ [Next]_vars => KeptInv'
<1> SUFFICES ASSUME KeptInv, [Next]_vars PROVE KeptInv'
  OBVIOUS
<1>1. Directory(temp) /\ Directory(NoFiles)
  BY DEF KeptInv, Directories, Directory, NoFiles
<1>2. CASE UNCHANGED vars
  BY <1>2 DEF vars, diskVars, histVars, KeptInv, Kept, Waits, Directories, Directory, Pending
<1>3. CASE StartDump \/ DumpFails \/ Fatal \/ EndDump \/ Crash
  BY <1>1, <1>3, KeptOutside
     DEF StartDump, DumpFails, Fatal, EndDump, Crash, NoDumper, histVars, diskVars
<1>4. CASE EndScan \/ EndSpaces \/ Load \/ \E o \in Objects : ScanOne(o)
  BY <1>1, <1>4, KeptOutside DEF EndScan, EndSpaces, Load, ScanOne, histVars
<1>5. CASE Mutate \/ Rebuild
  <2>1. UNCHANGED <<pc, temp, diskVars, histVars>>
    BY <1>5 DEF Mutate, Put, Remove, PutSpace, AddRoot, Change, Rebuild
  <2> QED BY <2>1 DEF diskVars, histVars, KeptInv, Kept, Waits, Directories, Directory, Pending
<1>6. ASSUME NEW s \in Spaces, WriteSpace(s) PROVE KeptInv'
  <2>1. pc' = "spaces" /\ UNCHANGED <<diskVars, good, tries>>
    BY <1>6 DEF WriteSpace, histVars
  <2>2. Directory(temp')
    <3>1. s \in Paths
      BY PathFacts
    <3>2. PICK f : temp' = [temp EXCEPT ![s] = f]
      BY <1>6 DEF WriteSpace, WriteFile
    <3> QED BY <1>1, <3>1, <3>2 DEF Directory
  <2> QED BY <2>1, <2>2, KeptOutside
<1>7. CASE WriteGen
  <2>1. pc' = "manifest" /\ UNCHANGED <<diskVars, good, tries>>
    BY <1>7 DEF WriteGen, histVars
  <2>2. Directory(temp')
    <3>1. Gen \in Paths
      BY PathFacts
    <3>2. PICK f : temp' = [temp EXCEPT ![Gen] = f]
      BY <1>7 DEF WriteGen, WriteFile
    <3> QED BY <1>1, <3>1, <3>2 DEF Directory
  <2> QED BY <2>1, <2>2, KeptOutside
<1>8. CASE WriteManifest
  <2>1. /\ pc = "manifest" /\ pc' = "rename" /\ tries' = tries + 1
        /\ UNCHANGED <<disk, bak, bak2, good>>
    BY <1>8 DEF WriteManifest, diskVars
  <2>2. Directory(temp')
    <3>1. Manifest \in Paths
      BY PathFacts
    <3>2. PICK f : temp' = [temp EXCEPT ![Manifest] = f]
      BY <1>8 DEF WriteManifest, WriteFile
    <3> QED BY <1>1, <3>1, <3>2 DEF Directory
  <2>3. tries \in Nat /\ tries' \in Nat /\ tries' # 0
    BY <2>1 DEF KeptInv
  <2>4. \A p \in Paths : Kept(p)'
    BY <2>1, <2>3 DEF KeptInv, Kept, Waits
  <2> QED BY <2>1, <2>2, <2>3, <2>4 DEF KeptInv, Directories, Directory
<1>9. ASSUME NEW p \in Paths, Shift(p) \/ Backup(p) \/ Install(p) PROVE KeptInv'
  BY <1>9, KeptRename
<1> QED BY <1>2, <1>3, <1>4, <1>5, <1>6, <1>7, <1>8, <1>9 DEF Next, Dump

\* Whatever crashes, failures and changes spoil the dumps after it, each file of the
\* last whole store is there, or a backup of it, until a third renaming begins.
THEOREM GoodStoreIsKept == Spec => []OldCopyKept
<1>1. KeptInv => OldCopyKept
  <2> SUFFICES ASSUME KeptInv, tries <= 2, NEW p \in Paths, good[p] # NoFile
               PROVE  good[p] \in {disk[p], bak[p], bak2[p]}
    BY DEF OldCopyKept
  <2>1. tries \in {0, 1, 2}
    BY DEF KeptInv
  <2> QED BY <2>1 DEF KeptInv, Kept
<1> QED BY <1>1, KeptInit, KeptStep, PTL DEF Spec

-----------------------------------------------------------------------------
(* Types.                                                                    *)

\* What FileTypes says of one file.
FileOK(p, f) ==
  f # NoFile =>
    /\ p \in Spaces => /\ DOMAIN f.obs \subseteq Objects /\ f.nb \in Nat
                       /\ f.cut \in BOOLEAN
                       /\ \A o \in DOMAIN f.obs : f.obs[o] \subseteq Reference
    /\ p = Gen => f.roots \subseteq Objects
    /\ p = Manifest => f.roots \subseteq Objects /\ f.spaces \subseteq Spaces

\* A directory is well typed when each of its files is.
LEMMA FileByFile ==
  ASSUME NEW d
  PROVE  FileTypes(d) <=> DOMAIN d = Paths /\ \A p \in Paths : FileOK(p, d[p])
  BY PathFacts, StoreAssumption DEF FileTypes, FileOK, Listed

\* Replacing one file by a well typed one.
LEMMA PutFile ==
  ASSUME NEW d, Directory(d), FileTypes(d), NEW p \in Paths, NEW f, FileOK(p, f)
  PROVE  FileTypes([d EXCEPT ![p] = f])
<1> DEFINE e == [d EXCEPT ![p] = f]
<1>1. DOMAIN e = Paths /\ e[p] = f /\ \A q \in Paths : q # p => e[q] = d[q]
  BY DEF Directory
<1>2. \A q \in Paths : FileOK(q, e[q])
  BY <1>1, FileByFile
<1> HIDE DEF e
<1>3. FileTypes(e)
  BY <1>1, <1>2, FileByFile
<1> QED BY <1>3 DEF e

\* No file at all is well typed.
LEMMA NoFilesTyped == FileTypes(NoFiles)
<1>1. DOMAIN NoFiles = Paths /\ \A p \in Paths : FileOK(p, NoFiles[p])
  BY DEF NoFiles, FileOK
<1> QED BY <1>1, FileByFile

\* Nothing is left of a dump outside of it; a dump begins one renaming at most.
IdleInv  == pc \in {"idle", "down"} => seen = {} /\ toscan = {}
TriesInv == /\ tries \in Nat /\ tries <= dumps
            /\ Dumping => tries < dumps
TypeInv  == TypeOK /\ Directories /\ IdleInv /\ TriesInv

MemTypes == /\ refs \in [Objects -> SUBSET Reference]
            /\ space \in [Objects -> Spaces \cup {NoSpace}]
            /\ roots \subseteq Objects
PcTypes  == pc \in {"down", "idle", "scan", "spaces", "gen", "manifest", "rename"}
ScanTypes == /\ toscan \subseteq seen /\ seen \subseteq Persistent
             /\ members \in [Spaces -> SUBSET seen]
DiskTypes == FileTypes(disk) /\ FileTypes(bak) /\ FileTypes(bak2)
CountTypes == changes \in 0 .. MaxChanges /\ dumps \in 0 .. MaxDumps
              /\ shorts \in 0 .. MaxShorts /\ tries \in 0 .. MaxDumps

\* TypeOK in parts.
LEMMA TypeParts ==
  TypeOK <=> /\ MemTypes /\ PcTypes /\ ScanTypes /\ FileTypes(temp) /\ DiskTypes
             /\ binary \subseteq Objects /\ CountTypes /\ whole \in BOOLEAN
  BY DEF TypeOK, MemTypes, PcTypes, ScanTypes, DiskTypes, CountTypes

\* And after a step.
LEMMA TypePartsNext ==
  TypeOK' <=> /\ MemTypes' /\ PcTypes' /\ ScanTypes' /\ FileTypes(temp') /\ DiskTypes'
              /\ binary' \subseteq Objects /\ CountTypes' /\ whole' \in BOOLEAN
  BY DEF TypeOK, MemTypes, PcTypes, ScanTypes, DiskTypes, CountTypes

\* What is written of an object.
LEMMA WrittenTyped ==
  ASSUME MemTypes, NEW o \in Objects
  PROVE  Written(o) \subseteq Reference
<1> SUFFICES ASSUME NEW c \in refs[o] PROVE [c EXCEPT !.to = @ \cap Persistent] \in Reference
  BY DEF Written
<1>1. c \in Reference
  BY DEF MemTypes
<1> QED BY <1>1 DEF Reference

\* The file of a space, and what a failed write leaves of it.
LEMMA SpaceFileTyped ==
  ASSUME MemTypes, NEW T \in SUBSET Objects, NEW s \in Spaces
  PROVE  LET f == SpaceFile([o \in T |-> Written(o)])
         IN  FileOK(s, f) /\ \A g \in Shortened(f) : FileOK(s, g)
<1> DEFINE m == [o \in T |-> Written(o)]
           f == SpaceFile(m)
<1>1. DOMAIN m = T /\ \A o \in T : m[o] \subseteq Reference
  BY WrittenTyped
<1>2. s # Gen /\ s # Manifest
  BY StoreAssumption
<1>3. Cardinality(T) \in Nat
  BY StoreAssumption, FS_Subset, FS_CardinalityType
<1>4. f.obs = m /\ f.nb \in Nat /\ f.cut \in BOOLEAN /\ f = [nb |-> f.nb, obs |-> f.obs, cut |-> f.cut]
  BY <1>1, <1>3 DEF SpaceFile
<1>5. FileOK(s, f)
  BY <1>1, <1>2, <1>4 DEF FileOK
<1>6. ASSUME NEW g \in Shortened(f) PROVE FileOK(s, g)
  <2>1. PICK U \in SUBSET DOMAIN f.obs, b \in BOOLEAN :
          g = [nb |-> f.nb, obs |-> [o \in U |-> f.obs[o]], cut |-> b]
    BY <1>6 DEF Shortened
  <2>2. g.obs = [o \in U |-> f.obs[o]] /\ g.cut = b /\ g.nb = f.nb
    BY <1>4, <2>1
  <2>3. DOMAIN g.obs \subseteq Objects /\ \A o \in DOMAIN g.obs : g.obs[o] \subseteq Reference
    BY <1>1, <1>4, <2>1, <2>2
  <2> QED BY <1>2, <1>4, <2>1, <2>2, <2>3 DEF FileOK
<1> QED BY <1>5, <1>6

\* The program starts with a store.
LEMMA TypeInit == Init => TypeInv
<1> SUFFICES ASSUME Init PROVE TypeInv
  OBVIOUS
<1>1. MemTypes
  BY StoreAssumption DEF Init, MemTypes, Persistent, FirstPersistent
<1>2. \A p \in Paths : FileOK(p, FirstDisk[p])
  <2> SUFFICES ASSUME NEW p \in Paths, FirstDisk[p] # NoFile PROVE FileOK(p, FirstDisk[p])
    BY DEF FileOK
  <2>1. Gen # Manifest /\ Gen \notin Spaces /\ Manifest \notin Spaces
    BY StoreAssumption DEF Gen, Manifest
  <2>2. CASE p = Gen
    BY <2>1, <2>2, StoreAssumption DEF FirstDisk, FileOK, FirstPersistent
  <2>3. CASE p = Manifest
    BY <2>1, <2>3, StoreAssumption DEF FirstDisk, FileOK, FirstPersistent
  <2>4. CASE p \notin {Gen, Manifest}
    <3>1. FirstDisk[p] = SpaceFile([o \in InSpace(p) |-> FirstRefs[o]])
      BY <2>4 DEF FirstDisk
    <3>2. InSpace(p) \subseteq Objects /\ Cardinality(InSpace(p)) \in Nat
      BY StoreAssumption, FS_Subset, FS_CardinalityType DEF InSpace
    <3>3. \A o \in InSpace(p) : FirstRefs[o] \subseteq Reference
      BY <3>2, StoreAssumption
    <3> QED BY <2>4, <3>1, <3>2, <3>3 DEF SpaceFile, FileOK
  <2> QED BY <2>2, <2>3, <2>4
<1>3. DOMAIN FirstDisk = Paths
  BY DEF FirstDisk
<1>4. FileTypes(FirstDisk)
  BY <1>2, <1>3, FileByFile
<1>5. PcTypes /\ ScanTypes /\ CountTypes
  BY StoreAssumption DEF Init, PcTypes, ScanTypes, CountTypes
<1>6. TypeOK
  BY <1>1, <1>4, <1>5, NoFilesTyped, StoreAssumption, TypeParts
     DEF Init, DiskTypes, FirstPersistent
<1> QED BY <1>6, KeptInit DEF KeptInv, Init, TypeInv, IdleInv, TriesInv, Dumping

\* Steps of the program in its memory.
LEMMA MutateTypes ==
  ASSUME TypeInv, Mutate
  PROVE  MemTypes' /\ Persistent \subseteq Persistent'
<1> USE TypeParts DEF TypeInv, MemTypes
<1>1. CASE \E f \in Fillings : Put(f)
  <2>1. PICK f \in Fillings : refs' = [refs EXCEPT ![f.of] = @ \cup {f.ref}]
    BY <1>1 DEF Put
  <2>2. f.of \in Objects /\ f.ref \in Reference
    BY StoreAssumption
  <2>3. UNCHANGED <<space, roots>>
    BY <1>1 DEF Put
  <2> QED BY <2>1, <2>2, <2>3 DEF Persistent
<1>2. CASE \E o \in Objects : Remove(o)
  BY <1>2 DEF Remove, Persistent
<1>3. CASE \E o \in Objects, s \in Spaces : PutSpace(o, s)
  BY <1>3, StoreAssumption DEF PutSpace, Persistent
<1>4. CASE \E o \in Objects : AddRoot(o)
  BY <1>4 DEF AddRoot, Persistent
<1> QED BY <1>1, <1>2, <1>3, <1>4 DEF Mutate

\* A program that stops has nothing in memory.
LEMMA StopTypes ==
  ASSUME TypeInv, NoMemory, NoDumper, pc' = "down",
         UNCHANGED <<diskVars, histVars, binary, changes, dumps, shorts>>
  PROVE  TypeInv'
<1> USE TypeParts DEF TypeInv
<1>1. MemTypes'
  BY DEF NoMemory, MemTypes, Persistent
<1>2. ScanTypes' /\ FileTypes(temp') /\ Directory(temp') /\ IdleInv'
  BY NoFilesTyped DEF NoDumper, ScanTypes, IdleInv, Directory, NoFiles
<1>3. PcTypes' /\ DiskTypes' /\ CountTypes' /\ TriesInv'
  <2>1. UNCHANGED <<disk, bak, bak2, changes, dumps, shorts, tries>> /\ pc' = "down"
    BY DEF diskVars, histVars
  <2>2. DiskTypes'
    BY <2>1 DEF DiskTypes, FileTypes, Listed
  <2> QED BY <2>1, <2>2 DEF PcTypes, CountTypes, TriesInv, Dumping
<1>4. TypeOK'
  BY <1>1, <1>2, <1>3, TypePartsNext DEF histVars
<1> QED BY <1>2, <1>3, <1>4 DEF Directories, diskVars, histVars, Directory

\* Loading gives memory the types of the files.
LEMMA LoadTypes ==
  ASSUME TypeInv, Load
  PROVE  MemTypes'
<1> USE TypeParts DEF TypeInv
<1>1. /\ DOMAIN disk = Paths /\ disk[Manifest] # NoFile /\ Listed(disk) \subseteq Spaces
      /\ \A s \in Listed(disk) : disk[s] # NoFile
      /\ disk[Manifest].roots \subseteq Known(disk)
  BY DEF Load, Loads, ManifestOK, FirstPassOK, RootsOK, DiskTypes, FileTypes
<1>2. \A o \in Known(disk) : Home(disk, o) \in Listed(disk) /\ o \in DOMAIN disk[Home(disk, o)].obs
  BY DEF Known, Home
<1>3. Known(disk) \subseteq Objects
  BY <1>1 DEF Known, DiskTypes, FileTypes
<1>4. \A o \in Known(disk) : disk[Home(disk, o)].obs[o] \subseteq Reference
  BY <1>1, <1>2 DEF DiskTypes, FileTypes
<1>5. refs' \in [Objects -> SUBSET Reference]
  BY <1>4 DEF Load, Read
<1>6. space' \in [Objects -> Spaces \cup {NoSpace}]
  BY <1>1, <1>2 DEF Load
<1> QED BY <1>1, <1>3, <1>5, <1>6 DEF Load, MemTypes

\* Every step keeps the types.
LEMMA TypeStep == TypeInv /\ [Next]_vars => TypeInv'
<1> SUFFICES ASSUME TypeInv, [Next]_vars PROVE TypeInv'
  OBVIOUS
<1> USE TypeParts, TypePartsNext, StoreAssumption DEF TypeInv, Directories
<1>1. CASE UNCHANGED vars
  <2>1. UNCHANGED <<refs, space, roots, pc, seen, toscan, members, temp, disk, bak, bak2,
                    binary, changes, dumps, shorts, whole, good, tries>>
    BY <1>1 DEF vars, memVars, scanVars, diskVars, histVars
  <2>2. MemTypes' /\ ScanTypes' /\ FileTypes(temp') /\ DiskTypes'
    BY <2>1 DEF MemTypes, ScanTypes, DiskTypes, FileTypes, Listed, Persistent
  <2> QED BY <2>1, <2>2
          DEF PcTypes, CountTypes, IdleInv, TriesInv, Dumping, Directory
<1>2. CASE Mutate
  <2>1. UNCHANGED <<pc, seen, toscan, members, temp, disk, bak, bak2, binary, dumps, shorts,
                    whole, good, tries>> /\ changes < MaxChanges /\ changes' = changes + 1
    BY <1>2 DEF Mutate, Put, Remove, PutSpace, AddRoot, Change, scanVars, diskVars, histVars
  <2>2. MemTypes' /\ ScanTypes'
    BY <1>2, <2>1, MutateTypes DEF ScanTypes
  <2>3. FileTypes(temp') /\ DiskTypes'
    BY <2>1 DEF DiskTypes, FileTypes, Listed
  <2> QED BY <2>1, <2>2, <2>3
          DEF PcTypes, CountTypes, IdleInv, TriesInv, Dumping, Directory
<1>3. CASE Crash \/ Fatal
  BY <1>3, StopTypes DEF Crash, Fatal
<1>4. CASE Load
  <2>1. UNCHANGED <<seen, toscan, members, temp, disk, bak, bak2, binary, changes, dumps,
                    shorts, whole, good, tries>> /\ pc = "down" /\ pc' = "idle"
    BY <1>4 DEF Load, scanVars, diskVars, histVars
  <2>2. MemTypes'
    BY <1>4, LoadTypes
  <2>3. ScanTypes'
    BY <2>1 DEF ScanTypes, IdleInv
  <2>4. FileTypes(temp') /\ DiskTypes'
    BY <2>1 DEF DiskTypes, FileTypes, Listed
  <2> QED BY <2>1, <2>2, <2>3, <2>4
          DEF PcTypes, CountTypes, IdleInv, TriesInv, Dumping, Directory
<1>5. CASE Rebuild
  <2>1. UNCHANGED <<refs, space, roots, pc, seen, toscan, members, temp, disk, bak, bak2,
                    changes, dumps, shorts, whole, good, tries>>
    BY <1>5 DEF Rebuild, memVars, scanVars, diskVars, histVars
  <2>2. MemTypes' /\ ScanTypes' /\ FileTypes(temp') /\ DiskTypes'
    BY <2>1 DEF MemTypes, ScanTypes, DiskTypes, FileTypes, Listed, Persistent
  <2>3. binary' \subseteq Objects
    BY <1>5 DEF Rebuild, DiskTypes, FileTypes
  <2> QED BY <2>1, <2>2, <2>3
          DEF PcTypes, CountTypes, IdleInv, TriesInv, Dumping, Directory
<1>6. CASE StartDump
  <2>1. /\ UNCHANGED <<refs, space, roots, disk, bak, bak2, binary, changes, shorts, whole,
                       good, tries>>
        /\ dumps < MaxDumps /\ dumps' = dumps + 1 /\ pc' = "scan" /\ temp' = NoFiles
        /\ seen' = roots \cap Persistent /\ toscan' = seen'
        /\ members' = [s \in Spaces |-> {}]
    BY <1>6 DEF StartDump, memVars, diskVars, histVars
  <2>2. MemTypes' /\ ScanTypes' /\ DiskTypes'
    BY <2>1 DEF MemTypes, ScanTypes, DiskTypes, FileTypes, Listed, Persistent
  <2>3. FileTypes(temp') /\ Directory(temp')
    BY <2>1, NoFilesTyped DEF Directory, NoFiles
  <2> QED BY <2>1, <2>2, <2>3
          DEF PcTypes, CountTypes, IdleInv, TriesInv, Dumping, Directory
<1>7. CASE DumpFails \/ EndDump
  <2>1. /\ UNCHANGED <<refs, space, roots, disk, bak, bak2, binary, changes, dumps, shorts,
                       whole, good, tries>>
        /\ pc' = "idle" /\ NoDumper
    BY <1>7 DEF DumpFails, EndDump, dumpVars, memVars, diskVars, histVars
  <2>2. MemTypes' /\ ScanTypes' /\ DiskTypes'
    BY <2>1 DEF MemTypes, ScanTypes, DiskTypes, FileTypes, Listed, Persistent, NoDumper
  <2>3. FileTypes(temp') /\ Directory(temp')
    BY <2>1, NoFilesTyped DEF Directory, NoFiles, NoDumper
  <2> QED BY <2>1, <2>2, <2>3
          DEF PcTypes, CountTypes, IdleInv, TriesInv, Dumping, Directory, NoDumper
<1>8. CASE EndScan \/ EndSpaces
  <2>1. UNCHANGED <<refs, space, roots, seen, toscan, members, temp, disk, bak, bak2, binary,
                    changes, dumps, shorts, whole, good, tries>>
        /\ pc \in {"scan", "spaces"} /\ pc' \in {"spaces", "gen"}
    BY <1>8 DEF EndScan, EndSpaces, dumpVars, memVars, scanVars, diskVars, histVars
  <2>2. MemTypes' /\ ScanTypes' /\ FileTypes(temp') /\ DiskTypes'
    BY <2>1 DEF MemTypes, ScanTypes, DiskTypes, FileTypes, Listed, Persistent
  <2> QED BY <2>1, <2>2
          DEF PcTypes, CountTypes, IdleInv, TriesInv, Dumping, Directory
<1>9. ASSUME NEW o \in Objects, ScanOne(o) PROVE TypeInv'
  <2>1. /\ UNCHANGED <<refs, space, roots, pc, temp, disk, bak, bak2, binary, changes, dumps,
                       shorts, whole, good, tries>>
        /\ pc = "scan" /\ o \in toscan
        /\ seen' = seen \cup Followed(o) /\ toscan' = (toscan \ {o}) \cup NewOnes(o)
        /\ members' = [members EXCEPT ![space[o]] = @ \cup {o}]
    BY <1>9 DEF ScanOne, dumpVars, memVars, diskVars, histVars
  <2>2. Followed(o) \subseteq Persistent /\ space[o] \in Spaces /\ o \in seen
    BY <2>1 DEF Followed, ScanTypes, MemTypes, Persistent
  <2>3. ScanTypes'
    BY <2>1, <2>2 DEF ScanTypes, NewOnes, Persistent
  <2>4. MemTypes' /\ FileTypes(temp') /\ DiskTypes'
    BY <2>1 DEF MemTypes, DiskTypes, FileTypes, Listed, Persistent
  <2> QED BY <2>1, <2>3, <2>4
          DEF PcTypes, CountTypes, IdleInv, TriesInv, Dumping, Directory
<1>10. CASE WriteGen \/ WriteManifest \/ \E s \in Spaces : WriteSpace(s)
  <2>1. /\ UNCHANGED <<refs, space, roots, seen, toscan, members, disk, bak, bak2, binary,
                       changes, dumps, whole, good>>
        /\ Dumping /\ pc' \in {"spaces", "manifest", "rename"}
        /\ tries' = IF pc' = "rename" THEN tries + 1 ELSE tries
    BY <1>10 DEF WriteGen, WriteManifest, WriteSpace, dumpVars, memVars, scanVars, diskVars,
                 histVars, Dumping
  <2>2. MemTypes' /\ ScanTypes' /\ DiskTypes'
    BY <2>1 DEF MemTypes, ScanTypes, DiskTypes, FileTypes, Listed, Persistent
  <2>3. shorts' \in 0 .. MaxShorts
    <3>1. PICK p, f, short : WriteFile(p, f, short)
      BY <1>10 DEF WriteGen, WriteManifest, WriteSpace
    <3>2. shorts' = shorts \/ (shorts < MaxShorts /\ shorts' = shorts + 1)
      BY <3>1 DEF WriteFile
    <3> QED BY <3>2 DEF CountTypes
  <2>4. roots \subseteq Objects
    BY DEF MemTypes, Persistent
  <2>5. Directory(temp') /\ FileTypes(temp')
    <3>1. CASE WriteGen
      <4>1. PICK b \in BOOLEAN : temp' = [temp EXCEPT ![Gen] = [roots |-> roots, cut |-> b]]
        BY <3>1 DEF WriteGen, WriteFile, GenFile
      <4>2. FileOK(Gen, [roots |-> roots, cut |-> b])
        BY <2>4 DEF FileOK, Gen, Manifest
      <4> DEFINE f == [roots |-> roots, cut |-> b]
      <4>3. Directory(temp) /\ FileTypes(temp) /\ FileOK(Gen, f) /\ Gen \in Paths
        BY <4>2, PathFacts
      <4> HIDE DEF f
      <4>4. Directory([temp EXCEPT ![Gen] = f]) /\ FileTypes([temp EXCEPT ![Gen] = f])
        BY <4>3, PutFile, Replace
      <4> QED BY <4>1, <4>4 DEF f
    <3>2. CASE WriteManifest
      <4> DEFINE S == {s \in Spaces : members[s] # {}}
      <4>1. PICK b \in BOOLEAN :
              temp' = [temp EXCEPT ![Manifest] = [spaces |-> S, roots |-> roots, cut |-> b]]
        BY <3>2 DEF WriteManifest, WriteFile, ManifestFile
      <4>2. FileOK(Manifest, [spaces |-> S, roots |-> roots, cut |-> b])
        BY <2>4 DEF FileOK, Gen, Manifest
      <4> DEFINE f == [spaces |-> S, roots |-> roots, cut |-> b]
      <4>3. Directory(temp) /\ FileTypes(temp) /\ FileOK(Manifest, f) /\ Manifest \in Paths
        BY <4>2, PathFacts
      <4> HIDE DEF f
      <4>4. Directory([temp EXCEPT ![Manifest] = f]) /\ FileTypes([temp EXCEPT ![Manifest] = f])
        BY <4>3, PutFile, Replace
      <4> QED BY <4>1, <4>4 DEF f
    <3>3. ASSUME NEW s \in Spaces, WriteSpace(s) PROVE Directory(temp') /\ FileTypes(temp')
      <4> DEFINE g == SpaceFile([o \in members[s] |-> Written(o)])
      <4>1. PICK f \in {g} \cup Shortened(g) : temp' = [temp EXCEPT ![s] = f]
        BY <3>3 DEF WriteSpace, WriteFile
      <4>2. members[s] \in SUBSET Objects
        BY DEF ScanTypes, Persistent
      <4>3. FileOK(s, f)
        BY <4>1, <4>2, SpaceFileTyped
      <4>4. s \in Paths
        BY PathFacts
      <4> HIDE DEF g
      <4>5. Directory(temp) /\ FileTypes(temp)
        OBVIOUS
      <4> QED BY <4>1, <4>3, <4>4, <4>5, PutFile, Replace
    <3> QED BY <1>10, <3>1, <3>2, <3>3
  <2>6. CountTypes' /\ TriesInv'
    BY <2>1, <2>3 DEF CountTypes, TriesInv, Dumping
  <2> QED BY <2>1, <2>2, <2>5, <2>6 DEF PcTypes, IdleInv, Directory
<1>11. ASSUME NEW p \in Paths, Shift(p) \/ Backup(p) \/ Install(p) PROVE TypeInv'
  <2>1. /\ UNCHANGED <<refs, space, roots, pc, seen, toscan, members, binary, changes, dumps,
                       shorts>>
        /\ tries' \in {0, tries} /\ pc = "rename" /\ whole' \in BOOLEAN
        /\ good' \in {good, disk'}
    BY <1>11 DEF Shift, Backup, Install, Renaming, dumpVars, memVars, scanVars, histVars
  <2>2. FileOK(p, NoFile) /\ FileOK(p, temp[p]) /\ FileOK(p, disk[p]) /\ FileOK(p, bak[p])
    BY FileByFile DEF DiskTypes, FileOK
  <2>3. FileTypes(temp') /\ Directory(temp')
    <3>1. temp' = temp \/ \E f \in {NoFile} : temp' = [temp EXCEPT ![p] = f]
      BY <1>11 DEF Shift, Backup, Install
    <3>2. Directory(temp) /\ FileTypes(temp)
      BY DEF DiskTypes
    <3>3. CASE temp' = temp
      BY <3>2, <3>3 DEF Directory
    <3>4. ASSUME NEW f \in {NoFile}, temp' = [temp EXCEPT ![p] = f]
          PROVE  FileTypes(temp') /\ Directory(temp')
      BY <2>2, <3>2, <3>4, PutFile, Replace
    <3> QED BY <3>1, <3>3, <3>4
  <2>4. FileTypes(disk') /\ Directory(disk')
    <3>1. disk' = disk \/ \E f \in {NoFile, temp[p]} : disk' = [disk EXCEPT ![p] = f]
      BY <1>11 DEF Shift, Backup, Install
    <3>2. Directory(disk) /\ FileTypes(disk)
      BY DEF DiskTypes
    <3>3. CASE disk' = disk
      BY <3>2, <3>3 DEF Directory
    <3>4. ASSUME NEW f \in {NoFile, temp[p]}, disk' = [disk EXCEPT ![p] = f]
          PROVE  FileTypes(disk') /\ Directory(disk')
      BY <2>2, <3>2, <3>4, PutFile, Replace
    <3> QED BY <3>1, <3>3, <3>4
  <2>5. FileTypes(bak') /\ Directory(bak')
    <3>1. bak' = bak \/ \E f \in {NoFile, disk[p]} : bak' = [bak EXCEPT ![p] = f]
      BY <1>11 DEF Shift, Backup, Install
    <3>2. Directory(bak) /\ FileTypes(bak)
      BY DEF DiskTypes
    <3>3. CASE bak' = bak
      BY <3>2, <3>3 DEF Directory
    <3>4. ASSUME NEW f \in {NoFile, disk[p]}, bak' = [bak EXCEPT ![p] = f]
          PROVE  FileTypes(bak') /\ Directory(bak')
      BY <2>2, <3>2, <3>4, PutFile, Replace
    <3> QED BY <3>1, <3>3, <3>4
  <2>6. FileTypes(bak2') /\ Directory(bak2')
    <3>1. bak2' = bak2 \/ \E f \in {bak[p]} : bak2' = [bak2 EXCEPT ![p] = f]
      BY <1>11 DEF Shift, Backup, Install
    <3>2. Directory(bak2) /\ FileTypes(bak2)
      BY DEF DiskTypes
    <3>3. CASE bak2' = bak2
      BY <3>2, <3>3 DEF Directory
    <3>4. ASSUME NEW f \in {bak[p]}, bak2' = [bak2 EXCEPT ![p] = f]
          PROVE  FileTypes(bak2') /\ Directory(bak2')
      BY <2>2, <3>2, <3>4, PutFile, Replace
    <3> QED BY <3>1, <3>3, <3>4
  <2>7. MemTypes' /\ ScanTypes' /\ DiskTypes' /\ Directory(good')
    BY <2>1, <2>4, <2>5, <2>6 DEF MemTypes, ScanTypes, DiskTypes, Persistent, Directory
  <2>8. CountTypes' /\ TriesInv'
    BY <2>1 DEF CountTypes, TriesInv, Dumping
  <2> QED BY <2>1, <2>3, <2>4, <2>5, <2>6, <2>7, <2>8 DEF PcTypes, IdleInv
<1> QED BY <1>1, <1>2, <1>3, <1>4, <1>5, <1>6, <1>7, <1>8, <1>9, <1>10, <1>11 DEF Next, Dump

\* Every variable of the store and the dumper stays in its type.
THEOREM TypeCorrect == Spec => []TypeOK
<1>1. TypeInv => TypeOK
  BY DEF TypeInv
<1> QED BY <1>1, TypeInit, TypeStep, PTL DEF Spec

-----------------------------------------------------------------------------
(* A dump comes nearer to its end.                                           *)

\* The phases of rps_dump_into in their order, and the end of the call.
Stage == [scan |-> 1, spaces |-> 2, gen |-> 3, manifest |-> 4, rename |-> 5,
          idle |-> 6, down |-> 6]

Smaller(S, T) == S \subseteq T /\ S # T

\* The paths still to be renamed that have a file of directory d in the way.
Held(d) == {p \in Pending : d[p] # NoFile}

\* Within a phase: one more object has been scanned, one more file written, one file
\* less is to be renamed, or one file or backup less is in its way.
Closer ==
  \/ pc = "scan" /\ Smaller(seen \ toscan, seen' \ toscan')
  \/ pc = "spaces" /\ Smaller(Pending, Pending')
  \/ pc = "rename" /\ Smaller(Pending', Pending)
  \/ pc = "rename" /\ Pending' = Pending /\ Smaller(Held(disk)', Held(disk))
  \/ /\ pc = "rename" /\ Pending' = Pending /\ Held(disk)' = Held(disk)
     /\ Smaller(Held(bak)', Held(bak))

\* Every step of a dump brings it nearer to its end, and what other threads do to the
\* heap meanwhile takes nothing of that back; objects and paths are finitely many.
\* This is what DumpEnds rests on, next to the fairness of the dump.
DumpDescends ==
  [][/\ Dump => Stage[pc] < Stage[pc'] \/ (pc' = pc /\ Closer)
     /\ ~Dump /\ pc \notin {"idle", "down"} =>
          pc' \in {"idle", "down"} \/ UNCHANGED <<pc, seen, toscan, temp, disk, bak>>]_vars

\* A file of a space is a file.
LEMMA SpaceFileIsOne ==
  ASSUME MemTypes, NEW T \in SUBSET Objects
  PROVE  LET f == SpaceFile([o \in T |-> Written(o)])
         IN  f # NoFile /\ \A g \in Shortened(f) : g # NoFile
<1> DEFINE m == [o \in T |-> Written(o)]
           n == Cardinality(T)
           f == SpaceFile(m)
<1>1. ASSUME NEW k \in Nat, NEW c \in Contents, NEW b \in BOOLEAN
      PROVE  [nb |-> k, obs |-> c, cut |-> b] # NoFile
  BY StoreAssumption DEF SpaceFiles
<1>2. n \in Nat
  BY StoreAssumption, FS_Subset, FS_CardinalityType
<1>3. ASSUME NEW U \in SUBSET Objects PROVE [U -> SUBSET Reference] \subseteq Contents
  BY DEF Contents
<1>4. DOMAIN m = T /\ m \in [T -> SUBSET Reference]
  BY WrittenTyped
<1>5. f = [nb |-> n, obs |-> m, cut |-> FALSE]
  BY <1>4 DEF SpaceFile
<1> HIDE DEF m, n
<1>6. f # NoFile
  BY <1>1, <1>2, <1>3, <1>4, <1>5
<1>7. f.nb = n /\ f.obs = m
  BY <1>5
<1> HIDE DEF f
<1>8. ASSUME NEW g \in Shortened(f) PROVE g # NoFile
  <2>1. PICK U \in SUBSET T, b \in BOOLEAN :
          g = [nb |-> n, obs |-> [o \in U |-> m[o]], cut |-> b]
    BY <1>4, <1>7, <1>8 DEF Shortened
  <2> DEFINE part == [o \in U |-> m[o]]
  <2>2. part \in [U -> SUBSET Reference]
    BY <1>4
  <2> HIDE DEF part
  <2>3. part \in Contents
    BY <1>3, <2>2
  <2>4. g = [nb |-> n, obs |-> part, cut |-> b]
    BY <2>1 DEF part
  <2> QED BY <1>1, <1>2, <2>3, <2>4
<1> QED BY <1>6, <1>8 DEF f, m

\* Scanning an object takes it off those that were seen and not scanned, for good.
LEMMA ScanIsCloser ==
  ASSUME TypeInv, NEW o \in Objects, ScanOne(o)
  PROVE  pc' = pc /\ Closer
<1>1. /\ pc = "scan" /\ pc' = pc /\ o \in toscan
      /\ seen' = seen \cup Followed(o) /\ toscan' = (toscan \ {o}) \cup NewOnes(o)
  BY DEF ScanOne
<1>2. toscan \subseteq seen
  BY DEF TypeInv, TypeOK
<1>3. NewOnes(o) = Followed(o) \ seen
  BY DEF NewOnes
<1>4. o \in seen' \ toscan' /\ o \notin seen \ toscan
  BY <1>1, <1>2, <1>3
<1>5. seen \ toscan \subseteq seen' \ toscan'
  BY <1>1, <1>3
<1> QED BY <1>1, <1>4, <1>5 DEF Closer, Smaller

\* Writing a space adds a path to be renamed.
LEMMA WriteIsCloser ==
  ASSUME TypeInv, NEW s \in Spaces, WriteSpace(s)
  PROVE  pc' = pc /\ Closer
<1> DEFINE g == SpaceFile([o \in members[s] |-> Written(o)])
<1>1. /\ pc = "spaces" /\ pc' = pc /\ temp[s] = NoFile
      /\ \E f \in {g} \cup Shortened(g) : temp' = [temp EXCEPT ![s] = f]
  BY DEF WriteSpace, WriteFile, NextSpace, Unwritten
<1>2. \A f \in {g} \cup Shortened(g) : f # NoFile
  <2>1. MemTypes /\ members[s] \in SUBSET Objects
    BY TypeParts DEF TypeInv, ScanTypes, Persistent
  <2> QED BY <2>1, SpaceFileIsOne
<1> HIDE DEF g
<1>3. PICK f \in {g} \cup Shortened(g) : temp' = [temp EXCEPT ![s] = f]
  BY <1>1
<1>4. s \in Paths /\ Directory(temp) /\ f # NoFile
  BY <1>2, <1>3, PathFacts DEF TypeInv, Directories
<1>5. temp'[s] # NoFile /\ \A q \in Paths : q # s => temp'[q] = temp[q]
  BY <1>3, <1>4, Replace
<1>6. Pending' = Pending \cup {s} /\ s \notin Pending
  BY <1>1, <1>4, <1>5 DEF Pending
<1> QED BY <1>1, <1>6 DEF Closer, Smaller

\* A renaming takes a file out of the way, or a path off those that wait.
LEMMA RenamingIsCloser ==
  ASSUME TypeInv, NEW p \in Paths, Shift(p) \/ Backup(p) \/ Install(p)
  PROVE  pc' = pc /\ Closer
<1>1. pc = "rename" /\ pc' = pc /\ p \in Pending
  BY DEF Shift, Backup, Install, Renaming
<1>2. Directory(temp) /\ Directory(disk) /\ Directory(bak)
  BY DEF TypeInv, Directories
<1>3. CASE Install(p)
  <2>1. temp' = [temp EXCEPT ![p] = NoFile]
    BY <1>3 DEF Install
  <2>2. temp'[p] = NoFile /\ \A q \in Paths : q # p => temp'[q] = temp[q]
    BY <1>2, <2>1, Replace
  <2>3. Pending' = Pending \ {p}
    BY <2>2 DEF Pending
  <2> QED BY <1>1, <2>3 DEF Closer, Smaller
<1>4. CASE Backup(p)
  <2>1. temp' = temp /\ disk[p] # NoFile /\ disk' = [disk EXCEPT ![p] = NoFile]
    BY <1>4 DEF Backup
  <2>2. disk'[p] = NoFile /\ \A q \in Paths : q # p => disk'[q] = disk[q]
    BY <1>2, <2>1, Replace
  <2>3. Pending' = Pending /\ Pending \subseteq Paths
    BY <2>1 DEF Pending
  <2>4. Held(disk)' = Held(disk) \ {p} /\ p \in Held(disk)
    BY <1>1, <2>1, <2>2, <2>3 DEF Held
  <2> QED BY <1>1, <2>3, <2>4 DEF Closer, Smaller
<1>5. CASE Shift(p)
  <2>1. temp' = temp /\ disk' = disk /\ bak[p] # NoFile /\ bak' = [bak EXCEPT ![p] = NoFile]
    BY <1>5 DEF Shift
  <2>2. bak'[p] = NoFile /\ \A q \in Paths : q # p => bak'[q] = bak[q]
    BY <1>2, <2>1, Replace
  <2>3. Pending' = Pending /\ Pending \subseteq Paths
    BY <2>1 DEF Pending
  <2>4. Held(bak)' = Held(bak) \ {p} /\ p \in Held(bak) /\ Held(disk)' = Held(disk)
    BY <1>1, <2>1, <2>2, <2>3 DEF Held
  <2> QED BY <1>1, <2>3, <2>4 DEF Closer, Smaller
<1> QED BY <1>3, <1>4, <1>5

\* A dump goes only forward, however the references run and whatever is changed, and
\* fails or ends on the way.
THEOREM DumpsDescend == Spec => DumpDescends
<1>1. TypeInv /\ [Next]_vars =>
        [/\ Dump => Stage[pc] < Stage[pc'] \/ (pc' = pc /\ Closer)
         /\ ~Dump /\ pc \notin {"idle", "down"} =>
              pc' \in {"idle", "down"} \/ UNCHANGED <<pc, seen, toscan, temp, disk, bak>>]_vars
  <2> SUFFICES ASSUME TypeInv, [Next]_vars
               PROVE  /\ Dump => Stage[pc] < Stage[pc'] \/ (pc' = pc /\ Closer)
                      /\ ~Dump /\ pc \notin {"idle", "down"} =>
                           \/ pc' \in {"idle", "down"}
                           \/ UNCHANGED <<pc, seen, toscan, temp, disk, bak>>
    OBVIOUS
  <2>1. ASSUME Dump PROVE Stage[pc] < Stage[pc'] \/ (pc' = pc /\ Closer)
    <3>1. CASE Fatal \/ EndScan \/ EndSpaces \/ WriteGen \/ WriteManifest \/ EndDump
      BY <3>1 DEF Fatal, EndScan, EndSpaces, WriteGen, WriteManifest, EndDump, Stage
    <3> QED BY <2>1, <3>1, ScanIsCloser, WriteIsCloser, RenamingIsCloser DEF Dump
  <2>2. ASSUME ~Dump, pc \notin {"idle", "down"}
        PROVE  \/ pc' \in {"idle", "down"}
               \/ UNCHANGED <<pc, seen, toscan, temp, disk, bak>>
    <3>1. DumpFails \/ Mutate \/ Crash \/ UNCHANGED vars
      BY <2>2 DEF Next, StartDump, Load, Rebuild
    <3>2. CASE DumpFails \/ Crash
      BY <3>2 DEF DumpFails, Crash
    <3>3. CASE Mutate
      BY <3>3 DEF Mutate, Put, Remove, PutSpace, AddRoot, Change, scanVars, diskVars
    <3>4. CASE UNCHANGED vars
      BY <3>4 DEF vars, scanVars, diskVars
    <3> QED BY <3>1, <3>2, <3>3, <3>4
  <2> QED BY <2>1, <2>2
<1> QED BY <1>1, TypeInit, TypeStep, PTL DEF Spec, DumpDescends
=============================================================================
