------------------------------ MODULE StoreProofs ------------------------------
(* The files of a complete dump are sound, and are what AtomicStore promises: *)
(* for every heap, number of spaces, dumps and failures.                      *)
EXTENDS PersistenceProofs

-----------------------------------------------------------------------------
(* The part of a heap that can be reached.                                   *)

\* What is reached is known, holds the known roots and is closed.
LEMMA ReachedClosed ==
  ASSUME NEW f, NEW rs
  PROVE  /\ Reached(f, rs) \subseteq DOMAIN f
         /\ rs \cap DOMAIN f \subseteq Reached(f, rs)
         /\ \A x \in Reached(f, rs) : \A c \in f[x] :
              c.to \cap DOMAIN f \subseteq Reached(f, rs)
  BY DEF Reached

\* The objects of a reachable part.
LEMMA TrimParts ==
  ASSUME NEW f, NEW sp, NEW rs
  PROVE  /\ DOMAIN Trim(f, sp, rs).refs = Reached(f, rs) /\ Trim(f, sp, rs).roots = rs
         /\ \A o \in Reached(f, rs) : Trim(f, sp, rs).refs[o] = f[o]
  BY DEF Trim

\* A part of a heap that holds its roots and all that its objects refer to has the
\* same reachable part.
LEMMA TrimSame ==
  ASSUME NEW f, NEW sp, NEW rs, NEW g, NEW sq,
         DOMAIN g \subseteq DOMAIN f, rs \cap DOMAIN f \subseteq DOMAIN g,
         \A o \in DOMAIN g : g[o] = f[o] /\ sq[o] = sp[o],
         \A o \in DOMAIN g : \A c \in g[o] : c.to \cap DOMAIN f \subseteq DOMAIN g
  PROVE  Trim(g, sq, rs) = Trim(f, sp, rs)
<1> DEFINE Cl(h, S) == /\ rs \cap DOMAIN h \subseteq S
                       /\ \A x \in S : \A c \in h[x] : c.to \cap DOMAIN h \subseteq S
<1>1. \A h, o : o \in Reached(h, rs) <=>
        o \in DOMAIN h /\ \A S \in SUBSET DOMAIN h : Cl(h, S) => o \in S
  BY DEF Reached
<1>2. \A S \in SUBSET DOMAIN g : Cl(g, S) => Cl(f, S)
  OBVIOUS
<1>3. \A S \in SUBSET DOMAIN f : Cl(f, S) => Cl(g, S \cap DOMAIN g)
  OBVIOUS
<1>4. Cl(f, DOMAIN g)
  OBVIOUS
<1> HIDE DEF Cl
<1>5. ASSUME NEW o \in Reached(f, rs) PROVE o \in Reached(g, rs)
  <2>1. o \in DOMAIN g
    BY <1>1, <1>4
  <2>2. \A S \in SUBSET DOMAIN g : Cl(g, S) => o \in S
    BY <1>1, <1>2
  <2> QED BY <1>1, <2>1, <2>2
<1>6. ASSUME NEW o \in Reached(g, rs) PROVE o \in Reached(f, rs)
  <2>1. o \in DOMAIN g /\ o \in DOMAIN f
    BY <1>1
  <2>2. ASSUME NEW S \in SUBSET DOMAIN f, Cl(f, S) PROVE o \in S
    <3>1. Cl(g, S \cap DOMAIN g) /\ S \cap DOMAIN g \in SUBSET DOMAIN g
      BY <1>3, <2>2
    <3>2. o \in S \cap DOMAIN g
      BY <1>1, <3>1
    <3> QED BY <3>2
  <2> QED BY <1>1, <2>1, <2>2
<1>7. Reached(f, rs) = Reached(g, rs)
  BY <1>5, <1>6
<1>8. Reached(g, rs) \subseteq DOMAIN g
  BY <1>1
<1> DEFINE L == Reached(g, rs)
<1>9. /\ [o \in L |-> g[o]] = [o \in L |-> f[o]]
      /\ [o \in L |-> sq[o]] = [o \in L |-> sp[o]]
  BY <1>8
<1> QED BY <1>7, <1>9 DEF Trim

-----------------------------------------------------------------------------
(* A directory that holds a heap.                                            *)

\* Stored, of any directory.
StoredIn(d) == Trim([o \in Known(d) |-> d[Home(d, o)].obs[o]],
                    [o \in Known(d) |-> Home(d, o)], d[Manifest].roots)

\* What the loader wants, but for roots that are not there and references it
\* refuses; only objects that are reached have the latter.
SoundIn(d) ==
  /\ ManifestOK(d) /\ FirstPassOK(d)
  /\ \A s \in Listed(d) :
       ~d[s].cut /\ \A o \in DOMAIN d[s].obs : \A c \in d[s].obs[o] : c.to \subseteq Known(d)
  /\ d[Gen].roots = d[Manifest].roots
  /\ \A o \in Known(d) : \/ o \in DOMAIN StoredIn(d).refs
                          \/ \A c \in d[Home(d, o)].obs[o] : ~Refused(c)

\* The files d describe the objects P, with references f, spaces sp and roots rs.
Describes(d, P, f, sp, rs) ==
  /\ ManifestOK(d) /\ d[Manifest].roots = rs /\ d[Gen].roots = rs
  /\ Known(d) = P
  /\ \A s \in Listed(d) :
       /\ d[s] # NoFile /\ CountOK(d[s]) /\ ~d[s].cut
       /\ \A o \in DOMAIN d[s].obs : sp[o] = s /\ d[s].obs[o] = f[o]

\* Such files hold that heap, and are sound when it has no dangling reference.
LEMMA DescribesStored ==
  ASSUME NEW d, NEW P, NEW f, NEW sp, NEW rs, DOMAIN f = P, Describes(d, P, f, sp, rs),
         \A o \in P : \A c \in f[o] : c.to \subseteq P,
         \A o \in P : o \in Reached(f, rs) \/ \A c \in f[o] : ~Refused(c)
  PROVE  StoredIn(d) = Trim(f, sp, rs) /\ SoundIn(d)
<1> USE DEF Describes
<1>1. \A s \in Listed(d) : \A o \in DOMAIN d[s].obs : o \in P
  BY DEF Known
<1>2. \A s, t \in Listed(d) : s # t => DOMAIN d[s].obs \cap DOMAIN d[t].obs = {}
  OBVIOUS
<1>3. /\ FirstPassOK(d)
      /\ \A s \in Listed(d) : \A o \in DOMAIN d[s].obs :
           \A c \in d[s].obs[o] : c.to \subseteq Known(d)
  BY <1>1, <1>2 DEF FirstPassOK
<1>4. \A o \in P : Home(d, o) \in Listed(d) /\ o \in DOMAIN d[Home(d, o)].obs
  BY DEF Known, Home
<1>5. \A o \in P : Home(d, o) = sp[o] /\ d[Home(d, o)].obs[o] = f[o]
  BY <1>4
<1> DEFINE g == [o \in Known(d) |-> d[Home(d, o)].obs[o]]
           sq == [o \in Known(d) |-> Home(d, o)]
<1>6. DOMAIN g = P /\ \A o \in P : g[o] = f[o] /\ sq[o] = sp[o]
  BY <1>5
<1> HIDE DEF g, sq
<1>7. Trim(g, sq, rs) = Trim(f, sp, rs)
  BY <1>6, TrimSame
<1>8. StoredIn(d) = Trim(g, sq, rs)
  BY DEF StoredIn, g, sq
<1>9. DOMAIN StoredIn(d).refs = Reached(f, rs)
  BY <1>7, <1>8, TrimParts
<1>10. SoundIn(d)
  BY <1>3, <1>5, <1>9 DEF SoundIn
<1> QED BY <1>7, <1>8, <1>10

\* A sound store can be loaded exactly when the heap it holds has its roots and no
\* reference that the loader refuses.
LEMMA SoundLoads ==
  ASSUME SoundIn(disk)
  PROVE  Loads(disk, Cardinality(disk[Gen].roots)) <=> RootsSaved(Stored) /\ Readable(Stored)
<1> DEFINE ob == [o \in Known(disk) |-> disk[Home(disk, o)].obs[o]]
           hm == [o \in Known(disk) |-> Home(disk, o)]
           rs == disk[Manifest].roots
           L  == Reached(ob, rs)
<1>1. \A s \in Listed(disk) : \A o \in DOMAIN disk[s].obs : o \in Known(disk) /\ Home(disk, o) = s
  <2> SUFFICES ASSUME NEW s \in Listed(disk), NEW o \in DOMAIN disk[s].obs
               PROVE  o \in Known(disk) /\ Home(disk, o) = s
    OBVIOUS
  <2>1. Home(disk, o) \in Listed(disk) /\ o \in DOMAIN disk[Home(disk, o)].obs
    BY DEF Home
  <2> QED BY <2>1 DEF SoundIn, FirstPassOK, Known
<1>2. \A o \in Known(disk) : /\ Home(disk, o) \in Listed(disk)
                               /\ o \in DOMAIN disk[Home(disk, o)].obs
  BY DEF Known, Home
<1>3. DOMAIN ob = Known(disk) /\ \A o \in Known(disk) : ob[o] = disk[Home(disk, o)].obs[o]
  OBVIOUS
<1>4. Stored = Trim(ob, hm, rs) /\ StoredIn(disk) = Stored
  BY DEF Stored, StoredIn
<1> HIDE DEF ob, hm
<1>5. /\ DOMAIN Stored.refs = L /\ Stored.roots = rs
      /\ \A o \in L : Stored.refs[o] = ob[o]
  BY <1>4, TrimParts
<1>6. L \subseteq Known(disk) /\ rs \cap Known(disk) \subseteq L
  BY <1>3, ReachedClosed
<1>7. RootsSaved(Stored) <=> rs \subseteq Known(disk)
  BY <1>5, <1>6 DEF RootsSaved
<1> DEFINE Clean == \A o \in Known(disk) : \A c \in ob[o] : ~Refused(c)
<1>8. Readable(Stored) <=> Clean
  BY <1>3, <1>4, <1>5, <1>6 DEF Readable, SoundIn
<1>9. SecondPassOK(disk) <=> Clean
  <2>1. Clean <=> \A s \in Listed(disk) : \A o \in DOMAIN disk[s].obs :
                    \A c \in disk[s].obs[o] : ~Refused(c)
    BY <1>1, <1>2, <1>3
  <2> HIDE DEF Clean
  <2> QED BY <2>1 DEF SoundIn, SecondPassOK, ObjectOK, Read
<1>10. RootsOK(disk, Cardinality(disk[Gen].roots)) <=> rs \subseteq Known(disk)
  BY DEF RootsOK, SoundIn
<1> QED BY <1>7, <1>8, <1>9, <1>10 DEF Loads, SoundIn

-----------------------------------------------------------------------------
(* Memory.                                                                   *)

\* What is written of an object refers to nothing but the persistent objects that
\* the scan follows.
LEMMA WrittenFollowed ==
  ASSUME MemTypes, NEW o \in Objects
  PROVE  \A c \in Written(o) : c.to \subseteq Followed(o)
<1> SUFFICES ASSUME NEW c \in refs[o]
             PROVE  [c EXCEPT !.to = @ \cap Persistent].to \subseteq Followed(o)
  BY DEF Written
<1>1. c \in Reference /\ c.to \cap Persistent \subseteq Followed(o)
  BY DEF MemTypes, Followed
<1> QED BY <1>1 DEF Reference

\* The persistent objects that are reached from the roots.
Live == Reached([o \in Persistent |-> Written(o)], roots)

\* The scan follows no others: a reference that is not written has one object, and
\* that one is transient.
LEMMA FollowedLive ==
  ASSUME MemTypes, NEW o \in Live
  PROVE  Followed(o) \subseteq Live
<1> DEFINE f == [x \in Persistent |-> Written(x)]
<1>1. DOMAIN f = Persistent /\ o \in Persistent /\ f[o] = Written(o)
  BY ReachedClosed DEF Live
<1>2. \A c \in f[o] : c.to \cap Persistent \subseteq Live
  BY <1>1, ReachedClosed DEF Live
<1>3. SUFFICES ASSUME NEW c \in refs[o], NEW x \in c.to, x \in Persistent PROVE x \in Live
  BY DEF Followed
<1>4. c \in Reference /\ o \in Objects
  BY <1>1 DEF MemTypes, Persistent
<1>5. c.kind = "object" => c.to \subseteq Persistent
  BY <1>3, <1>4 DEF Reference
<1> DEFINE w == [c EXCEPT !.to = @ \cap Persistent]
<1>6. w \in Written(o)
  BY <1>5 DEF Written
<1>7. x \in w.to
  BY <1>3, <1>4 DEF Reference
<1> QED BY <1>1, <1>2, <1>3, <1>6, <1>7

\* Loading makes the memory what AtomicStore says.
LEMMA LoadReloads == TypeInv /\ Load => Snapshot' = AfterLoad(Stored)
<1> SUFFICES ASSUME TypeInv, Load PROVE Snapshot' = AfterLoad(Stored)
  OBVIOUS
<1> DEFINE K == Known(disk)
           ob == [o \in K |-> disk[Home(disk, o)].obs[o]]
           hm == [o \in K |-> Home(disk, o)]
           rs == disk[Manifest].roots
           L  == Reached(ob, rs)
           rd == [o \in K |-> Read(ob[o])]
           ld == [o \in L |-> Read(ob[o])]
           lh == [o \in L |-> hm[o]]
<1>1. /\ DOMAIN disk = Paths /\ Listed(disk) \subseteq Spaces /\ rs \subseteq K
      /\ \A s \in Listed(disk) : disk[s] # NoFile
      /\ \A s \in Listed(disk) : \A o \in DOMAIN disk[s].obs : ObjectOK(disk, disk[s].obs[o])
  BY TypeParts DEF TypeInv, Load, Loads, ManifestOK, FirstPassOK, SecondPassOK, RootsOK,
                   DiskTypes, FileTypes
<1>2. \A o \in K : Home(disk, o) \in Listed(disk) /\ o \in DOMAIN disk[Home(disk, o)].obs
  BY DEF Known, Home
<1>3. K \subseteq Objects /\ \A o \in K : ob[o] \subseteq Reference
  BY <1>1, <1>2, TypeParts DEF Known, TypeInv, DiskTypes, FileTypes
<1>4. \A o \in K : \A c \in Read(ob[o]) : c \in Reference /\ c.to \subseteq K
  BY <1>1, <1>2, <1>3 DEF ObjectOK, Read
<1>5. \A o \in K : refs'[o] = Read(ob[o]) /\ space'[o] = hm[o]
  BY <1>3 DEF Load
<1>6. Persistent' = K /\ roots' = rs
  BY <1>1, <1>2, <1>3, StoreAssumption DEF Load, Persistent
<1>7. \A o \in K : Written(o)' = Read(ob[o])
  <2> SUFFICES ASSUME NEW o \in K PROVE Written(o)' = Read(ob[o])
    OBVIOUS
  <2> DEFINE R == Read(ob[o])
  <2>1. Written(o)' = {[c EXCEPT !.to = @ \cap K] :
           c \in {x \in R : x.kind = "object" /\ x.place # "need" => x.to \subseteq K}}
    BY <1>5, <1>6 DEF Written
  <2>2. \A c \in R : c.to \cap K = c.to /\ [c EXCEPT !.to = @ \cap K] = c
    BY <1>4 DEF Reference
  <2>3. {x \in R : x.kind = "object" /\ x.place # "need" => x.to \subseteq K} = R
    BY <1>4
  <2> HIDE DEF R
  <2>4. {[c EXCEPT !.to = @ \cap K] : c \in R} = R
    BY <2>2
  <2> QED BY <2>1, <2>3, <2>4 DEF R
<1>8. Snapshot' = Trim([o \in K |-> Written(o)'], space', rs)
  BY <1>6 DEF Snapshot
<1>9. [o \in K |-> Written(o)'] = rd
  BY <1>7
<1>10. Stored = Trim(ob, hm, rs)
  BY DEF Stored
<1>11. Stored = [refs |-> [o \in L |-> ob[o]], space |-> lh, roots |-> rs]
  BY <1>10 DEF Trim
<1>12. AfterLoad(Stored) = Trim(ld, lh, rs)
  BY <1>11 DEF AfterLoad
<1>13. L \subseteq K /\ rs \subseteq L /\ \A x \in L : \A c \in ob[x] : c.to \cap K \subseteq L
  BY <1>1, ReachedClosed
<1>14. DOMAIN ld = L /\ \A o \in L : ld[o] = rd[o] /\ lh[o] = space'[o]
  BY <1>5, <1>13
<1>15. \A o \in L : \A c \in ld[o] : c.to \cap K \subseteq L
  BY <1>13 DEF Read
<1>16. DOMAIN rd = K
  OBVIOUS
<1> HIDE DEF K, ob, hm, rs, L, rd, ld, lh
<1>17. Trim(ld, lh, rs) = Trim(rd, space', rs)
  BY <1>13, <1>14, <1>15, <1>16, TrimSame
<1> QED BY <1>8, <1>9, <1>12, <1>17

-----------------------------------------------------------------------------
(* What is known of a dump whose memory did not change and whose writes did   *)
(* not fail.                                                                 *)

\* The file of space s.
Told(s) == SpaceFile([o \in members[s] |-> Written(o)])

\* The objects scanned are filed in their space, and all they refer to was seen;
\* what was seen is reached.
ScanInv ==
  Dumping /\ shot # Unknown =>
    /\ shot = Snapshot /\ roots \cap Persistent \subseteq seen /\ seen \subseteq Live
    /\ \A o \in seen \ toscan : Followed(o) \subseteq seen /\ o \in members[space[o]]
    /\ \A s \in Spaces : \A o \in members[s] : space[o] = s
    /\ pc # "scan" => toscan = {}

\* The temporary files written so far.
TempInv ==
  Dumping /\ shot # Unknown =>
    /\ temp[Manifest] = NoFile
    /\ temp[Gen] = IF pc = "manifest" THEN GenFile ELSE NoFile
    /\ pc = "scan" => \A s \in Spaces : temp[s] = NoFile
    /\ \A s \in Spaces : temp[s] # NoFile => temp[s] = Told(s) /\ members[s] # {}
    /\ pc \in {"gen", "manifest"} => \A s \in Spaces : ~Unwritten(s)

\* The directory as it will be when all files are renamed.
Virtual == [p \in Paths |-> IF temp[p] # NoFile THEN temp[p] ELSE disk[p]]

\* It holds the memory that the dump found; a whole store is sound.
RenameInv == pc = "rename" /\ shot # Unknown => StoredIn(Virtual) = shot /\ SoundIn(Virtual)
WholeInv  == whole => SoundIn(disk)
DumpInv   == ScanInv /\ TempInv /\ RenameInv /\ WholeInv
StoreInv  == TypeInv /\ DumpInv

\* What a dump that leaves the memory alone sees of it.
LEMMA SameMemory ==
  ASSUME UNCHANGED memVars
  PROVE  /\ Snapshot' = Snapshot /\ Persistent' = Persistent /\ GenFile' = GenFile
         /\ Live' = Live
         /\ \A o : Written(o)' = Written(o) /\ Followed(o)' = Followed(o)
  BY DEF memVars, Snapshot, Persistent, Live, Written, Followed, GenFile

\* Steps that change nothing of it.
LEMMA Stutters ==
  ASSUME DumpInv, UNCHANGED <<memVars, scanVars, pc, temp, disk, whole, shot>>
  PROVE  DumpInv'
<1>1. UNCHANGED <<refs, space, roots, seen, toscan, members, pc, temp, disk, whole, shot>>
  BY DEF memVars, scanVars
<1>2. ScanInv'
  BY <1>1, SameMemory DEF DumpInv, ScanInv, Dumping, memVars
<1>3. TempInv'
  BY <1>1, SameMemory DEF DumpInv, TempInv, Dumping, memVars, Told, Unwritten
<1>4. RenameInv' /\ WholeInv'
  BY <1>1 DEF DumpInv, RenameInv, WholeInv, Virtual
<1> QED BY <1>2, <1>3, <1>4 DEF DumpInv

\* Steps that leave the dump, or are not in one.
LEMMA Outside ==
  ASSUME DumpInv, UNCHANGED <<disk, whole>>, pc' \in {"idle", "down"}
  PROVE  DumpInv'
  BY DEF DumpInv, ScanInv, TempInv, RenameInv, WholeInv, Dumping

\* The program changes its memory: before the renaming, the dump's promise is void.
LEMMA Mutates ==
  ASSUME DumpInv, Mutate
  PROVE  DumpInv'
<1>1. /\ UNCHANGED <<pc, temp, disk, whole>>
      /\ shot' = IF Dumping THEN Unknown ELSE shot
  BY DEF Mutate, Put, Remove, PutSpace, AddRoot, Change, diskVars, histVars
<1>2. ScanInv' /\ TempInv'
  BY <1>1 DEF ScanInv, TempInv, Dumping
<1>3. RenameInv' /\ WholeInv'
  BY <1>1 DEF DumpInv, RenameInv, WholeInv, Virtual, Dumping
<1> QED BY <1>2, <1>3 DEF DumpInv

\* A dump starts from the roots.
LEMMA Starts ==
  ASSUME TypeInv, DumpInv, StartDump
  PROVE  DumpInv'
<1>1. /\ UNCHANGED <<memVars, disk, whole>> /\ pc' = "scan" /\ shot' = Snapshot
      /\ seen' = roots \cap Persistent /\ toscan' = seen' /\ temp' = NoFiles
      /\ members' = [s \in Spaces |-> {}]
  BY DEF StartDump, diskVars, histVars
<1>2. roots \cap Persistent \subseteq Live /\ roots' = roots
  BY <1>1, ReachedClosed DEF Live, memVars
<1>3. ScanInv'
  BY <1>1, <1>2, SameMemory DEF ScanInv
<1>4. TempInv'
  BY <1>1, PathFacts, StoreAssumption DEF TempInv, NoFiles, Told, Unwritten
<1>5. RenameInv' /\ WholeInv'
  BY <1>1 DEF DumpInv, RenameInv, WholeInv
<1> QED BY <1>3, <1>4, <1>5 DEF DumpInv

\* An object is scanned.
LEMMA Scans ==
  ASSUME TypeInv, DumpInv, NEW o \in Objects, ScanOne(o)
  PROVE  DumpInv'
<1>1. /\ UNCHANGED <<memVars, pc, temp, disk, whole, shot>> /\ pc = "scan" /\ o \in toscan
      /\ seen' = seen \cup Followed(o) /\ toscan' = (toscan \ {o}) \cup NewOnes(o)
      /\ members' = [members EXCEPT ![space[o]] = @ \cup {o}]
  BY DEF ScanOne, dumpVars, diskVars, histVars
<1>2. UNCHANGED <<refs, space, roots>>
  BY <1>1 DEF memVars
<1>3. /\ toscan \subseteq seen /\ space[o] \in Spaces /\ seen \subseteq Persistent
      /\ members \in [Spaces -> SUBSET seen]
  BY <1>1, TypeParts DEF TypeInv, ScanTypes, MemTypes, Persistent
<1>4. /\ members'[space[o]] = members[space[o]] \cup {o}
      /\ \A s \in Spaces : s # space[o] => members'[s] = members[s]
  BY <1>1, <1>3
<1>5. ASSUME shot # Unknown PROVE ScanInv'
  <2>1. /\ shot = Snapshot /\ roots \cap Persistent \subseteq seen /\ seen \subseteq Live
        /\ \A x \in seen \ toscan : Followed(x) \subseteq seen /\ x \in members[space[x]]
        /\ \A s \in Spaces : \A x \in members[s] : space[x] = s
    BY <1>1, <1>5 DEF DumpInv, ScanInv, Dumping
  <2>2. /\ shot' = Snapshot' /\ (roots \cap Persistent)' \subseteq seen' /\ pc' = "scan"
        /\ seen' \subseteq Live'
    BY <1>1, <1>2, <1>3, <2>1, SameMemory, FollowedLive, TypeParts DEF TypeInv
  <2>3. ASSUME NEW x \in seen' \ toscan'
        PROVE  Followed(x) \subseteq seen' /\ x \in members'[space[x]]
    <3>1. CASE x = o
      BY <1>1, <1>4, <3>1
    <3>2. CASE x # o
      <4>1. x \in seen \ toscan
        BY <1>1, <2>3, <3>2 DEF NewOnes
      <4>2. space[x] \in Spaces
        BY <1>3, <4>1, TypeParts DEF TypeInv, MemTypes, Persistent
      <4> QED BY <1>1, <1>4, <2>1, <4>1, <4>2
    <3> QED BY <3>1, <3>2
  <2>4. \A s \in Spaces : \A x \in members'[s] : space[x] = s
    BY <1>4, <2>1
  <2> QED BY <1>1, <1>2, <2>2, <2>3, <2>4, SameMemory DEF ScanInv
<1>6. ScanInv'
  BY <1>1, <1>5 DEF ScanInv
<1>7. TempInv'
  BY <1>1 DEF DumpInv, TempInv, Dumping
<1>8. RenameInv' /\ WholeInv'
  BY <1>1 DEF DumpInv, RenameInv, WholeInv
<1> QED BY <1>6, <1>7, <1>8 DEF DumpInv

\* The scan ends, and so does the writing of spaces.
LEMMA Turns ==
  ASSUME DumpInv, EndScan \/ EndSpaces
  PROVE  DumpInv'
<1>1. /\ UNCHANGED <<memVars, scanVars, temp, disk, whole, shot>>
      /\ \/ pc = "scan" /\ pc' = "spaces" /\ toscan = {}
         \/ pc = "spaces" /\ pc' = "gen" /\ \A s \in Spaces : ~Unwritten(s)
  BY DEF EndScan, EndSpaces, dumpVars, diskVars, histVars
<1>2. UNCHANGED <<refs, space, roots, seen, toscan, members, temp, disk, whole, shot>>
  BY <1>1 DEF memVars, scanVars
<1>3. ScanInv'
  BY <1>1, <1>2, SameMemory DEF DumpInv, ScanInv, Dumping
<1>4. TempInv'
  BY <1>1, <1>2, SameMemory DEF DumpInv, TempInv, Dumping, Told, Unwritten
<1>5. RenameInv' /\ WholeInv'
  BY <1>1, <1>2 DEF DumpInv, RenameInv, WholeInv
<1> QED BY <1>3, <1>4, <1>5 DEF DumpInv

\* A space file or the generated roots are written.
LEMMA Writes ==
  ASSUME TypeInv, DumpInv, WriteGen \/ \E s \in Spaces : WriteSpace(s)
  PROVE  DumpInv'
<1>1. /\ UNCHANGED <<refs, space, roots, seen, toscan, members, disk, whole>>
      /\ Dumping /\ Dumping' /\ pc # "scan" /\ pc' \in {"spaces", "manifest"}
      /\ UNCHANGED memVars
  BY DEF WriteGen, WriteSpace, dumpVars, memVars, scanVars, diskVars, histVars, Dumping
<1>2. PICK p, f, short : WriteFile(p, f, short)
  BY DEF WriteGen, WriteSpace
<1>3. shot' # Unknown => shot' = shot
  BY <1>2 DEF WriteFile
<1>4. ScanInv'
  BY <1>1, <1>3, SameMemory DEF DumpInv, ScanInv
<1>5. RenameInv' /\ WholeInv'
  BY <1>1 DEF DumpInv, RenameInv, WholeInv
<1>6. Directory(temp) /\ Manifest \in Paths /\ Gen \in Paths /\ Spaces \subseteq Paths
  BY PathFacts DEF TypeInv, Directories
<1>7. ASSUME NEW s \in Spaces, WriteSpace(s), shot' # Unknown PROVE TempInv'
  <2>1. /\ temp' = [temp EXCEPT ![s] = Told(s)] /\ shot' = shot
        /\ pc = "spaces" /\ pc' = "spaces" /\ members[s] # {}
    BY <1>7 DEF WriteSpace, WriteFile, Told, NextSpace, Unwritten
  <2>2. temp'[s] = Told(s) /\ \A q \in Paths : q # s => temp'[q] = temp[q]
    BY <1>6, <2>1, Replace
  <2>3. s # Gen /\ s # Manifest
    BY StoreAssumption
  <2>4. \A t \in Spaces : Told(t)' = Told(t)
    BY <1>1, SameMemory DEF Told
  <2> QED BY <1>1, <1>6, <2>1, <2>2, <2>3, <2>4 DEF DumpInv, TempInv
<1>8. ASSUME WriteGen, shot' # Unknown PROVE TempInv'
  <2>1. /\ temp' = [temp EXCEPT ![Gen] = GenFile] /\ shot' = shot
        /\ pc = "gen" /\ pc' = "manifest"
    BY <1>8 DEF WriteGen, WriteFile
  <2>2. temp'[Gen] = GenFile /\ \A q \in Paths : q # Gen => temp'[q] = temp[q]
    BY <1>6, <2>1, Replace
  <2>3. Gen \notin Spaces /\ Gen # Manifest
    BY StoreAssumption DEF Gen, Manifest
  <2>4. \A t \in Spaces : Told(t)' = Told(t)
    BY <1>1, SameMemory DEF Told
  <2> QED BY <1>1, <1>6, <2>1, <2>2, <2>3, <2>4, SameMemory
          DEF DumpInv, TempInv, Unwritten
<1>9. TempInv'
  BY <1>7, <1>8 DEF TempInv
<1> QED BY <1>4, <1>5, <1>9 DEF DumpInv

\* With the manifest, the last file, the directory to be describes the memory.
LEMMA LastWrite ==
  ASSUME TypeInv, DumpInv, WriteManifest
  PROVE  DumpInv'
<1>1. /\ UNCHANGED <<memVars, scanVars, disk, whole>> /\ pc = "manifest" /\ pc' = "rename"
      /\ Dumping /\ ~Dumping'
  BY DEF WriteManifest, dumpVars, diskVars, Dumping
<1>2. ScanInv' /\ TempInv' /\ WholeInv'
  BY <1>1 DEF DumpInv, ScanInv, TempInv, WholeInv
<1>3. ASSUME shot' # Unknown PROVE StoredIn(Virtual') = shot' /\ SoundIn(Virtual')
  <2> DEFINE V == Virtual'
             f == [o \in seen |-> Written(o)]
  <2>1. temp' = [temp EXCEPT ![Manifest] = ManifestFile] /\ shot' = shot
    BY <1>3 DEF WriteManifest, WriteFile
  <2>2. /\ shot = Snapshot /\ roots \cap Persistent \subseteq seen /\ seen \subseteq Live
        /\ toscan = {}
        /\ \A o \in seen : Followed(o) \subseteq seen /\ o \in members[space[o]]
        /\ \A s \in Spaces : \A o \in members[s] : space[o] = s
    BY <1>1, <1>3, <2>1 DEF DumpInv, ScanInv
  <2>3. /\ temp[Gen] = GenFile
        /\ \A s \in Spaces : members[s] # {} => temp[s] # NoFile /\ temp[s] = Told(s)
    BY <1>1, <1>3, <2>1 DEF DumpInv, TempInv, Unwritten
  <2>4. MemTypes /\ seen \subseteq Persistent /\ members \in [Spaces -> SUBSET seen]
    BY TypeParts DEF TypeInv, ScanTypes
  <2>5. seen \subseteq Objects /\ roots \subseteq Objects /\ \A o \in seen : space[o] \in Spaces
    BY <2>4 DEF MemTypes, Persistent
  <2>6. GenFile # NoFile /\ ManifestFile # NoFile
    <3>1. GenFile \in GenFiles /\ ManifestFile \in Manifests
      BY <2>5 DEF GenFile, ManifestFile, GenFiles, Manifests
    <3> QED BY <3>1, StoreAssumption
  <2>7. /\ Directory(temp) /\ Manifest \in Paths /\ Gen \in Paths /\ Spaces \subseteq Paths
        /\ Gen \notin Spaces /\ Manifest \notin Spaces /\ Gen # Manifest
    BY PathFacts, StoreAssumption DEF TypeInv, Directories, Gen, Manifest
  <2>8. temp'[Manifest] = ManifestFile /\ \A q \in Paths : q # Manifest => temp'[q] = temp[q]
    BY <2>1, <2>7, Replace
  <2>9. /\ V[Manifest] = ManifestFile /\ V[Gen] = GenFile
        /\ \A s \in Spaces : members[s] # {} => V[s] = Told(s) /\ V[s] # NoFile
    BY <2>3, <2>6, <2>7, <2>8 DEF Virtual
  <2> HIDE DEF V
  <2>10. Listed(V) = {s \in Spaces : members[s] # {}}
    BY <2>9 DEF Listed, ManifestFile
  <2>11. \A s \in Spaces : /\ Told(s).obs = [o \in members[s] |-> Written(o)]
                           /\ Told(s).nb = Cardinality(DOMAIN Told(s).obs) /\ ~Told(s).cut
    BY DEF Told, SpaceFile
  <2>12. \A s \in Listed(V) : /\ V[s] = Told(s) /\ DOMAIN V[s].obs = members[s]
                               /\ \A o \in members[s] : V[s].obs[o] = Written(o)
    <3> SUFFICES ASSUME NEW s \in Listed(V)
                 PROVE  /\ V[s] = Told(s) /\ DOMAIN V[s].obs = members[s]
                        /\ \A o \in members[s] : V[s].obs[o] = Written(o)
      OBVIOUS
    <3>1. V[s] = Told(s) /\ s \in Spaces
      BY <2>9, <2>10
    <3>2. V[s].obs = [o \in members[s] |-> Written(o)]
      BY <2>11, <3>1
    <3> QED BY <3>1, <3>2
  <2>13. Known(V) = seen
    <3>1. Known(V) \subseteq seen
      BY <2>4, <2>10, <2>12 DEF Known
    <3>2. ASSUME NEW o \in seen PROVE o \in Known(V)
      <4>1. space[o] \in Listed(V) /\ o \in DOMAIN V[space[o]].obs
        BY <2>2, <2>5, <2>10, <2>12
      <4> QED BY <4>1 DEF Known
    <3> QED BY <3>1, <3>2
  <2>14. DOMAIN f = seen /\ \A o \in seen : f[o] = Written(o)
    OBVIOUS
  <2> HIDE DEF f
  <2>15. \A s \in Listed(V) :
           /\ V[s] # NoFile /\ CountOK(V[s]) /\ ~V[s].cut
           /\ \A o \in DOMAIN V[s].obs : space[o] = s /\ V[s].obs[o] = f[o]
    <3> SUFFICES ASSUME NEW s \in Listed(V)
                 PROVE  /\ V[s] # NoFile /\ CountOK(V[s]) /\ ~V[s].cut
                        /\ \A o \in DOMAIN V[s].obs : space[o] = s /\ V[s].obs[o] = f[o]
      OBVIOUS
    <3>1. s \in Spaces /\ V[s] # NoFile
      BY <2>9, <2>10
    <3>2. CountOK(V[s]) /\ ~V[s].cut
      BY <2>11, <2>12, <3>1 DEF CountOK
    <3>3. members[s] \subseteq seen
      BY <2>4, <3>1
    <3> QED BY <2>2, <2>12, <2>14, <3>1, <3>2, <3>3
  <2>16. Describes(V, seen, f, space, roots)
    BY <2>6, <2>9, <2>13, <2>15 DEF Describes, ManifestOK, ManifestFile, GenFile
  <2>17. \A o \in seen : \A c \in f[o] : c.to \subseteq seen
    BY <2>2, <2>4, <2>5, <2>14, WrittenFollowed
  <2> DEFINE w == [o \in Persistent |-> Written(o)]
  <2>18. DOMAIN w = Persistent /\ \A o \in seen : f[o] = w[o]
    BY <2>4, <2>14
  <2>19. Snapshot = Trim(w, space, roots)
    BY DEF Snapshot
  <2> HIDE DEF w
  <2>20. \A o \in seen : \A c \in f[o] : c.to \cap DOMAIN w \subseteq seen
    BY <2>17
  <2>21. Trim(f, space, roots) = Trim(w, space, roots)
    BY <2>2, <2>4, <2>14, <2>18, <2>20, TrimSame
  <2>22. Reached(f, roots) = Live
    BY <2>21, TrimParts DEF Live, w
  <2>23. StoredIn(V) = Trim(f, space, roots) /\ SoundIn(V)
    BY <2>2, <2>14, <2>16, <2>17, <2>22, DescribesStored
  <2> QED BY <2>1, <2>2, <2>19, <2>21, <2>23 DEF V
<1>4. RenameInv'
  BY <1>3 DEF RenameInv
<1> QED BY <1>2, <1>4 DEF DumpInv

\* Renaming a file leaves the directory to be as it is.
LEMMA VirtualKept ==
  ASSUME Directories, NEW p \in Paths, Backup(p) \/ Install(p)
  PROVE  Virtual' = Virtual
<1>1. temp[p] # NoFile /\ Directory(temp) /\ Directory(disk)
  BY DEF Backup, Install, Renaming, Pending, Directories
<1>2. CASE Backup(p)
  <2>1. temp' = temp /\ \A q \in Paths : q # p => disk'[q] = disk[q]
    BY <1>1, <1>2, Replace DEF Backup
  <2> QED BY <1>1, <2>1 DEF Virtual
<1>3. CASE Install(p)
  <2>1. /\ temp'[p] = NoFile /\ disk'[p] = temp[p]
        /\ \A q \in Paths : q # p => disk'[q] = disk[q] /\ temp'[q] = temp[q]
    BY <1>1, <1>3, Replace DEF Install
  <2>2. \A q \in Paths : (IF temp'[q] # NoFile THEN temp'[q] ELSE disk'[q])
                         = (IF temp[q] # NoFile THEN temp[q] ELSE disk[q])
    BY <1>1, <2>1
  <2> QED BY <2>2 DEF Virtual
<1> QED BY <1>2, <1>3

\* With the last renaming the directory is what it was to be.
LEMMA LastRename ==
  ASSUME TypeInv, DumpInv, NEW p \in Paths, Install(p), whole'
  PROVE  Stored' = shot /\ SoundIn(disk')
<1>1. Virtual' = Virtual /\ Pending = {p} /\ shot # Unknown /\ pc = "rename"
  BY VirtualKept DEF TypeInv, Install, Renaming
<1>2. Directory(temp) /\ Directory(disk)
  BY DEF TypeInv, Directories
<1>3. \A q \in Paths : temp'[q] = NoFile
  BY <1>1, <1>2, Replace DEF Install, Pending
<1>4. Directory(disk')
  BY <1>2, Replace DEF Install
<1>5. Virtual' = disk'
  BY <1>3, <1>4 DEF Virtual, Directory
<1>6. StoredIn(disk') = shot /\ SoundIn(disk')
  BY <1>1, <1>5 DEF DumpInv, RenameInv
<1> QED BY <1>6 DEF Stored, StoredIn

\* The renamings.
LEMMA Renames ==
  ASSUME TypeInv, DumpInv, NEW p \in Paths, Shift(p) \/ Backup(p) \/ Install(p)
  PROVE  DumpInv'
<1>1. CASE Shift(p)
  BY <1>1, Stutters DEF Shift, dumpVars, histVars
<1>2. CASE Backup(p) \/ Install(p)
  <2>1. pc = "rename" /\ pc' = "rename" /\ shot' = shot /\ Virtual' = Virtual
    BY <1>2, VirtualKept DEF Backup, Install, Renaming, TypeInv
  <2>2. ScanInv' /\ TempInv' /\ RenameInv'
    BY <2>1 DEF DumpInv, ScanInv, TempInv, RenameInv, Dumping
  <2>3. WholeInv'
    BY <1>2, LastRename DEF WholeInv, Backup
  <2> QED BY <2>2, <2>3 DEF DumpInv
<1> QED BY <1>1, <1>2

\* The store the program starts from is sound, and is the memory.
LEMMA StoreInit == Init => StoreInv /\ Stored = Snapshot
<1> SUFFICES ASSUME Init PROVE StoreInv /\ Stored = Snapshot
  OBVIOUS
<1> DEFINE d == FirstDisk
           P == FirstPersistent
           f == [o \in P |-> FirstRefs[o]]
<1>1. TypeInv /\ refs = FirstRefs /\ space = FirstSpace /\ roots = FirstRoots /\ disk = d
  BY TypeInit DEF Init
<1>2. Persistent = P /\ P \subseteq Objects /\ roots \subseteq P
      /\ \A o \in P : \A c \in f[o] : c \in Reference /\ c.to \subseteq P
  BY <1>1, StoreAssumption DEF Persistent, FirstPersistent
<1>3. \A o \in P : Written(o) = f[o]
  <2> SUFFICES ASSUME NEW o \in P PROVE Written(o) = f[o]
    OBVIOUS
  <2> DEFINE R == f[o]
  <2>1. R = refs[o]
    BY <1>1
  <2>2. {x \in R : x.kind = "object" /\ x.place # "need" => x.to \subseteq P} = R
    BY <1>2
  <2>3. \A c \in R : [c EXCEPT !.to = @ \cap P] = c
    <3> SUFFICES ASSUME NEW c \in R PROVE [c EXCEPT !.to = @ \cap P] = c
      OBVIOUS
    <3>1. c \in Reference /\ c.to \cap P = c.to
      BY <1>2
    <3> QED BY <3>1 DEF Reference
  <2> HIDE DEF R
  <2>4. {[c EXCEPT !.to = @ \cap P] : c \in R} = R
    BY <2>3
  <2> QED BY <1>2, <2>1, <2>2, <2>4 DEF Written, R
<1>4. Describes(d, P, f, space, roots)
  <2> USE PathFacts
  <2>1. Gen \notin Spaces /\ Manifest \notin Spaces /\ Gen # Manifest
    BY StoreAssumption DEF Gen, Manifest
  <2> DEFINE S == {s \in Spaces : InSpace(s) # {}}
  <2>2. /\ d[Gen] = [roots |-> roots, cut |-> FALSE]
        /\ d[Manifest] = [spaces |-> S, roots |-> roots, cut |-> FALSE]
        /\ \A s \in S : d[s] = SpaceFile([o \in InSpace(s) |-> FirstRefs[o]])
    BY <1>1, <2>1 DEF FirstDisk
  <2>3. d[Manifest] # NoFile
    <3>1. [spaces |-> S, roots |-> roots, cut |-> FALSE] \in Manifests
      BY <1>2 DEF Manifests
    <3> QED BY <2>2, <3>1, StoreAssumption
  <2>4. Listed(d) = S
    BY <2>2 DEF Listed
  <2>5. \A s \in S : InSpace(s) \subseteq P /\ \A o \in InSpace(s) : space[o] = s
    BY <1>1, StoreAssumption DEF InSpace, FirstPersistent
  <2>6. ASSUME NEW s \in S
        PROVE  /\ d[s] # NoFile /\ CountOK(d[s]) /\ ~d[s].cut /\ DOMAIN d[s].obs = InSpace(s)
               /\ \A o \in InSpace(s) : space[o] = s /\ d[s].obs[o] = f[o]
    <3> DEFINE m == [o \in InSpace(s) |-> FirstRefs[o]]
    <3>1. d[s] = [nb |-> Cardinality(DOMAIN m), obs |-> m, cut |-> FALSE]
      BY <2>2 DEF SpaceFile
    <3>2. DOMAIN m = InSpace(s) /\ \A o \in InSpace(s) : m[o] = f[o] /\ m[o] \subseteq Reference
      BY <2>5, <1>2
    <3>3. Cardinality(DOMAIN m) \in Nat
      BY <2>5, <1>2, <3>2, StoreAssumption, FS_Subset, FS_CardinalityType
    <3>4. m \in [InSpace(s) -> SUBSET Reference] /\ InSpace(s) \subseteq Objects
      BY <1>2, <2>5, <3>2
    <3> HIDE DEF m
    <3>5. m \in Contents
      BY <3>4 DEF Contents
    <3>6. d[s] \in SpaceFiles
      BY <3>1, <3>3, <3>5 DEF SpaceFiles
    <3>7. d[s].nb = Cardinality(DOMAIN m) /\ d[s].obs = m /\ d[s].cut = FALSE
      BY <3>1
    <3>8. d[s] # NoFile
      BY <3>6, StoreAssumption
    <3> QED BY <2>5, <3>2, <3>7, <3>8 DEF CountOK
  <2>7. Known(d) = P
    <3>1. \A o \in P : space[o] \in S /\ o \in InSpace(space[o])
      BY <1>1, <1>2, StoreAssumption DEF InSpace, FirstPersistent
    <3> QED BY <2>4, <2>5, <2>6, <3>1 DEF Known
  <2>8. \A s \in Listed(d) :
          /\ d[s] # NoFile /\ CountOK(d[s]) /\ ~d[s].cut
          /\ \A o \in DOMAIN d[s].obs : space[o] = s /\ d[s].obs[o] = f[o]
    BY <2>4, <2>6
  <2>9. ManifestOK(d) /\ d[Manifest].roots = roots /\ d[Gen].roots = roots
    BY <2>2, <2>3 DEF ManifestOK
  <2> QED BY <2>7, <2>8, <2>9 DEF Describes
<1>5. DOMAIN f = P /\ \A o \in P : \A c \in f[o] : c.to \subseteq P /\ ~Refused(c)
  BY <1>2, StoreAssumption DEF Refused
<1>6. [o \in Persistent |-> Written(o)] = f
  BY <1>2, <1>3
<1> HIDE DEF d, P, f
<1>7. StoredIn(d) = Trim(f, space, roots) /\ SoundIn(d)
  BY <1>2, <1>4, <1>5, DescribesStored
<1>8. Stored = Snapshot
  BY <1>1, <1>6, <1>7 DEF Stored, StoredIn, Snapshot
<1>9. DumpInv
  BY <1>1, <1>7 DEF Init, DumpInv, ScanInv, TempInv, RenameInv, WholeInv, Dumping
<1> QED BY <1>1, <1>8, <1>9 DEF StoreInv

\* Every step keeps the invariant.
LEMMA StoreStep == StoreInv /\ [Next]_vars => StoreInv'
<1> SUFFICES ASSUME StoreInv, [Next]_vars PROVE DumpInv'
  BY TypeStep DEF StoreInv
<1> USE DEF StoreInv
<1>1. CASE UNCHANGED vars \/ Rebuild
  BY <1>1, Stutters DEF vars, Rebuild, memVars, scanVars, diskVars, histVars
<1>2. CASE DumpFails \/ EndDump \/ Fatal \/ Crash \/ Load
  BY <1>2, Outside DEF DumpFails, EndDump, Fatal, Crash, Load, diskVars, histVars
<1>3. CASE Mutate
  BY <1>3, Mutates
<1>4. CASE StartDump
  BY <1>4, Starts
<1>5. CASE \E o \in Objects : ScanOne(o)
  BY <1>5, Scans
<1>6. CASE EndScan \/ EndSpaces
  BY <1>6, Turns
<1>7. CASE WriteGen \/ \E s \in Spaces : WriteSpace(s)
  BY <1>7, Writes
<1>8. CASE WriteManifest
  BY <1>8, LastWrite
<1>9. CASE \E p \in Paths : Shift(p) \/ Backup(p) \/ Install(p)
  BY <1>9, Renames
<1> QED BY <1>1, <1>2, <1>3, <1>4, <1>5, <1>6, <1>7, <1>8, <1>9 DEF Next, Dump

\* A store left by a complete dump can be loaded by the program built from its roots
\* exactly when the heap that it saved had only persistent roots, no transient object
\* where the loader needs one, and no set or tuple as attribute value.
THEOREM StoreIsSound == Spec => []StoreSound
<1>1. StoreInv => StoreSound
  BY SoundLoads DEF StoreInv, DumpInv, WholeInv, StoreSound
<1> QED BY <1>1, StoreInit, StoreStep, PTL DEF Spec

-----------------------------------------------------------------------------
(* The dump is atomic.                                                       *)

\* Steps that leave the memory, whether it is there, and the files alone.
LEMMA SameAbstract ==
  ASSUME UNCHANGED <<memVars, disk, whole>>, pc' = "down" <=> pc = "down"
  PROVE  /\ (pc # "down")' = (pc # "down") /\ Snapshot' = Snapshot
         /\ (IF whole THEN Stored ELSE Unknown)' = (IF whole THEN Stored ELSE Unknown)
<1>1. Snapshot' = Snapshot
  BY SameMemory
<1>2. Stored' = Stored
  BY DEF Stored
<1> QED BY <1>1, <1>2

\* Every step is one of AtomicStore, or changes nothing of it.
LEMMA AtomicStep == StoreInv /\ [Next]_vars => [Atomic!Next]_(Atomic!vars)
<1> SUFFICES ASSUME StoreInv, [Next]_vars PROVE [Atomic!Next]_(Atomic!vars)
  OBVIOUS
<1> DEFINE up    == pc # "down"
           saved == IF whole THEN Stored ELSE Unknown
<1>1. ASSUME UNCHANGED <<disk, whole>> PROVE saved' = saved
  BY <1>1 DEF Stored
<1>2. ASSUME up' = up, Snapshot' = Snapshot, saved' = saved, shot' \in {shot, Unknown}
      PROVE  [Atomic!Next]_(Atomic!vars)
  BY <1>2 DEF Atomic!Next, Atomic!Forget, Atomic!vars
<1>3. CASE \/ UNCHANGED vars \/ Rebuild \/ EndScan \/ EndSpaces \/ DumpFails \/ EndDump
           \/ \E o \in Objects : ScanOne(o)
           \/ \E p \in Paths : Shift(p)
  <2>1. /\ UNCHANGED <<memVars, disk, whole>> /\ (pc' = "down" <=> pc = "down")
        /\ shot' \in {shot, Unknown}
    BY <1>3 DEF vars, Rebuild, EndScan, EndSpaces, DumpFails, EndDump, ScanOne, Shift, NoDumper,
                Dumping, Renaming, dumpVars, diskVars, histVars
  <2> QED BY <1>2, <2>1, SameAbstract
<1>4. CASE WriteGen \/ WriteManifest \/ \E s \in Spaces : WriteSpace(s)
  <2>1. /\ UNCHANGED <<memVars, disk, whole>> /\ pc # "down" /\ pc' # "down"
    BY <1>4 DEF WriteGen, WriteManifest, WriteSpace, dumpVars, diskVars, histVars
  <2>2. PICK p, f, short : WriteFile(p, f, short)
    BY <1>4 DEF WriteGen, WriteManifest, WriteSpace
  <2>3. shot' \in {shot, Unknown}
    BY <2>2 DEF WriteFile
  <2> QED BY <1>2, <2>1, <2>3, SameAbstract
<1>5. CASE StartDump
  <2>1. /\ UNCHANGED <<memVars, disk, whole>> /\ pc = "idle" /\ pc' = "scan" /\ shot' = Snapshot
    BY <1>5 DEF StartDump, diskVars, histVars
  <2>2. up /\ up' = up /\ Snapshot' = Snapshot /\ saved' = saved
    BY <2>1, SameAbstract
  <2> QED BY <2>1, <2>2 DEF Atomic!Next, Atomic!Begin
<1>6. CASE Mutate
  <2>1. /\ UNCHANGED <<pc, disk, whole>> /\ pc # "down" /\ shot' \in {shot, Unknown}
    BY <1>6 DEF Mutate, Put, Remove, PutSpace, AddRoot, Change, diskVars, histVars
  <2>2. up /\ up' = up /\ saved' = saved
    BY <1>1, <2>1
  <2> QED BY <2>1, <2>2 DEF Atomic!Next, Atomic!Change
<1>7. CASE Fatal \/ Crash
  <2>1. /\ UNCHANGED <<disk, whole>> /\ pc # "down" /\ pc' = "down" /\ shot' = Unknown
    BY <1>7 DEF Fatal, Crash, NoDumper, diskVars, histVars
  <2>2. up /\ ~up' /\ saved' = saved
    BY <1>1, <2>1
  <2> QED BY <2>1, <2>2 DEF Atomic!Next, Atomic!Crash
<1>8. CASE Load
  <2>1. /\ UNCHANGED <<disk, whole, shot>> /\ pc = "down" /\ pc' = "idle"
    BY <1>8 DEF Load, diskVars, histVars
  <2>2. Snapshot' = AfterLoad(Stored)
    BY <1>8, LoadReloads DEF StoreInv
  <2>3. ~up /\ up' /\ saved' = saved /\ (saved # Unknown => Snapshot' = AfterLoad(saved))
    BY <1>1, <2>1, <2>2
  <2> QED BY <2>1, <2>3 DEF Atomic!Next, Atomic!Load
<1>9. ASSUME NEW p \in Paths, Backup(p) \/ Install(p) PROVE Atomic!Next
  <2>1. UNCHANGED <<memVars, pc, shot>> /\ pc = "rename"
    BY <1>9 DEF Backup, Install, Renaming, dumpVars
  <2>2. up /\ up' = up /\ Snapshot' = Snapshot
    BY <2>1, SameMemory
  <2>3. CASE whole'
    <3>1. Install(p)
      BY <1>9, <2>3 DEF Backup
    <3>2. saved' = shot
      BY <2>3, <3>1, LastRename DEF StoreInv
    <3> QED BY <2>1, <2>2, <3>2 DEF Atomic!Next, Atomic!Commit
  <2>4. CASE ~whole'
    <3>1. saved' = Unknown
      BY <2>4
    <3> QED BY <2>1, <2>2, <3>1 DEF Atomic!Next, Atomic!Open
  <2> QED BY <2>3, <2>4
<1> QED BY <1>3, <1>4, <1>5, <1>6, <1>7, <1>8, <1>9 DEF Next, Dump

\* Dumps are atomic but for the time of the renaming: what can be loaded is what the
\* last complete dump found in memory when it started.
THEOREM DumpsAreAtomic == Spec => StoreIsAtomic
<1>1. Init => Atomic!Init
  BY StoreInit DEF Init, Atomic!Init
<1> QED BY <1>1, StoreInit, StoreStep, AtomicStep, PTL DEF Spec, StoreIsAtomic, Atomic!Spec
=============================================================================
