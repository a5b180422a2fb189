------------------------------- MODULE Dumper -------------------------------
(***************************************************************************)
(* rps_dump_into and Rps_Dumper (dump_rps.cc): scan from the roots, write  *)
(* every file under a temporary name, then rename the files one by one,    *)
(* each after the backups of the one it replaces.                          *)
(***************************************************************************)
EXTENDS Store

dumpVars == <<memVars, binary, changes, dumps>>   \* a dump leaves these alone

StartDump ==
  /\ pc = "idle" /\ dumps < MaxDumps
  /\ dumps' = dumps + 1
  /\ pc' = "scan"
  /\ seen' = roots \cap Persistent /\ toscan' = roots \cap Persistent
  /\ members' = [s \in Spaces |-> {}]
  /\ temp' = NoFiles
  /\ shot' = Snapshot
  /\ UNCHANGED <<memVars, diskVars, histVars, binary, changes, shorts>>

\* Mutant: components are not scanned.
FollowAttributes(o) ==
  Persistent \cap UNION {c.to : c \in {x \in refs[o] : x.place = "attr"}}

\* Mutant: scan_object does not test the space.
FollowAll(o) == UNION {c.to : c \in refs[o]}

\* What dump_scan_contents gives to scan_object, transient objects left out.
Followed(o) == Persistent \cap UNION {c.to : c \in refs[o]}

\* Mutant: scan_object does not look in du_mapobjects.
Again(o) == Followed(o)

\* scan_object queues an object once.
NewOnes(o) == Followed(o) \ seen

Undumpable(o, place) == \E c \in refs[o] : c.kind = "double" /\ c.place = place

\* One turn of scan_loop_pass.
ScanOne(o) ==
  /\ pc = "scan" /\ o \in toscan /\ ~Undumpable(o, "attr")
  /\ seen' = seen \cup Followed(o)
  /\ toscan' = (toscan \ {o}) \cup NewOnes(o)
  /\ members' = [members EXCEPT ![space[o]] = @ \cup {o}]
  /\ UNCHANGED <<dumpVars, shorts, pc, temp, diskVars, histVars, shot>>

\* is_dumpable_value knows no doubles: a fatal error, while scanning attributes or
\* while writing components.
Fatal ==
  /\ \/ pc = "scan" /\ \E o \in toscan : Undumpable(o, "attr")
     \/ pc = "spaces" /\ \E s \in Spaces : \E o \in members[s] : Undumpable(o, "comp")
  /\ pc' = "down" /\ NoMemory /\ NoDumper
  /\ UNCHANGED <<diskVars, histVars, binary, changes, dumps, shorts>>

EndScan ==
  /\ pc = "scan" /\ toscan = {}
  /\ pc' = "spaces"
  /\ UNCHANGED <<dumpVars, shorts, scanVars, temp, diskVars, histVars, shot>>

Unwritten(s) == members[s] # {} /\ temp[s] = NoFile
NextSpace(s) ==
  \E i \in DOMAIN SpaceSeq :
    /\ SpaceSeq[i] = s /\ Unwritten(s)
    /\ \A j \in 1 .. (i - 1) : ~Unwritten(SpaceSeq[j])

\* Nothing looks at the state of the streams: a file whose writing failed is
\* taken for a good one.
WriteFile(p, f, short) ==
  \/ temp' = [temp EXCEPT ![p] = f] /\ UNCHANGED <<shorts, shot>>
  \/ /\ shorts < MaxShorts
     /\ \E g \in short : temp' = [temp EXCEPT ![p] = g]
     /\ shorts' = shorts + 1 /\ shot' = Unknown

WriteSpace(s) ==
  /\ pc = "spaces" /\ NextSpace(s)
  /\ \A o \in members[s] : ~Undumpable(o, "comp")
  /\ LET f == SpaceFile([o \in members[s] |-> Written(o)]) IN
       WriteFile(s, f, Shortened(f))
  /\ UNCHANGED <<dumpVars, pc, scanVars, diskVars, histVars>>

EndSpaces ==
  /\ pc = "spaces" /\ \A s \in Spaces : ~Unwritten(s)
  /\ pc' = "gen"
  /\ UNCHANGED <<dumpVars, shorts, scanVars, temp, diskVars, histVars, shot>>

WriteGen ==
  /\ pc = "gen"
  /\ WriteFile(Gen, GenFile, {[GenFile EXCEPT !.cut = TRUE]})
  /\ pc' = "manifest"
  /\ UNCHANGED <<dumpVars, scanVars, diskVars, histVars>>

WriteManifest ==
  /\ pc = "manifest"
  /\ WriteFile(Manifest, ManifestFile, {[ManifestFile EXCEPT !.cut = TRUE]})
  /\ pc' = "rename"
  /\ tries' = tries + 1
  /\ UNCHANGED <<dumpVars, scanVars, diskVars, whole, good>>

\* A file cannot be opened: an exception, and the temporary files stay.
DumpFails ==
  /\ Dumping
  /\ pc' = "idle" /\ NoDumper
  /\ UNCHANGED <<dumpVars, shorts, diskVars, histVars>>

-----------------------------------------------------------------------------
(* rename_opened_files, one rename(2) a step.                               *)

Pending == {p \in Paths : temp[p] # NoFile}
Renaming(p) ==
  /\ pc = "rename"
  /\ \E i \in DOMAIN PathSeq :
       /\ PathSeq[i] = p /\ p \in Pending
       /\ \A j \in 1 .. (i - 1) : PathSeq[j] \notin Pending

\* Mutant: no second generation of backups.
ShiftNothing(p) ==
  /\ Renaming(p) /\ disk[p] # NoFile /\ bak[p] # NoFile
  /\ bak' = [bak EXCEPT ![p] = NoFile]
  /\ UNCHANGED <<dumpVars, shorts, pc, scanVars, temp, disk, bak2, histVars, shot>>

Shift(p) ==
  /\ Renaming(p) /\ disk[p] # NoFile /\ bak[p] # NoFile
  /\ bak2' = [bak2 EXCEPT ![p] = bak[p]]
  /\ bak' = [bak EXCEPT ![p] = NoFile]
  /\ UNCHANGED <<dumpVars, shorts, pc, scanVars, temp, disk, histVars, shot>>

Backup(p) ==
  /\ Renaming(p) /\ disk[p] # NoFile /\ bak[p] = NoFile
  /\ bak' = [bak EXCEPT ![p] = disk[p]]
  /\ disk' = [disk EXCEPT ![p] = NoFile]
  /\ whole' = FALSE
  /\ UNCHANGED <<dumpVars, shorts, pc, scanVars, temp, bak2, good, tries, shot>>

Install(p) ==
  /\ Renaming(p) /\ disk[p] = NoFile
  /\ disk' = [disk EXCEPT ![p] = temp[p]]
  /\ temp' = [temp EXCEPT ![p] = NoFile]
  /\ whole' = (Pending = {p} /\ shot # Unknown)
  /\ good' = IF whole' THEN disk' ELSE good
  /\ tries' = IF whole' THEN 0 ELSE tries
  /\ UNCHANGED <<dumpVars, shorts, pc, scanVars, bak, bak2, shot>>

EndDump ==
  /\ pc = "rename" /\ Pending = {}
  /\ pc' = "idle" /\ NoDumper
  /\ UNCHANGED <<dumpVars, shorts, diskVars, histVars>>

Dump == \/ Fatal \/ EndScan \/ EndSpaces \/ WriteGen \/ WriteManifest \/ EndDump
        \/ \E o \in Objects : ScanOne(o)
        \/ \E s \in Spaces : WriteSpace(s)
        \/ \E p \in Paths : Shift(p) \/ Backup(p) \/ Install(p)
=============================================================================
