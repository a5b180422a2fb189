---------------------------- MODULE RegistryProofs ----------------------------
(***************************************************************************)
(* Proofs about Registry, for any threads, names, objects and widths: the  *)
(* maps of objects and the table of symbols are right, a name found free   *)
(* under rps_symbol_mtx stays free until it is registered, and no          *)
(* assertion about a symbol fails.                                         *)
(***************************************************************************)
EXTENDS Registry, TLAPS

(***************************************************************************)
(* The inductive invariant.                                                *)
(***************************************************************************)
\* Where a thread makes an object, has made one that has no payload yet, and has
\* one in hand.
Drawing   == {"draw", "register", "classify", "name"}
Bare      == {"classify", "name", "dress"}
InHand    == Bare \cup {"enter"}

MakesSymbol(t) ==
  pc[t] \in Drawing /\ goal[t] \in {"symbol", "class"} /\ sym[t] = NoZone

\* Which calls come where, and what they have got.
Calls(t) ==
  /\ pc[t] \in {"seek", "read"} => goal[t] = "find"
  /\ pc[t] \in {"draw", "register", "classify"} => goal[t] # "find"
  /\ pc[t] \in {"take", "name"} => goal[t] \in {"symbol", "class"} /\ sym[t] = NoZone
  /\ pc[t] = "look" => goal[t] = "class"
  /\ pc[t] \in {"lock", "dress", "enter"} => goal[t] = "class" /\ sym[t] # NoZone
  /\ pc[t] # "idle" /\ goal[t] # "class" => sym[t] = NoZone
  /\ pc[t] # "idle" /\ goal[t] # "object" => name[t] \in Names
  /\ pc[t] = "register" => id[t] \in Ids

\* The symbol a call found or made is one.
Symbols(t) ==
  /\ pc[t] = "read" => obj[t] \in Zones /\ payl[obj[t]] = "symbol"
  /\ pc[t] # "idle" /\ sym[t] # NoZone
       => class[sym[t]] = "symbol" /\ payl[sym[t]] = "symbol"

\* The object in hand.
Hands(t) ==
  /\ pc[t] \in InHand => obj[t] \in Made
  /\ pc[t] \in Bare => payl[obj[t]] = "none"
  /\ pc[t] = "name" => class[obj[t]] = "symbol"
  /\ pc[t] = "enter" => payl[obj[t]] = "classinfo"

\* No two threads have the same bare object.
Apart(t, u) == t # u /\ pc[t] \in Bare /\ pc[u] \in Bare => obj[t] # obj[u]

\* The maker of a symbol holds rps_symbol_mtx, and its name is free.
Locks(t) == MakesSymbol(t) => symlock = t /\ table[name[t]] = NoZone

\* A zone that is not allocated has no payload.
Unmade == \A o \in Zones : o \notin Made => payl[o] = "none"

\* The classes and their symbols, whether their calls are finished or not.
Named(o) ==
  payl[o] = "classinfo" => /\ symb[o] # NoZone /\ payl[symb[o]] = "symbol"
                           /\ value[symb[o]] \in Zones
                           /\ symb[value[symb[o]]] = symb[o]
Classes == /\ \A o \in Zones : Named(o)
           /\ \A o \in entered : payl[o] = "classinfo"

ThreadsRight == /\ \A t \in Threads : Calls(t)
                /\ \A t \in Threads : Symbols(t)
                /\ \A t \in Threads : Hands(t)
                /\ \A t \in Threads : Locks(t)
                /\ \A t, u \in Threads : Apart(t, u)

IInv == /\ TypeOK
        /\ RegistryExact
        /\ NamesRight
        /\ Unmade
        /\ Classes
        /\ NoAssertFails
        /\ ThreadsRight

-----------------------------------------------------------------------------
(* The initial state.                                                      *)

LEMMA Start == Init => IInv
  BY NamesAssumption, IdsAssumption
  DEF Init, IInv, TypeOK, RegistryExact, NamesRight, Unmade, Classes, Named, NoAssertFails,
      ThreadsRight, Calls, Symbols, Hands, Locks, Apart, MakesSymbol, Made, Begins, Places,
      Ids, Drawing, Bare, InHand

-----------------------------------------------------------------------------
(* Steps of a call that leave the objects and the table alone.             *)

\* What is true of the objects stays so while they stay the same.
LEMMA SameObjects ==
  ASSUME IInv, UNCHANGED <<mapVars, class, payVars, table, entered>>
  PROVE  RegistryExact' /\ NamesRight' /\ Unmade' /\ Classes'
  BY DEF IInv, RegistryExact, NamesRight, Unmade, Classes, Named, Made, mapVars, payVars

LEMMA BeginRight ==
  ASSUME IInv, NEW t \in Threads, NEW g \in DOMAIN Begins, NEW n \in Names, Begin(t, g, n)
  PROVE  IInv'
<1> USE NamesAssumption, IdsAssumption DEF IInv, ThreadsRight
<1>1. RegistryExact' /\ NamesRight' /\ Unmade' /\ Classes'
  BY SameObjects DEF Begin
<1>2. TypeOK'
  BY DEF Begin, TypeOK, Places, Begins, Drawn, Ids, At, Goto, Return, mapVars, payVars, threadVars
<1>3. NoAssertFails'
  BY DEF Begin, NoAssertFails, Symbols, Calls, At, TypeOK
<1>4. ASSUME NEW u \in Threads PROVE Calls(u)'
  BY DEF Begin, TypeOK, Calls, Begins, At, Goto, Return, Drawn, Ids
<1>5. ASSUME NEW u \in Threads PROVE Symbols(u)'
  BY DEF Begin, TypeOK, Symbols, Calls, NamesRight, At, Goto, Return, Begins, payVars
<1>6. ASSUME NEW u \in Threads PROVE Hands(u)'
  BY DEF Begin, TypeOK, Hands, Made, Bare, InHand, At, Goto, Return, Begins, mapVars, payVars
<1>7. ASSUME NEW u \in Threads PROVE Locks(u)'
  BY DEF Begin, TypeOK, Locks, Calls, MakesSymbol, Drawing, At, Goto, Return, Begins
<1>8. ASSUME NEW u \in Threads, NEW v \in Threads PROVE Apart(u, v)'
  BY DEF Begin, TypeOK, Apart, Bare, At, Goto, Return, Begins
<1> QED  BY <1>1, <1>2, <1>3, <1>4, <1>5, <1>6, <1>7, <1>8

LEMMA SeekRight ==
  ASSUME IInv, NEW t \in Threads, Seek(t)
  PROVE  IInv'
<1> USE NamesAssumption, IdsAssumption DEF IInv, ThreadsRight
<1>1. RegistryExact' /\ NamesRight' /\ Unmade' /\ Classes'
  BY SameObjects DEF Seek
<1>2. TypeOK'
  <2>1. name[t] \in Names
    BY DEF Seek, Calls, At
  <2>2. table[name[t]] \in Zones \cup {NoZone}
    BY <2>1 DEF TypeOK
  <2>3. obj' = obj \/ obj' = [obj EXCEPT ![t] = table[name[t]]]
    BY DEF Seek
  <2>4. obj' \in [Threads -> Zones \cup {NoZone}]
    BY <2>2, <2>3 DEF TypeOK
  <2>5. pc' \in [Threads -> Places]
    BY DEF Seek, TypeOK, Places, Goto, Return
  <2> QED  BY <2>4, <2>5 DEF Seek, TypeOK, mapVars, payVars
<1>3. NoAssertFails'
  BY DEF Seek, NoAssertFails, Symbols, Calls, At, TypeOK
<1>4. ASSUME NEW u \in Threads PROVE Calls(u)'
  BY DEF Seek, TypeOK, Calls, Begins, At, Goto, Return, Drawn, Ids
<1>5. ASSUME NEW u \in Threads PROVE Symbols(u)'
  BY DEF Seek, TypeOK, Symbols, Calls, NamesRight, At, Goto, Return, Begins, payVars
<1>6. ASSUME NEW u \in Threads PROVE Hands(u)'
  BY DEF Seek, TypeOK, Hands, Made, Bare, InHand, At, Goto, Return, Begins, mapVars, payVars
<1>7. ASSUME NEW u \in Threads PROVE Locks(u)'
  BY DEF Seek, TypeOK, Locks, Calls, MakesSymbol, Drawing, At, Goto, Return, Begins
<1>8. ASSUME NEW u \in Threads, NEW v \in Threads PROVE Apart(u, v)'
  BY DEF Seek, TypeOK, Apart, Bare, At, Goto, Return, Begins
<1> QED  BY <1>1, <1>2, <1>3, <1>4, <1>5, <1>6, <1>7, <1>8

LEMMA ReadSymbolRight ==
  ASSUME IInv, NEW t \in Threads, ReadSymbol(t)
  PROVE  IInv'
<1> USE NamesAssumption, IdsAssumption DEF IInv, ThreadsRight
<1>1. RegistryExact' /\ NamesRight' /\ Unmade' /\ Classes'
  BY SameObjects DEF ReadSymbol
<1>2. TypeOK'
  BY DEF ReadSymbol, TypeOK, Places, Begins, Drawn, Ids, At, Goto, Return, mapVars, payVars, threadVars
<1>3. NoAssertFails'
  BY DEF ReadSymbol, NoAssertFails, Symbols, Calls, At, TypeOK
<1>4. ASSUME NEW u \in Threads PROVE Calls(u)'
  BY DEF ReadSymbol, TypeOK, Calls, Begins, At, Goto, Return, Drawn, Ids
<1>5. ASSUME NEW u \in Threads PROVE Symbols(u)'
  BY DEF ReadSymbol, TypeOK, Symbols, Calls, NamesRight, At, Goto, Return, Begins, payVars
<1>6. ASSUME NEW u \in Threads PROVE Hands(u)'
  BY DEF ReadSymbol, TypeOK, Hands, Made, Bare, InHand, At, Goto, Return, Begins, mapVars, payVars
<1>7. ASSUME NEW u \in Threads PROVE Locks(u)'
  BY DEF ReadSymbol, TypeOK, Locks, Calls, MakesSymbol, Drawing, At, Goto, Return, Begins
<1>8. ASSUME NEW u \in Threads, NEW v \in Threads PROVE Apart(u, v)'
  BY DEF ReadSymbol, TypeOK, Apart, Bare, At, Goto, Return, Begins
<1> QED  BY <1>1, <1>2, <1>3, <1>4, <1>5, <1>6, <1>7, <1>8

LEMMA LookRight ==
  ASSUME IInv, NEW t \in Threads, Look(t)
  PROVE  IInv'
<1> USE NamesAssumption, IdsAssumption DEF IInv, ThreadsRight
<1>1. RegistryExact' /\ NamesRight' /\ Unmade' /\ Classes'
  BY SameObjects DEF Look
<1>2. TypeOK'
  BY DEF Look, TypeOK, Calls, Places, Begins, Drawn, Ids, At, Goto, Return, mapVars, payVars, threadVars
<1>3. NoAssertFails'
  BY DEF Look, NoAssertFails, Symbols, Calls, At, TypeOK
<1>4. ASSUME NEW u \in Threads PROVE Calls(u)'
  BY DEF Look, TypeOK, Calls, Begins, At, Goto, Return, Drawn, Ids
<1>5. ASSUME NEW u \in Threads PROVE Symbols(u)'
  BY DEF Look, TypeOK, Symbols, Calls, NamesRight, At, Goto, Return, Begins, payVars
<1>6. ASSUME NEW u \in Threads PROVE Hands(u)'
  BY DEF Look, TypeOK, Hands, Made, Bare, InHand, At, Goto, Return, Begins, mapVars, payVars
<1>7. ASSUME NEW u \in Threads PROVE Locks(u)'
  BY DEF Look, TypeOK, Locks, Calls, MakesSymbol, Drawing, At, Goto, Return, Begins
<1>8. ASSUME NEW u \in Threads, NEW v \in Threads PROVE Apart(u, v)'
  BY DEF Look, TypeOK, Apart, Bare, At, Goto, Return, Begins
<1> QED  BY <1>1, <1>2, <1>3, <1>4, <1>5, <1>6, <1>7, <1>8

LEMMA TakeLockRight ==
  ASSUME IInv, NEW t \in Threads, TakeLock(t)
  PROVE  IInv'
<1> USE NamesAssumption, IdsAssumption DEF IInv, ThreadsRight
<1>1. RegistryExact' /\ NamesRight' /\ Unmade' /\ Classes'
  BY SameObjects DEF TakeLock
<1>2. TypeOK'
  BY DEF TakeLock, TypeOK, Places, Begins, Drawn, Ids, At, Goto, Return, mapVars, payVars, threadVars
<1>3. NoAssertFails'
  BY DEF TakeLock, NoAssertFails, Symbols, Calls, At, TypeOK
<1>4. ASSUME NEW u \in Threads PROVE Calls(u)'
  BY DEF TakeLock, TypeOK, Calls, Begins, At, Goto, Return, Drawn, Ids
<1>5. ASSUME NEW u \in Threads PROVE Symbols(u)'
  BY DEF TakeLock, TypeOK, Symbols, Calls, NamesRight, At, Goto, Return, Begins, payVars
<1>6. ASSUME NEW u \in Threads PROVE Hands(u)'
  BY DEF TakeLock, TypeOK, Hands, Made, Bare, InHand, At, Goto, Return, Begins, mapVars, payVars
<1>7. ASSUME NEW u \in Threads PROVE Locks(u)'
  BY DEF TakeLock, TypeOK, Locks, Calls, MakesSymbol, Drawing, At, Goto, Return, Begins
<1>8. ASSUME NEW u \in Threads, NEW v \in Threads PROVE Apart(u, v)'
  BY DEF TakeLock, TypeOK, Apart, Bare, At, Goto, Return, Begins
<1> QED  BY <1>1, <1>2, <1>3, <1>4, <1>5, <1>6, <1>7, <1>8

LEMMA DrawRight ==
  ASSUME IInv, NEW t \in Threads, Draw(t)
  PROVE  IInv'
<1> USE NamesAssumption, IdsAssumption DEF IInv, ThreadsRight
<1>1. RegistryExact' /\ NamesRight' /\ Unmade' /\ Classes'
  BY SameObjects DEF Draw
<1>2. TypeOK'
  BY DEF Draw, TypeOK, Places, Begins, Drawn, Ids, At, Goto, Return, mapVars, payVars, threadVars
<1>3. NoAssertFails'
  BY DEF Draw, NoAssertFails, Symbols, Calls, At, TypeOK
<1>4. ASSUME NEW u \in Threads PROVE Calls(u)'
  BY DEF Draw, TypeOK, Calls, Begins, At, Goto, Return, Drawn, Ids
<1>5. ASSUME NEW u \in Threads PROVE Symbols(u)'
  BY DEF Draw, TypeOK, Symbols, Calls, NamesRight, At, Goto, Return, Begins, payVars
<1>6. ASSUME NEW u \in Threads PROVE Hands(u)'
  BY DEF Draw, TypeOK, Hands, Made, Bare, InHand, At, Goto, Return, Begins, mapVars, payVars
<1>7. ASSUME NEW u \in Threads PROVE Locks(u)'
  BY DEF Draw, TypeOK, Locks, Calls, MakesSymbol, Drawing, At, Goto, Return, Begins
<1>8. ASSUME NEW u \in Threads, NEW v \in Threads PROVE Apart(u, v)'
  BY DEF Draw, TypeOK, Apart, Bare, At, Goto, Return, Begins
<1> QED  BY <1>1, <1>2, <1>3, <1>4, <1>5, <1>6, <1>7, <1>8

LEMMA LockSymbolRight ==
  ASSUME IInv, NEW t \in Threads, LockSymbol(t)
  PROVE  IInv'
<1> USE NamesAssumption, IdsAssumption DEF IInv, ThreadsRight
<1>1. RegistryExact' /\ NamesRight' /\ Unmade' /\ Classes'
  BY SameObjects DEF LockSymbol
<1>2. TypeOK'
  <2>1. UNCHANGED <<idmap, buckets, oid, class, payl, pname, value, symb, table, entered,
                    symlock, goal, name, id, obj, sym, calls>>
    BY DEF LockSymbol, mapVars, payVars
  <2>2. pc' = pc \/ pc' = [pc EXCEPT ![t] = "draw"]
    BY DEF LockSymbol, Goto
  <2>3. omtx' = omtx \/ omtx' = [omtx EXCEPT ![sym[t]] = t]
    BY DEF LockSymbol
  <2>4. pc' \in [Threads -> Places] /\ omtx' \in [Zones -> Threads \cup {Nobody}]
    BY <2>2, <2>3 DEF TypeOK, Places
  <2>5. end' \in {"running", "fatal", "assert"}
    BY DEF LockSymbol, TypeOK
  <2> QED BY <2>1, <2>4, <2>5 DEF TypeOK
<1>3. NoAssertFails'
  BY DEF LockSymbol, NoAssertFails, Symbols, Calls, At, TypeOK
<1>4. ASSUME NEW u \in Threads PROVE Calls(u)'
  BY DEF LockSymbol, TypeOK, Calls, Begins, At, Goto, Return, Drawn, Ids
<1>5. ASSUME NEW u \in Threads PROVE Symbols(u)'
  BY DEF LockSymbol, TypeOK, Symbols, Calls, NamesRight, At, Goto, Return, Begins, payVars
<1>6. ASSUME NEW u \in Threads PROVE Hands(u)'
  BY DEF LockSymbol, TypeOK, Hands, Made, Bare, InHand, At, Goto, Return, Begins, mapVars, payVars
<1>7. ASSUME NEW u \in Threads PROVE Locks(u)'
  BY DEF LockSymbol, TypeOK, Locks, Calls, MakesSymbol, Drawing, At, Goto, Return, Begins
<1>8. ASSUME NEW u \in Threads, NEW v \in Threads PROVE Apart(u, v)'
  BY DEF LockSymbol, TypeOK, Apart, Bare, At, Goto, Return, Begins
<1> QED  BY <1>1, <1>2, <1>3, <1>4, <1>5, <1>6, <1>7, <1>8

-----------------------------------------------------------------------------
(* Steps that make and name objects.                                       *)

LEMMA FreshIsUnmade ==
  ASSUME Made # Zones
  PROVE  FreshZone \in Zones /\ FreshZone \notin Made
  BY DEF FreshZone, Made

LEMMA RegisterRight ==
  ASSUME IInv, NEW t \in Threads, Register(t)
  PROVE  IInv'
<1> USE NamesAssumption, IdsAssumption DEF IInv, ThreadsRight
<1>1. TypeOK'
  <2>0. CASE idmap[id[t]] # NoZone
    BY <2>0 DEF Register, TypeOK, mapVars, payVars
  <2>1. CASE idmap[id[t]] = NoZone
    <3>1. id[t] \in Ids /\ FreshZone \in Zones
      BY FreshIsUnmade DEF Register, Calls, At
    <3>2. /\ idmap' = [idmap EXCEPT ![id[t]] = FreshZone]
          /\ buckets' = [buckets EXCEPT ![id[t]] = FreshZone]
          /\ oid' = [oid EXCEPT ![FreshZone] = id[t]]
          /\ obj' = [obj EXCEPT ![t] = FreshZone]
          /\ pc' = [pc EXCEPT ![t] = "classify"]
          /\ UNCHANGED <<class, payl, pname, value, symb, table, entered, symlock, omtx,
                         goal, name, id, sym, end, calls>>
      BY <2>1 DEF Register, EnterMaps, Goto, payVars
    <3>3. /\ idmap' \in [Ids -> Zones \cup {NoZone}] /\ buckets' \in [Ids -> Zones \cup {NoZone}]
          /\ oid' \in [Zones -> Ids \cup {NoId}]
      BY <3>1, <3>2 DEF TypeOK
    <3>4. obj' \in [Threads -> Zones \cup {NoZone}] /\ pc' \in [Threads -> Places]
      BY <3>1, <3>2 DEF TypeOK, Places
    <3> QED  BY <3>2, <3>3, <3>4 DEF TypeOK
  <2> QED  BY <2>0, <2>1
<1>2. RegistryExact'
  <2>0. CASE idmap[id[t]] # NoZone
    BY <2>0 DEF Register, RegistryExact, mapVars
  <2>1. CASE idmap[id[t]] = NoZone
    <3>1. id[t] \in Ids /\ FreshZone \in Zones /\ oid[FreshZone] = NoId
      BY FreshIsUnmade DEF Register, Calls, At, Made
    <3>2. /\ idmap' = [idmap EXCEPT ![id[t]] = FreshZone]
          /\ buckets' = [buckets EXCEPT ![id[t]] = FreshZone]
          /\ oid' = [oid EXCEPT ![FreshZone] = id[t]]
      BY <2>1 DEF Register, EnterMaps
    <3>3. NoId \notin Ids
      BY DEF Ids
    <3> QED  BY <2>1, <3>1, <3>2, <3>3 DEF RegistryExact, TypeOK
  <2> QED  BY <2>0, <2>1
<1>3. NamesRight'
  BY FreshIsUnmade DEF Register, EnterMaps, TypeOK, At, Goto, Return, mapVars, payVars, NamesRight, Hands, Made, InHand, Bare, Calls
<1>4. Unmade'
  BY FreshIsUnmade DEF Register, EnterMaps, TypeOK, At, Goto, Return, mapVars, payVars, Unmade, Hands, Made, InHand, Bare
<1>5. Classes'
  BY FreshIsUnmade DEF Register, EnterMaps, TypeOK, At, Goto, Return, mapVars, payVars, Classes, Named, Hands, Symbols, Calls, Made, InHand, Bare
<1>6. NoAssertFails'
  BY FreshIsUnmade DEF Register, EnterMaps, TypeOK, At, Goto, Return, mapVars, payVars, NoAssertFails
<1>7. ASSUME NEW u \in Threads PROVE Calls(u)'
  BY FreshIsUnmade DEF Register, EnterMaps, TypeOK, At, Goto, Return, mapVars, payVars, Calls, Hands, Made, InHand, Bare, Begins, Ids
<1>8. ASSUME NEW u \in Threads PROVE Symbols(u)'
  BY FreshIsUnmade DEF Register, EnterMaps, TypeOK, At, Goto, Return, mapVars, payVars, Symbols, Calls, Hands, Apart, Made, InHand, Bare, Locks, MakesSymbol, Drawing, Begins
<1>9. ASSUME NEW u \in Threads PROVE Hands(u)'
  BY FreshIsUnmade DEF Register, EnterMaps, TypeOK, At, Goto, Return, mapVars, payVars, Hands, Apart, Calls, Symbols, Made, InHand, Bare, Unmade, Begins, Ids
<1>10. ASSUME NEW u \in Threads PROVE Locks(u)'
  BY FreshIsUnmade DEF Register, EnterMaps, TypeOK, At, Goto, Return, mapVars, payVars, Locks, Calls, MakesSymbol, Drawing, Begins
<1>11. ASSUME NEW u \in Threads, NEW v \in Threads PROVE Apart(u, v)'
  BY FreshIsUnmade DEF Register, EnterMaps, TypeOK, At, Goto, Return, mapVars, payVars, Apart, Hands, Made, InHand, Bare, Begins
<1> QED  BY <1>1, <1>2, <1>3, <1>4, <1>5, <1>6, <1>7, <1>8, <1>9, <1>10, <1>11

LEMMA ClassifyRight ==
  ASSUME IInv, NEW t \in Threads, Classify(t)
  PROVE  IInv'
<1> USE NamesAssumption, IdsAssumption DEF IInv, ThreadsRight
<1>1. TypeOK'
  BY DEF Classify, Making, AfterMake, TypeOK, At, Goto, Return, mapVars, payVars, Calls, Hands, Made, InHand, Bare, Places, Begins, Ids
<1>2. RegistryExact'
  BY DEF Classify, Making, AfterMake, TypeOK, At, Goto, Return, mapVars, payVars, RegistryExact, Calls, Ids, Made
<1>3. NamesRight'
  BY DEF Classify, Making, AfterMake, TypeOK, At, Goto, Return, mapVars, payVars, NamesRight, Hands, Made, InHand, Bare, Calls
<1>4. Unmade'
  BY DEF Classify, Making, AfterMake, TypeOK, At, Goto, Return, mapVars, payVars, Unmade, Hands, Made, InHand, Bare
<1>5. Classes'
  BY DEF Classify, Making, AfterMake, TypeOK, At, Goto, Return, mapVars, payVars, Classes, Named, Hands, Symbols, Calls, Made, InHand, Bare
<1>6. NoAssertFails'
  BY DEF Classify, Making, AfterMake, TypeOK, At, Goto, Return, mapVars, payVars, NoAssertFails
<1>7. ASSUME NEW u \in Threads PROVE Calls(u)'
  BY DEF Classify, Making, AfterMake, TypeOK, At, Goto, Return, mapVars, payVars, Calls, Hands, Made, InHand, Bare, Begins, Ids
<1>8. ASSUME NEW u \in Threads PROVE Symbols(u)'
  BY DEF Classify, Making, AfterMake, TypeOK, At, Goto, Return, mapVars, payVars, Symbols, Calls, Hands, Apart, Made, InHand, Bare, Locks, MakesSymbol, Drawing, Begins
<1>9. ASSUME NEW u \in Threads PROVE Hands(u)'
  BY DEF Classify, Making, AfterMake, TypeOK, At, Goto, Return, mapVars, payVars, Hands, Apart, Calls, Symbols, Made, InHand, Bare, Unmade, Begins
<1>10. ASSUME NEW u \in Threads PROVE Locks(u)'
  BY DEF Classify, Making, AfterMake, TypeOK, At, Goto, Return, mapVars, payVars, Locks, Calls, MakesSymbol, Drawing, Begins
<1>11. ASSUME NEW u \in Threads, NEW v \in Threads PROVE Apart(u, v)'
  BY DEF Classify, Making, AfterMake, TypeOK, At, Goto, Return, mapVars, payVars, Apart, Hands, Made, InHand, Bare, Begins
<1> QED  BY <1>1, <1>2, <1>3, <1>4, <1>5, <1>6, <1>7, <1>8, <1>9, <1>10, <1>11

LEMMA RegisterNameRight ==
  ASSUME IInv, NEW t \in Threads, RegisterName(t)
  PROVE  IInv'
<1> USE NamesAssumption, IdsAssumption DEF IInv, ThreadsRight
<1>0. name[t] \in Names /\ obj[t] \in Zones /\ payl[obj[t]] = "none"
  BY DEF RegisterName, TypeOK, At, Calls, Hands, Made, InHand, Bare
<1>1. TypeOK'
  <2>1. CASE table[name[t]] # NoZone
    BY <1>0, <2>1 DEF RegisterName, NameObject, TypeOK, At, Goto, Return, mapVars, payVars, Places
  <2>2. CASE table[name[t]] = NoZone
    <3>1. /\ payl' = [payl EXCEPT ![obj[t]] = "symbol"]
          /\ pname' = [pname EXCEPT ![obj[t]] = name[t]]
          /\ table' = [table EXCEPT ![name[t]] = obj[t]]
          /\ UNCHANGED <<value, symb, mapVars, class, entered, omtx, goal, name, id, obj, end, calls>>
      BY <2>2 DEF RegisterName, NameObject
    <3>2. \A o \in Zones : /\ pname'[o] # NoName <=> payl'[o] = "symbol"
                           /\ symb'[o] # NoZone <=> payl'[o] = "classinfo"
      BY <1>0, <3>1 DEF TypeOK
    <3>3. /\ payl' \in [Zones -> {"none", "symbol", "classinfo"}]
          /\ pname' \in [Zones -> Names \cup {NoName}]
          /\ table' \in [Names -> Zones \cup {NoZone}]
      BY <1>0, <3>1 DEF TypeOK
    <3>4. /\ symlock' \in Threads \cup {Nobody}
          /\ pc' \in [Threads -> Places]
          /\ sym' \in [Threads -> Zones \cup {NoZone}]
      BY <1>0 DEF RegisterName, TypeOK, Goto, Return, Places
    <3> QED  BY <3>1, <3>2, <3>3, <3>4 DEF TypeOK, mapVars
  <2> QED  BY <2>1, <2>2
<1>2. RegistryExact'
  BY DEF RegisterName, NameObject, TypeOK, At, Goto, Return, mapVars, payVars, RegistryExact, Calls, Ids, Made
<1>3. NamesRight'
  BY DEF RegisterName, NameObject, TypeOK, At, Goto, Return, mapVars, payVars, NamesRight, Hands, Made, InHand, Bare, Calls
<1>4. Unmade'
  BY DEF RegisterName, NameObject, TypeOK, At, Goto, Return, mapVars, payVars, Unmade, Hands, Made, InHand, Bare
<1>5. Classes'
  BY DEF RegisterName, NameObject, TypeOK, At, Goto, Return, mapVars, payVars, Classes, Named, Hands, Symbols, Calls, Made, InHand, Bare
<1>6. NoAssertFails'
  BY DEF RegisterName, NameObject, TypeOK, At, Goto, Return, mapVars, payVars, NoAssertFails
<1>7. ASSUME NEW u \in Threads PROVE Calls(u)'
  BY DEF RegisterName, NameObject, TypeOK, At, Goto, Return, mapVars, payVars, Calls, Hands, Made, InHand, Bare, Begins, Ids
<1>8. ASSUME NEW u \in Threads PROVE Symbols(u)'
  BY DEF RegisterName, NameObject, TypeOK, At, Goto, Return, mapVars, payVars, Symbols, Calls, Hands, Apart, Made, InHand, Bare, Locks, MakesSymbol, Drawing, Begins
<1>9. ASSUME NEW u \in Threads PROVE Hands(u)'
  BY DEF RegisterName, NameObject, TypeOK, At, Goto, Return, mapVars, payVars, Hands, Apart, Calls, Symbols, Made, InHand, Bare, Unmade, Begins
<1>10. ASSUME NEW u \in Threads PROVE Locks(u)'
  BY DEF RegisterName, NameObject, TypeOK, At, Goto, Return, mapVars, payVars, Locks, Calls, MakesSymbol, Drawing, Begins
<1>11. ASSUME NEW u \in Threads, NEW v \in Threads PROVE Apart(u, v)'
  BY DEF RegisterName, NameObject, TypeOK, At, Goto, Return, mapVars, payVars, Apart, Hands, Made, InHand, Bare, Begins
<1> QED  BY <1>1, <1>2, <1>3, <1>4, <1>5, <1>6, <1>7, <1>8, <1>9, <1>10, <1>11

LEMMA DressClassRight ==
  ASSUME IInv, NEW t \in Threads, DressClass(t)
  PROVE  IInv'
<1> USE NamesAssumption, IdsAssumption DEF IInv, ThreadsRight
<1>1. TypeOK'
  BY DEF DressClass, NameClass, TypeOK, At, Goto, Return, mapVars, payVars, Calls, Hands, Made, InHand, Bare, Places, Begins, Ids
<1>2. RegistryExact'
  BY DEF DressClass, NameClass, TypeOK, At, Goto, Return, mapVars, payVars, RegistryExact, Calls, Ids, Made
<1>3. NamesRight'
  BY DEF DressClass, NameClass, TypeOK, At, Goto, Return, mapVars, payVars, NamesRight, Hands, Made, InHand, Bare, Calls
<1>4. Unmade'
  BY DEF DressClass, NameClass, TypeOK, At, Goto, Return, mapVars, payVars, Unmade, Hands, Made, InHand, Bare
<1>5. Classes'
  BY DEF DressClass, NameClass, TypeOK, At, Goto, Return, mapVars, payVars, Classes, Named, Hands, Symbols, Calls, Made, InHand, Bare
<1>6. NoAssertFails'
  BY DEF DressClass, NameClass, TypeOK, At, Goto, Return, mapVars, payVars, NoAssertFails
<1>7. ASSUME NEW u \in Threads PROVE Calls(u)'
  BY DEF DressClass, NameClass, TypeOK, At, Goto, Return, mapVars, payVars, Calls, Hands, Made, InHand, Bare, Begins, Ids
<1>8. ASSUME NEW u \in Threads PROVE Symbols(u)'
  BY DEF DressClass, NameClass, TypeOK, At, Goto, Return, mapVars, payVars, Symbols, Calls, Hands, Apart, Made, InHand, Bare, Locks, MakesSymbol, Drawing, Begins
<1>9. ASSUME NEW u \in Threads PROVE Hands(u)'
  BY DEF DressClass, NameClass, TypeOK, At, Goto, Return, mapVars, payVars, Hands, Apart, Calls, Symbols, Made, InHand, Bare, Unmade, Begins
<1>10. ASSUME NEW u \in Threads PROVE Locks(u)'
  BY DEF DressClass, NameClass, TypeOK, At, Goto, Return, mapVars, payVars, Locks, Calls, MakesSymbol, Drawing, Begins
<1>11. ASSUME NEW u \in Threads, NEW v \in Threads PROVE Apart(u, v)'
  BY DEF DressClass, NameClass, TypeOK, At, Goto, Return, mapVars, payVars, Apart, Hands, Made, InHand, Bare, Begins
<1> QED  BY <1>1, <1>2, <1>3, <1>4, <1>5, <1>6, <1>7, <1>8, <1>9, <1>10, <1>11

LEMMA EnterClassRight ==
  ASSUME IInv, NEW t \in Threads, EnterClass(t)
  PROVE  IInv'
<1> USE NamesAssumption, IdsAssumption DEF IInv, ThreadsRight
<1>1. TypeOK'
  BY DEF EnterClass, TypeOK, At, Goto, Return, mapVars, payVars, Calls, Hands, Made, InHand, Bare, Places, Begins, Ids
<1>2. RegistryExact'
  BY DEF EnterClass, TypeOK, At, Goto, Return, mapVars, payVars, RegistryExact, Calls, Ids, Made
<1>3. NamesRight'
  BY DEF EnterClass, TypeOK, At, Goto, Return, mapVars, payVars, NamesRight, Hands, Made, InHand, Bare, Calls
<1>4. Unmade'
  BY DEF EnterClass, TypeOK, At, Goto, Return, mapVars, payVars, Unmade, Hands, Made, InHand, Bare
<1>5. Classes'
  BY DEF EnterClass, TypeOK, At, Goto, Return, mapVars, payVars, Classes, Named, Hands, Symbols, Calls, Made, InHand, Bare
<1>6. NoAssertFails'
  BY DEF EnterClass, TypeOK, At, Goto, Return, mapVars, payVars, NoAssertFails
<1>7. ASSUME NEW u \in Threads PROVE Calls(u)'
  BY DEF EnterClass, TypeOK, At, Goto, Return, mapVars, payVars, Calls, Hands, Made, InHand, Bare, Begins, Ids
<1>8. ASSUME NEW u \in Threads PROVE Symbols(u)'
  BY DEF EnterClass, TypeOK, At, Goto, Return, mapVars, payVars, Symbols, Calls, Hands, Apart, Made, InHand, Bare, Locks, MakesSymbol, Drawing, Begins
<1>9. ASSUME NEW u \in Threads PROVE Hands(u)'
  BY DEF EnterClass, TypeOK, At, Goto, Return, mapVars, payVars, Hands, Apart, Calls, Symbols, Made, InHand, Bare, Unmade, Begins
<1>10. ASSUME NEW u \in Threads PROVE Locks(u)'
  BY DEF EnterClass, TypeOK, At, Goto, Return, mapVars, payVars, Locks, Calls, MakesSymbol, Drawing, Begins
<1>11. ASSUME NEW u \in Threads, NEW v \in Threads PROVE Apart(u, v)'
  BY DEF EnterClass, TypeOK, At, Goto, Return, mapVars, payVars, Apart, Hands, Made, InHand, Bare, Begins
<1> QED  BY <1>1, <1>2, <1>3, <1>4, <1>5, <1>6, <1>7, <1>8, <1>9, <1>10, <1>11

-----------------------------------------------------------------------------
(* The theorems.                                                           *)

\* The invariant holds always.
THEOREM Inductive == Spec => []IInv
<1>1. Init => IInv
  BY Start
<1>2. ASSUME IInv, [Next]_vars PROVE IInv'
  <2>1. CASE UNCHANGED vars
    BY <1>2, <2>1 DEF vars, mapVars, payVars, threadVars, IInv, TypeOK, RegistryExact,
       NamesRight, Unmade, Classes, Named, NoAssertFails, ThreadsRight, Calls, Symbols,
       Hands, Locks, Apart, MakesSymbol, Made
  <2>2. ASSUME NEW t \in Threads, NEW g \in DOMAIN Begins, NEW n \in Names, Begin(t, g, n)
        PROVE  IInv'
    BY <1>2, <2>2, BeginRight
  <2>3. ASSUME NEW t \in Threads, Step(t)
        PROVE  IInv'
    BY <1>2, <2>3, SeekRight, ReadSymbolRight, LookRight, TakeLockRight, DrawRight,
       RegisterRight, ClassifyRight, RegisterNameRight, LockSymbolRight, DressClassRight,
       EnterClassRight DEF Step
  <2> QED  BY <1>2, <2>1, <2>2, <2>3 DEF Next
<1> QED  BY <1>1, <1>2, PTL DEF Spec

\* Every variable has its type, and the fields of a payload are those of its kind.
THEOREM TypeCorrect == Spec => []TypeOK
<1>1. IInv => TypeOK
  BY DEF IInv
<1> QED  BY <1>1, Inductive, PTL

\* The maps of objects agree with each other and with the objects, whatever the
\* threads do between drawing an id and registering an object with it.
THEOREM RegistryIsExact == Spec => []RegistryExact
<1>1. IInv => RegistryExact
  BY DEF IInv
<1> QED  BY <1>1, Inductive, PTL

\* The table of symbols has exactly the names of the payloads.
THEOREM NamesAreRight == Spec => []NamesRight
<1>1. IInv => NamesRight
  BY DEF IInv
<1> QED  BY <1>1, Inductive, PTL

\* A name that make_new_symbol found free is free when it is registered.
THEOREM NameStaysFree == Spec => []NameStillFree
<1>1. IInv => NameStillFree
  BY DEF IInv, ThreadsRight, Calls, Locks, MakesSymbol, Drawing, NameStillFree
<1> QED  BY <1>1, Inductive, PTL

\* Neither make_named_class nor find_object_by_string meets a symbol that is none.
THEOREM AssertsHold == Spec => []NoAssertFails
<1>1. IInv => NoAssertFails
  BY DEF IInv
<1> QED  BY <1>1, Inductive, PTL

\* Every class that was made has its symbol, and the symbol a class.
THEOREM ClassesAreNamed == Spec => []ClassesNamed
<1>1. IInv => ClassesNamed
  BY DEF IInv, TypeOK, Classes, Named, ClassesNamed
<1> QED  BY <1>1, Inductive, PTL

-----------------------------------------------------------------------------
(* No thread that holds a mutex waits for one.                             *)

\* A thread is stopped by a mutex that is taken.
Waits(t) == \/ pc[t] = "take" /\ symlock # Nobody
            \/ pc[t] = "name" /\ omtx[obj[t]] # Nobody
            \/ pc[t] = "lock" /\ omtx[sym[t]] # Nobody

HoldersGoOn ==
  \A t \in Threads : symlock = t \/ (\E o \in Zones : omtx[o] = t) => ~Waits(t)

\* The holder of rps_symbol_mtx is making a symbol; the holder of a symbol's mutex
\* is making the class of that name, and past its last wait.
Holding(t) ==
  /\ symlock = t => MakesSymbol(t)
  /\ \A o \in Zones : omtx[o] = t =>
       /\ sym[t] = o /\ goal[t] = "class"
       /\ pc[t] \in {"draw", "register", "classify", "dress", "enter"}

HoldInv == \A t \in Threads : Holding(t)

\* Every step of a thread keeps what the holders of the mutexes are at.
LEMMA HoldStep == IInv /\ HoldInv /\ [Next]_vars => HoldInv'
<1> SUFFICES ASSUME IInv, HoldInv, [Next]_vars, NEW u \in Threads PROVE Holding(u)'
  BY DEF HoldInv
<1> USE NamesAssumption
<1>0. /\ TypeOK /\ Holding(u)
      /\ \A t \in Threads : Holding(t) /\ Calls(t) /\ Symbols(t) /\ Locks(t)
  BY DEF IInv, HoldInv, ThreadsRight
<1>1. ASSUME UNCHANGED <<symlock, omtx, pc, goal, sym>> PROVE Holding(u)'
  BY <1>0, <1>1 DEF Holding, MakesSymbol
<1>2. ASSUME NEW t \in Threads, UNCHANGED <<symlock, omtx>>,
             u # t => pc'[u] = pc[u] /\ goal'[u] = goal[u] /\ sym'[u] = sym[u],
             symlock # t, \A o \in Zones : omtx[o] # t
      PROVE  Holding(u)'
  BY <1>0, <1>2 DEF Holding, MakesSymbol
<1>3. ASSUME NEW t \in Threads, NEW g \in DOMAIN Begins, NEW n \in Names, Begin(t, g, n)
      PROVE  Holding(u)'
  <2>1. pc[t] = "idle" /\ UNCHANGED <<symlock, omtx>>
    BY <1>3 DEF Begin, At
  <2>2. u # t => pc'[u] = pc[u] /\ goal'[u] = goal[u] /\ sym'[u] = sym[u]
    BY <1>0, <1>3 DEF Begin, Goto, TypeOK
  <2>3. symlock # t /\ \A o \in Zones : omtx[o] # t
    BY <1>0, <2>1 DEF Holding, MakesSymbol, Drawing
  <2> QED BY <1>2, <2>1, <2>2, <2>3
<1>4. ASSUME NEW t \in Threads, Seek(t) \/ ReadSymbol(t) \/ Look(t) PROVE Holding(u)'
  <2>1. pc[t] \in {"seek", "read", "look"} /\ UNCHANGED <<symlock, omtx>>
    BY <1>4 DEF Seek, ReadSymbol, Look, At
  <2>2. u # t => pc'[u] = pc[u] /\ goal'[u] = goal[u] /\ sym'[u] = sym[u]
    BY <1>0, <1>4 DEF Seek, ReadSymbol, Look, Goto, Return, TypeOK
  <2>3. symlock # t /\ \A o \in Zones : omtx[o] # t
    BY <1>0, <2>1 DEF Holding, MakesSymbol, Drawing
  <2> QED BY <1>2, <2>1, <2>2, <2>3
<1>5. ASSUME NEW t \in Threads, TakeLock(t) PROVE Holding(u)'
  <2>1. /\ pc[t] = "take" /\ symlock = Nobody /\ UNCHANGED <<omtx, goal, sym>>
        /\ \/ symlock' = Nobody
           \/ symlock' = t /\ pc' = [pc EXCEPT ![t] = "draw"]
    BY <1>5 DEF TakeLock, At, Goto
  <2>2. u # t => pc'[u] = pc[u]
    BY <1>0, <1>5 DEF TakeLock, Goto, Return, TypeOK
  <2>3. \A o \in Zones : omtx[o] # t
    BY <1>0, <2>1 DEF Holding
  <2>4. goal[t] \in {"symbol", "class"} /\ sym[t] = NoZone
    BY <1>0, <2>1 DEF Calls
  <2>5. symlock' = u => MakesSymbol(u)'
    BY <1>0, <2>1, <2>4 DEF MakesSymbol, Drawing, TypeOK
  <2> QED BY <1>0, <2>1, <2>2, <2>3, <2>5 DEF Holding
<1>6. ASSUME NEW t \in Threads, Draw(t) \/ Register(t) PROVE Holding(u)'
  <2>1. /\ UNCHANGED <<symlock, omtx, goal, sym>> /\ pc[t] \in {"draw", "register"}
        /\ pc' = pc \/ \E l \in {"register", "classify"} : pc' = [pc EXCEPT ![t] = l]
    BY <1>6 DEF Draw, Register, At, Goto
  <2>2. u # t => pc'[u] = pc[u]
    BY <1>0, <2>1 DEF TypeOK
  <2>3. u = t => pc[u] \in {"draw", "register"} /\ pc'[u] \in {"draw", "register", "classify"}
    BY <1>0, <2>1 DEF TypeOK
  <2> QED BY <1>0, <2>1, <2>2, <2>3 DEF Holding, MakesSymbol, Drawing
<1>7. ASSUME NEW t \in Threads, Classify(t) PROVE Holding(u)'
  <2>1. /\ UNCHANGED <<symlock, omtx, goal, sym>> /\ pc[t] = "classify"
        /\ pc' = [pc EXCEPT ![t] = AfterMake[Making(t)]]
    BY <1>7 DEF Classify, At, Goto
  <2>2. u # t => pc'[u] = pc[u]
    BY <1>0, <2>1 DEF TypeOK
  <2>3. CASE symlock = t \/ (\E o \in Zones : omtx[o] = t)
    <3>1. /\ symlock = t => Making(t) = "symbol"
          /\ (\E o \in Zones : omtx[o] = t) => Making(t) = "class"
      BY <1>0, <2>1 DEF Holding, MakesSymbol, Making, TypeOK, Begins
    <3>2. pc'[t] = AfterMake[Making(t)]
      BY <1>0, <2>1 DEF TypeOK
    <3>3. /\ symlock = t => pc'[t] = "name"
          /\ (\E o \in Zones : omtx[o] = t) => pc'[t] = "dress"
      BY <3>1, <3>2 DEF AfterMake
    <3> QED BY <1>0, <2>1, <2>2, <3>3 DEF Holding, MakesSymbol, Drawing
  <2>4. CASE symlock # t /\ \A o \in Zones : omtx[o] # t
    BY <1>2, <2>1, <2>2, <2>4
  <2> QED BY <2>3, <2>4
<1>8. ASSUME NEW t \in Threads, RegisterName(t) PROVE Holding(u)'
  <2>1. pc[t] = "name" /\ symlock' = Nobody /\ UNCHANGED <<omtx, goal>>
    BY <1>8 DEF RegisterName, At
  <2>2. u # t => pc'[u] = pc[u] /\ sym'[u] = sym[u]
    BY <1>0, <1>8 DEF RegisterName, Goto, Return, TypeOK
  <2>3. \A o \in Zones : omtx[o] # t
    BY <1>0, <2>1 DEF Holding
  <2> QED BY <1>0, <2>1, <2>2, <2>3 DEF Holding
<1>9. ASSUME NEW t \in Threads, LockSymbol(t) PROVE Holding(u)'
  <2>1. /\ pc[t] = "lock" /\ UNCHANGED <<symlock, goal, sym>>
        /\ \/ pc' = pc /\ omtx' = omtx
           \/ pc' = [pc EXCEPT ![t] = "draw"] /\ omtx' = [omtx EXCEPT ![sym[t]] = t]
    BY <1>9 DEF LockSymbol, At, Goto
  <2>2. symlock # t /\ \A o \in Zones : omtx[o] # t
    BY <1>0, <2>1 DEF Holding, MakesSymbol, Drawing
  <2>3. goal[t] = "class" /\ sym[t] \in Zones
    BY <1>0, <2>1 DEF Calls, TypeOK
  <2>4. CASE u = t
    BY <1>0, <2>1, <2>2, <2>3, <2>4 DEF Holding, TypeOK
  <2>5. CASE u # t
    <3>1. pc'[u] = pc[u] /\ \A o \in Zones : omtx'[o] = u => omtx[o] = u
      BY <1>0, <2>1, <2>5 DEF TypeOK
    <3> QED BY <1>0, <2>1, <3>1 DEF Holding, MakesSymbol
  <2> QED BY <2>4, <2>5
<1>10. ASSUME NEW t \in Threads, DressClass(t) PROVE Holding(u)'
  <2>1. /\ UNCHANGED <<symlock, omtx, goal, sym>> /\ pc[t] = "dress"
        /\ pc' = [pc EXCEPT ![t] = "enter"]
    BY <1>10 DEF DressClass, At, Goto
  <2>2. symlock # t
    BY <1>0, <2>1 DEF Holding, MakesSymbol, Drawing
  <2>3. (u # t => pc'[u] = pc[u]) /\ (u = t => pc'[u] = "enter")
    BY <1>0, <2>1 DEF TypeOK
  <2> QED BY <1>0, <2>1, <2>2, <2>3 DEF Holding, MakesSymbol
<1>11. ASSUME NEW t \in Threads, EnterClass(t) PROVE Holding(u)'
  <2>1. /\ UNCHANGED <<symlock, goal, sym>> /\ pc[t] = "enter"
        /\ omtx' = [omtx EXCEPT ![sym[t]] = Nobody] /\ pc' = [pc EXCEPT ![t] = "idle"]
    BY <1>11 DEF EnterClass, At, Goto, Return
  <2>2. symlock # t
    BY <1>0, <2>1 DEF Holding, MakesSymbol, Drawing
  <2>3. u # t => pc'[u] = pc[u]
    BY <1>0, <2>1 DEF TypeOK
  <2>4. \A o \in Zones : omtx'[o] = u => omtx[o] = u /\ u # t
    BY <1>0, <2>1 DEF TypeOK, Holding
  <2> QED BY <1>0, <2>1, <2>2, <2>3, <2>4 DEF Holding, MakesSymbol
<1>12. CASE UNCHANGED vars
  BY <1>1, <1>12 DEF vars, threadVars
<1> QED BY <1>3, <1>4, <1>5, <1>6, <1>7, <1>8, <1>9, <1>10, <1>11, <1>12 DEF Next, Step

\* A thread that holds rps_symbol_mtx or the mutex of a symbol waits for neither, on
\* any path through make_new_symbol and make_named_class: no circle of waiting
\* threads can arise.  CallsEnd adds that the waiting threads get their turn.
THEOREM HoldersDoNotWait == Spec => []HoldersGoOn
<1>1. Init => HoldInv
  BY NamesAssumption DEF Init, HoldInv, Holding
<1>2. IInv /\ HoldInv => HoldersGoOn
  <2> SUFFICES ASSUME IInv, HoldInv, NEW t \in Threads,
                      symlock = t \/ (\E o \in Zones : omtx[o] = t), Waits(t)
               PROVE  FALSE
    BY DEF HoldersGoOn
  <2>1. pc[t] = "name" /\ omtx[obj[t]] # Nobody
    BY NamesAssumption DEF HoldInv, Holding, Waits, MakesSymbol, Drawing
  <2>2. obj[t] \in Zones /\ payl[obj[t]] = "none"
    BY <2>1 DEF IInv, ThreadsRight, Hands, InHand, Bare, Made
  <2>3. PICK u \in Threads : omtx[obj[t]] = u
    BY <2>1, <2>2 DEF IInv, TypeOK
  <2>4. sym[u] = obj[t] /\ pc[u] # "idle"
    BY <2>2, <2>3 DEF HoldInv, Holding
  <2>5. payl[sym[u]] = "symbol"
    BY <2>2, <2>4, NamesAssumption DEF IInv, ThreadsRight, Symbols
  <2> QED BY <2>2, <2>4, <2>5
<1> QED BY <1>1, <1>2, HoldStep, Inductive, PTL DEF Spec
===============================================================================
