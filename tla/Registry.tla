------------------------------- MODULE Registry -------------------------------
(***************************************************************************)
(* The objects of RefPerSys and their names: the maps from object ids to   *)
(* objects (objects_rps.cc, oid_rps.hh), the table of symbols, and the     *)
(* calls that fill them: Rps_ObjectZone::make, Rps_ObjectRef::make_object, *)
(* make_new_symbol, make_named_class and find_object_by_string, made by    *)
(* several threads.                                                        *)
(*                                                                         *)
(* A critical section of ob_idmtx_ or symb_tablemtx is one step; the two   *)
(* mutexes held over several of them, rps_symbol_mtx and the mutex of a    *)
(* symbol, are variables.  Nothing is destroyed: outside of a collection   *)
(* no caller of the program takes a payload or an object away.             *)
(***************************************************************************)
EXTENDS Naturals, FiniteSets

CONSTANTS
  Threads,  \* the threads that make and find objects
  Zones,    \* the objects that may be allocated
  Names,    \* the valid names of symbols
  Nobody,   \* the owner of an unlocked mutex
  NoZone,   \* nullptr
  NoName,   \* an empty symb_name
  NoId,     \* an empty Rps_Id
  MinLo,    \* Rps_Id::min_lo, 62 * 62
  MaxLo,    \* Rps_Id::max_lo, about 3.5e12
  Width,    \* the values of a uint32_t, 2^32
  MaxCalls  \* bound on the number of calls

ASSUME NamesAssumption == /\ Nobody \notin Threads /\ NoZone \notin Zones
                          /\ NoName \notin Names
ASSUME IdsAssumption == /\ MinLo \in Nat /\ MaxLo \in Nat /\ MinLo < MaxLo
                        /\ Width \in Nat \ {0}
                        /\ NoId \notin 0 .. (Width - 1)
                        /\ MaxCalls \in Nat

VARIABLES
  idmap,    \* ob_idmap_
  buckets,  \* ob_idbucketmap_, all buckets together
  oid,      \* ob_oid, NoId for a zone that is not allocated
  class,    \* ob_class
  payl,     \* the kind of ob_payload
  pname,    \* symb_name of a symbol's payload
  value,    \* symb_data of a symbol's payload
  symb,     \* pclass_symbname of a class information payload
  table,    \* symb_table, by the owner of the payload
  entered,  \* the classes that are roots and in the_mutable_set_of_classes
  symlock,  \* the thread that holds rps_symbol_mtx
  omtx,     \* the thread that holds ob_mtx, by object
  pc,       \* where every thread is
  goal,     \* what its call makes or does
  name,     \* the name it was called with
  id,       \* the id it drew
  obj,      \* its obsymbol, obclass, resultob or obsymb
  sym,      \* the symbol of make_named_class, NoZone until it has one
  end,      \* "running", or how the process ended
  calls     \* the number of calls

mapVars    == <<idmap, buckets, oid>>
payVars    == <<payl, pname, value, symb>>
threadVars == <<pc, goal, name, id, obj, sym>>
vars == <<mapVars, class, payVars, table, entered, symlock, omtx, threadVars,
          end, calls>>

(* Object ids, by their low half: the high half only makes clashes rarer.  *)
Ids == 0 .. (Width - 1)

\* random() draws a low half of 64 bits, which the constructor Rps_Id(hi, lo)
\* takes as a uint32_t.
Drawn == {lo % Width : lo \in MinLo .. (MaxLo - 1)}

Valid(i) == i >= MinLo /\ i < MaxLo

\* Rps_ObjectZone::find
Found(i) == IF Valid(i) THEN idmap[i] ELSE NoZone

Made == {o \in Zones : oid[o] # NoId}

\* The zone the next object is allocated at.
FreshZone == CHOOSE o \in Zones : o \notin Made

Init ==
  /\ idmap = [i \in Ids |-> NoZone] /\ buckets = idmap
  /\ oid = [o \in Zones |-> NoId]
  /\ class = [o \in Zones |-> "null"]
  /\ payl = [o \in Zones |-> "none"]
  /\ pname = [o \in Zones |-> NoName]
  /\ value = [o \in Zones |-> NoZone] /\ symb = value
  /\ table = [n \in Names |-> NoZone]
  /\ entered = {}
  /\ symlock = Nobody /\ omtx = [o \in Zones |-> Nobody]
  /\ pc = [t \in Threads |-> "idle"]
  /\ goal = [t \in Threads |-> "object"]
  /\ name = [t \in Threads |-> NoName]
  /\ id = [t \in Threads |-> NoId]
  /\ obj = [t \in Threads |-> NoZone] /\ sym = obj
  /\ end = "running" /\ calls = 0

At(t, place)    == end = "running" /\ pc[t] = place
Goto(t, place)  == pc' = [pc EXCEPT ![t] = place]
Return(t)       == Goto(t, "idle")

-----------------------------------------------------------------------------
(* The calls.                                                              *)

Begins == [object |-> "draw", symbol |-> "take", class |-> "look", find |-> "seek"]

\* Bound: zones are left for all calls that go on, a call makes two at most.
Room == LET busy == {t \in Threads : pc[t] # "idle"}
        IN  Cardinality(Made) + 2 * Cardinality(busy) + 2 <= Cardinality(Zones)

Begin(t, g, n) ==
  /\ At(t, "idle") /\ calls < MaxCalls
  /\ g # "find" => Room
  /\ calls' = calls + 1
  /\ goal' = [goal EXCEPT ![t] = g]
  /\ name' = [name EXCEPT ![t] = IF g = "object" THEN NoName ELSE n]
  /\ id' = [id EXCEPT ![t] = NoId]
  /\ obj' = [obj EXCEPT ![t] = NoZone]
  /\ sym' = [sym EXCEPT ![t] = NoZone]
  /\ Goto(t, Begins[g])
  /\ UNCHANGED <<mapVars, class, payVars, table, entered, symlock, omtx, end>>

\* find_object_by_string: find_named_object under symb_tablemtx ...
Seek(t) ==
  /\ At(t, "seek")
  /\ \/ table[name[t]] = NoZone /\ Return(t) /\ UNCHANGED obj
     \/ /\ table[name[t]] # NoZone
        /\ obj' = [obj EXCEPT ![t] = table[name[t]]]
        /\ Goto(t, "read")
  /\ UNCHANGED <<mapVars, class, payVars, table, entered, symlock, omtx, goal, name,
                 id, sym, end, calls>>

\* ... and its payload without a mutex.
ReadSymbol(t) ==
  /\ At(t, "read")
  /\ end' = IF payl[obj[t]] = "symbol" THEN end ELSE "assert"
  /\ Return(t)
  /\ UNCHANGED <<mapVars, class, payVars, table, entered, symlock, omtx, goal, name,
                 id, obj, sym, calls>>

\* make_named_class looks for the symbol, and makes it if there is none.
Look(t) ==
  /\ At(t, "look")
  /\ sym' = [sym EXCEPT ![t] = table[name[t]]]
  /\ Goto(t, IF table[name[t]] = NoZone THEN "take" ELSE "lock")
  /\ UNCHANGED <<mapVars, class, payVars, table, entered, symlock, omtx, goal, name,
                 id, obj, end, calls>>

\* Mutant: make_new_symbol without rps_symbol_mtx.
TakeNothing(t) ==
  /\ At(t, "take")
  /\ Goto(t, IF table[name[t]] = NoZone THEN "draw" ELSE "idle")
  /\ UNCHANGED <<mapVars, class, payVars, table, entered, symlock, omtx, goal, name,
                 id, obj, sym, end, calls>>

\* Mutant: the exception leaves rps_symbol_mtx locked.
TakeForever(t) ==
  /\ At(t, "take") /\ symlock = Nobody
  /\ symlock' = t
  /\ Goto(t, IF table[name[t]] = NoZone THEN "draw" ELSE "idle")
  /\ UNCHANGED <<mapVars, class, payVars, table, entered, omtx, goal, name,
                 id, obj, sym, end, calls>>

\* make_new_symbol locks rps_symbol_mtx and throws when the name is taken, which
\* unlocks it.
TakeLock(t) ==
  /\ At(t, "take") /\ symlock = Nobody
  /\ \/ table[name[t]] # NoZone /\ Return(t) /\ UNCHANGED symlock
     \/ table[name[t]] = NoZone /\ Goto(t, "draw") /\ symlock' = t
  /\ UNCHANGED <<mapVars, class, payVars, table, entered, omtx, goal, name,
                 id, obj, sym, end, calls>>

-----------------------------------------------------------------------------
(* Making an object.                                                       *)

\* Rps_ObjectZone::make: fresh_random_oid(nullptr) draws an unused id and
\* reserves nothing ...
Draw(t) ==
  /\ At(t, "draw")
  /\ \E i \in Drawn : /\ idmap[i] = NoZone
                      /\ id' = [id EXCEPT ![t] = i]
  /\ Goto(t, "register")
  /\ UNCHANGED <<mapVars, class, payVars, table, entered, symlock, omtx, goal, name,
                 obj, sym, end, calls>>

\* Mutant: the bucket of the object is forgotten.
EnterMap(i, o) == idmap' = [idmap EXCEPT ![i] = o] /\ UNCHANGED buckets

EnterMaps(i, o) ==
  /\ idmap' = [idmap EXCEPT ![i] = o]
  /\ buckets' = [buckets EXCEPT ![i] = o]

\* ... the constructor registers the object, or aborts on an id that another
\* thread drew too and registered meanwhile.
Register(t) ==
  /\ At(t, "register") /\ Made # Zones
  /\ \/ /\ idmap[id[t]] # NoZone
        /\ end' = "fatal"
        /\ UNCHANGED <<mapVars, obj, pc>>
     \/ /\ idmap[id[t]] = NoZone
        /\ EnterMaps(id[t], FreshZone)
        /\ oid' = [oid EXCEPT ![FreshZone] = id[t]]
        /\ obj' = [obj EXCEPT ![t] = FreshZone]
        /\ Goto(t, "classify")
        /\ UNCHANGED end
  /\ UNCHANGED <<class, payVars, table, entered, symlock, omtx, goal, name, id, sym,
                 calls>>

\* What the object in hand is to be: a call for a class without a symbol makes
\* the symbol first.
Making(t) == IF goal[t] = "object" THEN "object"
             ELSE IF sym[t] = NoZone THEN "symbol" ELSE "class"

AfterMake == [object |-> "idle", symbol |-> "name", class |-> "dress"]

\* The constructor and make() store the class `object`, the caller of make() its
\* own.
Classify(t) ==
  /\ At(t, "classify")
  /\ class' = [class EXCEPT ![obj[t]] = Making(t)]
  /\ Goto(t, AfterMake[Making(t)])
  /\ UNCHANGED <<mapVars, payVars, table, entered, symlock, omtx, goal, name, id, obj,
                 sym, end, calls>>

-----------------------------------------------------------------------------
(* Naming a symbol and a class.                                            *)

\* Mutant: the table is filled, the payload is not put into the object.
EnterName(n, o) ==
  /\ table' = [table EXCEPT ![n] = o]
  /\ UNCHANGED payVars

\* Mutant: the name is entered before it is assigned, empty.
NameNamelessly(n, o) ==
  /\ table' = [table EXCEPT ![n] = o]
  /\ payl' = [payl EXCEPT ![o] = "symbol"]
  /\ UNCHANGED <<pname, value, symb>>

\* register_name under the mutex of the object and symb_tablemtx: nothing when
\* the name is taken.
NameObject(n, o) ==
  \/ table[n] # NoZone /\ UNCHANGED <<payVars, table>>
  \/ /\ table[n] = NoZone
     /\ table' = [table EXCEPT ![n] = o]
     /\ payl' = [payl EXCEPT ![o] = "symbol"]
     /\ pname' = [pname EXCEPT ![o] = n]
     /\ UNCHANGED <<value, symb>>

\* make_new_symbol registers the name, ignores the outcome and unlocks.
RegisterName(t) ==
  /\ At(t, "name") /\ omtx[obj[t]] = Nobody
  /\ NameObject(name[t], obj[t])
  /\ symlock' = Nobody
  /\ \/ goal[t] = "symbol" /\ Return(t) /\ UNCHANGED sym
     \/ /\ goal[t] = "class" /\ Goto(t, "lock")
        /\ sym' = [sym EXCEPT ![t] = obj[t]]
  /\ UNCHANGED <<mapVars, class, entered, omtx, goal, name, id, obj, end, calls>>

\* make_named_class locks the symbol and asserts what it is, then makes the class.
LockSymbol(t) ==
  /\ At(t, "lock") /\ omtx[sym[t]] = Nobody
  /\ \/ /\ class[sym[t]] = "symbol" /\ payl[sym[t]] = "symbol"
        /\ omtx' = [omtx EXCEPT ![sym[t]] = t]
        /\ Goto(t, "draw")
        /\ UNCHANGED end
     \/ /\ ~(class[sym[t]] = "symbol" /\ payl[sym[t]] = "symbol")
        /\ end' = "assert"
        /\ UNCHANGED <<omtx, pc>>
  /\ UNCHANGED <<mapVars, class, payVars, table, entered, symlock, goal, name, id, obj,
                 sym, calls>>

\* Mutant: the class gets its symbol, the symbol not its value.
NameNothing(o, s) ==
  /\ payl' = [payl EXCEPT ![o] = "classinfo"]
  /\ symb' = [symb EXCEPT ![o] = s]
  /\ UNCHANGED <<pname, value>>

\* The class information payload, put_symbname and symbol_put_value.
NameClass(o, s) ==
  /\ payl' = [payl EXCEPT ![o] = "classinfo"]
  /\ symb' = [symb EXCEPT ![o] = s]
  /\ value' = [value EXCEPT ![s] = o]
  /\ UNCHANGED pname

DressClass(t) ==
  /\ At(t, "dress")
  /\ NameClass(obj[t], sym[t])
  /\ Goto(t, "enter")
  /\ UNCHANGED <<mapVars, class, table, entered, symlock, omtx, goal, name, id, obj,
                 sym, end, calls>>

\* rps_add_root_object, the set of classes, and the end of the call.
EnterClass(t) ==
  /\ At(t, "enter")
  /\ entered' = entered \cup {obj[t]}
  /\ omtx' = [omtx EXCEPT ![sym[t]] = Nobody]
  /\ Return(t)
  /\ UNCHANGED <<mapVars, class, payVars, table, symlock, goal, name, id, obj, sym,
                 end, calls>>

-----------------------------------------------------------------------------
Step(t) ==
  \/ Seek(t) \/ ReadSymbol(t) \/ Look(t) \/ TakeLock(t)
  \/ Draw(t) \/ Register(t) \/ Classify(t)
  \/ RegisterName(t) \/ LockSymbol(t) \/ DressClass(t) \/ EnterClass(t)

Next == \E t \in Threads :
          \/ \E g \in DOMAIN Begins, n \in Names : Begin(t, g, n)
          \/ Step(t)

Spec == Init /\ [][Next]_vars

\* A thread inside a call goes on.
FairSpec == Spec /\ \A t \in Threads : WF_vars(Step(t))

-----------------------------------------------------------------------------
(* What is checked.                                                        *)

Places == {"idle", "draw", "take", "look", "seek", "read", "register", "classify",
           "name", "lock", "dress", "enter"}

TypeOK ==
  /\ idmap \in [Ids -> Zones \cup {NoZone}] /\ buckets \in [Ids -> Zones \cup {NoZone}]
  /\ oid \in [Zones -> Ids \cup {NoId}]
  /\ class \in [Zones -> {"null", "object", "symbol", "class"}]
  /\ payl \in [Zones -> {"none", "symbol", "classinfo"}]
  /\ pname \in [Zones -> Names \cup {NoName}]
  /\ value \in [Zones -> Zones \cup {NoZone}] /\ symb \in [Zones -> Zones \cup {NoZone}]
  /\ \A o \in Zones : /\ pname[o] # NoName <=> payl[o] = "symbol"
                      /\ symb[o] # NoZone <=> payl[o] = "classinfo"
  /\ table \in [Names -> Zones \cup {NoZone}]
  /\ entered \subseteq Zones
  /\ symlock \in Threads \cup {Nobody} /\ omtx \in [Zones -> Threads \cup {Nobody}]
  /\ pc \in [Threads -> Places] /\ goal \in [Threads -> DOMAIN Begins]
  /\ name \in [Threads -> Names \cup {NoName}]
  /\ id \in [Threads -> Ids \cup {NoId}]
  /\ obj \in [Threads -> Zones \cup {NoZone}] /\ sym \in [Threads -> Zones \cup {NoZone}]
  /\ end \in {"running", "fatal", "assert"} /\ calls \in 0 .. MaxCalls

\* The two maps agree, and lead from an id to the one object that has it
\* (register_objzone, under ob_idmtx_).
RegistryExact ==
  /\ buckets = idmap
  /\ \A i \in Ids, o \in Zones : idmap[i] = o <=> oid[o] = i

\* The table of symbols has exactly the names of the payloads: a name leads to an
\* object of class symbol whose payload has that name, and every symbol payload
\* is entered under its name (register_name).
NamesRight ==
  \A n \in Names, o \in Zones :
    table[n] = o <=> class[o] = "symbol" /\ payl[o] = "symbol" /\ pname[o] = n

\* The name that make_new_symbol found free is still free when it registers it, so
\* that it may ignore the outcome of register_name (objects_rps.cc:2169).
NameStillFree ==
  \A t \in Threads : end = "running" /\ pc[t] = "name" => table[name[t]] = NoZone

\* No assertion about a symbol fails: neither in make_named_class, nor in
\* find_object_by_string, which reads the payload after symb_tablemtx is unlocked.
NoAssertFails == end # "assert"

\* A class that a finished call made has its name: it is a root, in the set of
\* classes, and its symbol's value is a class of that symbol, itself unless a later
\* call gave the name to another class (make_named_class).
ClassesNamed ==
  \A o \in entered : /\ payl[o] = "classinfo"
                     /\ symb[o] # NoZone /\ payl[symb[o]] = "symbol"
                     /\ value[symb[o]] \in Zones
                     /\ symb[value[symb[o]]] = symb[o]

\* Every call ends, returning or throwing, unless the process does: no thread waits
\* for a mutex that is never unlocked, on whatever paths calls leave.
CallsEnd ==
  \A t \in Threads : pc[t] # "idle" ~> pc[t] = "idle" \/ end # "running"

\* An object that was made is found by its id (objects_rps.cc:339 asserts that the
\* ids of objects are valid).
MadeIsFound == \A o \in Made : Found(oid[o]) = o
===============================================================================
