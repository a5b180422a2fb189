------------------------ MODULE MCGarbageCollector --------------------------
(* Small heaps for TLC.  Object c plays the part of the class of every      *)
(* object, and is the only root.                                            *)
EXTENDS GarbageCollector, TLC

CONSTANTS c, a, b, u, v, p

Obj(z) == [via |-> "obj", to |-> z]
Val(z) == [via |-> "val", to |-> z]
RootC  == <<Obj(c)>>

Maybe(sl) == {<<>>} \cup {<<x>> : x \in sl}

\* c has itself as its class and one more reference; a is an instance of c with an
\* attribute value u, or none; b is an instance of c that may refer back to a;
\* u is a tree with connective b that may have the son v; v is a tuple with the
\* element a or a tree with the son a; p may be the payload of a.
MixedHeaps ==
  {[z \in Zones |-> CASE z = c -> <<Obj(c)>> \o sc
                     [] z = a -> <<Obj(c)>> \o sa
                     [] z = b -> <<Obj(c)>> \o sb
                     [] z = u -> <<Obj(b)>> \o su
                     [] z = v -> sv
                     [] OTHER -> <<Obj(a), Val(v)>>] :
    sc \in {<<Obj(a)>>, <<Val(u)>>, <<Val(a)>>},
    sa \in Maybe({Val(u)}),
    sb \in Maybe({Obj(a)}),
    su \in Maybe({Val(v)}),
    sv \in {<<Obj(a)>>, <<Val(a)>>}}

\* A single heap: c has an attribute v.
SmallHeap == {[z \in Zones |-> CASE z = c -> <<Obj(c), Val(v)>>
                                 [] z = a -> <<Obj(c)>>
                                 [] z = b -> <<Obj(c), Obj(a)>>
                                 [] z = u -> <<Obj(b), Val(v)>>
                                 [] z = v -> <<Obj(a)>>
                                 [] OTHER -> <<Obj(a)>>]}

NoOwners   == {[o \in Objects |-> NoPayload]}
\* Only a gets components.
SlotsOfA   == [o \in Objects |-> IF o = a THEN 2 ELSE 0]
SomeOwners == NoOwners \cup {[o \in Objects |-> IF o = a THEN p ELSE NoPayload]}
=============================================================================
