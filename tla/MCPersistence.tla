---------------------------- MODULE MCPersistence ----------------------------
(* Small heaps for TLC.                                                      *)
EXTENDS Persistence

CONSTANTS r, a, b, s1, s2

TwoSpaces == <<s1, s2>>

Ref(pl, k, to) == [place |-> pl, kind |-> k, to |-> to]

Fill(o, pl, k, to) == [of |-> o, ref |-> Ref(pl, k, to)]

\* Root r in space s1 has attribute a, of space s2, whose component is r; b is
\* transient.  The program may refer to b, as a component, in a set, or as what the
\* loader needs of a, and use a double.
FewFillings ==
  {Fill(r, "comp", "object", {b}), Fill(r, "comp", "set", {a, b}),
   Fill(a, "need", "object", {b}), Fill(a, "attr", "double", {})}
MoreFillings == FewFillings \cup {Fill(a, "attr", "set", {b})}

RefsRA  == [o \in Objects |-> CASE o = r -> {Ref("attr", "object", {a})}
                                [] o = a -> {Ref("comp", "object", {r})}
                                [] OTHER -> {}]
SpaceRA == [o \in Objects |-> CASE o = r -> s1 [] o = a -> s2 [] OTHER -> NoSpace]
=============================================================================
