------------------------- MODULE MCIl2CppBootstrap -------------------------
(***************************************************************************)
(* Il2CppBootstrap with two libraries that may be missing - none, one,     *)
(* both side by side, or one behind the other, which is missing or found - *)
(* on every kind of device that differs for the loop.                      *)
(***************************************************************************)
EXTENDS Il2CppBootstrap

CONSTANTS a, b

TwoDeps == {a, b}
\* needs of libil2cpp.so, of a and of b.
Graph(i, na, nb) == [l \in {Il2Cpp, a, b} |-> CASE l = Il2Cpp -> i [] l = a -> na [] l = b -> nb]
NeedsConsidered ==
  {Graph({}, {}, {}), Graph({a}, {}, {}), Graph({a, b}, {}, {}),
   Graph({a}, {b}, {}), Graph({a, b}, {b}, {})}
Devices ==
  {e \in [near : BOOLEAN, findable : BOOLEAN, permitted : BOOLEAN,
          needs : NeedsConsidered, found : {{}, {a}}, siblings : SUBSET TwoDeps,
          tells : {{}, {"name"}, {"path"}},
          visible : BOOLEAN, finder : BOOLEAN, dlfcn : BOOLEAN] :
     (e.near => e.permitted) /\ (e.finder => e.visible)}
=============================================================================
