--------------------------- MODULE MCServiceProvide ---------------------------
(* Small instances of ServiceProvide for TLC. *)
EXTENDS ServiceProvide

CONSTANTS n1, n2, c1, t1, t2, a, b, c, d

\* A service for meshes, as that of the sample, and one for data.
MCFormOf == [n \in Name |-> IF n = n1 THEN "mesh" ELSE "data"]

\* Two triangles with a common edge, and one beside a vertex in no face.
Joined == [points |-> <<a, b, c, d>>, faces |-> <<<<0, 1, 2>>, <<2, 1, 3>>>>]
Loose == [points |-> <<d, a, b, c>>, faces |-> <<<<3, 1, 2>>>>]

\* These, and all meshes of up to two triangles on three points.
MCMeshes ==
    {Joined, Loose} \cup
    [points : {<<a, b, c>>},
     faces : SeqOf({f \in [1 .. 3 -> 0 .. 2] : IsInjective(f)}, 2)]

MCInputs == {<<Loose>>, <<Joined, Loose>>}
==============================================================================
