--------------------------- MODULE MCFindBestServer ---------------------------
(* Every list of up to three providers over two addresses, two operations,  *)
(* two versions and two usages, and every request of up to two operations.  *)
EXTENDS FindBestServer, SequencesExt

CONSTANTS a1, a2, x, y

\* A provider registers each of its operations once.
Offers == {<<x>>, <<y>>, <<x, y>>}

\* -3 is what the sum of an unassigned usage may be.
Nodes == [address : {a1, a2}, operations : Offers, version : {1, 2}, usage : {-3, 0}]

MCLists == BoundedSeq(Nodes, 2)
           \cup {<<n, m, l>> : n, m, l \in {e \in Nodes : e.version = 2}}

MCRequests == [operations : {<<>>, <<x>>, <<x, y>>, <<x, x>>}, version : {2}]
==============================================================================
