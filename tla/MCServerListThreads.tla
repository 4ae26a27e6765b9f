------------------------- MODULE MCServerListThreads -------------------------
(* Small instances of ServerListThreads for TLC. *)
EXTENDS ServerListThreads, TLC

CONSTANTS a1, a2, a3, b1, f1

Providers == Permutations(Address)
==============================================================================
