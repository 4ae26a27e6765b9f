------------------------------ MODULE ServerList ------------------------------
(***************************************************************************)
(* What the load balancer promises about its list of providers: a provider *)
(* enters it at the end by registering, leaves it only when it has become  *)
(* inactive, and until then keeps its place and its identity. Nothing is   *)
(* said of threads, memory or time.                                        *)
(***************************************************************************)
EXTENDS Integers, Sequences

CONSTANT Address

VARIABLE list

Entry == [address : Address, active : BOOLEAN]

Add(a) == list' = Append(list, [address |-> a, active |-> TRUE])

\* A beat makes an entry active.
Refresh(i) == list' = [list EXCEPT ![i].active = TRUE]

\* Entries become inactive by the passing of time.
Expire == \E gone \in SUBSET DOMAIN list :
             list' = [i \in DOMAIN list |->
                        [list[i] EXCEPT !.active = @ /\ i \notin gone]]

\* An inactive entry is removed, those behind it move up.
Remove(i) ==
    /\ ~list[i].active
    /\ list' = [k \in 1 .. Len(list) - 1 |-> IF k < i THEN list[k] ELSE list[k + 1]]

Init == list = <<>>

Next == \/ \E a \in Address : Add(a)
        \/ \E i \in DOMAIN list : Refresh(i) \/ Remove(i)
        \/ Expire

Spec == Init /\ [][Next]_list
==============================================================================
