---------------------------- MODULE SampleUsage ----------------------------
(***************************************************************************)
(* The heartbeats of providers whose usage function is that of the sample. *)
(***************************************************************************)
EXTENDS LoadBalance, ProviderSample

ComparableLoad == {u \in Load \cup {0} : Comparable(u)}

\* findBestServer compares what the usage functions of different providers gave:
\* the usage that a provider reports tells it apart from every computer that
\* was busier or less busy by two percent, whatever the lengths of the intervals
\* and the kinds of work in them. Where a counter went back or no time passed it
\* is not a share and says nothing of that kind.
BusierIsHigher == \A p \in Address : usage[p] \in ComparableLoad
============================================================================
