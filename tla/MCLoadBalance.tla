---------------------------- MODULE MCLoadBalance ----------------------------
(* Small instances of LoadBalance for TLC. *)
EXTENDS SampleUsage, TLC

CONSTANTS p1, p2, o1, o2

\* One value that no provider reports stands for whatever the memory held.
MCGarbage == {-3}

MCLoad == {0}

MCReadings == [Busy \cup {"idle"} -> 0 .. 2]

\* The readings of a computer that works or rests for a unit of time.
ShortReadings == {r \in [Busy \cup {"idle"} -> 0 .. 1] : r["userLow"] = 0 /\ r["sys"] = 0}

\* The usages from two of them: of a computer that was busy, idle and both, of
\* counters that went back, and of no time at all.
SampleLoad == UNION {CurrentValue(last, now) : last, now \in ShortReadings}

MCNotANumber == {-100}

MCWord == 256

MCJumps == {-1, 1}

\* More than a period, forward and backward.
LongJumps == {-3, 3}

Providers == Permutations(Address)
==============================================================================
