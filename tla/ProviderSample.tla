--------------------------- MODULE ProviderSample ---------------------------
(***************************************************************************)
(* Samples/ProviderSample: the usage function of the sample provider, the  *)
(* share of its interval between two heartbeats in which the computer was  *)
(* busy, from two readings of the counters in /proc/stat.                  *)
(***************************************************************************)
EXTENDS Integers

CONSTANTS
    Readings,   \* the readings of the counters
    NotANumber  \* what the conversion of a NaN to int can give

Busy == {"user", "userLow", "sys"}

ASSUME ProviderSampleAssumption ==
    /\ Readings \subseteq [Busy \cup {"idle"} -> Nat]
    /\ NotANumber \subseteq Int

BusyTime(last, now) ==
    (now["user"] - last["user"]) + (now["userLow"] - last["userLow"]) + (now["sys"] - last["sys"])

TotalTime(last, now) == BusyTime(last, now) + (now["idle"] - last["idle"])

WentBack(last, now) == \E c \in Busy \cup {"idle"} : now[c] < last[c]

\* A faulty variant of CurrentValue: the idle time is compared with the busy.
CurrentValueOfIdle(last, now) ==
    IF WentBack(last, now) THEN {-1}
    ELSE IF now["idle"] = last["idle"] THEN NotANumber
    ELSE {(100 * BusyTime(last, now)) \div (now["idle"] - last["idle"])}

\* The values that getCurrentValue can give. The quotient is a double, cut off
\* when it becomes an int: a whole number of percent may have become one less.
\* If no time has passed it is 0.0 / 0.
CurrentValue(last, now) ==
    LET busy == 100 * BusyTime(last, now)
        total == TotalTime(last, now)
    IN IF WentBack(last, now) THEN {-1}
       ELSE IF total = 0 THEN NotANumber
       ELSE {busy \div total} \cup
            {n \in {busy \div total - 1} : busy % total = 0 /\ 0 < busy /\ busy < 100 * total}

\* Time passed, and no counter went back.
Measured(last, now) == ~WentBack(last, now) /\ TotalTime(last, now) > 0

\* What can be known of such an interval, and the usages it can give.
Intervals ==
    {[busy |-> BusyTime(r[1], r[2]), total |-> TotalTime(r[1], r[2]),
      usages |-> CurrentValue(r[1], r[2])] :
       r \in {q \in Readings \X Readings : Measured(q[1], q[2])}}

\* Busier by two percent of its length.
Busier(one, other) ==
    100 * one.busy * other.total >= (100 * other.busy + 2 * other.total) * one.total

\* Whatever interval gave it, the usage is above those of intervals that were less
\* busy and below those of busier ones.
Comparable(u) ==
    \A one \in {i \in Intervals : u \in i.usages} :
       /\ u \in 0 .. 100
       /\ \A other \in Intervals : \A w \in other.usages :
            (Busier(one, other) => u > w) /\ (Busier(other, one) => u < w)
==============================================================================
