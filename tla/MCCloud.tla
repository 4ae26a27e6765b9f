------------------------------- MODULE MCCloud -------------------------------
(* Small instances of Cloud for TLC. *)
EXTENDS Cloud, SequencesExt

CONSTANTS p1, p2, n1, c1, b, one, word

MCIntOf == [v \in Value |-> IF v = one THEN 1 ELSE Invalid]

\* one stands for "1" and also for "1 second", word for a text without a number.
MCFloatOf == MCIntOf

MCLine(k, v) == [key |-> k, value |-> v]

\* Complete files of the two providers.
MCComplete ==
    {<<MCLine("providerAddress", p), MCLine("balancerAddress", b),
       MCLine("cert", word), MCLine("key", word), MCLine("root", word)>> : p \in Provider}

\* They, and nothing, followed by any two lines that replace, repeat, remove or
\* spoil a setting.
MCFiles ==
    {head \o tail : head \in MCComplete \cup {<<>>},
                    tail \in SeqOf([key : Key \cup {"other"}, value : {Empty, b, one, word}], 2)}
==============================================================================
