---------------------------- MODULE Configuration ----------------------------
(***************************************************************************)
(* Shared/FileParser: what the three programs make of a configuration      *)
(* file, and which settings their constructors accept.                     *)
(*                                                                         *)
(* A line is the key it starts with and the text behind the "=". No key is *)
(* the beginning of another, so the order of the comparisons in a parser   *)
(* does not matter. A file that cannot be opened makes a parser throw, as  *)
(* a number that does not parse; it is not among Files.                    *)
(***************************************************************************)
EXTENDS Integers, Sequences

CONSTANTS
    Value,    \* the texts behind the "="
    Empty,    \* the empty text
    IntOf,    \* std::stoi: the number a text starts with, or Invalid
    FloatOf,  \* std::stof, likewise
    Invalid,  \* the conversion throws
    Files     \* configuration files: sequences of lines

Program == {"balancer", "provider", "client"}

FileName == {"cert", "key", "root"}

Key == {"providerAddress", "balancerAddress", "heartbeat", "version"} \cup FileName

\* "other" is any line that does not start with a key and "=", at once.
Line == [key : Key \cup {"other"}, value : Value]

ASSUME ConfigurationAssumption ==
    /\ Empty \in Value
    /\ IntOf \in [Value -> Int \cup {Invalid}] /\ IntOf[Empty] = Invalid
    /\ FloatOf \in [Value -> Int \cup {Invalid}] /\ FloatOf[Empty] = Invalid
    /\ Files \subseteq Seq(Line)

----------------------------------------------------------------------------

\* The members as their classes initialise them.
Default == [providerAddress |-> Empty, balancerAddress |-> Empty,
            heartbeat |-> 1000, version |-> 0,
            cert |-> Empty, key |-> Empty, root |-> Empty, threw |-> FALSE]

\* A faulty variant of ReadBy: the parser of the balancer does not know "root".
ReadByWithoutRoot(program) ==
    CASE program = "balancer" -> {"balancerAddress", "heartbeat", "cert", "key"}
      [] program = "provider" -> Key
      [] program = "client"   -> Key \ {"providerAddress", "heartbeat"}

\* The keys that the parser of a program compares a line with.
ReadBy(program) ==
    CASE program = "balancer" -> Key \ {"providerAddress", "version"}
      [] program = "provider" -> Key
      [] program = "client"   -> Key \ {"providerAddress", "heartbeat"}

Converted(line) ==
    CASE line.key = "heartbeat" -> IntOf[line.value]
      [] line.key = "version"   -> FloatOf[line.value]
      [] OTHER                  -> line.value

\* A faulty variant of ParseLine: a setting that was made is kept.
ParseLineOnce(program, s, line) ==
    IF s.threw \/ line.key \notin ReadBy(program) THEN s
    ELSE IF Converted(line) = Invalid THEN [s EXCEPT !.threw = TRUE]
    ELSE IF s[line.key] # Default[line.key] THEN s
    ELSE [s EXCEPT ![line.key] = Converted(line)]

\* One round of the loop. The exception ends it, with the settings made so far.
ParseLine(program, s, line) ==
    IF s.threw \/ line.key \notin ReadBy(program) THEN s
    ELSE IF Converted(line) = Invalid THEN [s EXCEPT !.threw = TRUE]
    ELSE [s EXCEPT ![line.key] = Converted(line)]

\* after[n]: the settings behind the nth round.
Parse(program, file) ==
    LET after[n \in 0 .. Len(file)] ==
            IF n = 0 THEN Default ELSE ParseLine(program, after[n - 1], file[n])
    IN after[Len(file)]

\* The constructors pass an exception on and throw one of their own if an
\* address is missing.
Accepts(program, s) ==
    /\ ~s.threw
    /\ s.balancerAddress # Empty
    /\ program = "provider" => s.providerAddress # Empty

\* All three file names or none: one that is missing switches SSL off.
UsesSSL(s) == \A f \in FileName : s[f] # Empty

\* The settings of the objects that come to be.
Configured(program) ==
    {s \in {Parse(program, file) : file \in Files} : Accepts(program, s)}

----------------------------------------------------------------------------

LinesOf(file, keys) == {i \in DOMAIN file : file[i].key \in keys}

\* What a file means to a program, without the loop: for each of its keys the
\* last line. One number that does not parse, even if a later line would
\* replace it, and the program does not start.
Spoiled(program, file) ==
    \E i \in LinesOf(file, ReadBy(program)) : Converted(file[i]) = Invalid

Meaning(program, file, k) ==
    IF k \notin ReadBy(program) \/ LinesOf(file, {k}) = {} THEN Default[k]
    ELSE Converted(file[CHOOSE i \in LinesOf(file, {k}) : \A j \in LinesOf(file, {k}) : j <= i])

\* The programs to which every file is what it means.
RightlyConfigured ==
    {program \in Program :
       \A file \in Files :
          LET s == Parse(program, file)
          IN /\ s.threw <=> Spoiled(program, file)
             /\ ~s.threw => \A k \in Key : s[k] = Meaning(program, file, k)}

\* The programs to which a file means what it means to a provider's and the
\* balancer's: they accept it if those do, and then they have the same balancer,
\* use SSL or not alike, and agree on the rate and the version.
Agreeing ==
    {one \in Program :
       \A file \in Files : \A other \in {"balancer", "provider"} :
          LET s == Parse(one, file)
              r == Parse(other, file)
          IN /\ Accepts("provider", Parse("provider", file)) => Accepts(one, s)
             /\ Accepts(one, s) /\ Accepts(other, r) =>
                   /\ s.balancerAddress = r.balancerAddress
                   /\ UsesSSL(s) = UsesSSL(r)
                   /\ \A k \in ReadBy(one) \cap ReadBy(other) : s[k] = r[k]}
==============================================================================
