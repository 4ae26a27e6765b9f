------------------------- MODULE Configuration_proofs -------------------------
(***************************************************************************)
(* Proofs about Configuration: what a parser's loop leaves behind is what  *)
(* the file means, for every file, and what follows for the three          *)
(* programs.                                                               *)
(***************************************************************************)
EXTENDS Configuration, Induction

----------------------------------------------------------------------------
(* The settings and one round of the loop. *)

Member == Key \cup {"threw"}

Setting == Value \cup Int \cup BOOLEAN

Settings == {s \in [Member -> Setting] : s.threw \in BOOLEAN}

LEMMA DefaultIsSettings ==
    /\ Default \in Settings /\ Default.threw = FALSE
    /\ Default.balancerAddress = Empty /\ Default.providerAddress = Empty
<1>1. DOMAIN Default = Member
  BY DEF Default, Member, Key, FileName
<1>2. \A k \in Member : Default[k] \in Setting
  <2>1. Empty \in Setting /\ 1000 \in Setting /\ 0 \in Setting
    BY ConfigurationAssumption DEF Setting
  <2>2. Default.threw \in Setting
    BY DEF Default, Setting
  <2>3. \A k \in Key : Default[k] \in {Empty, 1000, 0}
    BY DEF Default, Key, FileName
  <2> QED
    BY <2>1, <2>2, <2>3 DEF Member
<1>3. Default = [k \in Member |-> Default[k]]
  BY <1>1 DEF Default
<1>4. Default \in [Member -> Setting]
  BY <1>2, <1>3
<1> QED
  BY <1>4 DEF Default, Settings

\* Who reads what.
LEMMA KeysRead ==
    /\ \A program \in Program : ReadBy(program) \subseteq Key
    /\ ReadBy("provider") = Key
    /\ \A program \in Program : FileName \cup {"balancerAddress"} \subseteq ReadBy(program)
BY DEF Program, ReadBy, Key, FileName

LEMMA ConvertedIsSetting ==
    ASSUME NEW line \in Line, Converted(line) # Invalid
    PROVE  Converted(line) \in Setting
BY ConfigurationAssumption DEF Line, Converted, Setting

LEMMA LineParsed ==
    ASSUME NEW program \in Program, NEW s \in Settings, NEW line \in Line
    PROVE  /\ ParseLine(program, s, line) \in Settings
           /\ s.threw \/ line.key \notin ReadBy(program) => ParseLine(program, s, line) = s
           /\ ~s.threw /\ line.key \in ReadBy(program) /\ Converted(line) = Invalid =>
                 ParseLine(program, s, line).threw
           /\ ~s.threw /\ line.key \in ReadBy(program) /\ Converted(line) # Invalid =>
                 /\ ~ParseLine(program, s, line).threw
                 /\ ParseLine(program, s, line)[line.key] = Converted(line)
                 /\ \A k \in Key \ {line.key} : ParseLine(program, s, line)[k] = s[k]
<1> DEFINE t == ParseLine(program, s, line)
<1>1. "threw" \in Member /\ Key \subseteq Member /\ "threw" \notin Key
  BY DEF Member, Key, FileName
<1>2. s \in [Member -> Setting] /\ s.threw \in BOOLEAN
  BY DEF Settings
<1>3. CASE s.threw \/ line.key \notin ReadBy(program)
  BY <1>3 DEF ParseLine
<1>4. CASE ~s.threw /\ line.key \in ReadBy(program) /\ Converted(line) = Invalid
  <2>1. t = [s EXCEPT !.threw = TRUE]
    BY <1>4 DEF ParseLine
  <2> HIDE DEF t
  <2>2. t \in Settings /\ t.threw
    BY <1>1, <1>2, <2>1 DEF Settings, Setting
  <2> QED
    BY <1>4, <2>2 DEF t
<1>5. CASE ~s.threw /\ line.key \in ReadBy(program) /\ Converted(line) # Invalid
  <2>1. t = [s EXCEPT ![line.key] = Converted(line)]
    BY <1>5 DEF ParseLine
  <2>2. line.key \in Key /\ Converted(line) \in Setting
    BY <1>5, KeysRead, ConvertedIsSetting
  <2> HIDE DEF t
  <2>3. /\ t \in [Member -> Setting] /\ t[line.key] = Converted(line)
        /\ \A k \in Member \ {line.key} : t[k] = s[k]
    BY <1>1, <1>2, <2>1, <2>2
  <2>4. t.threw = s.threw
    BY <1>1, <2>2, <2>3
  <2>5. t \in Settings
    BY <1>2, <2>3, <2>4 DEF Settings
  <2> QED
    BY <1>1, <1>5, <2>3, <2>4, <2>5 DEF t
<1> QED
  BY <1>2, <1>3, <1>4, <1>5

----------------------------------------------------------------------------
(* The loop. *)

IsAfter(f, program, file) ==
    f = [n \in 0 .. Len(file) |-> IF n = 0 THEN Default ELSE ParseLine(program, f[n - 1], file[n])]

LEMMA LoopRuns ==
    ASSUME NEW program \in Program, NEW file \in Seq(Line)
    PROVE  \E f \in [0 .. Len(file) -> Settings] :
              /\ Parse(program, file) = f[Len(file)] /\ f[0] = Default
              /\ \A n \in 1 .. Len(file) : f[n] = ParseLine(program, f[n - 1], file[n])
<1> DEFINE N == Len(file)
           step == [n \in 1 .. N |-> [s \in Settings |-> ParseLine(program, s, file[n])]]
<1>1. N \in Nat /\ \A n \in 1 .. N : file[n] \in Line
  OBVIOUS
<1>2. step \in [1 .. N -> [Settings -> Settings]]
  BY <1>1, LineParsed
<1>3. \E f \in [0 .. N -> Settings] : IsRecursive(f, N, Default, step)
  <2> HIDE DEF step, N
  <2> QED
    BY <1>1, <1>2, DefaultIsSettings, IntervalRecursion
<1>4. PICK f \in [0 .. N -> Settings] : IsRecursive(f, N, Default, step)
  BY <1>3
<1>5. f[0] = Default /\ \A n \in 1 .. N : f[n] = step[n][f[n - 1]]
  BY <1>4 DEF IsRecursive
<1>6. ASSUME NEW n \in 1 .. N
      PROVE  f[n] = ParseLine(program, f[n - 1], file[n])
  <2>1. f[n - 1] \in Settings
    BY <1>4
  <2> QED
    BY <1>5, <2>1
<1> HIDE DEF step
<1>7. IsAfter(f, program, file)
  <2>1. \A n \in 0 .. N : f[n] = IF n = 0 THEN Default ELSE ParseLine(program, f[n - 1], file[n])
    BY <1>5, <1>6
  <2>2. f = [n \in 0 .. N |-> f[n]]
    BY <1>4
  <2> QED
    BY <2>1, <2>2 DEF IsAfter
<1> DEFINE g == CHOOSE h : IsAfter(h, program, file)
<1>8. IsAfter(g, program, file)
  BY <1>7, Zenon
<1>9. Parse(program, file) = g[N]
  BY DEF Parse, IsAfter
<1> HIDE DEF g
<1>10. g[0] = Default /\ \A n \in 1 .. N : g[n] = ParseLine(program, g[n - 1], file[n])
  <2> DEFINE body == [n \in 0 .. N |-> IF n = 0 THEN Default ELSE ParseLine(program, g[n - 1], file[n])]
  <2>1. g = body
    BY <1>8 DEF IsAfter
  <2>2. body[0] = Default
    BY <1>1
  <2>3. \A n \in 1 .. N : body[n] = ParseLine(program, g[n - 1], file[n])
    BY <1>1
  <2> HIDE DEF body
  <2> QED
    BY <2>1, <2>2, <2>3
<1>11. g \in [0 .. N -> Settings]
  <2> DEFINE P == {n \in 0 .. N : g[n] \in Settings}
  <2>1. 0 \in P
    BY <1>1, <1>10, DefaultIsSettings
  <2>2. ASSUME NEW n \in 0 .. N - 1, n \in P
        PROVE  n + 1 \in P
    <3>1. n + 1 \in 1 .. N /\ (n + 1) - 1 = n /\ g[n] \in Settings
      BY <1>1, <2>2
    <3>2. g[n + 1] = ParseLine(program, g[n], file[n + 1])
      BY <1>10, <3>1
    <3> QED
      BY <1>1, <3>1, <3>2, LineParsed
  <2> HIDE DEF P
  <2>3. 0 .. N \subseteq P
    BY <1>1, <2>1, <2>2, IntervalInduction
  <2>4. \A n \in 0 .. N : g[n] \in Settings
    BY <2>3 DEF P
  <2>5. DOMAIN g = 0 .. N /\ g = [n \in 0 .. N |-> g[n]]
    BY <1>8 DEF IsAfter
  <2> QED
    BY <2>4, <2>5
<1> QED
  BY <1>9, <1>10, <1>11

----------------------------------------------------------------------------
(* What the first n lines mean. *)

SpoiledBy(program, file, n) ==
    \E i \in 1 .. n : file[i].key \in ReadBy(program) /\ Converted(file[i]) = Invalid

\* The last of the first n lines with key k, if it is read and there is one.
IsLast(file, n, k, i) ==
    /\ i \in 1 .. n /\ file[i].key = k
    /\ \A j \in 1 .. n : file[j].key = k => j <= i

HasMeaning(program, file, n, k, value) ==
    \/ /\ k \notin ReadBy(program) \/ \A i \in 1 .. n : file[i].key # k
       /\ value = Default[k]
    \/ /\ k \in ReadBy(program)
       /\ \E i \in 1 .. n : IsLast(file, n, k, i) /\ value = Converted(file[i])

Right(program, file, n, s) ==
    /\ s.threw <=> SpoiledBy(program, file, n)
    /\ ~s.threw => \A k \in Key : HasMeaning(program, file, n, k, s[k])

LEMMA RoundIsRight ==
    ASSUME NEW program \in Program, NEW file \in Seq(Line), NEW n \in 0 .. Len(file) - 1,
           NEW s \in Settings, Right(program, file, n, s)
    PROVE  Right(program, file, n + 1, ParseLine(program, s, file[n + 1]))
<1> DEFINE t == ParseLine(program, s, file[n + 1])
           line == file[n + 1]
<1>1. n \in Nat /\ line \in Line /\ n + 1 \in 1 .. n + 1 /\ 1 .. n + 1 = (1 .. n) \cup {n + 1}
  OBVIOUS
<1>2. /\ s.threw \/ line.key \notin ReadBy(program) => t = s
      /\ ~s.threw /\ line.key \in ReadBy(program) /\ Converted(line) = Invalid => t.threw
      /\ ~s.threw /\ line.key \in ReadBy(program) /\ Converted(line) # Invalid =>
            /\ ~t.threw /\ t[line.key] = Converted(line)
            /\ \A k \in Key \ {line.key} : t[k] = s[k]
  BY <1>1, LineParsed
<1>3. s.threw \in BOOLEAN
  BY DEF Settings
<1> HIDE DEF t
<1>4. t.threw <=> SpoiledBy(program, file, n + 1)
  <2>1. SpoiledBy(program, file, n + 1) <=>
          \/ SpoiledBy(program, file, n)
          \/ line.key \in ReadBy(program) /\ Converted(line) = Invalid
    BY <1>1 DEF SpoiledBy
  <2> HIDE DEF line
  <2> QED
    BY <1>2, <1>3, <2>1 DEF Right
<1>5. ASSUME ~t.threw, NEW k \in Key
      PROVE  HasMeaning(program, file, n + 1, k, t[k])
  <2>1. ~s.threw /\ HasMeaning(program, file, n, k, s[k])
    BY <1>2, <1>5 DEF Right
  <2>2. CASE k \notin ReadBy(program)
    <3>1. t[k] = s[k] /\ s[k] = Default[k]
      BY <1>2, <1>5, <2>1, <2>2 DEF HasMeaning
    <3> QED
      BY <2>2, <3>1 DEF HasMeaning
  <2>3. CASE k \in ReadBy(program) /\ line.key = k
    <3>1. t[k] = Converted(line)
      BY <1>2, <1>5, <2>1, <2>3
    <3>2. IsLast(file, n + 1, k, n + 1)
      BY <1>1, <2>3 DEF IsLast
    <3> QED
      BY <1>1, <2>3, <3>1, <3>2 DEF HasMeaning
  <2>4. CASE k \in ReadBy(program) /\ line.key # k
    <3>1. t[k] = s[k]
      BY <1>2, <1>5, <2>1, <2>4
    <3>2. CASE (\A i \in 1 .. n : file[i].key # k) /\ s[k] = Default[k]
      BY <1>1, <2>4, <3>1, <3>2 DEF HasMeaning
    <3>3. CASE \E i \in 1 .. n : IsLast(file, n, k, i) /\ s[k] = Converted(file[i])
      <4>1. PICK i \in 1 .. n : IsLast(file, n, k, i) /\ s[k] = Converted(file[i])
        BY <3>3
      <4>2. IsLast(file, n + 1, k, i)
        BY <1>1, <2>4, <4>1 DEF IsLast
      <4> QED
        BY <1>1, <2>4, <3>1, <4>1, <4>2 DEF HasMeaning
    <3> QED
      BY <2>1, <2>4, <3>2, <3>3 DEF HasMeaning
  <2> QED
    BY <2>2, <2>3, <2>4
<1> QED
  BY <1>4, <1>5 DEF Right, t

LEMMA LoopIsRight ==
    ASSUME NEW program \in Program, NEW file \in Seq(Line)
    PROVE  /\ Parse(program, file) \in Settings
           /\ Right(program, file, Len(file), Parse(program, file))
<1>1. PICK f \in [0 .. Len(file) -> Settings] :
         /\ Parse(program, file) = f[Len(file)] /\ f[0] = Default
         /\ \A n \in 1 .. Len(file) : f[n] = ParseLine(program, f[n - 1], file[n])
  BY LoopRuns
<1> DEFINE N == Len(file)
           P == {n \in 0 .. N : Right(program, file, n, f[n])}
<1>2. N \in Nat
  OBVIOUS
<1>3. 0 \in P
  <2>1. Right(program, file, 0, Default)
    BY DefaultIsSettings DEF Right, SpoiledBy, HasMeaning
  <2> QED
    BY <1>1, <1>2, <2>1
<1>4. ASSUME NEW n \in 0 .. N - 1, n \in P
      PROVE  n + 1 \in P
  <2>1. n + 1 \in 1 .. N /\ (n + 1) - 1 = n /\ n \in 0 .. N /\ f[n] \in Settings
    BY <1>1, <1>2
  <2>2. f[n + 1] = ParseLine(program, f[n], file[n + 1])
    BY <1>1, <2>1
  <2>3. Right(program, file, n, f[n])
    BY <1>4
  <2>4. Right(program, file, n + 1, f[n + 1])
    BY <2>1, <2>2, <2>3, RoundIsRight
  <2> QED
    BY <2>1, <2>4
<1> HIDE DEF P
<1>5. 0 .. N \subseteq P
  BY <1>2, <1>3, <1>4, IntervalInduction
<1>6. N \in 0 .. N
  BY <1>2
<1> QED
  BY <1>1, <1>5, <1>6 DEF P

\* The same in the words of Meaning.
LEMMA ParseIsMeaning ==
    ASSUME NEW program \in Program, NEW file \in Seq(Line)
    PROVE  /\ Parse(program, file).threw <=> Spoiled(program, file)
           /\ ~Parse(program, file).threw =>
                 \A k \in Key : Parse(program, file)[k] = Meaning(program, file, k)
<1> DEFINE s == Parse(program, file)
           N == Len(file)
<1>1. Right(program, file, N, s)
  BY LoopIsRight
<1>2. N \in Nat /\ DOMAIN file = 1 .. N
  OBVIOUS
<1> HIDE DEF s, N
<1>3. SpoiledBy(program, file, N) <=> Spoiled(program, file)
  BY <1>2 DEF SpoiledBy, Spoiled, LinesOf
<1>4. ASSUME NEW k \in Key, HasMeaning(program, file, N, k, s[k])
      PROVE  s[k] = Meaning(program, file, k)
  <2> DEFINE mine == LinesOf(file, {k})
  <2>1. mine = {i \in 1 .. N : file[i].key = k}
    BY <1>2 DEF LinesOf
  <2>2. CASE k \notin ReadBy(program) \/ mine = {}
    <3>1. s[k] = Default[k]
      BY <1>4, <2>1, <2>2 DEF HasMeaning, IsLast
    <3> QED
      BY <2>2, <3>1 DEF Meaning
  <2>3. CASE k \in ReadBy(program) /\ mine # {}
    <3>1. PICK i \in 1 .. N : IsLast(file, N, k, i) /\ s[k] = Converted(file[i])
      BY <1>4, <2>1, <2>3 DEF HasMeaning
    <3> DEFINE last == CHOOSE l \in mine : \A j \in mine : j <= l
    <3>2. i \in mine /\ \A j \in mine : j <= i
      BY <2>1, <3>1 DEF IsLast
    <3>3. last \in mine /\ \A j \in mine : j <= last
      BY <3>2, Zenon
    <3>4. Meaning(program, file, k) = Converted(file[last])
      BY <2>3 DEF Meaning
    <3>5. last = i
      <4> HIDE DEF last, mine
      <4>1. i \in Nat /\ last \in Nat /\ i <= last /\ last <= i
        BY <1>2, <2>1, <3>2, <3>3
      <4> QED
        BY <4>1
    <3> HIDE DEF last
    <3> QED
      BY <3>1, <3>4, <3>5
  <2> QED
    BY <2>2, <2>3
<1> QED
  BY <1>1, <1>3, <1>4 DEF Right, s

----------------------------------------------------------------------------
(* The three programs. *)

\* parseClientConfig, parseProviderConfig, parseBalancerConfig: no line that
\* comes earlier and no line of another program changes what the last one says,
\* in any file.
THEOREM FilesAreRead == RightlyConfigured = Program
<1>1. Files \subseteq Seq(Line)
  BY ConfigurationAssumption
<1>2. ASSUME NEW program \in Program, NEW file \in Files
      PROVE  /\ Parse(program, file).threw <=> Spoiled(program, file)
             /\ ~Parse(program, file).threw =>
                   \A k \in Key : Parse(program, file)[k] = Meaning(program, file, k)
  BY <1>1, ParseIsMeaning
<1> QED
  BY <1>2 DEF RightlyConfigured

\* A key that two programs read means the same to both.
LEMMA SameMeaning ==
    ASSUME NEW one, NEW other, NEW file, NEW k \in ReadBy(one) \cap ReadBy(other)
    PROVE  Meaning(one, file, k) = Meaning(other, file, k)
BY DEF Meaning

LEMMA ParsedAlike ==
    ASSUME NEW one \in Program, NEW other \in Program, NEW file \in Seq(Line),
           ~Parse(one, file).threw, ~Parse(other, file).threw
    PROVE  /\ \A k \in ReadBy(one) \cap ReadBy(other) : Parse(one, file)[k] = Parse(other, file)[k]
           /\ Parse(one, file).balancerAddress = Parse(other, file).balancerAddress
           /\ \A f \in FileName : Parse(one, file)[f] = Parse(other, file)[f]
<1>1. ReadBy(one) \cap ReadBy(other) \subseteq Key
  BY KeysRead
<1>2. ASSUME NEW k \in ReadBy(one) \cap ReadBy(other)
      PROVE  Parse(one, file)[k] = Parse(other, file)[k]
  <2>1. /\ Parse(one, file)[k] = Meaning(one, file, k)
        /\ Parse(other, file)[k] = Meaning(other, file, k)
    BY <1>1, ParseIsMeaning
  <2> QED
    BY <2>1, SameMeaning
<1>3. FileName \cup {"balancerAddress"} \subseteq ReadBy(one) \cap ReadBy(other)
  BY KeysRead
<1> QED
  BY <1>2, <1>3

\* A file that the provider accepts is accepted by the other two, and what the
\* programs read from one file they agree on, the mode of the channels included.
THEOREM ProgramsAgree == Agreeing = Program
<1>1. Files \subseteq Seq(Line) /\ "provider" \in Program /\ "balancer" \in Program
  BY ConfigurationAssumption DEF Program
<1>2. ASSUME NEW one \in Program, NEW file \in Files,
             Accepts("provider", Parse("provider", file))
      PROVE  Accepts(one, Parse(one, file))
  <2>1. ~Parse("provider", file).threw
    BY <1>2 DEF Accepts
  <2>2. ~Spoiled("provider", file)
    BY <1>1, <2>1, ParseIsMeaning
  <2>3. ~Spoiled(one, file)
    BY <2>2, KeysRead DEF Spoiled, LinesOf
  <2>4. ~Parse(one, file).threw
    BY <1>1, <2>3, ParseIsMeaning
  <2>5. Parse(one, file).balancerAddress = Parse("provider", file).balancerAddress
    BY <1>1, <2>1, <2>4, ParsedAlike
  <2> QED
    BY <1>2, <2>4, <2>5 DEF Accepts
<1>3. ASSUME NEW one \in Program, NEW file \in Files, NEW other \in {"balancer", "provider"},
             Accepts(one, Parse(one, file)), Accepts(other, Parse(other, file))
      PROVE  /\ Parse(one, file).balancerAddress = Parse(other, file).balancerAddress
             /\ UsesSSL(Parse(one, file)) = UsesSSL(Parse(other, file))
             /\ \A k \in ReadBy(one) \cap ReadBy(other) :
                   Parse(one, file)[k] = Parse(other, file)[k]
  <2>1. /\ \A k \in ReadBy(one) \cap ReadBy(other) : Parse(one, file)[k] = Parse(other, file)[k]
        /\ Parse(one, file).balancerAddress = Parse(other, file).balancerAddress
        /\ \A f \in FileName : Parse(one, file)[f] = Parse(other, file)[f]
    BY <1>1, <1>3, ParsedAlike DEF Accepts
  <2> QED
    BY <2>1 DEF UsesSSL
<1> QED
  BY <1>2, <1>3 DEF Agreeing
===============================================================================
