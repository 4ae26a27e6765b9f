------------------------- MODULE FindBestServer_proofs -------------------------
(***************************************************************************)
(* Proofs about FindBestServer, for lists and requests of any length.      *)
(***************************************************************************)
EXTENDS FindBestServer, FiniteSetTheorems, TLAPS

LEMMA NodeType ==
    ASSUME servers \in Seq(ServerNode), NEW n \in DOMAIN servers
    PROVE  /\ servers[n].address \in Address
           /\ servers[n].operations \in Seq(Operation)
           /\ servers[n].version \in Int /\ servers[n].usage \in Int
<1>1. servers[n] \in ServerNode
  OBVIOUS
<1> QED
  BY <1>1 DEF ServerNode

\* Appending adds one element.
LEMMA AppendElements ==
    ASSUME NEW S, NEW s \in Seq(S), NEW e \in S
    PROVE  /\ Append(s, e) \in Seq(S)
           /\ Elements(Append(s, e)) = Elements(s) \cup {e}
           /\ Append(s, e) # <<>>
           /\ s # <<>> => Append(s, e)[1] = s[1]
<1> DEFINE t == Append(s, e)
<1>1. /\ Len(t) = Len(s) + 1 /\ Len(s) \in Nat
      /\ DOMAIN s = 1 .. Len(s) /\ DOMAIN t = 1 .. Len(s) + 1
      /\ \A n \in 1 .. Len(s) : t[n] = s[n]
      /\ t[Len(s) + 1] = e
  OBVIOUS
<1> HIDE DEF t
<1>2. Elements(t) = Elements(s) \cup {e}
  BY <1>1 DEF Elements
<1>3. t # <<>> /\ (s # <<>> => t[1] = s[1])
  BY <1>1
<1> QED
  BY <1>2, <1>3 DEF t

\* The operations that are counted: one more of them is counted at most once.
LEMMA CountedStep ==
    ASSUME NEW n, NEW m \in Nat \ {0}
    PROVE  /\ Counted(n, 0) = {} /\ Cardinality(Counted(n, 0)) = 0
           /\ Cardinality(Counted(n, m - 1)) \in Nat
           /\ Cardinality(Counted(n, m)) =
                IF Requested(servers[n].operations[m])
                THEN Cardinality(Counted(n, m - 1)) + 1
                ELSE Cardinality(Counted(n, m - 1))
<1>1. Counted(n, 0) = {}
  BY DEF Counted
<1>2. IsFiniteSet(Counted(n, m - 1))
  <2>1. IsFiniteSet(1 .. m - 1)
    BY FS_Interval
  <2>2. Counted(n, m - 1) \subseteq 1 .. m - 1
    BY DEF Counted
  <2> QED
    BY <2>1, <2>2, FS_Subset
<1>3. m \notin Counted(n, m - 1)
  BY DEF Counted
<1>4. Counted(n, m) = IF Requested(servers[n].operations[m])
                      THEN Counted(n, m - 1) \cup {m} ELSE Counted(n, m - 1)
  BY DEF Counted
<1>5. Cardinality(Counted(n, m - 1)) \in Nat
  BY <1>2, FS_CardinalityType
<1>6. Cardinality(Counted(n, m - 1) \cup {m}) = Cardinality(Counted(n, m - 1)) + 1
  BY <1>2, <1>3, FS_AddElement
<1>7. Cardinality(Counted(n, 0)) = 0
  BY <1>1, FS_EmptySet
<1> QED
  BY <1>1, <1>4, <1>5, <1>6, <1>7

----------------------------------------------------------------------------

LEMMA TypeStep == TypeOK /\ [Next]_vars => TypeOK'
<1> SUFFICES ASSUME TypeOK, [Next]_vars
             PROVE  TypeOK'
  OBVIOUS
<1>0. /\ DOMAIN servers = 1 .. Len(servers) /\ Len(servers) \in Nat
      /\ \A n \in DOMAIN servers : /\ Len(servers[n].operations) \in Nat
                                   /\ servers[n].usage \in Int
      /\ \A m \in DOMAIN possible : possible[m] \in DOMAIN servers
      /\ DOMAIN possible = 1 .. Len(possible) /\ Len(possible) \in Nat
  BY NodeType DEF TypeOK
<1>1. CASE NextServer
  BY <1>0, <1>1 DEF NextServer, TypeOK, inputs, minVars
<1>2. CASE CountOperation
  BY <1>0, <1>2 DEF CountOperation, TypeOK, inputs, minVars
<1>3. CASE ServerDone
  <2>1. possible' \in Seq(DOMAIN servers)
    <3>1. i \in DOMAIN servers
      BY <1>0, <1>3 DEF ServerDone, TypeOK
    <3> QED
      BY <1>3, <3>1, AppendElements DEF ServerDone, TypeOK
  <2> QED
    BY <1>0, <1>3, <2>1 DEF ServerDone, TypeOK, inputs, minVars
<1>4. CASE NothingPossible
  BY <1>0, <1>4 DEF NothingPossible, TypeOK, inputs, minVars
<1>5. CASE StartMinimum
  <2>1. servers[possible[1]].usage \in Int
    BY <1>0, <1>5 DEF StartMinimum, TypeOK
  <2> QED
    BY <1>0, <1>5, <2>1 DEF StartMinimum, TypeOK, inputs
<1>6. CASE CompareUsage
  <2>1. possible[i] \in DOMAIN servers /\ servers[possible[i]].usage \in Int
    BY <1>0, <1>6 DEF CompareUsage, TypeOK
  <2>2. same' \in Seq(DOMAIN servers) /\ minUsage' \in Int
    <3>1. Append(same, possible[i]) \in Seq(DOMAIN servers)
      BY <2>1, AppendElements DEF TypeOK
    <3>2. <<possible[i]>> \in Seq(DOMAIN servers)
      BY <2>1
    <3> QED
      BY <1>6, <2>1, <3>1, <3>2 DEF CompareUsage, TypeOK, minVars
  <2> QED
    BY <1>0, <1>6, <2>2 DEF CompareUsage, TypeOK, inputs
<1>7. CASE Answer
  BY <1>0, <1>7 DEF Answer, TypeOK, inputs, minVars
<1>8. CASE UNCHANGED vars
  BY <1>8 DEF vars, inputs, minVars, TypeOK
<1> QED
  BY <1>1, <1>2, <1>3, <1>4, <1>5, <1>6, <1>7, <1>8 DEF Next

LEMMA TypeInit == Init => TypeOK
<1> SUFFICES ASSUME Init
             PROVE  TypeOK
  OBVIOUS
<1>1. servers \in Seq(ServerNode) /\ request \in Request
  BY FindBestServerAssumption DEF Init
<1> QED
  BY <1>1 DEF Init, TypeOK

\* For every list and request the loops of findBestServer and minUsageServer
\* stay within their vectors, and collect nodes of the list only.
THEOREM TypeCorrect == Spec => []TypeOK
BY TypeInit, TypeStep, PTL DEF Spec

----------------------------------------------------------------------------
(* The loops. *)

\* Whether a server suits depends on the inputs only, and they never change.
LEMMA InputsKept ==
    ASSUME [Next]_vars
    PROVE  /\ servers' = servers /\ request' = request
           /\ Suiting' = Suiting
           /\ \A n, m : Counted(n, m)' = Counted(n, m)
<1>1. servers' = servers /\ request' = request
  BY DEF Next, vars, inputs, NextServer, CountOperation, ServerDone,
         NothingPossible, StartMinimum, CompareUsage, Answer
<1> QED
  BY <1>1 DEF Suiting, Suits, Counted, Requested

\* One more server is seen.
LEMMA UpToNext ==
    ASSUME NEW S \in SUBSET Nat, NEW j \in Nat
    PROVE  {n \in S : n < j + 1} = {n \in S : n < j} \cup (IF j \in S THEN {j} ELSE {})
<1>1. \A n \in S : n < j + 1 <=> n < j \/ n = j
  OBVIOUS
<1> QED
  BY <1>1, Zenon

LEMMA ServerLoop ==
    ASSUME TypeOK, LoopInv, [Next]_vars,
           NextServer \/ CountOperation \/ ServerDone
    PROVE  LoopInv'
<1>0. /\ servers' = servers /\ request' = request /\ Suiting' = Suiting
      /\ \A n, m : Counted(n, m)' = Counted(n, m)
      /\ DOMAIN servers = 1 .. Len(servers) /\ Len(servers) \in Nat
      /\ i \in Nat \ {0} /\ k \in Nat \ {0} /\ Suiting \subseteq 1 .. Len(servers)
  BY InputsKept DEF TypeOK, Suiting
<1>1. CASE NextServer
  <2>1. i \in DOMAIN servers /\ pc = "server" /\ Elements(possible) = {n \in Suiting : n < i}
    BY <1>0, <1>1 DEF NextServer, LoopInv
  <2>2. CASE servers[i].version >= request.version
    <3>1. /\ pc' = "operation" /\ k' = 1 /\ opCounter' = 0
          /\ i' = i /\ possible' = possible
      BY <1>1, <2>1, <2>2, NodeType DEF NextServer, TypeOK, Request
    <3>2. Cardinality(Counted(i, 0)) = 0
      <4>1. 1 \in Nat \ {0}
        OBVIOUS
      <4> QED
        BY <4>1, CountedStep
    <3> QED
      BY <1>0, <2>1, <2>2, <3>1, <3>2 DEF LoopInv, Elements
  <2>3. CASE ~(servers[i].version >= request.version)
    <3>1. pc' = pc /\ i' = i + 1 /\ possible' = possible
      BY <1>1, <2>1, <2>3 DEF NextServer
    <3>2. i \notin Suiting
      BY <2>3 DEF Suiting, Suits
    <3>3. {n \in Suiting : n < i + 1} = {n \in Suiting : n < i}
      BY <1>0, <3>2, UpToNext
    <3> QED
      BY <1>0, <2>1, <3>1, <3>3 DEF LoopInv, Elements
  <2> QED
    BY <2>2, <2>3
<1>2. CASE CountOperation
  <2>1. /\ pc = "operation" /\ pc' = pc /\ i' = i /\ possible' = possible /\ k' = k + 1
        /\ opCounter' = IF Requested(servers[i].operations[k])
                        THEN opCounter + 1 ELSE opCounter
    BY <1>2 DEF CountOperation
  <2>2. opCounter' = Cardinality(Counted(i, k))
    BY <1>0, <2>1, CountedStep DEF LoopInv
  <2>3. k' - 1 = k
    BY <1>0, <2>1
  <2> QED
    BY <1>0, <2>1, <2>2, <2>3 DEF LoopInv, Elements
<1>3. CASE ServerDone
  <2>1. /\ pc = "operation" /\ pc' = "server" /\ i' = i + 1
        /\ possible' = IF opCounter = Len(request.operations)
                       THEN Append(possible, i) ELSE possible
    BY <1>3 DEF ServerDone
  <2>2. i \in DOMAIN servers /\ k - 1 = Len(servers[i].operations)
    <3>1. i \in DOMAIN servers /\ k <= Len(servers[i].operations) + 1
      BY <1>0, <2>1 DEF TypeOK
    <3>2. Len(servers[i].operations) \in Nat /\ k > Len(servers[i].operations)
      BY <1>3, <3>1, NodeType DEF ServerDone, TypeOK
    <3> QED
      BY <1>0, <3>1, <3>2
  <2>3. i \in Suiting <=> opCounter = Len(request.operations)
    BY <2>1, <2>2 DEF LoopInv, Suiting, Suits
  <2>4. {n \in Suiting : n < i + 1} =
           {n \in Suiting : n < i} \cup (IF i \in Suiting THEN {i} ELSE {})
    BY <1>0, UpToNext
  <2>5. Elements(possible') = {n \in Suiting : n < i + 1}
    BY <2>1, <2>2, <2>3, <2>4, AppendElements DEF LoopInv, TypeOK
  <2> QED
    BY <1>0, <2>1, <2>5 DEF LoopInv, Elements
<1> QED
  BY <1>1, <1>2, <1>3

\* What the loop of minUsageServer keeps of the positions it has seen.
LEMMA MinimumLoop ==
    ASSUME TypeOK, LoopInv, [Next]_vars, StartMinimum \/ CompareUsage
    PROVE  LoopInv'
<1>0. /\ servers' = servers /\ Suiting' = Suiting
      /\ DOMAIN servers = 1 .. Len(servers) /\ Len(servers) \in Nat
      /\ DOMAIN possible = 1 .. Len(possible) /\ Len(possible) \in Nat
      /\ i \in Nat \ {0} /\ minUsage \in Int
      /\ \A m \in DOMAIN possible : possible[m] \in DOMAIN servers
      /\ \A n \in DOMAIN servers : servers[n].usage \in Int
  BY InputsKept, NodeType DEF TypeOK
<1>1. CASE StartMinimum
  <2>1. /\ pc = "server" /\ i > Len(servers) /\ possible # <<>>
        /\ pc' = "minimum" /\ i' = 1 /\ possible' = possible /\ same' = <<>>
        /\ minUsage' = servers[possible[1]].usage
        /\ minUsageAddress' = servers[possible[1]].address
    BY <1>1 DEF StartMinimum
  <2>2. Elements(possible) = Suiting
    <3>1. \A n \in Suiting : n < i
      BY <1>0, <2>1 DEF Suiting
    <3> QED
      BY <2>1, <3>1 DEF LoopInv
  <2>3. Elements(<<>>) = {} /\ 1 .. 1 - 1 = {}
    BY DEF Elements
  <2> QED
    BY <1>0, <2>1, <2>2, <2>3 DEF LoopInv, Elements
<1>2. CASE CompareUsage
  <2> DEFINE node == servers[possible[i]]
             Seen(j, u) == {possible[m] : m \in {n \in 1 .. j : servers[possible[n]].usage = u}}
  <2>1. /\ pc = "minimum" /\ pc' = pc /\ i <= Len(possible)
        /\ possible' = possible /\ i' = i + 1 /\ i' - 1 = i
    BY <1>0, <1>2 DEF CompareUsage
  <2>2. possible[i] \in DOMAIN servers /\ node.usage \in Int
    BY <1>0, <2>1
  <2>3. /\ \A m \in 1 .. i - 1 : minUsage <= servers[possible[m]].usage
        /\ \A m \in 1 .. i - 1 : servers[possible[m]].usage \in Int
        /\ Elements(same) = Seen(i - 1, minUsage)
        /\ i = 1 => /\ minUsage = node.usage /\ same = <<>>
                    /\ minUsageAddress = node.address
        /\ i # 1 => same # <<>> /\ minUsageAddress = servers[same[1]].address
    <3>1. \A m \in 1 .. i - 1 : servers[possible[m]].usage \in Int
      BY <1>0, <2>1
    <3>2. i = 1 => same = <<>>
      <4> SUFFICES ASSUME i = 1, same # <<>>
                   PROVE  FALSE
        OBVIOUS
      <4>1. same[1] \in Elements(same)
        BY DEF Elements, TypeOK
      <4>2. Elements(same) = {}
        BY <2>1 DEF LoopInv
      <4> QED
        BY <4>1, <4>2
    <3> QED
      BY <2>1, <3>1, <3>2 DEF LoopInv
  <2>4. \A m \in 1 .. i : m \in 1 .. i - 1 \/ m = i
    BY <1>0
  <2>5. 1 .. i - 1 \subseteq 1 .. i /\ i \in 1 .. i
    BY <1>0
  <2>6. /\ \A m \in 1 .. i : minUsage' <= servers[possible[m]].usage
        /\ Elements(same') = Seen(i, minUsage')
        /\ same' # <<>> /\ minUsageAddress' = servers[same'[1]].address
    <3>1. CASE node.usage < minUsage
      <4>1. /\ minUsage' = node.usage /\ minUsageAddress' = node.address
            /\ same' = <<possible[i]>>
        BY <1>0, <1>2, <2>2, <3>1 DEF CompareUsage, minVars
      <4>2. \A m \in 1 .. i - 1 : node.usage < servers[possible[m]].usage
        BY <1>0, <2>2, <2>3, <3>1
      <4>3. Elements(<<possible[i]>>) = {possible[i]}
        BY DEF Elements
      <4>4. Seen(i, node.usage) = {possible[i]}
        BY <1>0, <2>2, <2>3, <2>4, <2>5, <4>2
      <4> QED
        BY <2>2, <2>4, <4>1, <4>2, <4>3, <4>4, <2>3
    <3>2. CASE node.usage = minUsage
      <4>1. /\ minUsage' = minUsage /\ minUsageAddress' = minUsageAddress
            /\ same' = Append(same, possible[i])
        BY <1>0, <1>2, <2>2, <3>2 DEF CompareUsage
      <4>2. Seen(i, minUsage) = Seen(i - 1, minUsage) \cup {possible[i]}
        BY <2>4, <2>5, <3>2
      <4>3. /\ Elements(same') = Elements(same) \cup {possible[i]} /\ same' # <<>>
            /\ same # <<>> => same'[1] = same[1]
        <5>1. same \in Seq(DOMAIN servers)
          BY DEF TypeOK
        <5> QED
          BY <2>2, <4>1, <5>1, AppendElements
      <4>5. Elements(same') = Seen(i, minUsage')
        <5> HIDE DEF Seen
        <5> QED
          BY <2>3, <4>1, <4>2, <4>3
      <4>4. minUsageAddress' = servers[same'[1]].address
        <5>1. CASE i = 1
          <6>1. same = <<>> /\ minUsageAddress = node.address
            BY <2>3, <5>1
          <6>2. same' = Append(<<>>, possible[i])
            BY <4>1, <6>1
          <6>3. same'[1] = possible[i]
            BY <6>2
          <6> QED
            BY <4>1, <6>1, <6>3
        <5>2. CASE i # 1
          BY <2>3, <4>1, <4>3, <5>2
        <5> QED
          BY <5>1, <5>2
      <4> QED
        <5>1. \A m \in 1 .. i : minUsage' <= servers[possible[m]].usage
          BY <1>0, <2>3, <2>4, <3>2, <4>1
        <5> QED
          BY <4>3, <4>4, <4>5, <5>1
    <3>3. CASE node.usage > minUsage
      <4>1. UNCHANGED minVars
        BY <1>0, <1>2, <2>2, <3>3 DEF CompareUsage
      <4>2. Seen(i, minUsage) = Seen(i - 1, minUsage)
        BY <1>0, <2>2, <2>4, <2>5, <3>3
      <4>3. i # 1
        BY <1>0, <2>2, <2>3, <3>3
      <4> QED
        <5>1. minUsage' = minUsage /\ minUsageAddress' = minUsageAddress /\ same' = same
          BY <4>1 DEF minVars
        <5>2. \A m \in 1 .. i : minUsage <= servers[possible[m]].usage
          BY <1>0, <2>2, <2>3, <2>4, <3>3
        <5>3. Elements(same') = Seen(i, minUsage')
          <6> HIDE DEF Seen
          <6> QED
            BY <2>3, <4>2, <5>1
        <5>4. same' # <<>> /\ minUsageAddress' = servers[same'[1]].address
          BY <2>3, <4>3, <5>1
        <5>5. \A m \in 1 .. i : minUsage' <= servers[possible[m]].usage
          BY <5>1, <5>2
        <5> QED
          BY <5>3, <5>4, <5>5
    <3>4. node.usage < minUsage \/ node.usage = minUsage \/ node.usage > minUsage
      BY <1>0, <2>2
    <3> QED
      BY <3>1, <3>2, <3>3, <3>4, Zenon
  <2>7. Elements(possible') = Suiting' /\ possible' # <<>> /\ i' <= Len(possible') + 1
    BY <1>0, <2>1 DEF LoopInv
  <2>8. i' # 1
    BY <1>0, <2>1
  <2>9. Seen(i, minUsage') = {possible'[m] : m \in {n \in 1 .. i' - 1 :
                                 servers'[possible'[n]].usage = minUsage'}}
    BY <1>0, <2>1
  <2> HIDE DEF Seen
  <2> QED
    BY <1>0, <2>1, <2>6, <2>7, <2>8, <2>9 DEF LoopInv
<1> QED
  BY <1>1, <1>2

LEMMA LoopStep == TypeOK /\ LoopInv /\ [Next]_vars => LoopInv'
<1> SUFFICES ASSUME TypeOK, LoopInv, [Next]_vars
             PROVE  LoopInv'
  OBVIOUS
<1>1. CASE NothingPossible \/ Answer
  BY <1>1 DEF NothingPossible, Answer, LoopInv
<1>2. CASE UNCHANGED vars
  <2>1. Suiting' = Suiting /\ \A n, m : Counted(n, m)' = Counted(n, m)
    BY InputsKept
  <2> QED
    BY <1>2, <2>1 DEF vars, inputs, minVars, LoopInv, Elements
<1> QED
  BY <1>1, <1>2, ServerLoop, MinimumLoop DEF Next

LEMMA LoopInit == Init => LoopInv
<1> SUFFICES ASSUME Init
             PROVE  LoopInv
  OBVIOUS
<1>1. servers \in Seq(ServerNode)
  BY FindBestServerAssumption DEF Init
<1>2. {n \in Suiting : n < 1} = {}
  <2>1. \A n \in DOMAIN servers : n \in Nat /\ n >= 1
    BY <1>1
  <2> QED
    BY <2>1 DEF Suiting
<1> QED
  BY <1>2 DEF Init, LoopInv, Elements

\* When the second loop is over, sameUsageProviders are the best ones.
LEMMA SameIsBest ==
    ASSUME TypeOK, LoopInv, pc = "minimum", i > Len(possible)
    PROVE  /\ Best(Suiting) = {servers[n].address : n \in Elements(same)}
           /\ same # <<>> /\ minUsageAddress = servers[same[1]].address
<1>1. /\ DOMAIN possible = 1 .. Len(possible) /\ Len(possible) \in Nat /\ Len(possible) > 0
      /\ possible # <<>> /\ Elements(possible) = Suiting /\ i = Len(possible) + 1
      /\ \A m \in DOMAIN possible : possible[m] \in DOMAIN servers
  BY DEF TypeOK, LoopInv
<1>2. i - 1 = Len(possible) /\ i # 1
  BY <1>1
<1>3. /\ \A n \in Suiting : minUsage <= servers[n].usage
      /\ Elements(same) = {n \in Suiting : servers[n].usage = minUsage}
  BY <1>1, <1>2 DEF LoopInv, Elements
<1>4. same # <<>> /\ minUsageAddress = servers[same[1]].address
  BY <1>2 DEF LoopInv
<1>5. same[1] \in Elements(same)
  BY <1>4 DEF TypeOK, Elements
<1>6. \A n \in Suiting : servers[n].usage \in Int
  BY NodeType DEF TypeOK, Suiting
<1>7. {n \in Suiting : \A m \in Suiting : servers[n].usage <= servers[m].usage}
        = Elements(same)
  <2>1. \A n \in Suiting :
           (\A m \in Suiting : servers[n].usage <= servers[m].usage)
              <=> servers[n].usage = minUsage
    BY <1>3, <1>5, <1>6 DEF TypeOK
  <2> QED
    BY <1>3, <2>1
<1>8. Suiting # {}
  BY <1>3, <1>5
<1> QED
  BY <1>4, <1>7, <1>8 DEF Best

\* For every list and every request the answer of ListServer is the address of
\* a provider with the code's criterion and the lowest usage among those, or
\* the empty string when there is none.
THEOREM AnswerCorrect == Spec => []AnswerIsBest
<1>1. Init => AnswerIsBest
  BY DEF Init, AnswerIsBest
<1>2. TypeOK /\ LoopInv /\ AnswerIsBest /\ [Next]_vars => AnswerIsBest'
  <2> SUFFICES ASSUME TypeOK, LoopInv, AnswerIsBest, [Next]_vars, pc' = "done"
               PROVE  answer' \in Best(Suiting)'
    BY DEF AnswerIsBest
  <2>1. Best(Suiting)' = Best(Suiting)
    BY InputsKept DEF Best
  <2>2. CASE NothingPossible
    <3>1. Elements(possible) = {} /\ \A n \in Suiting : n < i
      BY <2>2 DEF NothingPossible, Elements, TypeOK, Suiting
    <3>2. Suiting = {}
      BY <2>2, <3>1 DEF NothingPossible, LoopInv
    <3> QED
      BY <2>1, <2>2, <3>2 DEF NothingPossible, Best
  <2>3. CASE Answer
    <3>1. /\ Best(Suiting) = {servers[n].address : n \in Elements(same)}
          /\ same # <<>> /\ minUsageAddress = servers[same[1]].address
      BY <2>3, SameIsBest DEF Answer
    <3>2. \A n \in DOMAIN same : same[n] \in Elements(same)
      BY DEF Elements
    <3>3. 1 \in DOMAIN same
      BY <3>1 DEF TypeOK
    <3> QED
      BY <2>1, <2>3, <3>1, <3>2, <3>3 DEF Answer
  <2>4. CASE pc = "done"
    <3>1. UNCHANGED answer
      BY <2>4 DEF Next, NextServer, CountOperation, ServerDone, NothingPossible,
                  StartMinimum, CompareUsage, Answer, vars
    <3> QED
      BY <2>1, <2>4, <3>1 DEF AnswerIsBest
  <2> QED
    BY <2>2, <2>3, <2>4 DEF Next, NextServer, CountOperation, ServerDone,
                            StartMinimum, CompareUsage, vars
<1> QED
  BY <1>1, <1>2, LoopInit, LoopStep, TypeCorrect, PTL DEF Spec

\* None of the best providers is left out of the random choice.
THEOREM ChoiceComplete == Spec => []EveryBestCanBeAnswered
<1>1. TypeOK /\ LoopInv => EveryBestCanBeAnswered
  <2> SUFFICES ASSUME TypeOK, LoopInv, pc = "minimum", i > Len(possible)
               PROVE  Best(Suiting) = IF Len(same) > 1
                        THEN {servers[same[n]].address : n \in DOMAIN same}
                        ELSE {minUsageAddress}
    BY DEF EveryBestCanBeAnswered
  <2>1. /\ Best(Suiting) = {servers[n].address : n \in Elements(same)}
        /\ same # <<>> /\ minUsageAddress = servers[same[1]].address
    BY SameIsBest
  <2>2. {servers[n].address : n \in Elements(same)}
          = {servers[same[n]].address : n \in DOMAIN same}
    BY DEF Elements
  <2>3. Len(same) <= 1 => DOMAIN same = {1}
    <3>1. DOMAIN same = 1 .. Len(same) /\ Len(same) \in Nat /\ Len(same) # 0
      BY <2>1 DEF TypeOK
    <3> QED
      BY <3>1
  <2>4. Len(same) <= 1 =>
          {servers[same[n]].address : n \in DOMAIN same} = {servers[same[1]].address}
    BY <2>3
  <2>5. Len(same) > 1 \/ Len(same) <= 1
    BY DEF TypeOK
  <2> QED
    BY <2>1, <2>2, <2>4, <2>5
<1> QED
  BY <1>1, LoopInit, LoopStep, TypeCorrect, PTL DEF Spec

----------------------------------------------------------------------------
(* What the loops keep, and what the count means. *)

\* For every list and request the loops have collected exactly the suiting
\* providers of the part they have passed, and of those the best.
THEOREM LoopsCorrect == Spec => []LoopInv
BY LoopInit, LoopStep, TypeCorrect, PTL DEF Spec

\* A provider that names each operation once, and is asked for each operation
\* once, has as many matches as requests exactly if it provides all of them:
\* matches and the requests they match are in bijection.
LEMMA CountMeansProvision ==
    ASSUME TypeOK, NEW n \in DOMAIN servers,
           NoRepeats(request.operations), NoRepeats(servers[n].operations)
    PROVE  Suits(n) <=> Provides(n)
<1> DEFINE R == request.operations
           O == servers[n].operations
           C == Counted(n, Len(O))
           f == [m \in C |-> CHOOSE r \in DOMAIN R : R[r] = O[m]]
<1>1. /\ DOMAIN R = 1 .. Len(R) /\ Len(R) \in Nat
      /\ DOMAIN O = 1 .. Len(O) /\ Len(O) \in Nat
  <2>1. R \in Seq(Operation) /\ O \in Seq(Operation)
    BY NodeType DEF TypeOK, Request
  <2> QED
    BY <2>1
<1>2. /\ C \subseteq DOMAIN O
      /\ \A m \in DOMAIN O : m \in C <=> \E r \in DOMAIN R : R[r] = O[m]
  BY <1>1 DEF Counted, Requested
<1>3. \A m \in C : f[m] \in DOMAIN R /\ R[f[m]] = O[m]
  BY <1>2
<1>4. \A r, q \in DOMAIN R : R[r] = R[q] => r = q
  BY DEF NoRepeats
<1>5. \A m, q \in DOMAIN O : O[m] = O[q] => m = q
  BY DEF NoRepeats
<1> HIDE DEF R, O, C
<1>6. f \in [C -> DOMAIN R] /\ \A m, q \in C : f[m] = f[q] => m = q
  BY <1>2, <1>3, <1>5
<1>7. f \in Injection(C, DOMAIN R)
  BY <1>6 DEF Injection, IsInjective
<1>8. IsFiniteSet(DOMAIN R) /\ Cardinality(DOMAIN R) = Len(R)
  <2> DEFINE l == Len(R)
  <2>1. l \in Nat /\ DOMAIN R = 1 .. l
    BY <1>1
  <2> HIDE DEF l
  <2>2. /\ IsFiniteSet(1 .. l)
        /\ Cardinality(1 .. l) = IF 1 > l THEN 0 ELSE l - 1 + 1
    BY <2>1, FS_Interval
  <2>3. Cardinality(1 .. l) = l
    BY <2>1, <2>2
  <2> QED
    BY <2>1, <2>2, <2>3 DEF l
<1>9. Cardinality(C) = Len(R) <=> f \in Surjection(C, DOMAIN R)
  BY <1>7, <1>8, FS_Injection
<1>10. f \in Surjection(C, DOMAIN R)
         <=> \A r \in DOMAIN R : \E m \in DOMAIN O : O[m] = R[r]
  <2>1. f \in Surjection(C, DOMAIN R) <=> \A r \in DOMAIN R : \E m \in C : f[m] = r
    BY <1>6 DEF Surjection
  <2>2. \A r \in DOMAIN R, m \in C : f[m] = r <=> O[m] = R[r]
    BY <1>3, <1>4
  <2>3. \A r \in DOMAIN R, m \in DOMAIN O : O[m] = R[r] => m \in C
    BY <1>2
  <2> QED
    BY <1>2, <2>1, <2>2, <2>3
<1> QED
  BY <1>9, <1>10 DEF Suits, Provides, C, O, R

\* For every list and every request without repetitions the answer is a
\* provider of everything that was requested, with the lowest usage among those,
\* or empty if there is none.
THEOREM AnswerServes == Spec => []AnswerProvides
<1>1. TypeOK /\ AnswerIsBest => AnswerProvides
  <2> SUFFICES ASSUME TypeOK, AnswerIsBest, pc = "done", NoRepeats(request.operations),
                      \A n \in DOMAIN servers : NoRepeats(servers[n].operations)
               PROVE  answer \in Best(Providing)
    BY DEF AnswerProvides
  <2>1. Suiting = Providing
    BY CountMeansProvision DEF Suiting, Providing
  <2> QED
    BY <2>1 DEF AnswerIsBest
<1> QED
  BY <1>1, TypeCorrect, AnswerCorrect, PTL

==============================================================================
