-------------------------- MODULE LoadBalance_proofs --------------------------
(***************************************************************************)
(* Proofs about LoadBalance, for any number of providers, any rates and    *)
(* any bounds on the faults.                                               *)
(***************************************************************************)
EXTENDS SampleUsage, TLAPS, WellFoundedInduction, FiniteSetTheorems

\* The constants, without the width of the wire.
LEMMA ConstantTypes ==
    /\ Load \cup {0} \subseteq Int /\ Garbage \subseteq Int
    /\ HeartBeatRate \in Nat /\ HeartBeatRate > 0
    /\ BeatRate \in Nat /\ BeatRate > 0
    /\ Backoff \in Nat /\ Backoff > 0
    /\ SweepLag \in Nat /\ BeatLag \in Nat
    /\ MaxFaults \in Nat /\ MaxReboots \in Nat
    /\ Jumps \subseteq Int /\ MaxSkew \in Nat
    /\ AgeCap \in Nat /\ AgeCap = 3 * HeartBeatRate + SweepLag + MaxSkew + 1
<1>1. Load \cup {0} \subseteq Int /\ Garbage \subseteq Int
  BY ConstantsAssumption
<1>2. /\ {HeartBeatRate, BeatRate, Backoff} \subseteq Nat \ {0}
      /\ SweepLag \in Nat /\ BeatLag \in Nat
      /\ MaxFaults \in Nat /\ MaxReboots \in Nat
      /\ Jumps \subseteq Int /\ MaxSkew \in Nat
  BY ConstantsAssumption
<1> QED
  BY <1>1, <1>2 DEF AgeCap

\* The words of the wire are integers.
LEMMA WireType ==
    ASSUME NEW u \in Int
    PROVE  ToWire(u) \in Int /\ FromWire(u) \in Int
BY ConstantsAssumption DEF ToWire, FromWire

LEMMA EntryType ==
    ASSUME NEW s \in Seq(ServerNode), NEW i \in DOMAIN s
    PROVE  s[i].age \in Int /\ s[i].address \in Address /\ i \in Int
<1>1. s[i] \in ServerNode
  OBVIOUS
<1> QED
  BY <1>1 DEF ServerNode

\* What each of the changes to servers_ leaves there: every entry is an old
\* one with its age, or a young one.
LEMMA AddServerType ==
    ASSUME servers \in Seq(ServerNode), NEW p \in Address, NEW o \in Offer,
           AddServer(p, o)
    PROVE  /\ servers' \in Seq(ServerNode)
           /\ DOMAIN servers' = DOMAIN servers \cup {Len(servers) + 1}
           /\ \A i \in DOMAIN servers : servers'[i] = servers[i]
           /\ servers'[Len(servers) + 1].address = p
           /\ servers'[Len(servers) + 1].age = 0
           /\ Len(servers) + 1 \notin DOMAIN servers
<1>1. PICK g \in Garbage :
         servers' = Append(servers, [address |-> p, offer |-> o, usage |-> g, age |-> 0])
  BY DEF AddServer
<1> DEFINE node == [address |-> p, offer |-> o, usage |-> g, age |-> 0]
<1>2. node \in ServerNode
  BY ConstantsAssumption DEF ServerNode
<1>3. Len(servers) \in Nat /\ DOMAIN servers = 1 .. Len(servers)
  OBVIOUS
<1>4. servers' = Append(servers, node) /\ node.address = p /\ node.age = 0
  BY <1>1
<1> HIDE DEF node
<1> QED
  BY <1>2, <1>3, <1>4

\* An address that is listed has a first entry.
LEMMA FirstListed ==
    ASSUME servers \in Seq(ServerNode), NEW p \in Address, Listed(servers, p)
    PROVE  First(servers, p) \in DOMAIN servers /\ servers[First(servers, p)].address = p
<1> DEFINE T == {i \in DOMAIN servers : servers[i].address = p}
<1>1. T \subseteq Nat /\ T # {}
  BY DEF Listed
<1>2. \E i \in T : \A j \in T : <<j, i>> \notin OpToRel(<, Nat)
  BY <1>1, WFMin, NatLessThanWellFounded
<1>3. PICK i \in T : \A j \in T : ~(j < i)
  BY <1>1, <1>2 DEF OpToRel
<1>4. \A j \in T : i <= j
  BY <1>1, <1>3
<1> QED
  BY <1>3, <1>4 DEF First

LEMMA UpdatedNode ==
    ASSUME NEW n \in ServerNode, NEW u \in Int
    PROVE  /\ [n EXCEPT !.usage = u, !.age = 0] \in ServerNode
           /\ [n EXCEPT !.usage = u, !.age = 0].address = n.address
           /\ [n EXCEPT !.usage = u, !.age = 0].age = 0
           /\ [n EXCEPT !.usage = u, !.age = 0].usage = u
<1>1. PICK a \in Address, o \in Offer, v \in Int, g \in Int :
         n = [address |-> a, offer |-> o, usage |-> v, age |-> g]
  BY DEF ServerNode
<1> DEFINE m == [n EXCEPT !.usage = u]
<1>2. m = [address |-> a, offer |-> o, usage |-> u, age |-> g]
  BY <1>1
<1> HIDE DEF m
<1>3. [m EXCEPT !.age = 0] = [address |-> a, offer |-> o, usage |-> u, age |-> 0]
  BY <1>2
<1>4. [n EXCEPT !.usage = u, !.age = 0] = [m EXCEPT !.age = 0]
  BY DEF m
<1>5. n.address = a
  BY <1>1
<1> QED
  BY <1>3, <1>4, <1>5 DEF ServerNode

LEMMA UpdateServerType ==
    ASSUME servers \in Seq(ServerNode), NEW p, NEW w \in Int,
           UpdateServer(p, w)
    PROVE  /\ servers' \in Seq(ServerNode)
           /\ DOMAIN servers' = DOMAIN servers
           /\ \A i \in DOMAIN servers :
                 /\ servers'[i].address = servers[i].address
                 /\ i = First(servers, p) => /\ servers'[i].age = 0
                                             /\ servers'[i].usage = FromWire(w)
                 /\ i # First(servers, p) => servers'[i] = servers[i]
<1> DEFINE k == First(servers, p)
           node == [servers[k] EXCEPT !.usage = FromWire(w), !.age = 0]
<1>1. servers' = [servers EXCEPT ![k] = node]
  BY DEF UpdateServer
<1>2. \A i \in DOMAIN servers : servers[i] \in ServerNode
  OBVIOUS
<1> HIDE DEF k
<1>3. ASSUME k \in DOMAIN servers
      PROVE  /\ node \in ServerNode
             /\ node.address = servers[k].address /\ node.age = 0
             /\ node.usage = FromWire(w)
  <2>1. servers[k] \in ServerNode /\ FromWire(w) \in Int
    BY <1>2, <1>3, WireType
  <2> QED
    BY <2>1, UpdatedNode, Zenon
<1> HIDE DEF node
<1>4. DOMAIN servers' = DOMAIN servers
  BY <1>1
<1>5. \A i \in DOMAIN servers : servers'[i] = IF i = k THEN node ELSE servers[i]
  BY <1>1
<1>6. servers' \in Seq(ServerNode)
  <2>1. DOMAIN servers = 1 .. Len(servers) /\ Len(servers) \in Nat
    OBVIOUS
  <2>2. servers' = [i \in 1 .. Len(servers) |-> servers'[i]]
    BY <1>1, <2>1
  <2>3. \A i \in 1 .. Len(servers) : servers'[i] \in ServerNode
    BY <1>2, <1>3, <1>5, <2>1
  <2> QED
    BY <2>1, <2>2, <2>3
<1> QED
  BY <1>3, <1>4, <1>5, <1>6 DEF k

LEMMA KeepServersType ==
    ASSUME servers \in Seq(ServerNode), NEW keep \in SUBSET DOMAIN servers,
           KeepServers(keep)
    PROVE  /\ servers' \in Seq(ServerNode)
           /\ \A i \in DOMAIN servers' : \E k \in keep : servers'[i] = servers[k]
           /\ \A k \in keep : \E i \in DOMAIN servers' : servers'[i] = servers[k]
           /\ \A p \in Address : Once(p) => Once(p)'
           /\ \A p \in Address : \E g \in [Entries(p)' -> Entries(p)] :
                 \A i, j \in Entries(p)' : g[i] = g[j] => i = j
<1>1. PICK n \in 0 .. Len(servers) : \E f \in [1 .. n -> keep] :
         /\ \A i, j \in 1 .. n : i < j => f[i] < f[j]
         /\ \A k \in keep : \E i \in 1 .. n : f[i] = k
         /\ servers' = [i \in 1 .. n |-> servers[f[i]]]
  BY DEF KeepServers
<1>2. PICK f \in [1 .. n -> keep] :
         /\ \A i, j \in 1 .. n : i < j => f[i] < f[j]
         /\ \A k \in keep : \E i \in 1 .. n : f[i] = k
         /\ servers' = [i \in 1 .. n |-> servers[f[i]]]
  BY <1>1
<1>3. n \in Nat /\ keep \subseteq 1 .. Len(servers)
  OBVIOUS
<1>4. \A i \in 1 .. n : f[i] \in keep /\ servers'[i] = servers[f[i]]
                        /\ servers[f[i]] \in ServerNode
  BY <1>2, <1>3
<1>5. servers' \in Seq(ServerNode) /\ DOMAIN servers' = 1 .. n
  BY <1>2, <1>3, <1>4
<1>6. ASSUME NEW p \in Address, Once(p)
      PROVE  Once(p)'
  <2> SUFFICES ASSUME NEW i \in 1 .. n, NEW j \in 1 .. n,
                      servers'[i].address = p, servers'[j].address = p
               PROVE  i = j
    BY <1>5 DEF Once
  <2>1. f[i] = f[j]
    BY <1>3, <1>4, <1>6 DEF Once
  <2>2. f[i] \in Int
    BY <1>3, <1>4
  <2> QED
    BY <1>2, <2>1, <2>2
<1>7. ASSUME NEW p \in Address
      PROVE  \E g \in [Entries(p)' -> Entries(p)] :
                \A i, j \in Entries(p)' : g[i] = g[j] => i = j
  <2> DEFINE g == [i \in Entries(p)' |-> f[i]]
  <2>1. \A i \in Entries(p)' : i \in 1 .. n /\ servers'[i].address = p
    BY <1>5 DEF Entries
  <2>2. \A i \in Entries(p)' : f[i] \in Entries(p)
    BY <1>3, <1>4, <2>1 DEF Entries
  <2>3. \A i, j \in 1 .. n : f[i] = f[j] => i = j
    <3>1. \A i \in 1 .. n : f[i] \in Int
      BY <1>3, <1>4
    <3> QED
      BY <1>2, <3>1
  <2>4. g \in [Entries(p)' -> Entries(p)]
    BY <2>2
  <2>5. \A i, j \in Entries(p)' : g[i] = g[j] => i = j
    BY <2>1, <2>3
  <2> HIDE DEF g
  <2> QED
    BY <2>4, <2>5
<1> QED
  BY <1>2, <1>4, <1>5, <1>6, <1>7

LEMMA AgedServers ==
    ASSUME servers \in Seq(ServerNode), NEW d \in Int,
           servers' = [i \in DOMAIN servers |-> Aged(servers[i], d)]
    PROVE  /\ servers' \in Seq(ServerNode)
           /\ DOMAIN servers' = DOMAIN servers
           /\ \A i \in DOMAIN servers :
                 /\ servers'[i].address = servers[i].address
                 /\ servers'[i].age <= servers[i].age + d
                 /\ servers'[i].age <= AgeCap
                 /\ servers'[i].usage = servers[i].usage
<1>1. AgeCap \in Nat
  BY ConstantTypes
<1>2. ASSUME NEW node \in ServerNode
      PROVE  /\ Aged(node, d) \in ServerNode
             /\ Aged(node, d).address = node.address
             /\ Aged(node, d).age <= node.age + d
             /\ Aged(node, d).age <= AgeCap
             /\ Aged(node, d).usage = node.usage
  <2> DEFINE a == IF node.age + d <= AgeCap THEN node.age + d ELSE AgeCap
  <2>1. node.age \in Int /\ a \in Int /\ a <= node.age + d /\ a <= AgeCap
    BY <1>1, <1>2 DEF ServerNode
  <2>2. Aged(node, d) = [node EXCEPT !.age = a]
    BY DEF Aged
  <2> HIDE DEF a
  <2> QED
    BY <1>2, <2>1, <2>2 DEF ServerNode
<1>3. DOMAIN servers = 1 .. Len(servers) /\ Len(servers) \in Nat
  OBVIOUS
<1>4. \A i \in DOMAIN servers : servers[i] \in ServerNode /\ servers'[i] = Aged(servers[i], d)
  OBVIOUS
<1>5. servers' \in Seq(ServerNode)
  <2>1. \A i \in 1 .. Len(servers) : Aged(servers[i], d) \in ServerNode
    BY <1>2, <1>3, <1>4
  <2> QED
    BY <1>3, <2>1
<1> QED
  BY <1>2, <1>4, <1>5

LEMMA TickServers ==
    ASSUME servers \in Seq(ServerNode), Tick
    PROVE  /\ servers' \in Seq(ServerNode)
           /\ DOMAIN servers' = DOMAIN servers
           /\ \A i \in DOMAIN servers :
                 /\ servers'[i].address = servers[i].address
                 /\ servers'[i].age <= servers[i].age + 1
                 /\ servers'[i].age <= AgeCap
                 /\ servers'[i].usage = servers[i].usage
<1> DEFINE d == 1
<1>1. d \in Int /\ servers' = [i \in DOMAIN servers |-> Aged(servers[i], d)]
  BY DEF Tick
<1> HIDE DEF d
<1>2. /\ servers' \in Seq(ServerNode)
      /\ DOMAIN servers' = DOMAIN servers
      /\ \A i \in DOMAIN servers :
            /\ servers'[i].address = servers[i].address
            /\ servers'[i].age <= servers[i].age + d
            /\ servers'[i].age <= AgeCap
            /\ servers'[i].usage = servers[i].usage
  BY <1>1, AgedServers
<1> QED
  BY <1>2 DEF d

----------------------------------------------------------------------------

\* What a jump of the clock does: no age grows by more than the skew.
LEMMA JumpServers ==
    ASSUME servers \in Seq(ServerNode), skew \in Nat, ClockJumps
    PROVE  /\ servers' \in Seq(ServerNode)
           /\ DOMAIN servers' = DOMAIN servers
           /\ \A i \in DOMAIN servers :
                 /\ servers'[i].address = servers[i].address
                 /\ servers'[i].age <= servers[i].age + (skew' - skew)
                 /\ servers'[i].age <= AgeCap
                 /\ servers'[i].usage = servers[i].usage
           /\ skew' \in 0 .. MaxSkew /\ skew <= skew'
<1>1. PICK d \in Jumps : /\ skew + Size(d) <= MaxSkew
                         /\ skew' = skew + Size(d)
                         /\ servers' = [i \in DOMAIN servers |-> Aged(servers[i], d)]
  BY DEF ClockJumps
<1>2. d \in Int /\ MaxSkew \in Nat
  BY ConstantTypes
<1>3. Size(d) \in Nat /\ d <= Size(d)
  BY <1>2 DEF Size
<1>4. /\ servers' \in Seq(ServerNode)
      /\ DOMAIN servers' = DOMAIN servers
      /\ \A i \in DOMAIN servers :
            /\ servers'[i].address = servers[i].address
            /\ servers'[i].age <= servers[i].age + d
            /\ servers'[i].age <= AgeCap
            /\ servers'[i].usage = servers[i].usage
  BY <1>1, <1>2, AgedServers
<1>5. ASSUME NEW i \in DOMAIN servers
      PROVE  servers'[i].age <= servers[i].age + (skew' - skew)
  <2>1. servers[i].age \in Int /\ servers'[i].age \in Int
    BY <1>4, EntryType
  <2> QED
    BY <1>1, <1>2, <1>3, <1>4, <2>1
<1> QED
  BY <1>1, <1>2, <1>3, <1>4, <1>5

\* Typing of the steps that only move a provider.
LEMMA ProviderStepType ==
    ASSUME TypeOK, NEW p \in Address, ProviderStep(p)
    PROVE  TypeOK'
<1> USE ConstantTypes DEF TypeOK, balancerVars, Status, Calling
<1>1. CASE RegisterReturns(p)
  BY <1>1 DEF RegisterReturns, Sleep
<1>2. CASE CallBeat(p)
  BY <1>2 DEF CallBeat
<1>3. CASE BeatReturns(p)
  <2>1. CASE Sleep(p, "asleep", BeatRate)
    <3>1. Confirm(p)
      BY <1>3, <2>1 DEF BeatReturns, Sleep, CallAgain
    <3>2. usage[p] \in Load \cup {0}
      OBVIOUS
    <3>3. {usage[p]} \in SUBSET (Load \cup {0})
      BY <3>2, Zenon
    <3>4. confirmed' \in [Address -> SUBSET (Load \cup {0})]
      BY <3>1, <3>3, Zenon DEF Confirm
    <3>5. UNCHANGED <<servers, up, sweepTimer, reboots, skew, offer, usage, late, faults>>
      BY <1>3 DEF BeatReturns
    <3>6. /\ pc' \in [Address -> {"down", "register", "asleep", "beat", "retry", "backoff"}]
          /\ reply' \in [Address -> Status \cup {"none", "pending"}]
      BY <2>1 DEF Sleep
    <3>7. timer' \in [Address -> Int] /\ \A q \in Address : timer'[q] >= -BeatLag
      BY <2>1 DEF Sleep
    <3>8. \A q \in Address : Calling(q)' <=> reply'[q] # "none"
      BY <2>1 DEF Sleep
    <3> QED
      BY <3>4, <3>5, <3>6, <3>7, <3>8
  <2>2. CASE CallAgain(p)
    BY <1>3, <2>2 DEF BeatReturns, CallAgain
  <2> QED
    BY <1>3, <2>1, <2>2 DEF BeatReturns
<1>4. CASE RetryReturns(p)
  <2>1. CASE Sleep(p, "asleep", BeatRate)
    BY <1>4, <2>1 DEF RetryReturns, Sleep
  <2>2. CASE Sleep(p, "backoff", Backoff)
    BY <1>4, <2>2 DEF RetryReturns, Sleep
  <2> QED
    BY <1>4, <2>1, <2>2 DEF RetryReturns
<1>5. CASE BackoffOver(p)
  BY <1>5 DEF BackoffOver, CallAgain
<1> QED
  BY <1>1, <1>2, <1>3, <1>4, <1>5 DEF ProviderStep

\* The request a provider leaves behind is a request.
LEMMA AbandonType ==
    ASSUME TypeOK, NEW p \in Address, Abandon(p)
    PROVE  late' \in [Address -> Request \cup {NoCall}]
<1>1. usage[p] \in Int /\ offer[p] \in Offer
  BY ConstantTypes DEF TypeOK
<1>2. RequestOf(p) \in Request
  BY <1>1, WireType DEF RequestOf, Request
<1> QED
  BY <1>2 DEF Abandon, TypeOK

\* Typing of the handlers.
LEMMA HandleType ==
    ASSUME TypeOK, NEW p \in Address, Handle(p)
    PROVE  TypeOK'
<1>1. /\ servers \in Seq(ServerNode) /\ AgeCap \in Nat
      /\ \A i \in DOMAIN servers : servers[i].age <= AgeCap
      /\ offer[p] \in Offer /\ ToWire(usage[p]) \in Int
      /\ late[p] # NoCall => late[p].offer \in Offer /\ late[p].usage \in Int
  <2>1. usage[p] \in Int
    BY ConstantTypes DEF TypeOK
  <2> QED
    BY ConstantTypes, WireType, <2>1 DEF TypeOK, Request
<1>2. /\ servers' \in Seq(ServerNode)
      /\ \A i \in DOMAIN servers' : servers'[i].age <= AgeCap
  <2>1. CASE \E o \in Offer : AddServer(p, o)
    BY <1>1, <2>1, AddServerType
  <2>2. CASE \E w \in Int : UpdateServer(p, w)
    BY <1>1, <2>2, UpdateServerType
  <2>3. CASE UNCHANGED servers
    BY <1>1, <2>3
  <2> QED
    BY <1>1, <2>1, <2>2, <2>3 DEF Handle, EstablishServer, SendHeartbeat, HandleLate
<1>3. CASE EstablishServer(p)
  BY <1>2, <1>3 DEF EstablishServer, TypeOK, Calling, Status
<1>4. CASE SendHeartbeat(p)
  BY <1>2, <1>4 DEF SendHeartbeat, TypeOK, Calling, Status
<1>5. CASE HandleLate(p)
  BY <1>2, <1>5 DEF HandleLate, TypeOK, Calling, Status
<1> QED
  BY <1>3, <1>4, <1>5 DEF Handle

LEMMA TypeStep == TypeOK /\ [Next]_vars => TypeOK'
<1> SUFFICES ASSUME TypeOK, [Next]_vars
             PROVE  TypeOK'
  OBVIOUS
<1>0. /\ servers \in Seq(ServerNode)
      /\ \A i \in DOMAIN servers : servers[i].age <= AgeCap
  BY DEF TypeOK
<1>1. ASSUME NEW p \in Address, ProviderStep(p)
      PROVE  TypeOK'
  BY <1>1, ProviderStepType
<1>2. ASSUME NEW p \in Address, Handle(p)
      PROVE  TypeOK'
  BY <1>2, HandleType
<1>3. ASSUME NEW p \in Address, StartProvider(p)
      PROVE  TypeOK'
  BY <1>3, ConstantTypes DEF StartProvider, TypeOK, balancerVars, Calling, Status
<1>4. ASSUME NEW p \in Address, KillProvider(p)
      PROVE  TypeOK'
  <2>1. late' \in [Address -> Request \cup {NoCall}]
    BY <1>4, AbandonType DEF KillProvider
  <2>2. faults' \in [Address -> 0 .. MaxFaults]
    BY <1>4, ConstantTypes DEF KillProvider, TypeOK
  <2>3. \A q \in Address : Calling(q)' <=> reply'[q] # "none"
    BY <1>4 DEF KillProvider, TypeOK, Calling
  <2> QED
    BY <1>4, <2>1, <2>2, <2>3, ConstantTypes
    DEF KillProvider, TypeOK, balancerVars, Status
<1>5. ASSUME NEW p \in Address, ConnectionBreaks(p)
      PROVE  TypeOK'
  <2>1. late' \in [Address -> Request \cup {NoCall}]
    BY <1>5, AbandonType DEF ConnectionBreaks
  <2>2. faults' \in [Address -> 0 .. MaxFaults]
    BY <1>5, ConstantTypes DEF ConnectionBreaks, TypeOK
  <2>3. \A q \in Address : Calling(q)' <=> reply'[q] # "none"
    BY <1>5 DEF ConnectionBreaks, TypeOK, Calling
  <2> QED
    BY <1>5, <2>1, <2>2, <2>3, ConstantTypes
    DEF ConnectionBreaks, TypeOK, balancerVars, Status
<1>6. ASSUME NEW p \in Address, ConnectFails(p)
      PROVE  TypeOK'
  BY <1>6 DEF ConnectFails, TypeOK, balancerVars, Calling, Status
<1>7. CASE RemoveInactiveServer
  <2> DEFINE keep == {i \in DOMAIN servers : ~Inactive(servers[i])}
  <2>1. KeepServers(keep) /\ keep \in SUBSET DOMAIN servers
    BY <1>7 DEF RemoveInactiveServer
  <2> HIDE DEF keep
  <2>2. /\ servers' \in Seq(ServerNode)
        /\ \A i \in DOMAIN servers' : servers'[i].age <= AgeCap
    BY <1>0, <2>1, KeepServersType
  <2> QED
    BY <1>7, <2>2, ConstantTypes
    DEF RemoveInactiveServer, TypeOK, providerVars, Calling
<1>8. CASE BalancerCrash
  <2>1. /\ reply' \in [Address -> Status \cup {"none", "pending"}]
        /\ \A p \in Address : Calling(p)' <=> reply'[p] # "none"
    BY <1>8 DEF BalancerCrash, TypeOK, Calling, Status
  <2>2. servers' \in Seq(ServerNode) /\ DOMAIN servers' = {}
    BY <1>8 DEF BalancerCrash
  <2>3. reboots' \in 0 .. MaxReboots /\ sweepTimer' \in -SweepLag .. 2 * HeartBeatRate
    BY <1>8, ConstantTypes DEF BalancerCrash, TypeOK
  <2> QED
    BY <1>8, <2>1, <2>2, <2>3 DEF BalancerCrash, TypeOK
<1>9. CASE BalancerStart
  BY <1>9 DEF BalancerStart, TypeOK, providerVars, Calling
<1>10. CASE Tick
  <2>1. /\ servers' \in Seq(ServerNode)
        /\ \A i \in DOMAIN servers' : servers'[i].age <= AgeCap
    BY <1>0, <1>10, TickServers
  <2> QED
    BY <1>10, <2>1, ConstantTypes DEF Tick, TypeOK, Calling, Running
<1>11. CASE UNCHANGED vars
  BY <1>11 DEF vars, balancerVars, providerVars, TypeOK, Calling
<1>12. CASE ClockJumps
  <2>1. skew \in Nat
    BY ConstantTypes DEF TypeOK
  <2>2. /\ servers' \in Seq(ServerNode) /\ skew' \in 0 .. MaxSkew
        /\ \A i \in DOMAIN servers' : servers'[i].age <= AgeCap
    BY <1>0, <1>12, <2>1, JumpServers
  <2> QED
    BY <1>12, <2>2 DEF ClockJumps, TypeOK, providerVars, Calling
<1> QED
  BY <1>1, <1>2, <1>3, <1>4, <1>5, <1>6, <1>7, <1>8, <1>9, <1>10, <1>11, <1>12 DEF Next

LEMMA TypeInit == Init => TypeOK
BY ConstantTypes DEF Init, TypeOK, Calling

\* Every reachable state is well typed: above all, a call of a provider is in
\* one of its four states exactly while its thread is inside that call, and
\* the cap on the ages holds.
THEOREM TypeCorrect == Spec => []TypeOK
BY TypeInit, TypeStep, PTL DEF Spec

----------------------------------------------------------------------------
(* How long an entry stays without a beat. *)

\* What a sweep leaves is not inactive.
LEMMA SweepKeeps ==
    ASSUME TypeOK, RemoveInactiveServer
    PROVE  /\ servers' \in Seq(ServerNode)
           /\ \A i \in DOMAIN servers' : \E k \in DOMAIN servers :
                 servers'[i] = servers[k] /\ servers[k].age <= HeartBeatRate
           /\ \A k \in DOMAIN servers : servers[k].age <= HeartBeatRate =>
                 \E i \in DOMAIN servers' : servers'[i] = servers[k]
           /\ \A p \in Address : Once(p) => Once(p)'
           /\ \A p \in Address : \E g \in [Entries(p)' -> Entries(p)] :
                 \A i, j \in Entries(p)' : g[i] = g[j] => i = j
<1> DEFINE keep == {k \in DOMAIN servers : ~Inactive(servers[k])}
<1>1. KeepServers(keep) /\ keep \in SUBSET DOMAIN servers
  BY DEF RemoveInactiveServer
<1>2. servers \in Seq(ServerNode)
  BY DEF TypeOK
<1>3. \A k \in DOMAIN servers : k \in keep <=> servers[k].age <= HeartBeatRate
  <2>1. \A k \in DOMAIN servers : servers[k].age \in Int
    BY <1>2, EntryType
  <2> QED
    BY <2>1, ConstantTypes DEF Inactive
<1> HIDE DEF keep
<1>4. /\ servers' \in Seq(ServerNode)
      /\ \A i \in DOMAIN servers' : \E k \in keep : servers'[i] = servers[k]
      /\ \A k \in keep : \E i \in DOMAIN servers' : servers'[i] = servers[k]
      /\ \A p \in Address : Once(p) => Once(p)'
      /\ \A p \in Address : \E g \in [Entries(p)' -> Entries(p)] :
            \A i, j \in Entries(p)' : g[i] = g[j] => i = j
  BY <1>1, <1>2, KeepServersType
<1> QED
  BY <1>1, <1>3, <1>4

LEMMA HandleServers ==
    ASSUME TypeOK, NEW q \in Address, Handle(q)
    PROVE  \/ UNCHANGED servers
           \/ /\ EstablishServer(q) \/ HandleLate(q)
              /\ \E o \in Offer : AddServer(q, o)
           \/ /\ SendHeartbeat(q) \/ HandleLate(q)
              /\ Listed(servers, q)
              /\ \E w \in Int : UpdateServer(q, w)
<1>1. usage[q] \in Int
  BY ConstantTypes DEF TypeOK
<1>2. /\ offer[q] \in Offer /\ ToWire(usage[q]) \in Int
      /\ late[q] # NoCall => late[q].offer \in Offer /\ late[q].usage \in Int
  BY WireType, <1>1 DEF TypeOK, Request
<1> QED
  BY <1>2 DEF Handle, EstablishServer, SendHeartbeat, HandleLate

\* The six ways in which a step changes servers_.
LEMMA ServersStep ==
    ASSUME TypeOK, [Next]_vars
    PROVE  \/ UNCHANGED servers
           \/ RemoveInactiveServer
           \/ BalancerCrash
           \/ Tick
           \/ ClockJumps
           \/ \E q \in Address : /\ EstablishServer(q) \/ HandleLate(q)
                                 /\ \E o \in Offer : AddServer(q, o)
           \/ \E q \in Address : /\ SendHeartbeat(q) \/ HandleLate(q)
                                 /\ Listed(servers, q)
                                 /\ \E w \in Int : UpdateServer(q, w)
<1>2. ASSUME NEW q \in Address, Handle(q)
      PROVE  \/ UNCHANGED servers
             \/ /\ EstablishServer(q) \/ HandleLate(q)
                /\ \E o \in Offer : AddServer(q, o)
             \/ /\ SendHeartbeat(q) \/ HandleLate(q)
                /\ Listed(servers, q)
                /\ \E w \in Int : UpdateServer(q, w)
  BY <1>2, HandleServers
<1>3. ASSUME NEW q \in Address, ProviderStep(q)
      PROVE  UNCHANGED servers
  BY <1>3 DEF ProviderStep, RegisterReturns, CallBeat, BeatReturns, RetryReturns,
              BackoffOver, balancerVars
<1>4. ASSUME NEW q \in Address,
             \/ StartProvider(q) \/ KillProvider(q)
             \/ ConnectionBreaks(q) \/ ConnectFails(q)
      PROVE  UNCHANGED servers
  BY <1>4 DEF StartProvider, KillProvider, ConnectionBreaks, ConnectFails, balancerVars
<1>5. CASE BalancerStart \/ UNCHANGED vars
  BY <1>5 DEF BalancerStart, vars, balancerVars
<1> QED
  BY <1>2, <1>3, <1>4, <1>5 DEF Next

\* The skew only grows.
LEMMA SkewStep ==
    ASSUME TypeOK, [Next]_vars
    PROVE  /\ skew \in Nat /\ skew' \in Nat /\ skew <= skew'
           /\ ~ClockJumps => skew' = skew
<1>1. skew \in Nat /\ skew' \in Nat /\ servers \in Seq(ServerNode)
  BY TypeStep, ConstantTypes DEF TypeOK
<1>2. CASE ClockJumps
  BY <1>1, <1>2, JumpServers
<1>3. CASE ~ClockJumps
  <2>1. skew' = skew
    BY <1>3
    DEF Next, vars, balancerVars, ProviderStep, RegisterReturns, CallBeat,
        BeatReturns, RetryReturns, BackoffOver, StartProvider, KillProvider,
        ConnectionBreaks, ConnectFails, Handle, EstablishServer, SendHeartbeat,
        HandleLate, RemoveInactiveServer, BalancerCrash, BalancerStart, Tick
  <2> QED
    BY <1>1, <1>3, <2>1
<1> QED
  BY <1>1, <1>2, <1>3

\* The entries of p after a step that does not register p: each was there
\* before, and is older only by a tick or a jump of the clock. A beat of p may
\* replace an age below 0.
LEMMA EntriesOf ==
    ASSUME TypeOK, [Next]_vars, NEW p \in Address,
           ~EstablishServer(p), ~HandleLate(p)
    PROVE  /\ Once(p) => Once(p)'
           /\ \A i \in DOMAIN servers' : servers'[i].address = p =>
                 /\ servers'[i].age \in Int
                 /\ \E k \in DOMAIN servers :
                      /\ servers[k].address = p
                      /\ servers[k].age \in Int
                      /\ \/ servers'[i].age <= servers[k].age + (skew' - skew)
                         \/ Tick /\ servers'[i].age <= servers[k].age + 1
                         \/ SendHeartbeat(p)
                      /\ SendHeartbeat(p) \/ servers'[i].usage = servers[k].usage
<1>0. /\ servers \in Seq(ServerNode)
      /\ \A k \in DOMAIN servers : servers[k].age \in Int
      /\ skew \in Nat /\ skew' \in Nat /\ skew <= skew'
  BY EntryType, SkewStep DEF TypeOK
<1>00. \A i \in DOMAIN servers' : servers'[i].age \in Int
  <2>1. servers' \in Seq(ServerNode)
    BY TypeStep DEF TypeOK
  <2> QED
    BY <2>1, EntryType
<1>1. CASE UNCHANGED servers
  BY <1>0, <1>1 DEF Once
<1>2. CASE RemoveInactiveServer
  <2>1. Once(p) => Once(p)'
    BY <1>2, SweepKeeps
  <2>2. ASSUME NEW i \in DOMAIN servers', servers'[i].address = p
        PROVE  \E k \in DOMAIN servers : servers'[i] = servers[k]
    BY <1>2, SweepKeeps
  <2> QED
    BY <1>0, <1>00, <2>1, <2>2
<1>3. CASE BalancerCrash
  BY <1>3 DEF BalancerCrash, Once
<1>4. CASE Tick
  <2>1. /\ DOMAIN servers' = DOMAIN servers
        /\ \A i \in DOMAIN servers : /\ servers'[i].address = servers[i].address
                                     /\ servers'[i].age <= servers[i].age + 1
                                     /\ servers'[i].usage = servers[i].usage
    BY <1>0, <1>4, TickServers DEF Tick
  <2> QED
    BY <1>0, <1>00, <1>4, <2>1 DEF Once
<1>9. CASE ClockJumps
  BY <1>0, <1>00, <1>9, JumpServers DEF Once
<1>5. ASSUME NEW q \in Address, EstablishServer(q) \/ HandleLate(q),
             NEW o \in Offer, AddServer(q, o)
      PROVE  /\ \A i \in DOMAIN servers' : servers'[i].address = p =>
                   i \in DOMAIN servers /\ servers'[i] = servers[i]
             /\ q # p
  BY <1>0, <1>5, AddServerType
<1>6. ASSUME NEW q \in Address, SendHeartbeat(q) \/ HandleLate(q),
             Listed(servers, q), NEW w \in Int, UpdateServer(q, w)
      PROVE  \A i \in DOMAIN servers' :
                /\ i \in DOMAIN servers /\ servers'[i].address = servers[i].address
                /\ servers'[i].address = p =>
                      \/ SendHeartbeat(p)
                      \/ /\ servers'[i].age = servers[i].age
                         /\ servers'[i].usage = servers[i].usage
  <2>1. First(servers, q) \in DOMAIN servers /\ servers[First(servers, q)].address = q
    BY <1>0, <1>6, FirstListed
  <2>2. /\ DOMAIN servers' = DOMAIN servers
        /\ \A i \in DOMAIN servers :
              /\ servers'[i].address = servers[i].address
              /\ i # First(servers, q) => servers'[i] = servers[i]
    BY <1>0, <1>6, UpdateServerType
  <2> QED
    BY <1>6, <2>1, <2>2
<1>7. CASE \E q \in Address : \E o \in Offer :
              (EstablishServer(q) \/ HandleLate(q)) /\ AddServer(q, o)
  BY <1>0, <1>00, <1>5, <1>7 DEF Once
<1>8. CASE \E q \in Address : /\ SendHeartbeat(q) \/ HandleLate(q)
                              /\ Listed(servers, q)
                              /\ \E w \in Int : UpdateServer(q, w)
  BY <1>0, <1>00, <1>6, <1>8 DEF Once
<1> QED
  BY <1>1, <1>2, <1>3, <1>4, <1>7, <1>8, <1>9, ServersStep

LEMMA AgeStep == TypeOK /\ AgeInv /\ [Next]_vars => AgeInv'
<1> SUFFICES ASSUME TypeOK, AgeInv, [Next]_vars
             PROVE  AgeInv'
  OBVIOUS
<1>0. /\ servers \in Seq(ServerNode)
      /\ \A k \in DOMAIN servers : servers[k].age \in Int
      /\ up \in BOOLEAN
      /\ sweepTimer \in Int /\ sweepTimer <= 2 * HeartBeatRate
      /\ skew \in Nat /\ skew' \in Nat /\ skew <= skew'
      /\ ~ClockJumps => skew' = skew
  BY EntryType, ConstantTypes, SkewStep DEF TypeOK
<1>00. /\ \A i \in DOMAIN servers' : servers'[i].age \in Int
       /\ sweepTimer' \in Int
  <2>1. servers' \in Seq(ServerNode) /\ sweepTimer' \in Int
    BY TypeStep, ConstantTypes DEF TypeOK
  <2> QED
    BY <2>1, EntryType
<1>1. CASE RemoveInactiveServer
  <2>1. up /\ up' /\ sweepTimer' = 2 * HeartBeatRate /\ skew' = skew
    BY <1>1 DEF RemoveInactiveServer
  <2>2. \A i \in DOMAIN servers' : servers'[i].age <= HeartBeatRate
    BY <1>1, SweepKeeps
  <2>3. HeartBeatRate \in Nat /\ skew' \in Nat
    BY <1>0, ConstantTypes
  <2>4. \A i \in DOMAIN servers' :
           servers'[i].age + sweepTimer' <= 3 * HeartBeatRate + skew'
    BY <1>00, <2>1, <2>2, <2>3
  <2> QED
    BY <2>1, <2>4 DEF AgeInv
<1>2. CASE BalancerCrash
  BY <1>2 DEF BalancerCrash, AgeInv
<1>3. CASE BalancerStart
  BY <1>0, <1>3, ConstantTypes DEF BalancerStart, AgeInv
<1>4. CASE Tick
  <2>0. skew' = skew
    BY <1>4 DEF Tick
  <2>1. /\ up' = up /\ DOMAIN servers' = DOMAIN servers
        /\ \A i \in DOMAIN servers : servers'[i].age <= servers[i].age + 1
        /\ sweepTimer' = IF up THEN sweepTimer - 1 ELSE sweepTimer
    BY <1>0, <1>4, TickServers DEF Tick
  <2>2. CASE up
    <3>1. /\ HeartBeatRate \in Nat /\ skew \in Nat /\ sweepTimer \in Int
          /\ \A i \in DOMAIN servers : servers[i].age \in Int
      BY <1>0, ConstantTypes
    <3>2. \A i \in DOMAIN servers : servers[i].age + sweepTimer <= 3 * HeartBeatRate + skew
      BY <2>2 DEF AgeInv
    <3>3. \A i \in DOMAIN servers' :
             servers'[i].age + sweepTimer' <= 3 * HeartBeatRate + skew'
      BY <1>00, <2>0, <2>1, <2>2, <3>1, <3>2
    <3> QED
      BY <2>1, <2>2, <3>3 DEF AgeInv
  <2>3. CASE ~up
    BY <1>4, <2>1, <2>3 DEF AgeInv, Tick
  <2> QED
    BY <2>2, <2>3
<1>5. CASE \E q \in Address : Handle(q)
  <2>1. up /\ up' /\ sweepTimer' = sweepTimer /\ skew' = skew
    BY <1>5 DEF Handle, EstablishServer, SendHeartbeat, HandleLate
  <2>2. PICK q \in Address :
           \/ UNCHANGED servers
           \/ \E o \in Offer : AddServer(q, o)
           \/ \E w \in Int : UpdateServer(q, w)
    BY <1>5, HandleServers
  <2>3. \A i \in DOMAIN servers' :
           \/ servers'[i].age = 0
           \/ i \in DOMAIN servers /\ servers'[i].age = servers[i].age
    BY <1>0, <2>2, AddServerType, UpdateServerType
  <2> QED
    BY <1>0, <2>1, <2>3, ConstantTypes DEF AgeInv
<1>6. CASE UNCHANGED balancerVars \/ UNCHANGED vars
  BY <1>6 DEF balancerVars, vars, AgeInv
<1>7. CASE ClockJumps
  <2>1. up /\ up' /\ sweepTimer' = sweepTimer
    BY <1>7 DEF ClockJumps
  <2>2. /\ DOMAIN servers' = DOMAIN servers
        /\ \A i \in DOMAIN servers : servers'[i].age <= servers[i].age + (skew' - skew)
    BY <1>0, <1>7, JumpServers
  <2>3. /\ HeartBeatRate \in Nat /\ skew \in Nat /\ skew' \in Nat /\ sweepTimer \in Int
        /\ \A i \in DOMAIN servers : servers[i].age \in Int
    BY <1>0, ConstantTypes
  <2>4. \A i \in DOMAIN servers : servers[i].age + sweepTimer <= 3 * HeartBeatRate + skew
    BY <2>1 DEF AgeInv
  <2>5. \A i \in DOMAIN servers' :
           servers'[i].age + sweepTimer' <= 3 * HeartBeatRate + skew'
    BY <1>00, <2>1, <2>2, <2>3, <2>4
  <2> QED
    BY <2>1, <2>5 DEF AgeInv
<1> QED
  BY <1>1, <1>2, <1>3, <1>4, <1>5, <1>6, <1>7
  DEF Next, ProviderStep, RegisterReturns, CallBeat, BeatReturns, RetryReturns,
      BackoffOver, StartProvider, KillProvider, ConnectionBreaks, ConnectFails,
      balancerVars

\* An entry is never more than three heartbeat periods and the updater's lag
\* without a beat, as far as the clock was not set, for any number of providers
\* and any faults.
THEOREM SilenceIsBounded == Spec => []BoundedSilence
<1>1. Init => AgeInv
  BY ConstantTypes DEF Init, AgeInv
<1>2. TypeOK /\ AgeInv => BoundedSilence
  <2> SUFFICES ASSUME TypeOK, AgeInv, NEW i \in DOMAIN servers
               PROVE  servers[i].age <= 3 * HeartBeatRate + SweepLag + skew
    BY DEF BoundedSilence
  <2>1. /\ servers[i].age \in Int /\ skew \in Int
        /\ sweepTimer \in Int /\ sweepTimer >= -SweepLag
    BY EntryType, ConstantTypes DEF TypeOK
  <2>2. up /\ servers[i].age + sweepTimer <= 3 * HeartBeatRate + skew
    BY DEF AgeInv, TypeOK
  <2> QED
    BY <2>1, <2>2, ConstantTypes
<1> QED
  BY <1>1, <1>2, AgeStep, TypeCorrect, PTL DEF Spec

----------------------------------------------------------------------------
(* Registration. *)

\* A step that is not an action of p, nor a crash of the balancer, leaves the
\* state of its thread and of its call alone.
LEMMA StepOfOther ==
    ASSUME TypeOK, [Next]_vars, NEW p \in Address,
           ~StartProvider(p), ~ProviderStep(p), ~Handle(p), ~KillProvider(p),
           ~ConnectionBreaks(p), ~ConnectFails(p), ~BalancerCrash
    PROVE  /\ pc'[p] = pc[p] /\ reply'[p] = reply[p]
           /\ timer'[p] = timer[p] \/ Tick
           /\ usage'[p] = usage[p] /\ confirmed'[p] = confirmed[p]
           /\ late'[p] = late[p] /\ faults'[p] = faults[p]
<1> USE DEF TypeOK
<1>1. ASSUME NEW q \in Address, q # p, ProviderStep(q)
      PROVE  /\ pc'[p] = pc[p] /\ reply'[p] = reply[p] /\ timer'[p] = timer[p]
             /\ usage'[p] = usage[p] /\ confirmed'[p] = confirmed[p]
             /\ late'[p] = late[p] /\ faults'[p] = faults[p]
  BY <1>1 DEF ProviderStep, RegisterReturns, CallBeat, BeatReturns,
              RetryReturns, BackoffOver, Sleep, CallAgain, Confirm
<1>2. ASSUME NEW q \in Address, q # p, Handle(q)
      PROVE  /\ pc'[p] = pc[p] /\ reply'[p] = reply[p] /\ timer'[p] = timer[p]
             /\ usage'[p] = usage[p] /\ confirmed'[p] = confirmed[p]
             /\ late'[p] = late[p] /\ faults'[p] = faults[p]
  BY <1>2 DEF Handle, EstablishServer, SendHeartbeat, HandleLate
<1>3. ASSUME NEW q \in Address, q # p,
             \/ StartProvider(q) \/ KillProvider(q)
             \/ ConnectionBreaks(q) \/ ConnectFails(q)
      PROVE  /\ pc'[p] = pc[p] /\ reply'[p] = reply[p] /\ timer'[p] = timer[p]
             /\ usage'[p] = usage[p] /\ confirmed'[p] = confirmed[p]
             /\ late'[p] = late[p] /\ faults'[p] = faults[p]
  BY <1>3 DEF StartProvider, KillProvider, ConnectionBreaks, ConnectFails, Abandon
<1>4. CASE RemoveInactiveServer \/ BalancerStart \/ ClockJumps \/ UNCHANGED vars
  BY <1>4 DEF RemoveInactiveServer, BalancerStart, ClockJumps, vars, providerVars
<1>5. CASE Tick
  BY <1>5 DEF Tick
<1> QED
  BY <1>1, <1>2, <1>3, <1>4, <1>5 DEF Next

\* A provider without faults had none before.
LEMMA NoFault ==
    ASSUME TypeOK, [Next]_vars, NEW p \in Address, faults'[p] = 0
    PROVE  ~KillProvider(p) /\ ~ConnectionBreaks(p) /\ faults[p] = 0
<1>1. faults[p] \in Nat
  BY ConstantTypes DEF TypeOK
<1>2. ~KillProvider(p) /\ ~ConnectionBreaks(p)
  BY <1>1 DEF KillProvider, ConnectionBreaks, TypeOK
<1>3. faults'[p] = faults[p]
  BY <1>2 DEF Next, vars, balancerVars, providerVars, TypeOK,
              ProviderStep, RegisterReturns, CallBeat, BeatReturns,
              RetryReturns, BackoffOver, StartProvider, KillProvider,
              ConnectionBreaks, ConnectFails, Handle, EstablishServer,
              SendHeartbeat, HandleLate, RemoveInactiveServer,
              BalancerCrash, BalancerStart, Tick, ClockJumps
<1> QED
  BY <1>2, <1>3

LEMMA RegStep ==
    ASSUME TypeOK, AgeInv, [Next]_vars, NEW p \in Address, RegInv(p)
    PROVE  RegInv(p)'
<1> SUFFICES ASSUME faults'[p] = 0
             PROVE  /\ late'[p] = NoCall
                    /\ Once(p)'
                    /\ Unlisted(p)' => ~Listed(servers, p)'
  BY DEF RegInv
<1>1. ~KillProvider(p) /\ ~ConnectionBreaks(p) /\ faults[p] = 0
  BY NoFault
<1>2. late[p] = NoCall /\ Once(p) /\ (Unlisted(p) => ~Listed(servers, p))
  BY <1>1 DEF RegInv
<1>3. ~HandleLate(p)
  BY <1>2 DEF HandleLate
<1>4. late'[p] = NoCall
  BY <1>1, <1>2
  DEF Next, vars, balancerVars, providerVars, TypeOK, Abandon,
      ProviderStep, RegisterReturns, CallBeat, BeatReturns, RetryReturns,
      BackoffOver, StartProvider, KillProvider, ConnectionBreaks,
      ConnectFails, Handle, EstablishServer, SendHeartbeat, HandleLate,
      RemoveInactiveServer, BalancerCrash, BalancerStart, Tick, ClockJumps
<1>5. CASE EstablishServer(p)
  <2>1. ~Listed(servers, p)
    BY <1>2, <1>5 DEF EstablishServer, Unlisted
  <2>2. servers \in Seq(ServerNode) /\ \E o \in Offer : AddServer(p, o)
    BY <1>5 DEF EstablishServer, TypeOK
  <2>3. Once(p)'
    BY <2>1, <2>2, AddServerType DEF Once, Listed
  <2>4. ~Unlisted(p)'
    BY <1>5 DEF EstablishServer, Unlisted, TypeOK
  <2> QED
    BY <1>4, <2>3, <2>4
<1>6. CASE ~EstablishServer(p)
  <2>1. Once(p)' /\ (~Listed(servers, p) => ~Listed(servers, p)')
    BY <1>2, <1>3, <1>6, EntriesOf DEF Listed
  <2>2. ASSUME Unlisted(p)'
        PROVE  Unlisted(p) \/ ~Listed(servers, p)'
    <3> SUFFICES ASSUME ~Unlisted(p)
                 PROVE  ~Listed(servers, p)'
      OBVIOUS
    <3>1. CASE pc'[p] = pc[p] /\ reply'[p] = reply[p]
      BY <2>2, <3>1 DEF Unlisted
    <3>2. CASE SendHeartbeat(p)
      <4>1. reply'[p] = "CANCELLED"
        BY <2>2, <3>2 DEF SendHeartbeat, Unlisted, TypeOK
      <4> QED
        BY <3>2, <4>1 DEF SendHeartbeat, TypeOK
    <3>3. CASE ProviderStep(p)
      BY <2>2, <3>3
      DEF ProviderStep, RegisterReturns, CallBeat, BeatReturns, RetryReturns,
          BackoffOver, Sleep, CallAgain, Unlisted, TypeOK, Status
    <3>4. CASE StartProvider(p)
      BY <3>4 DEF StartProvider, Unlisted
    <3>5. CASE ConnectFails(p)
      BY <2>1, <3>5 DEF ConnectFails, AgeInv, Listed
    <3>6. CASE BalancerCrash
      BY <3>6 DEF BalancerCrash, Listed
    <3> QED
      BY <1>1, <1>3, <1>6, <3>1, <3>2, <3>3, <3>4, <3>5, <3>6, StepOfOther
      DEF Handle
  <2> QED
    BY <1>2, <1>4, <2>1, <2>2
<1> QED
  BY <1>5, <1>6

----------------------------------------------------------------------------
(* How often a provider is listed. *)

LEMMA EntriesFinite ==
    ASSUME servers \in Seq(ServerNode), NEW p \in Address
    PROVE  IsFiniteSet(Entries(p)) /\ Cardinality(Entries(p)) \in Nat
<1>1. Len(servers) \in Int /\ 0 \in Int /\ 1 \in Int
  OBVIOUS
<1>2. IsFiniteSet(1 .. Len(servers))
  BY <1>1, FS_Interval
<1>3. Entries(p) \in SUBSET (1 .. Len(servers))
  BY DEF Entries
<1> QED
  BY <1>2, <1>3, FS_Subset, FS_CardinalityType

\* A registration adds one entry of its provider and none of another.
LEMMA AddedEntry ==
    ASSUME servers \in Seq(ServerNode), NEW p \in Address,
           NEW q \in Address, NEW o \in Offer, AddServer(q, o)
    PROVE  Cardinality(Entries(p)') = Cardinality(Entries(p)) + (IF p = q THEN 1 ELSE 0)
<1>1. /\ DOMAIN servers' = DOMAIN servers \cup {Len(servers) + 1}
      /\ \A i \in DOMAIN servers : servers'[i] = servers[i]
      /\ servers'[Len(servers) + 1].address = q
      /\ Len(servers) + 1 \notin DOMAIN servers
  BY AddServerType
<1>2. IsFiniteSet(Entries(p)) /\ Cardinality(Entries(p)) \in Nat
  BY EntriesFinite
<1>3. CASE p = q
  <2>1. Entries(p)' = Entries(p) \cup {Len(servers) + 1}
    BY <1>1, <1>3 DEF Entries
  <2>2. Len(servers) + 1 \notin Entries(p)
    BY <1>1 DEF Entries
  <2>3. Cardinality(Entries(p)') = Cardinality(Entries(p)) + 1
    BY <1>2, <2>1, <2>2, FS_AddElement
  <2> QED
    BY <1>3, <2>3
<1>4. CASE p # q
  <2>1. Entries(p)' = Entries(p)
    BY <1>1, <1>4 DEF Entries
  <2> QED
    BY <1>2, <1>4, <2>1
<1> QED
  BY <1>3, <1>4

\* No other step lists p once more.
LEMMA EntriesFall ==
    ASSUME TypeOK, [Next]_vars, NEW p \in Address,
           (\A o \in Offer : ~AddServer(p, o)) \/ (~EstablishServer(p) /\ ~HandleLate(p))
    PROVE  Cardinality(Entries(p)') <= Cardinality(Entries(p))
<1>1. /\ servers \in Seq(ServerNode)
      /\ IsFiniteSet(Entries(p)) /\ Cardinality(Entries(p)) \in Nat
  BY EntriesFinite DEF TypeOK
<1>2. CASE Entries(p)' = Entries(p)
  BY <1>1, <1>2
<1>3. CASE RemoveInactiveServer
  <2>1. PICK g \in [Entries(p)' -> Entries(p)] :
           \A i, j \in Entries(p)' : g[i] = g[j] => i = j
    BY <1>3, SweepKeeps
  <2>2. g \in Injection(Entries(p)', Entries(p))
    BY <2>1 DEF Injection, IsInjective
  <2> QED
    BY <1>1, <2>2, FS_Injection
<1>4. CASE BalancerCrash
  <2>1. Entries(p)' = {}
    BY <1>4 DEF BalancerCrash, Entries
  <2> QED
    BY <1>1, <2>1, FS_EmptySet
<1>5. CASE UNCHANGED servers
  BY <1>2, <1>5 DEF Entries
<1>6. CASE Tick
  BY <1>1, <1>2, <1>6, TickServers DEF Entries
<1>7. CASE ClockJumps
  <2>1. skew \in Nat
    BY ConstantTypes DEF TypeOK
  <2> QED
    BY <1>1, <1>2, <1>7, <2>1, JumpServers DEF Entries
<1>8. ASSUME NEW q \in Address, EstablishServer(q) \/ HandleLate(q),
             NEW o \in Offer, AddServer(q, o)
      PROVE  Cardinality(Entries(p)') <= Cardinality(Entries(p))
  <2>1. p # q
    BY <1>8
  <2>2. Cardinality(Entries(p)') = Cardinality(Entries(p)) + 0
    BY <1>1, <1>8, <2>1, AddedEntry
  <2> QED
    BY <1>1, <2>2
<1>9. ASSUME NEW q \in Address, NEW w \in Int, UpdateServer(q, w)
      PROVE  Entries(p)' = Entries(p)
  BY <1>1, <1>9, UpdateServerType DEF Entries
<1> QED
  BY <1>2, <1>3, <1>4, <1>5, <1>6, <1>7, <1>8, <1>9, ServersStep

\* The sum of the entries p has and may get without another fault grows only
\* with a fault.
LEMMA CountStep ==
    ASSUME TypeOK, AgeInv, [Next]_vars, NEW p \in Address, CountInv(p)
    PROVE  CountInv(p)'
<1>num. /\ Cardinality(Entries(p)) \in Nat /\ Cardinality(Entries(p)') \in Nat
      /\ faults[p] \in Nat /\ faults'[p] \in Nat
      /\ servers \in Seq(ServerNode)
  <2>1. TypeOK /\ TypeOK'
    BY TypeStep
  <2>2. servers \in Seq(ServerNode) /\ servers' \in Seq(ServerNode)
        /\ faults[p] \in Nat /\ faults'[p] \in Nat
    BY <2>1, ConstantTypes DEF TypeOK
  <2>3. Cardinality(Entries(p)) \in Nat
    BY <2>2, EntriesFinite
  <2>4. Cardinality(Entries(p)') \in Nat
    <3>1. Len(servers') \in Int /\ 0 \in Int /\ 1 \in Int
      BY <2>2
    <3>2. IsFiniteSet(1 .. Len(servers'))
      BY <3>1, FS_Interval
    <3>3. Entries(p)' \in SUBSET (1 .. Len(servers'))
      BY <2>2 DEF Entries
    <3> QED
      BY <3>2, <3>3, FS_Subset, FS_CardinalityType
  <2> QED
    BY <2>2, <2>3, <2>4
<1>n. PICK n \in Nat, n2 \in Nat :
         n = Cardinality(Entries(p)) /\ n2 = Cardinality(Entries(p)')
  BY <1>num
<1>k. PICK k \in Nat, k2 \in Nat : k = faults[p] /\ k2 = faults'[p]
  BY <1>num
<1>ld. PICK l \in {0, 1}, d \in {0, 1}, l2 \in {0, 1}, d2 \in {0, 1} :
         l = LeftBehind(p) /\ d = Owed(p) /\ l2 = LeftBehind(p)' /\ d2 = Owed(p)'
  BY DEF LeftBehind, Owed
<1>sum. n + l + d <= 1 + k
  BY <1>n, <1>k, <1>ld DEF CountInv
<1>up. late[p] # NoCall => up /\ k > 0
  BY <1>k DEF CountInv
<1> SUFFICES /\ n2 + l2 + d2 <= 1 + k2
             /\ late'[p] # NoCall => up' /\ k2 > 0
  BY <1>n, <1>k, <1>ld DEF CountInv
<1>4. ASSUME ~EstablishServer(p), ~HandleLate(p)
      PROVE  n2 <= n
  BY <1>n, <1>4, EntriesFall
<1>5. CASE EstablishServer(p)
  <2>1. \E o \in Offer : AddServer(p, o)
    BY <1>5 DEF EstablishServer, TypeOK
  <2>2. n2 = n + 1
    BY <1>num, <1>n, <2>1, AddedEntry
  <2>3. Unlisted(p) /\ ~Unlisted(p)' /\ late' = late /\ k2 = k /\ up' = up
    BY <1>k, <1>5 DEF EstablishServer, Unlisted, TypeOK
  <2>4. l2 = l
    BY <1>ld, <2>3 DEF LeftBehind
  <2>5. d = 1 /\ d2 = 0
    BY <1>ld, <2>3 DEF Owed
  <2>6. late'[p] # NoCall => up' /\ k2 > 0
    BY <1>up, <2>3
  <2>7. n2 + l2 + d2 <= 1 + k2
    BY <1>sum, <2>2, <2>3, <2>4, <2>5
  <2> QED
    BY <2>6, <2>7
<1>6. CASE HandleLate(p)
  <2>1. late[p] # NoCall /\ late'[p] = NoCall /\ k2 = k /\ Unlisted(p)' = Unlisted(p)
    BY <1>k, <1>6 DEF HandleLate, TypeOK, Unlisted
  <2>2. CASE late[p].kind = "Establish"
    <3>1. \E o \in Offer : AddServer(p, o)
      BY <1>6, <2>1, <2>2 DEF HandleLate, TypeOK, Request
    <3>2. n2 = n + 1
      BY <1>num, <1>n, <3>1, AddedEntry
    <3>3. l = 1 /\ l2 = 0 /\ d2 = d
      BY <1>ld, <2>1, <2>2 DEF LeftBehind, Owed
    <3>4. n2 + l2 + d2 <= 1 + k2
      BY <1>sum, <2>1, <3>2, <3>3
    <3> QED
      BY <2>1, <3>4
  <2>3. CASE late[p].kind # "Establish"
    <3>1. n2 = n
      <4>1. late[p].usage \in Int
        BY <2>1 DEF TypeOK, Request
      <4>2. Entries(p)' = Entries(p)
        BY <1>num, <1>6, <2>3, <4>1, UpdateServerType DEF HandleLate, Entries
      <4> QED
        BY <1>n, <4>2
    <3>2. l2 = 0 /\ d2 = d
      BY <1>ld, <2>1 DEF LeftBehind, Owed
    <3>3. n2 + l2 + d2 <= 1 + k2
      BY <1>sum, <2>1, <3>1, <3>2
    <3> QED
      BY <2>1, <3>3
  <2> QED
    BY <2>2, <2>3
<1>7. CASE SendHeartbeat(p)
  <2>1. late' = late /\ k2 = k /\ up' = up /\ ~Unlisted(p)
    BY <1>k, <1>7 DEF SendHeartbeat, Unlisted, TypeOK
  <2>2. Unlisted(p)' => n2 = 0
    <3> SUFFICES ASSUME Unlisted(p)' PROVE n2 = 0
      OBVIOUS
    <3>1. reply'[p] = "CANCELLED"
      BY <1>7 DEF SendHeartbeat, Unlisted, TypeOK
    <3>2. ~Listed(servers, p) /\ UNCHANGED servers
      BY <1>7, <3>1 DEF SendHeartbeat, TypeOK
    <3>3. Entries(p)' = {}
      BY <3>2 DEF Listed, Entries
    <3> QED
      BY <1>n, <3>3, FS_EmptySet
  <2>3. n2 <= n
    BY <1>n, <1>4, <1>7 DEF SendHeartbeat, EstablishServer, HandleLate, TypeOK
  <2>4. l2 = l /\ (l = 1 => k > 0) /\ d = 0
    BY <1>ld, <1>up, <2>1 DEF LeftBehind, Owed
  <2>5. d2 = 1 => n2 = 0
    BY <1>n, <1>ld, <2>2 DEF Owed
  <2>6. late'[p] # NoCall => up' /\ k2 > 0
    BY <1>up, <2>1
  <2>7. n2 + l2 + d2 <= 1 + k2
    BY <1>sum, <2>1, <2>3, <2>4, <2>5
  <2> QED
    BY <2>6, <2>7
<1>8. CASE KillProvider(p) \/ ConnectionBreaks(p)
  <2>1. k2 = k + 1 /\ up' = up /\ Unlisted(p)'
    BY <1>k, <1>8 DEF KillProvider, ConnectionBreaks, TypeOK, balancerVars, Unlisted
  <2>2. UNCHANGED servers
    BY <1>8 DEF KillProvider, ConnectionBreaks, balancerVars
  <2>3. n2 = n
    BY <1>n, <2>2 DEF Entries
  <2>4. \/ late'[p] = late[p]
        \/ late'[p] = RequestOf(p) /\ reply[p] = "pending" /\ up
    BY <1>8 DEF KillProvider, ConnectionBreaks, Abandon, TypeOK
  <2>5. l2 = 1 => l = 1 \/ d = 1
    <3> SUFFICES ASSUME late'[p] = RequestOf(p), reply[p] = "pending",
                        late'[p].kind = "Establish"
                 PROVE  Unlisted(p)
      BY <1>ld, <2>4 DEF LeftBehind, Owed
    <3>1. pc[p] # "beat"
      BY DEF RequestOf
    <3> QED
      BY <3>1 DEF TypeOK, Calling, Unlisted
  <2>6. late'[p] # NoCall => up'
    BY <1>up, <2>1, <2>4
  <2>7. n2 + l2 + d2 <= 1 + k2
    BY <1>sum, <2>1, <2>3, <2>5
  <2>8. k2 > 0
    BY <1>num, <2>1
  <2> QED
    BY <2>6, <2>7, <2>8
<1>9. CASE BalancerCrash
  <2>1. Entries(p)' = {} /\ late'[p] = NoCall /\ k2 = k
    BY <1>k, <1>9 DEF BalancerCrash, Entries
  <2>2. n2 = 0 /\ l2 = 0
    BY <1>n, <1>ld, <2>1, FS_EmptySet DEF LeftBehind
  <2>3. n2 + l2 + d2 <= 1 + k2
    BY <1>n, <1>ld, <2>2
  <2> QED
    BY <2>1, <2>3
<1>10. CASE ConnectFails(p)
  <2>1. Entries(p)' = {}
    BY <1>10 DEF ConnectFails, AgeInv, Entries, balancerVars
  <2>2. n2 = 0
    BY <1>n, <2>1, FS_EmptySet
  <2>3. ~up /\ late' = late /\ k2 = k
    BY <1>k, <1>10 DEF ConnectFails
  <2>4. late'[p] = NoCall /\ l2 = 0
    BY <1>ld, <1>up, <2>3 DEF LeftBehind
  <2>5. n2 + l2 + d2 <= 1 + k2
    BY <1>n, <1>ld, <2>2, <2>4
  <2> QED
    BY <2>4, <2>5
<1>11. CASE StartProvider(p) \/ ProviderStep(p)
  <2>1. /\ late' = late /\ k2 = k /\ up' = up /\ UNCHANGED servers
        /\ Unlisted(p)' => Unlisted(p)
    BY <1>k, <1>11
    DEF StartProvider, ProviderStep, RegisterReturns, CallBeat, BeatReturns,
        RetryReturns, BackoffOver, Sleep, CallAgain, Unlisted, TypeOK, Status,
        balancerVars
  <2>2. n2 = n
    BY <1>n, <2>1 DEF Entries
  <2>3. l2 = l /\ (d2 = 1 => d = 1)
    BY <1>ld, <2>1 DEF LeftBehind, Owed
  <2>4. late'[p] # NoCall => up' /\ k2 > 0
    BY <1>up, <2>1
  <2>5. n2 + l2 + d2 <= 1 + k2
    BY <1>sum, <2>1, <2>2, <2>3
  <2> QED
    BY <2>4, <2>5
<1>12. CASE /\ ~StartProvider(p) /\ ~ProviderStep(p) /\ ~Handle(p) /\ ~KillProvider(p)
            /\ ~ConnectionBreaks(p) /\ ~ConnectFails(p) /\ ~BalancerCrash
  <2>1. /\ pc'[p] = pc[p] /\ reply'[p] = reply[p] /\ late'[p] = late[p] /\ k2 = k
    BY <1>k, <1>12, StepOfOther
  <2>2. n2 <= n
    BY <1>n, <1>4, <1>12 DEF Handle
  <2>3. Unlisted(p)' = Unlisted(p)
    BY <2>1 DEF Unlisted
  <2>4. up => up'
    BY <1>12 DEF Next, vars, balancerVars, providerVars,
           ProviderStep, RegisterReturns, CallBeat, BeatReturns, RetryReturns,
           BackoffOver, StartProvider, KillProvider, ConnectionBreaks, ConnectFails,
           Handle, EstablishServer, SendHeartbeat, HandleLate,
           RemoveInactiveServer, BalancerStart, Tick, ClockJumps
  <2>5. l2 = l /\ d2 = d
    BY <1>ld, <2>1, <2>3 DEF LeftBehind, Owed
  <2>6. late'[p] # NoCall => up' /\ k2 > 0
    BY <1>up, <2>1, <2>4
  <2>7. n2 + l2 + d2 <= 1 + k2
    BY <1>sum, <2>1, <2>2, <2>5
  <2> QED
    BY <2>6, <2>7
<1> QED
  BY <1>5, <1>6, <1>7, <1>8, <1>9, <1>10, <1>11, <1>12 DEF Handle

----------------------------------------------------------------------------
(* What usage a provider is listed with. *)

\* What a provider reported survives the way over the unsigned word.
LEMMA WireKeeps ==
    ASSUME NEW u \in Load \cup {0}
    PROVE  FromWire(ToWire(u)) = u
<1> DEFINE h == Word \div 2
<1>1. u \in Int /\ Word \in Nat
  BY ConstantsAssumption
<1>2. h \in Nat /\ 2 * h <= Word /\ Word < 2 * h + 2
  BY <1>1
<1>3. -u <= h /\ u < h
  BY ConstantsAssumption
<1>4. /\ ToWire(u) = IF u < 0 THEN u + Word ELSE u
      /\ FromWire(ToWire(u)) = IF ToWire(u) >= h THEN ToWire(u) - Word ELSE ToWire(u)
  BY DEF ToWire, FromWire
<1> HIDE DEF h
<1> QED
  BY <1>1, <1>2, <1>3, <1>4

\* The first entry of an address that has exactly one is that one.
LEMMA FirstOfOnce ==
    ASSUME servers \in Seq(ServerNode), NEW p \in Address, Once(p),
           NEW i \in DOMAIN servers, servers[i].address = p
    PROVE  First(servers, p) = i
<1>1. \A j \in DOMAIN servers : servers[j].address = p => i <= j
  <2>1. i \in Int
    OBVIOUS
  <2> QED
    BY <2>1 DEF Once
<1>2. /\ First(servers, p) \in DOMAIN servers
      /\ servers[First(servers, p)].address = p
  BY <1>1 DEF First
<1> QED
  BY <1>2 DEF Once

\* A confirmed beat has brought its usage to the entry it found.
LEMMA BeatBrings ==
    ASSUME TypeOK, NEW p \in Address, SendHeartbeat(p), Once(p), reply'[p] = "OK",
           NEW i \in DOMAIN servers', servers'[i].address = p
    PROVE  servers'[i].usage = usage[p]
<1>1. servers \in Seq(ServerNode) /\ usage[p] \in Load \cup {0}
  BY DEF TypeOK
<1>2. UpdateServer(p, ToWire(usage[p]))
  BY DEF SendHeartbeat, TypeOK
<1>3. usage[p] \in Int
  BY <1>1, ConstantTypes
<1>4. ToWire(usage[p]) \in Int /\ FromWire(ToWire(usage[p])) = usage[p]
  BY <1>1, <1>3, WireType, WireKeeps
<1>5. /\ i \in DOMAIN servers /\ servers[i].address = p
      /\ i = First(servers, p) => servers'[i].usage = usage[p]
  BY <1>1, <1>2, <1>4, UpdateServerType
<1> QED
  BY <1>1, <1>5, FirstOfOnce

LEMMA UsageStep ==
    ASSUME TypeOK, [Next]_vars, NEW p \in Address, RegInv(p), UsageInv(p)
    PROVE  UsageInv(p)'
<1> DEFINE Registering == pc[p] \in {"down", "register", "retry", "backoff"}
<1>0. Registering => confirmed[p] = {}
  BY DEF UsageInv
<1>1. ASSUME ProviderStep(p)
      PROVE  /\ Registering' => confirmed'[p] = {}
             /\ Confirmed(p)' \subseteq Confirmed(p)
  <2>1. CASE RegisterReturns(p)
    BY <1>0, <2>1 DEF RegisterReturns, Sleep, Confirmed, TypeOK
  <2>2. CASE CallBeat(p)
    BY <1>0, <2>2 DEF CallBeat, Confirmed, TypeOK
  <2>3. CASE BeatReturns(p)
    <3>1. CASE reply[p] = "OK"
      BY <2>3, <3>1 DEF BeatReturns, Sleep, Confirm, Confirmed, TypeOK
    <3>2. CASE reply[p] # "OK"
      BY <2>3, <3>2 DEF BeatReturns, CallAgain, Confirmed, TypeOK
    <3> QED
      BY <3>1, <3>2
  <2>4. CASE RetryReturns(p)
    BY <1>0, <2>4 DEF RetryReturns, Sleep, Confirmed, TypeOK
  <2>5. CASE BackoffOver(p)
    BY <1>0, <2>5 DEF BackoffOver, CallAgain, Confirmed, TypeOK
  <2> QED
    BY <1>1, <2>1, <2>2, <2>3, <2>4, <2>5 DEF ProviderStep
<1>2. ASSUME StartProvider(p) \/ KillProvider(p)
      PROVE  /\ Registering' => confirmed'[p] = {}
             /\ StartProvider(p) => Confirmed(p)' \subseteq Confirmed(p)
  BY <1>0, <1>2 DEF StartProvider, KillProvider, Confirmed, TypeOK
<1>3. ASSUME \/ Handle(p) \/ ConnectionBreaks(p) \/ ConnectFails(p) \/ BalancerCrash
      PROVE  /\ pc' = pc /\ confirmed' = confirmed
             /\ ConnectFails(p) => Confirmed(p)' \subseteq Confirmed(p)
  BY <1>3 DEF Handle, EstablishServer, SendHeartbeat, HandleLate, ConnectionBreaks,
              ConnectFails, BalancerCrash, Confirmed, TypeOK
<1>4. Registering' => confirmed'[p] = {}
  BY <1>0, <1>1, <1>2, <1>3, StepOfOther
<1>5. ASSUME faults'[p] = 0, NEW u \in Confirmed(p)', NEW i \in Entries(p)'
      PROVE  servers'[i].usage = u
  <2>1. /\ ~KillProvider(p) /\ ~ConnectionBreaks(p) /\ ~HandleLate(p) /\ Once(p)
        /\ \A v \in Confirmed(p) : \A k \in Entries(p) : servers[k].usage = v
    BY <1>5, NoFault DEF RegInv, UsageInv, HandleLate
  <2>2. i \in DOMAIN servers' /\ servers'[i].address = p
    BY <1>5 DEF Entries
  <2>3. CASE EstablishServer(p)
    <3>1. Confirmed(p)' = {}
      BY <1>0, <2>3 DEF EstablishServer, Confirmed, TypeOK
    <3> QED
      BY <1>5, <3>1
  <2>4. CASE SendHeartbeat(p)
    <3>1. CASE reply'[p] = "OK"
      <4>1. Confirmed(p)' = {usage[p]}
        BY <2>4, <3>1 DEF SendHeartbeat, Confirmed
      <4> QED
        BY <1>5, <2>1, <2>2, <2>4, <3>1, <4>1, BeatBrings
    <3>2. CASE reply'[p] # "OK"
      <4>1. ~Listed(servers, p) /\ UNCHANGED servers
        BY <2>4, <3>2 DEF SendHeartbeat, TypeOK
      <4> QED
        BY <2>2, <4>1 DEF Listed
    <3> QED
      BY <3>1, <3>2
  <2>5. CASE ~EstablishServer(p) /\ ~SendHeartbeat(p)
    <3>1. PICK k \in DOMAIN servers : /\ servers[k].address = p
                                      /\ servers'[i].usage = servers[k].usage
      BY <2>1, <2>2, <2>5, EntriesOf
    <3>2. k \in Entries(p)
      BY <3>1 DEF Entries
    <3>3. ~BalancerCrash
      BY <2>2 DEF BalancerCrash
    <3>4. CASE ProviderStep(p) \/ StartProvider(p) \/ ConnectFails(p)
      BY <1>1, <1>2, <1>3, <1>5, <2>1, <3>1, <3>2, <3>4
    <3>5. CASE ~ProviderStep(p) /\ ~StartProvider(p) /\ ~ConnectFails(p)
      <4>1. /\ pc'[p] = pc[p] /\ reply'[p] = reply[p]
            /\ usage'[p] = usage[p] /\ confirmed'[p] = confirmed[p]
        BY <2>1, <2>5, <3>3, <3>5, StepOfOther DEF Handle
      <4>2. Confirmed(p)' = Confirmed(p)
        BY <4>1 DEF Confirmed
      <4> QED
        BY <1>5, <2>1, <3>1, <3>2, <4>2
    <3> QED
      BY <3>4, <3>5
  <2> QED
    BY <2>3, <2>4, <2>5
<1> QED
  BY <1>4, <1>5 DEF UsageInv

----------------------------------------------------------------------------
(* Prompt providers. *)

LEMMA PromptStep ==
    ASSUME TypeOK, AgeInv, [Next]_vars, NEW p \in Prompt,
           RegInv(p), PromptInv(p)
    PROVE  PromptInv(p)'
<1>0. /\ p \in Address /\ servers \in Seq(ServerNode)
      /\ timer[p] \in Int /\ timer[p] >= -BeatLag /\ timer'[p] \in Int
      /\ faults[p] \in Nat /\ BeatLag \in Nat /\ BeatRate \in Nat
      /\ skew \in Nat /\ skew' \in Nat /\ skew <= skew'
  <2>1. p \in Address /\ BeatLag \in Nat /\ BeatRate \in Nat /\ MaxFaults \in Nat
    BY ConstantTypes, ConstantsAssumption
  <2>2. TypeOK'
    BY TypeStep
  <2>3. skew \in Nat /\ skew' \in Nat /\ skew <= skew'
    BY SkewStep
  <2> QED
    BY <2>1, <2>2, <2>3 DEF TypeOK
<1>1. Calling(p)' => timer'[p] <= 0
  <2>1. CASE StartProvider(p)
    BY <1>0, <2>1 DEF StartProvider, TypeOK
  <2>2. CASE ProviderStep(p)
    BY <1>0, <2>2
    DEF ProviderStep, RegisterReturns, CallBeat, BeatReturns, RetryReturns,
        BackoffOver, Sleep, CallAgain, TypeOK, Calling
  <2>3. CASE Handle(p)
    BY <1>0, <2>3 DEF Handle, EstablishServer, SendHeartbeat, HandleLate,
                      PromptInv, Calling
  <2>4. CASE KillProvider(p) \/ ConnectionBreaks(p) \/ ConnectFails(p)
    BY <1>0, <2>4 DEF KillProvider, ConnectionBreaks, ConnectFails,
                      PromptInv, Calling, TypeOK
  <2>5. CASE BalancerCrash
    BY <1>0, <2>5 DEF BalancerCrash, PromptInv, Calling
  <2>6. CASE Tick
    BY <1>0, <2>6 DEF Tick, PromptInv, Calling, TypeOK
  <2> QED
    BY <1>0, <2>1, <2>2, <2>3, <2>4, <2>5, <2>6, StepOfOther
    DEF PromptInv, Calling
<1>2. ASSUME faults'[p] = 0, NEW i \in DOMAIN servers', servers'[i].address = p
      PROVE  /\ reply'[p] \in {"none", "pending"}
                   => servers'[i].age + timer'[p] <= BeatRate + BeatLag + skew'
             /\ reply'[p] = "OK" => servers'[i].age + timer'[p] <= skew'
  <2>1. /\ faults[p] = 0 /\ ~KillProvider(p) /\ ~ConnectionBreaks(p)
        /\ late[p] = NoCall /\ Once(p) /\ (Unlisted(p) => ~Listed(servers, p))
        /\ ~HandleLate(p)
    BY <1>0, <1>2, NoFault DEF RegInv, HandleLate
  <2>2. ~Unlisted(p)'
    BY <1>0, <1>2, RegStep DEF RegInv, Listed
  <2>3. CASE EstablishServer(p)
    <3>1. ~Listed(servers, p) /\ \E o \in Offer : AddServer(p, o)
      BY <1>0, <2>1, <2>3 DEF EstablishServer, Unlisted, TypeOK
    <3>2. servers'[i].age = 0
      BY <1>0, <1>2, <3>1, AddServerType DEF Listed
    <3>3. timer'[p] = timer[p] /\ timer[p] <= 0 /\ reply'[p] = "OK"
      BY <1>0, <2>3 DEF EstablishServer, PromptInv, Calling, TypeOK
    <3> QED
      BY <1>0, <3>2, <3>3
  <2>4. CASE ~EstablishServer(p)
    <3>1. PICK k \in DOMAIN servers :
             /\ servers[k].address = p /\ servers[k].age \in Int
             /\ \/ servers'[i].age <= servers[k].age + (skew' - skew)
                \/ Tick /\ servers'[i].age <= servers[k].age + 1
                \/ SendHeartbeat(p)
      BY <1>0, <1>2, <2>1, <2>4, EntriesOf
    <3>2. servers'[i].age \in Int
      BY <1>0, <1>2, <2>1, <2>4, EntriesOf
    <3>3. /\ ~Unlisted(p)
          /\ reply[p] \in {"none", "pending"}
                => servers[k].age + timer[p] <= BeatRate + BeatLag + skew
          /\ reply[p] = "OK" => servers[k].age + timer[p] <= skew
      BY <2>1, <3>1 DEF PromptInv, Listed
    <3>4. CASE Tick
      <4>1. timer'[p] = timer[p] - 1 /\ reply'[p] = reply[p] /\ skew' = skew
        BY <1>0, <3>3, <3>4 DEF Tick, Running, Unlisted, TypeOK
      <4>2. servers'[i].age <= servers[k].age + 1
        <5>1. ~SendHeartbeat(p)
          BY <1>0, <3>4, <4>1 DEF SendHeartbeat, TypeOK
        <5> QED
          BY <1>0, <3>1, <3>2, <4>1, <5>1
      <4>3. /\ servers[k].age \in Int /\ timer[p] \in Int
            /\ BeatRate \in Nat /\ BeatLag \in Nat /\ skew \in Nat
        BY <1>0, <3>1
      <4>4. servers'[i].age + timer'[p] <= servers[k].age + timer[p]
        BY <3>2, <4>1, <4>2, <4>3
      <4>5. \A b \in Int : servers[k].age + timer[p] <= b => servers'[i].age + timer'[p] <= b
        BY <3>2, <4>1, <4>3, <4>4
      <4>6. BeatRate + BeatLag + skew \in Int /\ skew \in Int
        BY <4>3
      <4> QED
        BY <3>3, <4>1, <4>5, <4>6
    <3>5. ASSUME ~Tick, ~SendHeartbeat(p)
          PROVE  servers'[i].age <= servers[k].age + (skew' - skew)
      BY <3>1, <3>5
    <3>6. CASE ~Tick /\ ~SendHeartbeat(p) /\ pc'[p] = pc[p] /\ reply'[p] = reply[p] /\ timer'[p] = timer[p]
      BY <1>0, <3>1, <3>2, <3>3, <3>5, <3>6
    <3>7. CASE ~Tick /\ SendHeartbeat(p)
      <4>1. Listed(servers, p) /\ UpdateServer(p, ToWire(usage[p])) /\ reply'[p] = "OK"
        BY <1>0, <3>1, <3>7 DEF SendHeartbeat, Listed, TypeOK
      <4>2. ToWire(usage[p]) \in Int
        <5>1. usage[p] \in Int
          BY <1>0, ConstantTypes DEF TypeOK
        <5> QED
          BY <5>1, WireType
      <4>3. i \in DOMAIN servers /\ servers[i].address = p
        BY <1>0, <1>2, <4>1, <4>2, UpdateServerType
      <4>4. servers'[i].age = 0
        BY <1>0, <2>1, <4>1, <4>2, <4>3, FirstOfOnce, UpdateServerType
      <4>5. timer'[p] = timer[p] /\ timer[p] <= 0
        BY <3>7 DEF SendHeartbeat, PromptInv, Calling
      <4> QED
        BY <1>0, <4>1, <4>4, <4>5
    <3>8. CASE ~Tick /\ ~SendHeartbeat(p) /\ ProviderStep(p)
      <4>1. CASE reply[p] = "OK"
        <5>1. reply'[p] = "none" /\ timer'[p] = BeatRate
          BY <1>0, <3>3, <3>8, <4>1
          DEF ProviderStep, RegisterReturns, CallBeat, BeatReturns,
              RetryReturns, BackoffOver, Sleep, CallAgain, TypeOK, Calling,
              Status
        <5>2. servers'[i].age <= BeatLag + skew'
          BY <1>0, <3>1, <3>2, <3>3, <3>5, <3>8, <4>1
        <5> QED
          BY <1>0, <3>2, <5>1, <5>2
      <4>2. CASE CallBeat(p)
        <5>1. reply[p] = "none" /\ timer'[p] = timer[p] /\ reply'[p] = "pending"
          BY <1>0, <4>2 DEF CallBeat, TypeOK, Calling
        <5> QED
          BY <1>0, <3>1, <3>2, <3>3, <3>5, <3>8, <5>1
      <4> QED
        BY <1>0, <3>3, <3>8, <4>1, <4>2
        DEF ProviderStep, RegisterReturns, BeatReturns, RetryReturns,
            BackoffOver, Unlisted, TypeOK, Status
    <3>9. CASE StartProvider(p) \/ ConnectFails(p) \/ BalancerCrash
      <4>1. ~StartProvider(p)
        BY <3>3 DEF StartProvider, Unlisted
      <4>2. ~ConnectFails(p)
        BY <1>0, <2>2 DEF ConnectFails, Unlisted, TypeOK
      <4>3. ~BalancerCrash
        BY <1>2 DEF BalancerCrash
      <4> QED
        BY <3>9, <4>1, <4>2, <4>3
    <3> QED
      BY <1>0, <2>1, <2>4, <3>4, <3>6, <3>7, <3>8, <3>9, StepOfOther DEF Handle
  <2> QED
    BY <2>3, <2>4
<1> QED
  BY <1>1, <1>2 DEF PromptInv

LEMMA IndInvStep == TypeOK /\ IndInv /\ [Next]_vars => IndInv'
BY AgeStep, RegStep, CountStep, UsageStep, PromptStep, ConstantsAssumption DEF IndInv

LEMMA IndInvInit == Init => IndInv
<1> SUFFICES ASSUME Init
             PROVE  IndInv
  OBVIOUS
<1>1. AgeInv
  BY ConstantTypes DEF Init, AgeInv
<1>2. ASSUME NEW p \in Address
      PROVE  RegInv(p) /\ CountInv(p) /\ UsageInv(p)
  <2>1. RegInv(p)
    BY DEF Init, RegInv, Once, Listed
  <2>2. Entries(p) = {} /\ late[p] = NoCall /\ faults[p] = 0
    BY DEF Init, Entries
  <2>3. Cardinality(Entries(p)) = 0 /\ LeftBehind(p) = 0 /\ Owed(p) \in {0, 1}
    BY <2>2, FS_EmptySet DEF LeftBehind, Owed
  <2>4. CountInv(p)
    BY <2>2, <2>3 DEF CountInv
  <2>5. UsageInv(p)
    BY <2>2 DEF Init, UsageInv
  <2> QED
    BY <2>1, <2>4, <2>5
<1>3. ASSUME NEW p \in Prompt
      PROVE  PromptInv(p)
  BY ConstantsAssumption DEF Init, PromptInv, Calling
<1> QED
  BY <1>1, <1>2, <1>3 DEF IndInv

\* The number, ages and usages of the entries, the timers of the two threads and
\* the state of every provider's call belong together as IndInv says.
THEOREM Inductive == Spec => []IndInv
BY TypeCorrect, IndInvInit, IndInvStep, PTL DEF Spec

\* A provider is listed at most once and once more for each fault of its own,
\* whatever the rates, the crashes of the balancer, the expired entries and the
\* registrations it repeats.
THEOREM DuplicatesBounded == Spec => []DuplicatesNeedFaults
<1>1. TypeOK /\ IndInv => DuplicatesNeedFaults
  <2> SUFFICES ASSUME TypeOK, IndInv, NEW p \in Address
               PROVE  Cardinality(Entries(p)) <= 1 + faults[p]
    BY DEF DuplicatesNeedFaults
  <2>1. Cardinality(Entries(p)) \in Nat /\ faults[p] \in Nat
    BY EntriesFinite, ConstantTypes DEF TypeOK
  <2>2. /\ Cardinality(Entries(p)) + LeftBehind(p) + Owed(p) <= 1 + faults[p]
        /\ LeftBehind(p) \in {0, 1} /\ Owed(p) \in {0, 1}
    BY DEF IndInv, CountInv, LeftBehind, Owed
  <2> QED
    BY <2>1, <2>2
<1> QED
  BY <1>1, TypeCorrect, Inductive, PTL

\* countUsage, HeartBeat.usage and SendHeartbeat: for every width of the wire that
\* has room for the usages, negative ones too, and any number of providers, what
\* the balancer holds of a provider without faults is the usage of its last
\* confirmed beat, from the first one after each registration.
THEOREM UsageIsReported == Spec => []UsageArrives
<1>1. IndInv => UsageArrives
  BY DEF IndInv, UsageInv, UsageArrives
<1> QED
  BY <1>1, Inductive, PTL

LEMMA PromptKept ==
    ASSUME SafeMargin, TypeOK, IndInv, [Next]_vars, NEW p \in Prompt,
           Listed(servers, p), faults[p] = 0, up'
    PROVE  Listed(servers, p)'
<1>1. p \in Address /\ servers \in Seq(ServerNode)
  BY ConstantsAssumption DEF TypeOK
<1>2. PICK i \in DOMAIN servers : servers[i].address = p
  BY DEF Listed
<1>3. servers[i].age <= HeartBeatRate
  <2>1. /\ timer[p] \in Int /\ timer[p] >= -BeatLag /\ servers[i].age \in Int
        /\ reply[p] \in Status \cup {"none", "pending"}
        /\ skew \in Int /\ skew <= MaxSkew
    BY <1>1, EntryType, ConstantTypes DEF TypeOK
  <2>2. RegInv(p) /\ PromptInv(p)
    BY <1>1 DEF IndInv
  <2>3. reply[p] \in {"none", "pending", "OK"}
    BY <1>1, <1>2, <2>1, <2>2 DEF RegInv, Unlisted, Status
  <2>4. \/ servers[i].age + timer[p] <= BeatRate + BeatLag + skew
        \/ servers[i].age + timer[p] <= skew
    BY <1>2, <2>2, <2>3 DEF PromptInv
  <2> QED
    BY <2>1, <2>4, ConstantTypes DEF SafeMargin
<1>4. CASE UNCHANGED servers
  BY <1>4 DEF Listed
<1>5. CASE RemoveInactiveServer
  BY <1>2, <1>3, <1>5, SweepKeeps DEF Listed
<1>6. CASE Tick
  BY <1>1, <1>2, <1>6, TickServers DEF Listed
<1>7. CASE \E q \in Address : \E o \in Offer : AddServer(q, o)
  BY <1>1, <1>2, <1>7, AddServerType DEF Listed
<1>8. CASE \E q \in Address : \E w \in Int : UpdateServer(q, w)
  BY <1>1, <1>2, <1>8, UpdateServerType DEF Listed
<1>9. ~BalancerCrash
  BY DEF BalancerCrash
<1>10. CASE ClockJumps
  <2>1. skew \in Nat
    BY ConstantTypes DEF TypeOK
  <2> QED
    BY <1>1, <1>2, <1>10, <2>1, JumpServers DEF Listed
<1> QED
  BY <1>4, <1>5, <1>6, <1>7, <1>8, <1>9, <1>10, ServersStep

\* With a heartbeat rate that leaves the margin of SafeMargin, also for jumps of
\* the clock, the sweep never removes a prompt provider whose calls do not fail.
THEOREM PromptIsKept == SafeMargin => (Spec => PromptStaysListed)
<1> SUFFICES ASSUME SafeMargin
             PROVE  Spec => PromptStaysListed
  OBVIOUS
<1>1. TypeOK /\ IndInv /\ [Next]_vars =>
        [\A p \in Prompt : Listed(servers, p) /\ faults[p] = 0 /\ up'
                             => Listed(servers', p)]_vars
  BY PromptKept DEF Listed
<1> QED
  BY <1>1, TypeCorrect, Inductive, PTL DEF Spec, PromptStaysListed


----------------------------------------------------------------------------
(* The usages of the sample. *)

\* The quotient of a percentage, rounded down.
LEMMA Quotient ==
    ASSUME NEW a \in Int, NEW b \in Nat \ {0}
    PROVE  /\ a \div b \in Int
           /\ (a \div b) * b <= a /\ a < ((a \div b) + 1) * b
           /\ a % b = 0 => a = (a \div b) * b
<1>1. a \div b \in Int /\ (a \div b) * b <= a /\ a < ((a \div b) + 1) * b
  OBVIOUS
<1>2. a = (a \div b) * b + (a % b)
  OBVIOUS
<1> QED
  BY <1>1, <1>2

\* Products keep the order of the factors.
LEMMA Scaled ==
    ASSUME NEW a \in Int, NEW b \in Int, NEW c \in Nat
    PROVE  /\ a * c \in Int
           /\ a <= b => a * c <= b * c
           /\ c > 0 /\ a * c <= b * c => a <= b
           /\ c > 0 /\ a * c < b * c => a < b
<1>1. a * c \in Int /\ b * c \in Int
  OBVIOUS
<1>2. a <= b => a * c <= b * c
  OBVIOUS
<1>3. c > 0 /\ b <= a - 1 => b * c < a * c
  OBVIOUS
<1>4. b <= a => b * c <= a * c
  OBVIOUS
<1> QED
  BY <1>1, <1>2, <1>3, <1>4

\* The counters of an interval that can be measured.
LEMMA IntervalTyped ==
    ASSUME NEW i \in Intervals
    PROVE  /\ i.busy \in Nat /\ i.total \in Nat \ {0} /\ i.busy <= i.total
           /\ \A u \in i.usages :
                 \/ u = (100 * i.busy) \div i.total
                 \/ /\ u = (100 * i.busy) \div i.total - 1
                    /\ (100 * i.busy) % i.total = 0 /\ 0 < i.busy
<1>1. PICK last \in Readings, now \in Readings :
         /\ Measured(last, now)
         /\ i = [busy |-> BusyTime(last, now), total |-> TotalTime(last, now),
                 usages |-> CurrentValue(last, now)]
  BY DEF Intervals
<1>2. \A c \in Busy \cup {"idle"} : last[c] \in Nat /\ now[c] \in Nat /\ last[c] <= now[c]
  BY <1>1, ProviderSampleAssumption DEF Measured, WentBack
<1> DEFINE d(c) == now[c] - last[c]
<1>3. d("user") \in Nat /\ d("userLow") \in Nat /\ d("sys") \in Nat /\ d("idle") \in Nat
  BY <1>2 DEF Busy
<1>4. /\ BusyTime(last, now) = d("user") + d("userLow") + d("sys")
      /\ TotalTime(last, now) = BusyTime(last, now) + d("idle")
  BY <1>2 DEF BusyTime, TotalTime, Busy
<1> HIDE DEF d
<1>5. /\ BusyTime(last, now) \in Nat /\ TotalTime(last, now) \in Nat \ {0}
      /\ BusyTime(last, now) <= TotalTime(last, now)
  BY <1>1, <1>3, <1>4 DEF Measured
<1>6. ~WentBack(last, now) /\ TotalTime(last, now) # 0
  BY <1>1, <1>5 DEF Measured
<1>7. CurrentValue(last, now) =
         LET busy == 100 * BusyTime(last, now)
             total == TotalTime(last, now)
         IN {busy \div total} \cup
            {n \in {busy \div total - 1} : busy % total = 0 /\ 0 < busy /\ busy < 100 * total}
  BY <1>6 DEF CurrentValue
<1>8. \A b \in Nat : 0 < 100 * b => 0 < b
  OBVIOUS
<1> QED
  BY <1>1, <1>5, <1>7, <1>8

\* The percentage of an interval lies between the usage and the next number.
LEMMA ShareBounds ==
    ASSUME NEW i \in Intervals, NEW u \in i.usages
    PROVE  /\ u \in 0 .. 100
           /\ u * i.total <= 100 * i.busy /\ 100 * i.busy <= (u + 1) * i.total
<1> DEFINE b == 100 * i.busy
           t == i.total
           q == b \div t
<1>1. /\ i.busy \in Nat /\ t \in Nat \ {0} /\ i.busy <= t
      /\ \/ u = q
         \/ u = q - 1 /\ b % t = 0 /\ 0 < i.busy
  BY IntervalTyped
<1>2. b \in Nat /\ b <= 100 * t /\ (0 < i.busy => 0 < b)
  BY <1>1
<1> HIDE DEF b, t
<1>3. q \in Int /\ q * t <= b /\ b < (q + 1) * t /\ (b % t = 0 => b = q * t)
  BY <1>1, <1>2, Quotient
<1> HIDE DEF q
<1>4. t \in Nat /\ t > 0 /\ 0 * t = 0 /\ q * t \in Int /\ (q + 1) * t \in Int
  BY <1>1, <1>3
<1>5. q <= 100
  <2>1. q * t <= 100 * t
    BY <1>2, <1>3, <1>4
  <2> QED
    BY <1>3, <1>4, <2>1, Scaled
<1>6. 0 <= q
  <2>1. 0 * t < (q + 1) * t
    BY <1>2, <1>3, <1>4
  <2>2. 0 < q + 1
    BY <1>3, <1>4, <2>1, Scaled
  <2> QED
    BY <1>3, <2>2
<1>7. CASE u = q
  <2>1. u \in 0 .. 100 /\ u * t <= b /\ b <= (u + 1) * t
    BY <1>2, <1>3, <1>4, <1>5, <1>6, <1>7
  <2> QED
    BY <2>1 DEF b, t
<1>8. CASE u = q - 1 /\ b % t = 0 /\ 0 < i.busy
  <2>1. b = q * t /\ 0 * t < q * t
    BY <1>2, <1>3, <1>4, <1>8
  <2>2. 0 < q
    BY <1>3, <1>4, <2>1, Scaled
  <2>3. u \in Int /\ u + 1 = q /\ u \in 0 .. 100
    BY <1>3, <1>5, <1>8, <2>2
  <2>4. u * t <= q * t
    BY <1>3, <1>4, <2>3, Scaled
  <2>5. u \in 0 .. 100 /\ u * t <= b /\ b <= (u + 1) * t
    <3>1. b <= b
      BY <1>2
    <3> QED
      BY <2>1, <2>3, <2>4, <3>1
  <2> QED
    BY <2>5 DEF b, t
<1> QED
  BY <1>1, <1>7, <1>8

\* Two percent more are enough, wherever the conversions cut the two off.
LEMMA BusierHigher ==
    ASSUME NEW one \in Intervals, NEW other \in Intervals, Busier(one, other),
           NEW u \in one.usages, NEW w \in other.usages
    PROVE  u > w
<1> DEFINE b1 == one.busy
           t1 == one.total
           b2 == other.busy
           t2 == other.total
           T == t1 * t2
<1>1. /\ b1 \in Nat /\ b2 \in Nat /\ t1 \in Nat \ {0} /\ t2 \in Nat \ {0}
      /\ u \in Int /\ w \in Int
      /\ 100 * b1 <= (u + 1) * t1 /\ w * t2 <= 100 * b2
  BY IntervalTyped, ShareBounds
<1>2. (100 * b1) * t2 >= (100 * b2 + 2 * t2) * t1
  BY DEF Busier
<1> HIDE DEF b1, b2, t1, t2
<1>3. T \in Nat /\ T > 0
  BY <1>1
<1>4. (100 * b1) * t2 <= ((u + 1) * t1) * t2
  BY <1>1, Scaled
<1>5. (w * t2 + 2 * t2) * t1 <= (100 * b2 + 2 * t2) * t1
  BY <1>1, Scaled
<1>6. ((u + 1) * t1) * t2 = (u + 1) * T /\ (w * t2 + 2 * t2) * t1 = (w + 2) * T
  BY <1>1
<1> HIDE DEF T
<1>7. (w + 2) * T <= (u + 1) * T
  <2>1. /\ (100 * b1) * t2 \in Int /\ (100 * b2 + 2 * t2) * t1 \in Int
        /\ (u + 1) * T \in Int /\ (w + 2) * T \in Int
    BY <1>1, <1>3
  <2> QED
    BY <2>1, <1>2, <1>4, <1>5, <1>6
<1>8. w + 2 <= u + 1
  BY <1>1, <1>3, <1>7, Scaled
<1> QED
  BY <1>1, <1>8

\* getCurrentValue: the usage of an interval is a percentage that is above those of
\* all intervals that were less busy and below those of all that were busier by
\* two percent, whatever the readings of the counters.
THEOREM UsagesTellApart == \A u : Comparable(u)
BY BusierHigher, ShareBounds DEF Comparable

\* So is the usage that any provider reports at any time.
THEOREM BusierReportsMore == Spec => []BusierIsHigher
<1>1. TypeOK => BusierIsHigher
  <2> SUFFICES ASSUME TypeOK, NEW p \in Address PROVE usage[p] \in ComparableLoad
    BY DEF BusierIsHigher
  <2>1. usage[p] \in Load \cup {0}
    BY DEF TypeOK
  <2> QED
    BY <2>1, UsagesTellApart DEF ComparableLoad
<1> QED
  BY <1>1, TypeCorrect, PTL

============================================================================
