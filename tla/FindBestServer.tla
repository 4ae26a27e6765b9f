---------------------------- MODULE FindBestServer ----------------------------
(***************************************************************************)
(* findBestServer and minUsageServer of LoadBalanceImpl, loop by loop: the *)
(* answer of ListServer for one list of providers and one request. The     *)
(* list does not change under it here (see ServerListThreads for that).    *)
(* At the end the answer is compared with a definition that has no loops.  *)
(***************************************************************************)
EXTENDS Integers, Sequences, FiniteSets

CONSTANTS
    Operation,  \* the names of operations
    Address,    \* the addresses of providers
    NoAddress,  \* the empty string
    Lists,      \* the lists of providers that are tried
    Requests    \* the requests that are tried

\* A provider in servers_, and what a client asks for. Versions and usages are
\* compared only.
ServerNode == [address : Address, operations : Seq(Operation),
               version : Int, usage : Int]
Request == [operations : Seq(Operation), version : Int]

ASSUME FindBestServerAssumption ==
    /\ Lists \subseteq Seq(ServerNode)
    /\ Requests \subseteq Request
    /\ NoAddress \notin Address

VARIABLES
    servers,    \* servers_
    request,    \* sNode, the argument of findBestServer
    pc,         \* which loop runs
    i,          \* the position of the outer loop
    k,          \* the position of the loop over the operations of server i
    opCounter,
    possible,   \* possibleServers, as positions in servers_
    minUsage, minUsageAddress,
    same,       \* sameUsageProviders, as positions in servers_
    answer

inputs == <<servers, request>>
minVars == <<minUsage, minUsageAddress, same>>
vars == <<inputs, pc, i, k, opCounter, possible, minVars, answer>>

Requested(op) == \E n \in DOMAIN request.operations : request.operations[n] = op

----------------------------------------------------------------------------
(* findBestServer. *)

\* The version of the next server is compared.
NextServer ==
    /\ pc = "server" /\ i <= Len(servers)
    /\ \/ /\ servers[i].version >= request.version
          /\ pc' = "operation" /\ k' = 1 /\ opCounter' = 0
          /\ UNCHANGED i
       \/ /\ servers[i].version < request.version
          /\ i' = i + 1
          /\ UNCHANGED <<pc, k, opCounter>>
    /\ UNCHANGED <<inputs, possible, minVars, answer>>

\* A faulty variant of CountOperation: the counter goes on at the operation
\* that is not requested.
CountOperationAlways ==
    /\ pc = "operation" /\ k <= Len(servers[i].operations)
    /\ opCounter' = opCounter + 1
    /\ k' = k + 1
    /\ UNCHANGED <<inputs, pc, i, possible, minVars, answer>>

\* A faulty variant of CountOperation: the loop does not leave an operation that
\* is not requested.
CountOperationStays ==
    /\ pc = "operation" /\ k <= Len(servers[i].operations)
    /\ Requested(servers[i].operations[k])
    /\ opCounter' = opCounter + 1
    /\ k' = k + 1
    /\ UNCHANGED <<inputs, pc, i, possible, minVars, answer>>

\* The inner loops look for one operation of the server in the request.
CountOperation ==
    /\ pc = "operation" /\ k <= Len(servers[i].operations)
    /\ opCounter' = IF Requested(servers[i].operations[k])
                    THEN opCounter + 1 ELSE opCounter
    /\ k' = k + 1
    /\ UNCHANGED <<inputs, pc, i, possible, minVars, answer>>

\* A faulty variant of ServerDone: the position is counted on too early.
ServerDoneNext ==
    /\ pc = "operation" /\ k > Len(servers[i].operations)
    /\ possible' = IF opCounter = Len(request.operations)
                   THEN Append(possible, i + 1) ELSE possible
    /\ pc' = "server" /\ i' = i + 1
    /\ UNCHANGED <<inputs, k, opCounter, minVars, answer>>

ServerDone ==
    /\ pc = "operation" /\ k > Len(servers[i].operations)
    /\ possible' = IF opCounter = Len(request.operations)
                   THEN Append(possible, i) ELSE possible
    /\ pc' = "server" /\ i' = i + 1
    /\ UNCHANGED <<inputs, k, opCounter, minVars, answer>>

----------------------------------------------------------------------------
(* minUsageServer. *)

NothingPossible ==
    /\ pc = "server" /\ i > Len(servers) /\ possible = <<>>
    /\ answer' = NoAddress /\ pc' = "done"
    /\ UNCHANGED <<inputs, i, k, opCounter, possible, minVars>>

\* The smallest usage so far is that of the front.
StartMinimum ==
    /\ pc = "server" /\ i > Len(servers) /\ possible # <<>>
    /\ minUsage' = servers[possible[1]].usage
    /\ minUsageAddress' = servers[possible[1]].address
    /\ same' = <<>>
    /\ pc' = "minimum" /\ i' = 1
    /\ UNCHANGED <<inputs, k, opCounter, possible, answer>>

\* A faulty variant of CompareUsage: sameUsageProviders is not cleared.
CompareUsageKeeps ==
    /\ pc = "minimum" /\ i <= Len(possible)
    /\ LET node == servers[possible[i]]
       IN \/ /\ node.usage < minUsage
             /\ minUsage' = node.usage /\ minUsageAddress' = node.address
             /\ same' = Append(same, possible[i])
          \/ /\ node.usage = minUsage
             /\ same' = Append(same, possible[i])
             /\ UNCHANGED <<minUsage, minUsageAddress>>
          \/ node.usage > minUsage /\ UNCHANGED minVars
    /\ i' = i + 1
    /\ UNCHANGED <<inputs, pc, k, opCounter, possible, answer>>

CompareUsage ==
    /\ pc = "minimum" /\ i <= Len(possible)
    /\ LET node == servers[possible[i]]
       IN \/ /\ node.usage < minUsage
             /\ minUsage' = node.usage /\ minUsageAddress' = node.address
             /\ same' = <<possible[i]>>
          \/ /\ node.usage = minUsage
             /\ same' = Append(same, possible[i])
             /\ UNCHANGED <<minUsage, minUsageAddress>>
          \/ node.usage > minUsage /\ UNCHANGED minVars
    /\ i' = i + 1
    /\ UNCHANGED <<inputs, pc, k, opCounter, possible, answer>>

\* Several minimal providers: one of them at random.
Answer ==
    /\ pc = "minimum" /\ i > Len(possible)
    /\ \/ /\ Len(same) > 1
          /\ \E n \in DOMAIN same : answer' = servers[same[n]].address
       \/ Len(same) <= 1 /\ answer' = minUsageAddress
    /\ pc' = "done"
    /\ UNCHANGED <<inputs, i, k, opCounter, possible, minVars>>

----------------------------------------------------------------------------

Init ==
    /\ servers \in Lists /\ request \in Requests
    /\ pc = "server" /\ i = 1 /\ k = 1 /\ opCounter = 0
    /\ possible = <<>>
    /\ minUsage = 0 /\ minUsageAddress = NoAddress /\ same = <<>>
    /\ answer = NoAddress

Next == \/ NextServer \/ CountOperation \/ ServerDone
        \/ NothingPossible \/ StartMinimum \/ CompareUsage \/ Answer

Spec == Init /\ [][Next]_vars

FairSpec == Spec /\ WF_vars(Next)

----------------------------------------------------------------------------
(* Properties. *)

\* The code's own criterion: how many operations of the server are requested.
Counted(n, upto) == {m \in 1 .. upto : Requested(servers[n].operations[m])}
Suits(n) == /\ servers[n].version >= request.version
            /\ Cardinality(Counted(n, Len(servers[n].operations)))
                  = Len(request.operations)

\* What a client means: every requested operation is provided.
Provides(n) ==
    /\ servers[n].version >= request.version
    /\ \A m \in DOMAIN request.operations :
          \E j \in DOMAIN servers[n].operations :
             servers[n].operations[j] = request.operations[m]

NoRepeats(s) == \A m, n \in DOMAIN s : s[m] = s[n] => m = n

Suiting == {n \in DOMAIN servers : Suits(n)}
Providing == {n \in DOMAIN servers : Provides(n)}

\* The addresses that may be answered when the servers in fit are acceptable.
Best(fit) ==
    LET lowest == {n \in fit : \A m \in fit : servers[n].usage <= servers[m].usage}
    IN IF fit = {} THEN {NoAddress} ELSE {servers[n].address : n \in lowest}

\* The types; the loops stay within the list and the operations of a server.
TypeOK ==
    /\ servers \in Seq(ServerNode) /\ request \in Request
    /\ pc \in {"server", "operation", "minimum", "done"}
    /\ i \in Nat \ {0} /\ k \in Nat \ {0} /\ opCounter \in Nat
    /\ pc = "operation" => i <= Len(servers) /\ k <= Len(servers[i].operations) + 1
    /\ possible \in Seq(DOMAIN servers)
    /\ minUsage \in Int
    /\ same \in Seq(DOMAIN servers)

Elements(s) == {s[n] : n \in DOMAIN s}

\* The loops in progress: what each has collected of the part it has seen. The
\* first of the providers of the same usage is the one of minUsageAddress.
LoopInv ==
    /\ pc \in {"server", "operation"} => Elements(possible) = {n \in Suiting : n < i}
    /\ pc = "operation" =>
          /\ servers[i].version >= request.version
          /\ opCounter = Cardinality(Counted(i, k - 1))
    /\ pc = "minimum" =>
          /\ Elements(possible) = Suiting /\ possible # <<>>
          /\ i <= Len(possible) + 1
          /\ \A m \in 1 .. i - 1 : minUsage <= servers[possible[m]].usage
          /\ Elements(same) = {possible[m] : m \in {n \in 1 .. i - 1 :
                                   servers[possible[n]].usage = minUsage}}
          /\ i = 1 => /\ minUsage = servers[possible[1]].usage
                      /\ minUsageAddress = servers[possible[1]].address
          /\ i # 1 => same # <<>> /\ minUsageAddress = servers[same[1]].address

\* The answer is the address of a suiting provider of the lowest usage, empty if
\* none suits.
AnswerIsBest == pc = "done" => answer \in Best(Suiting)

\* Any suiting provider of the lowest usage may be drawn, and no other.
EveryBestCanBeAnswered ==
    pc = "minimum" /\ i > Len(possible) =>
       Best(Suiting) = IF Len(same) > 1 THEN {servers[same[n]].address : n \in DOMAIN same}
                     ELSE {minUsageAddress}

\* The count is what the client means as long as neither side repeats an
\* operation. Providers do not: the registry refuses a second service of a name.
\* A request that does finds nobody.
AnswerProvides ==
    (/\ pc = "done" /\ NoRepeats(request.operations)
     /\ \A n \in DOMAIN servers : NoRepeats(servers[n].operations))
       => answer \in Best(Providing)

\* ListServer always comes to an answer.
Terminates == <>(pc = "done")
==============================================================================
