-------------------------- MODULE ServerListThreads --------------------------
(***************************************************************************)
(* The vector servers_ of LoadBalanceImpl under its threads: the updater   *)
(* (removeInactiveServer), and the handlers of EstablishServer,            *)
(* SendHeartbeat and ListServer (findBestServer), one step per access to   *)
(* the vector.                                                             *)
(*                                                                         *)
(* EstablishServer and the updater hold mutex_; SendHeartbeat and          *)
(* findBestServer walk the vector without it. Their range-for takes begin  *)
(* and end once, so they go on over the old positions while remove_if      *)
(* moves the nodes below them, and over freed memory after a push_back     *)
(* that had to reallocate. What they read from freed memory is any value,  *)
(* what they write there is lost. That such an access may also stop the    *)
(* process is left out, as are values torn within one string or word.      *)
(***************************************************************************)
EXTENDS Integers, Sequences, FiniteSets

CONSTANTS
    Address,      \* the providers
    Fits,         \* the providers whose version and operations suit the requests
    BeatCall,     \* the threads that run SendHeartbeat
    FindCall,     \* the threads that run ListServer
    NoAddress,    \* the empty string
    NoOne,        \* nobody holds the mutex
    Updater,      \* the updater thread
    MaxEstablish  \* bound: registrations of one provider

Call == BeatCall \cup FindCall
Anyone == Address \cup {NoAddress}

ASSUME ThreadsAssumption ==
    /\ Fits \subseteq Address
    /\ NoAddress \notin Address
    /\ Updater \notin Address /\ NoOne \notin Address \cup {Updater}
    /\ BeatCall \cap FindCall = {}
    /\ MaxEstablish \in Nat

VARIABLES
    slots,       \* the buffer of servers_, up to its capacity
    size,        \* servers_.size()
    buffer,      \* the number of the buffer: a push_back may replace it
    mutex,       \* mutex_: its owner
    upc,         \* the step of the updater
    it, res,     \* its iterators first and result inside remove_if
    epc,         \* the step of EstablishServer, for each provider
    call,        \* the calls of SendHeartbeat and ListServer
    established, \* history: how often each provider was added
    expired,     \* history: the providers that had an entry become inactive
    steady       \* history: the providers active in the list since a call began

listVars == <<slots, size, buffer>>
updaterVars == <<upc, it, res>>
historyVars == <<established, expired, steady>>
vars == <<listVars, mutex, updaterVars, epc, call, historyVars>>

----------------------------------------------------------------------------

\* A ServerNode: rest names the provider whose version and operations the node
\* holds, usageBy the one whose beat set the usage, active says that lastBeat
\* is at most heartBeatRate_ ago.
ServerNode == [address : Anyone, rest : Anyone, usageBy : Anyone, active : BOOLEAN]

NewNode(a) == [address |-> a, rest |-> a, usageBy |-> NoAddress, active |-> TRUE]

Capacity == Len(slots)

\* The positions of a's entries in the list.
Entries(a) == {i \in 1 .. size : slots[i].address = a}

\* A call walks the positions up to last in the buffer it began in. address is
\* the one a beat is for, or the one findBestServer has copied from the node;
\* found is possibleServers.
CallState == [pc : {"idle", "compare", "usage", "time", "copy", "copyRest"},
              pos : Nat, last : Nat, buffer : Nat, address : Anyone,
              found : SUBSET Anyone, reply : Anyone \cup {"none", "OK", "CANCELLED"}]

Started(pc, a) == [pc |-> pc, pos |-> 1, last |-> size, buffer |-> buffer,
                   address |-> a, found |-> {}, reply |-> "none"]

Dangling(c) == call[c].buffer # buffer
AtEnd(c) == call[c].pos > call[c].last
Node(c) == slots[call[c].pos]

Begin(c, pc, a) ==
    /\ call[c].pc = "idle"
    /\ call' = [call EXCEPT ![c] = Started(pc, a)]
    /\ steady' = [steady EXCEPT ![c] = {p \in Address : established[p] > 0} \ expired]
    /\ UNCHANGED <<listVars, mutex, updaterVars, epc, established, expired>>

\* A step of a call that leaves the list alone.
Goes(c, state) ==
    /\ call' = [call EXCEPT ![c] = state]
    /\ UNCHANGED <<listVars, mutex, updaterVars, epc, historyVars>>

----------------------------------------------------------------------------
(* The updater. *)

\* A faulty variant of LockList: no lock_guard.
LockNothing(who) == UNCHANGED mutex

LockList(who) == mutex = NoOne /\ mutex' = who

UpdaterLock ==
    /\ upc = "sleep"
    /\ LockList(Updater)
    /\ upc' = "scan" /\ it' = 1 /\ res' = 1
    /\ UNCHANGED <<listVars, epc, call, historyVars>>

\* remove_if looks at one node: an inactive one is skipped, an active one is
\* kept, by a move once a node before it was skipped.
UpdaterScan ==
    /\ upc = "scan" /\ it <= size
    /\ \/ /\ ~slots[it].active
          /\ it' = it + 1 /\ UNCHANGED <<upc, res>>
       \/ /\ slots[it].active /\ res = it
          /\ it' = it + 1 /\ res' = res + 1 /\ UNCHANGED upc
       \/ /\ slots[it].active /\ res < it
          /\ upc' = "move" /\ UNCHANGED <<it, res>>
    /\ UNCHANGED <<listVars, mutex, epc, call, historyVars>>

\* The move assignment of a node, its first member first. The strings and
\* vectors it moves from are left empty.
UpdaterMove ==
    /\ upc = "move"
    /\ slots' = [slots EXCEPT ![res].address = slots[it].address,
                              ![it].address = NoAddress]
    /\ upc' = "moveRest"
    /\ UNCHANGED <<size, buffer, mutex, it, res, epc, call, historyVars>>

\* A faulty variant of UpdaterMoveRest: the result iterator stays.
UpdaterMoveRestStays ==
    /\ upc = "moveRest"
    /\ slots' = [slots EXCEPT ![res] = [slots[it] EXCEPT !.address = slots[res].address],
                              ![it].rest = NoAddress]
    /\ upc' = "scan" /\ it' = it + 1
    /\ UNCHANGED <<size, buffer, mutex, res, epc, call, historyVars>>

UpdaterMoveRest ==
    /\ upc = "moveRest"
    /\ slots' = [slots EXCEPT ![res] = [slots[it] EXCEPT !.address = slots[res].address],
                              ![it].rest = NoAddress]
    /\ upc' = "scan" /\ it' = it + 1 /\ res' = res + 1
    /\ UNCHANGED <<size, buffer, mutex, epc, call, historyVars>>

\* erase: the nodes from result on are destroyed, their memory stays.
UpdaterErase ==
    /\ upc = "scan" /\ it > size
    /\ size' = res - 1
    /\ upc' = "sleep" /\ mutex' = NoOne
    /\ UNCHANGED <<slots, buffer, it, res, epc, call, historyVars>>

----------------------------------------------------------------------------
(* EstablishServer. *)

EstablishLock(a) ==
    /\ epc[a] = "idle" /\ established[a] < MaxEstablish
    /\ LockList(a)
    /\ epc' = [epc EXCEPT ![a] = "push"]
    /\ UNCHANGED <<listVars, updaterVars, call, historyVars>>

\* A faulty variant of PushBack: the node is built behind a full buffer.
PushBackInPlace(node) ==
    /\ size' = size + 1
    /\ slots' = [i \in 1 .. Capacity |-> IF i = size + 1 THEN node ELSE slots[i]]
    /\ UNCHANGED buffer

\* push_back: a full vector first moves to a buffer of twice its capacity.
PushBack(node) ==
    /\ size' = size + 1
    /\ \/ /\ size < Capacity
          /\ slots' = [slots EXCEPT ![size + 1] = node]
          /\ UNCHANGED buffer
       \/ /\ size = Capacity
          /\ slots' = [i \in 1 .. (IF size = 0 THEN 1 ELSE 2 * size) |->
                         IF i <= size THEN slots[i] ELSE node]
          /\ buffer' = buffer + 1

EstablishPush(a) ==
    /\ epc[a] = "push"
    /\ PushBack(NewNode(a))
    /\ epc' = [epc EXCEPT ![a] = "idle"] /\ mutex' = NoOne
    /\ established' = [established EXCEPT ![a] = @ + 1]
    /\ UNCHANGED <<updaterVars, call, expired, steady>>

----------------------------------------------------------------------------
(* SendHeartbeat, without the lock. *)

BeatStart(c) == \E a \in Address : Begin(c, "compare", a)

\* A faulty variant of BeatCompare: the iterator stays on a node of another
\* address.
BeatCompareStays(c) ==
    /\ call[c].pc = "compare" /\ ~AtEnd(c)
    /\ Dangling(c) \/ Node(c).address = call[c].address
    /\ Goes(c, [call[c] EXCEPT !.pc = "usage"])

\* One turn of the loop: the address of the node is compared.
BeatCompare(c) ==
    /\ call[c].pc = "compare" /\ ~AtEnd(c)
    /\ \/ /\ Dangling(c) \/ Node(c).address = call[c].address
          /\ Goes(c, [call[c] EXCEPT !.pc = "usage"])
       \/ /\ Dangling(c) \/ Node(c).address # call[c].address
          /\ Goes(c, [call[c] EXCEPT !.pos = @ + 1])

BeatNotFound(c) ==
    /\ call[c].pc = "compare" /\ AtEnd(c)
    /\ Goes(c, [call[c] EXCEPT !.pc = "idle", !.reply = "CANCELLED"])

BeatUsage(c) ==
    /\ call[c].pc = "usage"
    /\ slots' = IF Dangling(c) THEN slots
                ELSE [slots EXCEPT ![call[c].pos].usageBy = call[c].address]
    /\ call' = [call EXCEPT ![c].pc = "time"]
    /\ UNCHANGED <<size, buffer, mutex, updaterVars, epc, historyVars>>

BeatTime(c) ==
    /\ call[c].pc = "time"
    /\ slots' = IF Dangling(c) THEN slots
                ELSE [slots EXCEPT ![call[c].pos].active = TRUE]
    /\ call' = [call EXCEPT ![c].pc = "idle", ![c].reply = "OK"]
    /\ UNCHANGED <<size, buffer, mutex, updaterVars, epc, historyVars>>

----------------------------------------------------------------------------
(* ListServer and findBestServer, without the lock. *)

FindStart(c) == Begin(c, "copy", NoAddress)

\* for (auto server : servers_) copies a node, its first member first.
FindCopy(c) ==
    /\ call[c].pc = "copy" /\ ~AtEnd(c)
    /\ \E a \in IF Dangling(c) THEN Anyone ELSE {Node(c).address} :
          Goes(c, [call[c] EXCEPT !.pc = "copyRest", !.address = a])

FindCopyRest(c) ==
    /\ call[c].pc = "copyRest"
    /\ \E r \in IF Dangling(c) THEN Anyone ELSE {Node(c).rest} :
          Goes(c, [call[c] EXCEPT !.pc = "copy", !.pos = @ + 1,
                     !.found = IF r \in Fits THEN @ \cup {call[c].address} ELSE @])

\* minUsageServer: the usages are left out, so it may pick any of them.
FindReturns(c) ==
    /\ call[c].pc = "copy" /\ AtEnd(c)
    /\ \E a \in IF call[c].found = {} THEN {NoAddress} ELSE call[c].found :
          Goes(c, [call[c] EXCEPT !.pc = "idle", !.reply = a])

----------------------------------------------------------------------------

\* While remove_if runs, the positions from res to it - 1 hold what it has
\* skipped or moved away. Place(k) is where the k-th node of the list is.
Gap == IF upc = "sleep" THEN 0 ELSE it - res
Place(k) == IF k < res THEN k ELSE k + Gap
ListLength == size - Gap

\* lastBeat of a node in the list becomes older than heartBeatRate_.
Expire(i) ==
    /\ slots[i].active
    /\ slots' = [slots EXCEPT ![i].active = FALSE]
    /\ expired' = expired \cup {slots[i].rest}
    /\ steady' = [c \in Call |-> steady[c] \ {slots[i].rest}]
    /\ UNCHANGED <<size, buffer, mutex, updaterVars, epc, call, established>>

Init ==
    /\ slots = <<>> /\ size = 0 /\ buffer = 0
    /\ mutex = NoOne
    /\ upc = "sleep" /\ it = 1 /\ res = 1
    /\ epc = [a \in Address |-> "idle"]
    /\ call = [c \in Call |-> [Started("idle", NoAddress) EXCEPT !.last = 0]]
    /\ established = [a \in Address |-> 0]
    /\ expired = {}
    /\ steady = [c \in Call |-> {}]

UpdaterStep == UpdaterScan \/ UpdaterMove \/ UpdaterMoveRest \/ UpdaterErase
BeatStep(c) == BeatCompare(c) \/ BeatNotFound(c) \/ BeatUsage(c) \/ BeatTime(c)
FindStep(c) == FindCopy(c) \/ FindCopyRest(c) \/ FindReturns(c)

Next ==
    \/ UpdaterLock \/ UpdaterStep
    \/ \E a \in Address : EstablishLock(a) \/ EstablishPush(a)
    \/ \E c \in BeatCall : BeatStart(c) \/ BeatStep(c)
    \/ \E c \in FindCall : FindStart(c) \/ FindStep(c)
    \/ \E k \in 1 .. ListLength : Expire(Place(k))

\* Running threads run. A thread that waits for the mutex gets it when it is
\* free again and again: the updater sleeps two periods between two rounds.
Fairness ==
    /\ WF_vars(UpdaterStep) /\ WF_vars(UpdaterLock)
    /\ \A a \in Address : SF_vars(EstablishLock(a)) /\ WF_vars(EstablishPush(a))
    /\ \A c \in BeatCall : WF_vars(BeatStep(c))
    /\ \A c \in FindCall : WF_vars(FindStep(c))

Spec == Init /\ [][Next]_vars

FairSpec == Spec /\ Fairness

----------------------------------------------------------------------------
(* Properties. *)

\* The types; the iterators of remove_if stay within the list.
TypeOK ==
    /\ slots \in Seq(ServerNode)
    /\ size \in 0 .. Capacity
    /\ buffer \in Nat
    /\ mutex \in Address \cup {NoOne, Updater}
    /\ upc \in {"sleep", "scan", "move", "moveRest"}
    /\ it \in Nat \ {0} /\ res \in 1 .. it
    /\ upc \in {"move", "moveRest"} => res < it /\ it <= size
    /\ upc = "scan" => it <= size + 1
    /\ epc \in [Address -> {"idle", "push"}]
    /\ call \in [Call -> CallState]
    /\ established \in [Address -> 0 .. MaxEstablish]
    /\ expired \subseteq Address
    /\ steady \in [Call -> SUBSET Address]

\* The unlocked readers never see it, but whoever takes the mutex finds whole
\* nodes: no empty address, and the operations of the node's own provider.
ListIntact ==
    mutex = NoOne => \A i \in 1 .. size : /\ slots[i].address # NoAddress
                                          /\ slots[i].rest = slots[i].address

\* No registration is lost, none is doubled: a provider that never became
\* inactive has one entry for each of its registrations, whatever the updater
\* and the other registrations did in between.
NoRegistrationLost ==
    mutex = NoOne => \A a \in Address \ expired : Cardinality(Entries(a)) = established[a]

\* The list that the steps of all threads together implement: the node being
\* moved has its address at its new place already.
List ==
    [k \in 1 .. ListLength |->
       [address |-> IF upc = "moveRest" /\ Place(k) = it THEN slots[res].address
                    ELSE slots[Place(k)].address,
        active |-> slots[Place(k)].active]]

\* Whatever the unlocked beats and readers do, the registrations and the sweep
\* are atomic: an entry keeps its place and identity until it is inactive.
Abstract == INSTANCE ServerList WITH list <- List

\* The vector under its threads implements the abstract list.
ImplementsServerList == Abstract!Spec

\* Every call ends, although nobody keeps the list still under it.
CallsEnd == \A c \in Call : call[c].pc # "idle" ~> call[c].pc = "idle"

\* A beat is booked on the provider that sent it.
UsageOfOwnBeat ==
    mutex = NoOne => \A i \in 1 .. size : slots[i].usageBy \in {NoAddress, slots[i].address}

\* "Find the best possible Provider and return his address": ListServer
\* answers with an address when a fitting provider was active in the list
\* during the whole call, even if the vector stayed in its place.
FittingProviderFound ==
    \A c \in FindCall : steady[c] \cap Fits # {} /\ ~Dangling(c)
                          => call[c].reply # NoAddress
==============================================================================
