----------------------------- MODULE LoadBalance -----------------------------
(***************************************************************************)
(* The registration and heartbeat protocol between the load balancer       *)
(* (load_balancer/LoadBalanceImpl) and the providers' heartbeat threads    *)
(* (provider/BalancerEstablisher, started by ServiceProvider::run).        *)
(*                                                                         *)
(* One handler of the balancer is one step here: the interleavings of two  *)
(* handlers that touch servers_ at the same time (SendHeartbeat and        *)
(* ListServer take no lock) are the subject of module ServerListThreads.   *)
(* A call of a provider is two steps, its handling and its return, so a    *)
(* crash, a sweep, a lost reply or a tick can fall between them.           *)
(*                                                                         *)
(* Time is discrete. An entry keeps its age, the time since lastBeat,      *)
(* instead of the time stamp; sleep_for is a timer that counts down and    *)
(* goes on below zero while its thread is late. The time stamps are taken  *)
(* from system_clock, which may be set, the sleeps are not.                *)
(***************************************************************************)
EXTENDS Integers, Sequences, FiniteSets

CONSTANTS
    Address,       \* the providers, named by their address
    Offer,         \* what a provider registers: its version and operations
    Load,          \* the usages a provider's usage function reports
    Garbage,       \* the values an uninitialised int can hold
    Word,          \* 2^32 in the code: the width of HeartBeat.usage
    HeartBeatRate, \* heartBeatRate_ of the balancer
    BeatRate,      \* heartBeatRate_ of the providers
    Backoff,       \* the 2 seconds between two attempts to register
    SweepLag,      \* how late the updater thread may wake up
    BeatLag,       \* how late a prompt provider may finish a step
    Prompt,        \* the providers that are never later than BeatLag
    MaxFaults,     \* bound: kills, lost calls and lost replies per provider
    MaxReboots,    \* bound: crashes of the balancer
    Jumps,         \* by how much the clock of the balancer may be set
    MaxSkew,       \* bound: by how much in all, forward and backward
    NoCall         \* no call left behind in the network

ASSUME ConstantsAssumption ==
    /\ Load \subseteq Int /\ Garbage \subseteq Int
    /\ Word \in Nat /\ \A u \in Load \cup {0} : -u <= Word \div 2 /\ u < Word \div 2
    /\ {HeartBeatRate, BeatRate, Backoff} \subseteq Nat \ {0}
    /\ SweepLag \in Nat /\ BeatLag \in Nat
    /\ Prompt \subseteq Address
    /\ MaxFaults \in Nat /\ MaxReboots \in Nat
    /\ Jumps \subseteq Int /\ MaxSkew \in Nat

VARIABLES
    servers,    \* servers_: the registered providers, oldest registration first
    up,         \* the balancer process is running
    sweepTimer, \* the sleep of the updater thread
    reboots,    \* crashes of the balancer so far
    skew,       \* by how much its clock was set so far
    pc,         \* where the heartbeat thread of a provider is
    timer,      \* its sleep, or how long its current step has been due
    offer,      \* the version and operations the running process registers
    usage,      \* usage_
    reply,      \* the state of its call: "pending" until the balancer handled it
    late,       \* a request its sender gave up on, still to be handled
    faults,     \* kills and transport failures of its calls so far
    confirmed   \* history: the usage of the last confirmed beat since the process
                \* started or registered again, none before it

balancerVars == <<servers, up, sweepTimer, reboots, skew>>
providerVars == <<pc, timer, offer, usage, reply, late, faults, confirmed>>
vars == <<balancerVars, providerVars>>

----------------------------------------------------------------------------
(* The data. *)

ServerNode == [address : Address, offer : Offer, usage : Int, age : Int]

Status == {"OK", "CANCELLED", "UNAVAILABLE"}

\* A request in flight: EstablishServer carries the offer, SendHeartbeat the
\* usage as the unsigned word of the wire.
Request == [kind : {"Establish", "Beat"}, offer : Offer, usage : Int]

\* HeartBeat.usage is a uint32: a negative int wraps around on the wire and
\* back again when the handler stores it in an int.
ToWire(u) == IF u < 0 THEN u + Word ELSE u

\* A faulty variant of FromWire: the number stays unsigned.
FromWireUnsigned(w) == w

FromWire(w) == IF w >= Word \div 2 THEN w - Word ELSE w

Listed(s, p) == \E i \in DOMAIN s : s[i].address = p

\* The entry the loop of SendHeartbeat stops at.
First(s, p) == CHOOSE i \in DOMAIN s :
                  /\ s[i].address = p
                  /\ \A j \in DOMAIN s : s[j].address = p => i <= j

\* Ages are not counted beyond this cap, which BoundedSilence shows is never
\* reached.
AgeCap == 3 * HeartBeatRate + SweepLag + MaxSkew + 1

\* Faulty variants of Inactive: the updater's period for the threshold, and
\* the comparison turned round.
InactiveAfterSweepPeriod(node) == node.age > 2 * HeartBeatRate
InactiveReversed(node) == node.age < HeartBeatRate

Inactive(node) == node.age > HeartBeatRate

Running(p) == pc[p] # "down"
Calling(p) == pc[p] \in {"register", "beat", "retry"}

\* The request behind the call that p is making.
RequestOf(p) == [kind |-> IF pc[p] = "beat" THEN "Beat" ELSE "Establish",
                 offer |-> offer[p],
                 usage |-> ToWire(usage[p])]

----------------------------------------------------------------------------
(* What the handlers do to servers_. *)

\* EstablishServer appends a node whose usage is never assigned.
AddServer(p, o) ==
    \E garbage \in Garbage :
       servers' = Append(servers, [address |-> p, offer |-> o,
                                   usage |-> garbage, age |-> 0])

\* Faulty variants of UpdateServer: lastBeat is not written, usage is not
\* written, the loop goes on to refresh every entry of the address, and the
\* front is refreshed whatever its address.
UpdateServerKeepsAge(p, w) ==
    servers' = [servers EXCEPT ![First(servers, p)].usage = FromWire(w)]
UpdateServerKeepsUsage(p, w) ==
    servers' = [servers EXCEPT ![First(servers, p)].age = 0]
UpdateServerAll(p, w) ==
    servers' = [i \in DOMAIN servers |->
                  IF servers[i].address = p
                  THEN [servers[i] EXCEPT !.usage = FromWire(w), !.age = 0]
                  ELSE servers[i]]
UpdateServerFront(p, w) ==
    servers' = [servers EXCEPT ![1] = [@ EXCEPT !.usage = FromWire(w), !.age = 0]]

UpdateServer(p, w) ==
    servers' = [servers EXCEPT ![First(servers, p)] =
                   [@ EXCEPT !.usage = FromWire(w), !.age = 0]]

\* remove_if and erase: the nodes at the positions in keep stay, in their
\* order. f maps a new position to the old one.
KeepServers(keep) ==
    \E n \in 0 .. Len(servers) : \E f \in [1 .. n -> keep] :
       /\ \A i, j \in 1 .. n : i < j => f[i] < f[j]
       /\ \A k \in keep : \E i \in 1 .. n : f[i] = k
       /\ servers' = [i \in 1 .. n |-> servers[f[i]]]

----------------------------------------------------------------------------
(* The balancer. *)

EstablishServer(p) ==
    /\ up /\ pc[p] \in {"register", "retry"} /\ reply[p] = "pending"
    /\ AddServer(p, offer[p])
    /\ reply' = [reply EXCEPT ![p] = "OK"]
    /\ UNCHANGED <<up, sweepTimer, reboots, skew, pc, timer, offer, usage, late, faults, confirmed>>

\* A faulty variant of SendHeartbeat: without the return inside the loop every
\* beat is answered CANCELLED.
SendHeartbeatNoReturn(p) ==
    /\ up /\ pc[p] = "beat" /\ reply[p] = "pending"
    /\ IF Listed(servers, p) THEN UpdateServer(p, ToWire(usage[p]))
                             ELSE UNCHANGED servers
    /\ reply' = [reply EXCEPT ![p] = "CANCELLED"]
    /\ UNCHANGED <<up, sweepTimer, reboots, skew, pc, timer, offer, usage, late, faults, confirmed>>

\* A beat of an address that is not listed is answered CANCELLED.
SendHeartbeat(p) ==
    /\ up /\ pc[p] = "beat" /\ reply[p] = "pending"
    /\ \/ /\ Listed(servers, p)
          /\ UpdateServer(p, ToWire(usage[p]))
          /\ reply' = [reply EXCEPT ![p] = "OK"]
       \/ /\ ~Listed(servers, p)
          /\ reply' = [reply EXCEPT ![p] = "CANCELLED"]
          /\ UNCHANGED servers
    /\ UNCHANGED <<up, sweepTimer, reboots, skew, pc, timer, offer, usage, late, faults, confirmed>>

\* The handler of a request whose sender is no longer waiting: it does the
\* same to servers_, and nobody reads the reply.
HandleLate(p) ==
    /\ up /\ late[p] # NoCall
    /\ \/ late[p].kind = "Establish" /\ AddServer(p, late[p].offer)
       \/ /\ late[p].kind = "Beat" /\ Listed(servers, p)
          /\ UpdateServer(p, late[p].usage)
       \/ /\ late[p].kind = "Beat" /\ ~Listed(servers, p)
          /\ UNCHANGED servers
    /\ late' = [late EXCEPT ![p] = NoCall]
    /\ UNCHANGED <<up, sweepTimer, reboots, skew, pc, timer, offer, usage, reply, faults, confirmed>>

\* One round of updateServerList: the sleep of two periods is over.
RemoveInactiveServer ==
    /\ up /\ sweepTimer <= 0
    /\ KeepServers({i \in DOMAIN servers : ~Inactive(servers[i])})
    /\ sweepTimer' = 2 * HeartBeatRate
    /\ UNCHANGED <<up, reboots, skew, providerVars>>

\* The process dies: servers_ is only in memory, the calls it has not
\* answered fail.
BalancerCrash ==
    /\ up /\ reboots < MaxReboots
    /\ up' = FALSE
    /\ reboots' = reboots + 1
    /\ servers' = <<>>
    /\ sweepTimer' = 2 * HeartBeatRate
    /\ reply' = [p \in Address |->
                   IF reply[p] = "pending" THEN "UNAVAILABLE" ELSE reply[p]]
    /\ late' = [p \in Address |-> NoCall]
    /\ UNCHANGED <<skew, pc, timer, offer, usage, faults, confirmed>>

\* The constructor starts the updater thread, which sleeps first.
BalancerStart ==
    /\ ~up
    /\ up' = TRUE
    /\ UNCHANGED <<servers, sweepTimer, reboots, skew, providerVars>>

----------------------------------------------------------------------------
(* A provider. *)

\* run(): the process starts and makes its one call to establishServer.
StartProvider(p) ==
    /\ pc[p] = "down"
    /\ pc' = [pc EXCEPT ![p] = "register"]
    /\ \E o \in Offer : offer' = [offer EXCEPT ![p] = o]
    /\ usage' = [usage EXCEPT ![p] = 0]
    /\ timer' = [timer EXCEPT ![p] = 0]
    /\ reply' = [reply EXCEPT ![p] = "pending"]
    /\ UNCHANGED <<balancerVars, late, faults, confirmed>>

\* p starts to sleep in state at, for rate.
Sleep(p, at, rate) ==
    /\ pc' = [pc EXCEPT ![p] = at]
    /\ timer' = [timer EXCEPT ![p] = rate]
    /\ reply' = [reply EXCEPT ![p] = "none"]

\* run() ignores what establishServer returns and starts the heartbeat.
RegisterReturns(p) ==
    /\ pc[p] = "register" /\ reply[p] \in Status
    /\ Sleep(p, "asleep", BeatRate)
    /\ UNCHANGED <<balancerVars, offer, usage, late, faults, confirmed>>

\* The sleep of sendHeartBeat is over: countUsage, then the call of sendBeat.
\* Without a usage function usage_ stays what it is.
CallBeat(p) ==
    /\ pc[p] = "asleep" /\ timer[p] <= 0
    /\ \E u \in Load \cup {usage[p]} : usage' = [usage EXCEPT ![p] = u]
    /\ pc' = [pc EXCEPT ![p] = "beat"]
    /\ reply' = [reply EXCEPT ![p] = "pending"]
    /\ UNCHANGED <<balancerVars, timer, offer, late, faults, confirmed>>

\* A faulty variant of CallAgain: establishServer is entered, its call not made.
CallAgainUnsent(p) ==
    /\ pc' = [pc EXCEPT ![p] = "retry"]
    /\ timer' = [timer EXCEPT ![p] = 0]
    /\ reply' = [reply EXCEPT ![p] = "none"]
    /\ confirmed' = [confirmed EXCEPT ![p] = {}]

\* sendBeat: any failure makes the provider register again.
CallAgain(p) ==
    /\ pc' = [pc EXCEPT ![p] = "retry"]
    /\ timer' = [timer EXCEPT ![p] = 0]
    /\ reply' = [reply EXCEPT ![p] = "pending"]
    /\ confirmed' = [confirmed EXCEPT ![p] = {}]

\* What a confirmed beat leaves in the history.
Confirm(p) == confirmed' = [confirmed EXCEPT ![p] = {usage[p]}]

\* A faulty variant of BeatReturns: sendBeat ignores the status.
BeatReturnsUnchecked(p) ==
    /\ pc[p] = "beat" /\ reply[p] \in Status
    /\ Sleep(p, "asleep", BeatRate) /\ Confirm(p)
    /\ UNCHANGED <<balancerVars, offer, usage, late, faults>>

BeatReturns(p) ==
    /\ pc[p] = "beat" /\ reply[p] \in Status
    /\ \/ reply[p] = "OK" /\ Sleep(p, "asleep", BeatRate) /\ Confirm(p)
       \/ reply[p] # "OK" /\ CallAgain(p)
    /\ UNCHANGED <<balancerVars, offer, usage, late, faults>>

RetryReturns(p) ==
    /\ pc[p] = "retry" /\ reply[p] \in Status
    /\ \/ reply[p] = "OK" /\ Sleep(p, "asleep", BeatRate)
       \/ reply[p] # "OK" /\ Sleep(p, "backoff", Backoff)
    /\ UNCHANGED <<balancerVars, offer, usage, late, faults, confirmed>>

BackoffOver(p) ==
    /\ pc[p] = "backoff" /\ timer[p] <= 0
    /\ CallAgain(p)
    /\ UNCHANGED <<balancerVars, offer, usage, late, faults>>

----------------------------------------------------------------------------
(* What can go wrong, and time. *)

\* The request of p is lost, or left behind for a late handling.
Abandon(p) ==
    \/ UNCHANGED late
    \/ /\ reply[p] = "pending" /\ up /\ late[p] = NoCall
       /\ late' = [late EXCEPT ![p] = RequestOf(p)]

KillProvider(p) ==
    /\ Running(p) /\ faults[p] < MaxFaults
    /\ faults' = [faults EXCEPT ![p] = @ + 1]
    /\ Abandon(p)
    /\ pc' = [pc EXCEPT ![p] = "down"]
    /\ timer' = [timer EXCEPT ![p] = 0]
    /\ reply' = [reply EXCEPT ![p] = "none"]
    /\ confirmed' = [confirmed EXCEPT ![p] = {}]
    /\ UNCHANGED <<balancerVars, offer, usage>>

\* The connection breaks during a call: before, after or while the balancer
\* handles it. The provider sees a status that is not OK.
ConnectionBreaks(p) ==
    /\ up /\ Calling(p) /\ reply[p] \in {"pending", "OK", "CANCELLED"}
    /\ faults[p] < MaxFaults
    /\ faults' = [faults EXCEPT ![p] = @ + 1]
    /\ Abandon(p)
    /\ reply' = [reply EXCEPT ![p] = "UNAVAILABLE"]
    /\ UNCHANGED <<balancerVars, pc, timer, offer, usage, confirmed>>

\* A call to a balancer that is not running fails.
ConnectFails(p) ==
    /\ ~up /\ Calling(p) /\ reply[p] = "pending"
    /\ reply' = [reply EXCEPT ![p] = "UNAVAILABLE"]
    /\ UNCHANGED <<balancerVars, pc, timer, offer, usage, late, faults, confirmed>>

\* The node by a clock that went on by d.
Aged(node, d) == [node EXCEPT !.age = IF @ + d <= AgeCap THEN @ + d ELSE AgeCap]

\* One unit of time passes, for every thread at once. Time waits for the
\* updater and for the prompt providers when they are as late as allowed.
Tick ==
    /\ up => sweepTimer > -SweepLag
    /\ \A p \in Prompt : Running(p) => timer[p] > -BeatLag
    /\ servers' = [i \in DOMAIN servers |-> Aged(servers[i], 1)]
    /\ sweepTimer' = IF up THEN sweepTimer - 1 ELSE sweepTimer
    /\ timer' = [p \in Address |->
                   IF Running(p) /\ timer[p] > -BeatLag
                   THEN timer[p] - 1 ELSE timer[p]]
    /\ UNCHANGED <<up, reboots, skew, pc, offer, usage, reply, late, faults, confirmed>>

Size(d) == IF d < 0 THEN -d ELSE d

\* The system clock of the balancer is set.
ClockJumps ==
    /\ up
    /\ \E d \in Jumps :
         /\ skew + Size(d) <= MaxSkew
         /\ skew' = skew + Size(d)
         /\ servers' = [i \in DOMAIN servers |-> Aged(servers[i], d)]
    /\ UNCHANGED <<up, sweepTimer, reboots, providerVars>>

----------------------------------------------------------------------------

Init ==
    /\ servers = <<>>
    /\ up = TRUE
    /\ sweepTimer = 2 * HeartBeatRate
    /\ reboots = 0
    /\ skew = 0
    /\ pc = [p \in Address |-> "down"]
    /\ timer = [p \in Address |-> 0]
    /\ offer \in [Address -> Offer]
    /\ usage = [p \in Address |-> 0]
    /\ reply = [p \in Address |-> "none"]
    /\ late = [p \in Address |-> NoCall]
    /\ faults = [p \in Address |-> 0]
    /\ confirmed = [p \in Address |-> {}]

ProviderStep(p) == \/ RegisterReturns(p) \/ CallBeat(p) \/ BeatReturns(p)
                   \/ RetryReturns(p) \/ BackoffOver(p)

Handle(p) == EstablishServer(p) \/ SendHeartbeat(p) \/ HandleLate(p)

Next == \/ \E p \in Address : \/ StartProvider(p) \/ ProviderStep(p)
                              \/ Handle(p)
                              \/ KillProvider(p) \/ ConnectionBreaks(p)
                              \/ ConnectFails(p)
        \/ RemoveInactiveServer \/ BalancerCrash \/ BalancerStart
        \/ Tick \/ ClockJumps

\* Threads that can run do run, time passes, gRPC dispatches a call it has
\* received or fails it, and a crashed balancer is started again. Nothing is
\* assumed about starts and kills of providers, the network or the clock.
Fairness ==
    /\ \A p \in Address : /\ WF_vars(ProviderStep(p))
                          /\ WF_vars(EstablishServer(p) \/ SendHeartbeat(p))
                          /\ WF_vars(HandleLate(p))
                          /\ WF_vars(ConnectFails(p))
    /\ WF_vars(RemoveInactiveServer)
    /\ WF_vars(BalancerStart)
    /\ WF_vars(Tick)

Spec == Init /\ [][Next]_vars

FairSpec == Spec /\ Fairness

----------------------------------------------------------------------------
(* Properties. *)

\* The types, the bound of the ages, and that a call is in progress exactly where
\* the provider's thread waits for one.
TypeOK ==
    /\ servers \in Seq(ServerNode)
    /\ \A i \in DOMAIN servers : servers[i].age <= AgeCap
    /\ up \in BOOLEAN
    /\ sweepTimer \in -SweepLag .. 2 * HeartBeatRate
    /\ reboots \in 0 .. MaxReboots
    /\ skew \in 0 .. MaxSkew
    /\ pc \in [Address -> {"down", "register", "asleep", "beat", "retry", "backoff"}]
    /\ timer \in [Address -> Int]
    /\ \A p \in Address : timer[p] >= -BeatLag
    /\ offer \in [Address -> Offer]
    /\ usage \in [Address -> Load \cup {0}]
    /\ reply \in [Address -> Status \cup {"none", "pending"}]
    /\ \A p \in Address : Calling(p) <=> reply[p] # "none"
    /\ late \in [Address -> Request \cup {NoCall}]
    /\ faults \in [Address -> 0 .. MaxFaults]
    /\ confirmed \in [Address -> SUBSET (Load \cup {0})]

\* The balancer never keeps, and so never hands out, a provider it has not
\* heard of, by its clock, for more than three heartbeat periods and the
\* updater's lag; the clock may have been set in between.
BoundedSilence ==
    \A i \in DOMAIN servers : servers[i].age <= 3 * HeartBeatRate + SweepLag + skew

Once(p) == \A i, j \in DOMAIN servers :
              servers[i].address = p /\ servers[j].address = p => i = j

Entries(p) == {i \in DOMAIN servers : servers[i].address = p}

\* Every entry of a provider beyond the first is the work of a fault of its
\* own: a lost reply, a call handled late, a kill. Crashes of the balancer,
\* expired entries and registrations repeated for ever add none.
DuplicatesNeedFaults ==
    \A p \in Address : Cardinality(Entries(p)) <= 1 + faults[p]

\* The margin under which the two configured rates are compatible.
SafeMargin == BeatRate + 2 * BeatLag + MaxSkew <= HeartBeatRate

\* "remove inactive providers": a prompt provider whose calls do not fail is
\* not removed from the list as long as the balancer stays up, even if its
\* clock is set by as much as the margin allows.
PromptStaysListed ==
    [][\A p \in Prompt : Listed(servers, p) /\ faults[p] = 0 /\ up'
                            => Listed(servers', p)]_vars

\* The age of the entries is bounded by the time since the last sweep, and a
\* balancer that is down has none.
AgeInv ==
    /\ up => \A i \in DOMAIN servers :
                servers[i].age + sweepTimer <= 3 * HeartBeatRate + skew
    /\ ~up => servers = <<>> /\ sweepTimer = 2 * HeartBeatRate

\* Where a provider that had no faults may be in its protocol without being
\* listed: about to register, or told that it is not registered.
Unlisted(p) ==
    \/ pc[p] \in {"down", "backoff"}
    \/ pc[p] \in {"register", "retry"} /\ reply[p] = "pending"
    \/ reply[p] \in {"CANCELLED", "UNAVAILABLE"}

RegInv(p) ==
    faults[p] = 0 => /\ late[p] = NoCall
                     /\ Once(p)
                     /\ Unlisted(p) => ~Listed(servers, p)

\* The entries a provider may get without another fault: the one of a
\* registration it is about to make, or will make once its call has returned,
\* and the one of a registration left behind in the network.
Owed(p) == IF Unlisted(p) THEN 1 ELSE 0
LeftBehind(p) == IF late[p] # NoCall /\ late[p].kind = "Establish" THEN 1 ELSE 0

CountInv(p) ==
    /\ Cardinality(Entries(p)) + LeftBehind(p) + Owed(p) <= 1 + faults[p]
    /\ late[p] # NoCall => up /\ faults[p] > 0

\* What the last confirmed beat of p reported, also while its reply is on the way.
Confirmed(p) == IF pc[p] = "beat" /\ reply[p] = "OK" THEN {usage[p]} ELSE confirmed[p]

\* The usage of the entries of a provider without faults.
UsageInv(p) ==
    /\ faults[p] = 0 => \A u \in Confirmed(p) : \A i \in Entries(p) : servers[i].usage = u
    /\ pc[p] \in {"down", "register", "retry", "backoff"} => confirmed[p] = {}

\* The age of a prompt provider's entry against the timer of its thread.
PromptInv(p) ==
    /\ Calling(p) => timer[p] <= 0
    /\ faults[p] = 0 => \A i \in DOMAIN servers : servers[i].address = p =>
          /\ reply[p] \in {"none", "pending"}
                => servers[i].age + timer[p] <= BeatRate + BeatLag + skew
          /\ reply[p] = "OK" => servers[i].age + timer[p] <= skew

\* The inductive invariant behind BoundedSilence, DuplicatesNeedFaults,
\* UsageArrives and PromptStaysListed: how the number, the age and the usage of
\* a provider's entries, the timers of the two threads and the state of its
\* call belong together.
IndInv ==
    /\ AgeInv
    /\ \A p \in Address : RegInv(p) /\ CountInv(p) /\ UsageInv(p)
    /\ \A p \in Prompt : PromptInv(p)

\* A provider that keeps running is in the list again and again, whatever
\* crashed, expired or jumped before.
RunningIsListed ==
    \A p \in Address : <>[]Running(p) => []<>Listed(servers, p)

\* A provider that is gone for good is forgotten for good.
DeadIsForgotten ==
    \A p \in Address : <>[]~Running(p) => <>[]~Listed(servers, p)

\* Duplicate entries disappear once the faults have stopped.
DuplicatesVanish == \A p \in Address : <>[]Once(p)

\* From its first confirmed beat until it registers again, the balancer holds
\* for a provider exactly the usage that beat reported, through the unsigned
\* word of the wire, also the -1 of the sample: what the memory held is gone,
\* and no beat, sweep or registration of another provider changes it. Providers
\* whose calls were lost or that were killed are excepted.
UsageArrives ==
    \A p \in Address : faults[p] = 0 =>
       \A u \in Confirmed(p) : \A i \in Entries(p) : servers[i].usage = u

\* A provider that keeps running with an offer is listed with it, again and
\* again.
OfferIsListed ==
    \A p \in Address : \A o \in Offer :
       <>[](Running(p) /\ offer[p] = o) =>
          []<>(\E i \in DOMAIN servers : servers[i].address = p /\ servers[i].offer = o)
============================================================================
