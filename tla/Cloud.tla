-------------------------------- MODULE Cloud --------------------------------
(***************************************************************************)
(* The three programs together: a load balancer, providers that listen and *)
(* register, and clients that ask the balancer for an address when they    *)
(* are constructed and then perform all their operations there.            *)
(*                                                                         *)
(* The parts are coarse, their detail is in the modules of their own: the  *)
(* list of the balancer is a set of offers that a failed beat may repeat   *)
(* and the sweep may take away at any time (LoadBalance), its answer any   *)
(* offer that fits (FindBestServer), an operation one step                 *)
(* (ServiceProvide). What is added is who can talk to whom: each process   *)
(* is set up by a configuration file (Configuration) and uses SSL exactly  *)
(* if this names all three files. The constructors without a configuration *)
(* file are the two extremes. Processes of other balancers are not here.   *)
(***************************************************************************)
EXTENDS Configuration

CONSTANTS
    Provider,   \* the addresses of providers
    Balancer,   \* the address of the balancer
    CanListen,  \* the addresses at which BuildAndStart succeeds
    Client,
    Name,       \* the names of services
    MaxKills,   \* bound: restarts of one provider
    MaxReboots  \* bound: crashes of the balancer

ASSUME CloudAssumption ==
    /\ Provider \subseteq Value \ {Empty} /\ Balancer \in Value \ {Empty}
    /\ CanListen \subseteq Provider /\ Name # {}
    /\ MaxKills \in Nat /\ MaxReboots \in Nat

VARIABLES
    up, balancerSSL, \* the balancer: is it listening, and how
    listed,          \* servers_
    reboots,
    provider,        \* the processes of the providers
    kills,           \* how often each of them died
    client           \* the CloudClient objects

balancerVars == <<up, balancerSSL, listed, reboots>>
providerVars == <<provider, kills>>
vars == <<balancerVars, providerVars, client>>

----------------------------------------------------------------------------

\* The vector a service is in decides which calls find it.
Kind == {"models", "numbers"}

Version == ({FloatOf[v] : v \in Value} \ {Invalid}) \cup {Default.version}

\* pc: "built" is between the constructor and run(), "listens" is before the
\* call of establishServer has returned, "beats" after it; "deaf" is in place of
\* "listens" when BuildAndStart gave no server.
Process == [pc : {"off", "built", "listens", "deaf", "beats"}, ssl : BOOLEAN,
            services : [Name -> Kind \cup {"none"}], version : Version]

\* What EstablishServer is told: the names, without their kind.
Offer == [address : Provider, names : SUBSET Name, version : Version]

Object == [pc : {"none", "ready"}, ssl : BOOLEAN, services : SUBSET Name,
           version : Version, stub : Provider \cup {Empty},
           status : {"none", "OK", "CANCELLED", "UNAVAILABLE"}, name : Name, kind : Kind]

\* A process that does not run and an object that was not constructed.
Off == [pc |-> "off", ssl |-> FALSE, services |-> [n \in Name |-> "none"],
        version |-> CHOOSE v \in Version : TRUE]

NoObject == [pc |-> "none", ssl |-> FALSE, services |-> {},
             version |-> CHOOSE v \in Version : TRUE, stub |-> Empty,
             status |-> "none", name |-> CHOOSE n \in Name : TRUE, kind |-> "models"]

\* The ways the objects of this balancer come to be configured.
BalancerModes == {UsesSSL(s) : s \in {r \in Configured("balancer") : r.balancerAddress = Balancer}}

ProviderModes == {[address |-> s.providerAddress, version |-> s.version, ssl |-> UsesSSL(s)] :
                    s \in {r \in Configured("provider") : r.balancerAddress = Balancer}}

ClientModes == {[version |-> s.version, ssl |-> UsesSSL(s)] :
                  s \in {r \in Configured("client") : r.balancerAddress = Balancer}}

OfferOf(p) == [address |-> p,
               names |-> {n \in Name : provider[p].services[n] # "none"},
               version |-> provider[p].version]

Listening(p) == provider[p].pc \in {"listens", "beats"}

\* The version and every requested operation.
Fitting(services, version) ==
    {e \in listed : services \subseteq e.names /\ e.version >= version}

\* The addresses the balancer may answer with. None, the empty answer, is what
\* getServer also returns when the call fails.
GetServer(services, version) == {e.address : e \in Fitting(services, version)}

----------------------------------------------------------------------------
(* The balancer. *)

BalancerRun ==
    /\ ~up
    /\ up' = TRUE
    /\ balancerSSL' \in BalancerModes
    /\ UNCHANGED <<listed, reboots, providerVars, client>>

BalancerCrash ==
    /\ up /\ reboots < MaxReboots
    /\ up' = FALSE /\ listed' = {} /\ reboots' = reboots + 1
    /\ UNCHANGED <<balancerSSL, providerVars, client>>

\* The sweep removes an offer that was not refreshed in time.
Expire == \E e \in listed :
             /\ listed' = listed \ {e}
             /\ UNCHANGED <<up, balancerSSL, reboots, providerVars, client>>

----------------------------------------------------------------------------
(* The providers. *)

\* The constructor and the setters, which refuse a second service of a name.
BuildProvider(p) ==
    /\ provider[p].pc = "off" /\ kills[p] <= MaxKills
    /\ \E m \in ProviderModes : \E s \in [Name -> Kind \cup {"none"}] :
         /\ m.address = p
         /\ provider' = [provider EXCEPT ![p] = [pc |-> "built", ssl |-> m.ssl,
                                                 services |-> s, version |-> m.version]]
    /\ UNCHANGED <<balancerVars, kills, client>>

\* run(): BuildAndStart comes before establishServer. What it returned is not
\* looked at.
Listen(p) ==
    /\ provider[p].pc = "built"
    /\ provider' = [provider EXCEPT ![p].pc = IF p \in CanListen THEN "listens" ELSE "deaf"]
    /\ UNCHANGED <<balancerVars, kills, client>>

\* A faulty variant of EstablishServer: run() registers before it listens.
EstablishServerFirst(p) ==
    /\ up /\ provider[p].pc \in {"built", "listens", "deaf", "beats"}
    /\ provider[p].ssl = balancerSSL
    /\ listed' = listed \cup {OfferOf(p)}
    /\ UNCHANGED <<up, balancerSSL, reboots, providerVars, client>>

\* The first call, or one that follows a failed beat.
EstablishServer(p) ==
    /\ up /\ provider[p].pc \in {"listens", "deaf", "beats"}
    /\ provider[p].ssl = balancerSSL
    /\ listed' = listed \cup {OfferOf(p)}
    /\ UNCHANGED <<up, balancerSSL, reboots, providerVars, client>>

\* run() goes on whatever became of the call.
StartBeats(p) ==
    /\ provider[p].pc = "listens"
    /\ provider' = [provider EXCEPT ![p].pc = "beats"]
    /\ UNCHANGED <<balancerVars, kills, client>>

\* Without a server the second thread waits for it through a null pointer.
WaitForNoServer(p) ==
    /\ provider[p].pc = "deaf"
    /\ provider' = [provider EXCEPT ![p] = Off]
    /\ kills' = [kills EXCEPT ![p] = @ + 1]
    /\ UNCHANGED <<balancerVars, client>>

KillProvider(p) ==
    /\ provider[p].pc # "off" /\ kills[p] < MaxKills
    /\ provider' = [provider EXCEPT ![p] = Off]
    /\ kills' = [kills EXCEPT ![p] = @ + 1]
    /\ UNCHANGED <<balancerVars, client>>

----------------------------------------------------------------------------
(* The clients. *)

\* A faulty variant of Construct: an empty answer is not looked at.
ConstructUnchecked(c) ==
    /\ client[c].pc = "none"
    /\ up
    /\ \E m \in ClientModes : \E services \in (SUBSET Name) \ {{}} :
         /\ m.ssl = balancerSSL
         /\ \E a \in IF GetServer(services, m.version) = {} THEN {Empty}
                    ELSE GetServer(services, m.version) :
              client' = [client EXCEPT ![c] =
                           [NoObject EXCEPT !.pc = "ready", !.ssl = m.ssl,
                                            !.services = services, !.version = m.version,
                                            !.stub = a]]
    /\ UNCHANGED <<balancerVars, providerVars>>

\* The constructor: init or initWithSSL asks the balancer once. An empty
\* answer, or none, makes it throw: the object is not there.
Construct(c) ==
    /\ client[c].pc = "none"
    /\ up
    /\ \E m \in ClientModes : \E services \in (SUBSET Name) \ {{}} :
         /\ m.ssl = balancerSSL
         /\ \E a \in GetServer(services, m.version) :
              client' = [client EXCEPT ![c] =
                           [NoObject EXCEPT !.pc = "ready", !.ssl = m.ssl,
                                            !.services = services, !.version = m.version,
                                            !.stub = a]]
    /\ UNCHANGED <<balancerVars, providerVars>>

\* The channel to the provider has the credentials of that to the balancer.
Reaches(c) ==
    /\ Listening(client[c].stub)
    /\ provider[client[c].stub].ssl = client[c].ssl

\* One of the overloads of performOperation, for one of services_. The balancer
\* is not asked again, however often it fails.
PerformOperation(c) ==
    /\ client[c].pc = "ready"
    /\ \E n \in client[c].services : \E kind \in Kind :
         \E status \in {"OK", "CANCELLED", "UNAVAILABLE"} :
           /\ status = "UNAVAILABLE" <=> ~Reaches(c)
           /\ status = "OK" => provider[client[c].stub].services[n] = kind
           /\ status = "CANCELLED" => provider[client[c].stub].services[n] # kind
           /\ client' = [client EXCEPT ![c].status = status, ![c].name = n,
                                       ![c].kind = kind]
    /\ UNCHANGED <<balancerVars, providerVars>>

\* The program drops the object.
Destroy(c) ==
    /\ client[c].pc = "ready"
    /\ client' = [client EXCEPT ![c] = NoObject]
    /\ UNCHANGED <<balancerVars, providerVars>>

----------------------------------------------------------------------------

Init ==
    /\ up = FALSE /\ balancerSSL = FALSE /\ listed = {} /\ reboots = 0
    /\ provider = [p \in Provider |-> Off]
    /\ client = [c \in Client |-> NoObject]
    /\ kills = [p \in Provider |-> 0]

Next == \/ BalancerRun \/ BalancerCrash \/ Expire
        \/ \E p \in Provider : \/ BuildProvider(p) \/ Listen(p) \/ EstablishServer(p)
                               \/ StartBeats(p) \/ WaitForNoServer(p) \/ KillProvider(p)
        \/ \E c \in Client : Construct(c) \/ PerformOperation(c) \/ Destroy(c)

Spec == Init /\ [][Next]_vars

----------------------------------------------------------------------------
(* Properties. *)

\* The types; a client that was constructed has an address.
TypeOK ==
    /\ up \in BOOLEAN /\ balancerSSL \in BOOLEAN
    /\ listed \subseteq Offer
    /\ reboots \in 0 .. MaxReboots
    /\ provider \in [Provider -> Process]
    /\ kills \in [Provider -> 0 .. MaxKills + 1]
    /\ client \in [Client -> Object]
    /\ \A c \in Client : client[c].pc = "ready" => client[c].stub # Empty

\* A client that was constructed reaches a server: the provider it was given
\* handles its calls unless it was killed since.
OperationsHandled ==
    \A c \in Client : client[c].status = "UNAVAILABLE" => kills[client[c].stub] > 0

\* A client that was constructed is served: as long as its provider got its port
\* and has not been killed, every operation it was constructed for reaches the
\* provider, which is of the version asked for and knows the operation, and it
\* is performed if it is called in its kind. The balancer compares names only,
\* so one called in the other kind is refused.
OperationsServed ==
    \A c \in {o \in Client : client[o].status # "none" /\ client[o].stub \in CanListen} :
       kills[client[c].stub] = 0 =>
          /\ client[c].status # "UNAVAILABLE"
          /\ provider[client[c].stub].services[client[c].name] # "none"
          /\ provider[client[c].stub].version >= client[c].version
          /\ client[c].status = "CANCELLED" =>
                provider[client[c].stub].services[client[c].name] # client[c].kind

\* The programs that have been set up.
SetUp == {program \in Program : \/ program = "balancer" /\ up
                                \/ program = "provider" /\ \E p \in Provider : provider[p].pc # "off"
                                \/ program = "client" /\ \E c \in Client : client[c].pc = "ready"}

\* A program that was set up has the value of the last line of each of its keys,
\* whatever other lines, also those of the other programs, stand in between, and
\* no line of its file was a number that does not parse.
LastLineCounts == SetUp \subseteq RightlyConfigured

\* One file can be given to all three programs: the balancer that was set up with
\* it, its providers and its clients find each other and talk in one mode.
SameFileAgrees == SetUp \subseteq Agreeing
==============================================================================
