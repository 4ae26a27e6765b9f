----------------------------- MODULE Cloud_proofs -----------------------------
(***************************************************************************)
(* Proofs about Cloud, for any number of providers, clients and services,  *)
(* any configuration files and any bounds on kills and crashes.            *)
(***************************************************************************)
EXTENDS Cloud, Configuration_proofs

----------------------------------------------------------------------------
(* The shape of the state: what a version is does not matter here. *)

IsProcess(r) == r = [pc |-> r.pc, ssl |-> r.ssl, services |-> r.services, version |-> r.version]

IsObject(r) == r = [pc |-> r.pc, ssl |-> r.ssl, services |-> r.services, version |-> r.version,
                    stub |-> r.stub, status |-> r.status, name |-> r.name, kind |-> r.kind]

Shape == /\ DOMAIN provider = Provider /\ provider = [p \in Provider |-> provider[p]]
         /\ \A p \in Provider : IsProcess(provider[p])
         /\ kills \in [Provider -> Nat]
         /\ DOMAIN client = Client /\ client = [c \in Client |-> client[c]]
         /\ \A c \in Client : IsObject(client[c])

\* The provider was told to register: it is past BuildAndStart.
Registers(p) == provider[p].pc \in {"listens", "deaf", "beats"}

\* What can happen to the process of a provider in one step.
Life(p) ==
    \/ provider'[p] = provider[p] /\ kills'[p] = kills[p]
    \/ /\ provider[p].pc = "off" /\ provider'[p].pc = "built" /\ kills'[p] = kills[p]
    \/ /\ \/ /\ provider[p].pc = "built"
             /\ provider'[p].pc = IF p \in CanListen THEN "listens" ELSE "deaf"
          \/ provider[p].pc = "listens" /\ provider'[p].pc = "beats"
       /\ provider'[p].ssl = provider[p].ssl
       /\ provider'[p].services = provider[p].services
       /\ provider'[p].version = provider[p].version
       /\ kills'[p] = kills[p]
    \/ provider'[p].pc = "off" /\ kills'[p] = kills[p] + 1

ProviderAction(p) == \/ BuildProvider(p) \/ Listen(p) \/ StartBeats(p)
                     \/ WaitForNoServer(p) \/ KillProvider(p)

LEMMA OffShape == IsProcess(Off) /\ Off.pc = "off"
BY DEF Off, IsProcess

LEMMA ProviderActionLife ==
    ASSUME Shape, NEW p \in Provider, ProviderAction(p)
    PROVE  /\ DOMAIN provider' = Provider /\ provider' = [q \in Provider |-> provider'[q]]
           /\ kills' \in [Provider -> Nat]
           /\ \A q \in Provider : Life(q) /\ IsProcess(provider'[q])
           /\ UNCHANGED <<balancerVars, client>>
<1>1. /\ DOMAIN provider = Provider /\ kills \in [Provider -> Nat]
      /\ \A q \in Provider : IsProcess(provider[q])
  BY DEF Shape
<1>2. CASE BuildProvider(p)
  <2>1. PICK m \in ProviderModes, s \in [Name -> Kind \cup {"none"}] :
           provider' = [provider EXCEPT ![p] = [pc |-> "built", ssl |-> m.ssl,
                                                services |-> s, version |-> m.version]]
    BY <1>2 DEF BuildProvider
  <2>2. provider[p].pc = "off" /\ UNCHANGED <<balancerVars, kills, client>>
    BY <1>2 DEF BuildProvider
  <2> QED
    BY <1>1, <2>1, <2>2 DEF Life, IsProcess
<1>3. CASE Listen(p) \/ StartBeats(p)
  <2>1. PICK at : /\ provider' = [provider EXCEPT ![p].pc = at]
                  /\ \/ /\ provider[p].pc = "built"
                        /\ at = IF p \in CanListen THEN "listens" ELSE "deaf"
                     \/ provider[p].pc = "listens" /\ at = "beats"
                  /\ UNCHANGED <<balancerVars, kills, client>>
    BY <1>3 DEF Listen, StartBeats
  <2>2. provider[p] = [pc |-> provider[p].pc, ssl |-> provider[p].ssl,
                       services |-> provider[p].services, version |-> provider[p].version]
    BY <1>1 DEF IsProcess
  <2>3. provider'[p] = [pc |-> at, ssl |-> provider[p].ssl,
                        services |-> provider[p].services, version |-> provider[p].version]
    BY <1>1, <2>1, <2>2
  <2>4. /\ DOMAIN provider' = Provider /\ provider' = [q \in Provider |-> provider'[q]]
        /\ \A q \in Provider : q # p => provider'[q] = provider[q]
    BY <1>1, <2>1
  <2> QED
    BY <1>1, <2>1, <2>3, <2>4 DEF Life, IsProcess
<1>4. CASE WaitForNoServer(p) \/ KillProvider(p)
  <2>1. /\ provider' = [provider EXCEPT ![p] = Off]
        /\ kills' = [kills EXCEPT ![p] = @ + 1]
        /\ UNCHANGED <<balancerVars, client>>
    BY <1>4 DEF WaitForNoServer, KillProvider
  <2>2. /\ DOMAIN provider' = Provider /\ provider' = [q \in Provider |-> provider'[q]]
        /\ provider'[p] = Off /\ \A q \in Provider : q # p => provider'[q] = provider[q]
    BY <1>1, <2>1
  <2>3. /\ kills' \in [Provider -> Nat] /\ kills'[p] = kills[p] + 1
        /\ \A q \in Provider : q # p => kills'[q] = kills[q]
    BY <1>1, <2>1
  <2>4. \A q \in Provider : Life(q) /\ IsProcess(provider'[q])
    BY <1>1, <2>2, <2>3, OffShape DEF Life
  <2> QED
    BY <2>1, <2>2, <2>3, <2>4
<1> QED
  BY <1>2, <1>3, <1>4 DEF ProviderAction

ClientAction(c) == Construct(c) \/ PerformOperation(c) \/ Destroy(c)

\* What PerformOperation and Construct write.
Changed(r, status, n, kind) == [r EXCEPT !.status = status, !.name = n, !.kind = kind]

Made(ssl, services, version, a) ==
    [NoObject EXCEPT !.pc = "ready", !.ssl = ssl, !.services = services,
                     !.version = version, !.stub = a]

LEMMA FieldsChanged ==
    ASSUME NEW r, IsObject(r), NEW status, NEW n, NEW kind
    PROVE  /\ IsObject(Changed(r, status, n, kind))
           /\ Changed(r, status, n, kind) =
                [pc |-> r.pc, ssl |-> r.ssl, services |-> r.services, version |-> r.version,
                 stub |-> r.stub, status |-> status, name |-> n, kind |-> kind]
<1> DEFINE s == [r EXCEPT !.status = status]
           t == [s EXCEPT !.name = n]
           u == [t EXCEPT !.kind = kind]
<1>1. r = [pc |-> r.pc, ssl |-> r.ssl, services |-> r.services, version |-> r.version,
           stub |-> r.stub, status |-> r.status, name |-> r.name, kind |-> r.kind]
  BY DEF IsObject
<1>2. s = [pc |-> r.pc, ssl |-> r.ssl, services |-> r.services, version |-> r.version,
           stub |-> r.stub, status |-> status, name |-> r.name, kind |-> r.kind]
  BY <1>1
<1> HIDE DEF s
<1>3. t = [pc |-> r.pc, ssl |-> r.ssl, services |-> r.services, version |-> r.version,
           stub |-> r.stub, status |-> status, name |-> n, kind |-> r.kind]
  BY <1>2
<1> HIDE DEF t
<1>4. u = [pc |-> r.pc, ssl |-> r.ssl, services |-> r.services, version |-> r.version,
           stub |-> r.stub, status |-> status, name |-> n, kind |-> kind]
  BY <1>3
<1>5. Changed(r, status, n, kind) = u
  BY DEF s, t, Changed
<1> QED
  BY <1>4, <1>5 DEF IsObject

LEMMA NoObjectShape == IsObject(NoObject) /\ NoObject.pc = "none" /\ NoObject.status = "none"
BY DEF NoObject, IsObject

\* What the constructor makes.
LEMMA ObjectMade ==
    ASSUME NEW ssl, NEW services, NEW version, NEW a
    PROVE  Made(ssl, services, version, a) =
             [pc |-> "ready", ssl |-> ssl, services |-> services, version |-> version,
              stub |-> a, status |-> "none", name |-> NoObject.name, kind |-> NoObject.kind]
<1> DEFINE r == NoObject
           s == [r EXCEPT !.pc = "ready"]
           t == [s EXCEPT !.ssl = ssl]
           u == [t EXCEPT !.services = services]
           v == [u EXCEPT !.version = version]
           w == [v EXCEPT !.stub = a]
<1>1. r = [pc |-> r.pc, ssl |-> r.ssl, services |-> r.services, version |-> r.version,
           stub |-> r.stub, status |-> "none", name |-> r.name, kind |-> r.kind]
  BY NoObjectShape DEF IsObject
<1>2. Made(ssl, services, version, a) = w
  BY DEF Made
<1> HIDE DEF r
<1>3. s = [pc |-> "ready", ssl |-> r.ssl, services |-> r.services, version |-> r.version,
           stub |-> r.stub, status |-> "none", name |-> r.name, kind |-> r.kind]
  BY <1>1
<1> HIDE DEF s
<1>4. t = [pc |-> "ready", ssl |-> ssl, services |-> r.services, version |-> r.version,
           stub |-> r.stub, status |-> "none", name |-> r.name, kind |-> r.kind]
  BY <1>3
<1> HIDE DEF t
<1>5. u = [pc |-> "ready", ssl |-> ssl, services |-> services, version |-> r.version,
           stub |-> r.stub, status |-> "none", name |-> r.name, kind |-> r.kind]
  BY <1>4
<1> HIDE DEF u
<1>6. v = [pc |-> "ready", ssl |-> ssl, services |-> services, version |-> version,
           stub |-> r.stub, status |-> "none", name |-> r.name, kind |-> r.kind]
  BY <1>5
<1> HIDE DEF v
<1>7. w = [pc |-> "ready", ssl |-> ssl, services |-> services, version |-> version,
           stub |-> a, status |-> "none", name |-> r.name, kind |-> r.kind]
  BY <1>6
<1> QED
  BY <1>2, <1>7 DEF r

\* What can happen to a client in one step.
Call(c) ==
    \/ client'[c] = client[c]
    \/ client[c].pc = "none" /\ client'[c].pc = "ready" /\ client'[c].status = "none"
       /\ \E e \in listed : /\ client'[c].stub = e.address
                            /\ client'[c].services \subseteq e.names
                            /\ e.version >= client'[c].version
                            /\ client'[c].ssl = balancerSSL
    \/ /\ client[c].pc = "ready" /\ client'[c].pc = "ready"
       /\ client'[c].ssl = client[c].ssl /\ client'[c].services = client[c].services
       /\ client'[c].version = client[c].version /\ client'[c].stub = client[c].stub
       /\ client'[c].name \in client[c].services
       /\ client'[c].status \in {"OK", "CANCELLED", "UNAVAILABLE"}
       /\ client'[c].status = "UNAVAILABLE" <=> ~Reaches(c)
       /\ client'[c].status = "CANCELLED" =>
             provider[client[c].stub].services[client'[c].name] # client'[c].kind
    \/ client'[c].pc = "none" /\ client'[c].status = "none"

LEMMA ClientActionCall ==
    ASSUME Shape, NEW c \in Client, ClientAction(c)
    PROVE  /\ DOMAIN client' = Client /\ client' = [d \in Client |-> client'[d]]
           /\ \A d \in Client : Call(d) /\ IsObject(client'[d])
           /\ UNCHANGED <<balancerVars, providerVars>>
<1>1. /\ DOMAIN client = Client /\ client = [d \in Client |-> client[d]]
      /\ \A d \in Client : IsObject(client[d])
  BY DEF Shape
<1>2. ASSUME NEW o, IsObject(o), client' = [client EXCEPT ![c] = o]
      PROVE  /\ DOMAIN client' = Client /\ client' = [d \in Client |-> client'[d]]
             /\ client'[c] = o
             /\ \A d \in Client : d # c => client'[d] = client[d]
             /\ \A d \in Client : IsObject(client'[d])
  BY <1>1, <1>2
<1>3. CASE Construct(c)
  <2>1. PICK m \in ClientModes, services \in (SUBSET Name) \ {{}} :
          /\ m.ssl = balancerSSL
          /\ \E a \in GetServer(services, m.version) :
               client' = [client EXCEPT ![c] =
                            [NoObject EXCEPT !.pc = "ready", !.ssl = m.ssl,
                                             !.services = services, !.version = m.version,
                                             !.stub = a]]
    BY <1>3 DEF Construct
  <2>2. PICK a \in GetServer(services, m.version) :
          client' = [client EXCEPT ![c] = Made(m.ssl, services, m.version, a)]
    BY <2>1 DEF Made
  <2>3. PICK e \in listed : /\ a = e.address /\ services \subseteq e.names
                            /\ e.version >= m.version
    BY DEF GetServer, Fitting
  <2> DEFINE o == [pc |-> "ready", ssl |-> m.ssl, services |-> services,
                   version |-> m.version, stub |-> a, status |-> "none",
                   name |-> NoObject.name, kind |-> NoObject.kind]
  <2>7. Made(m.ssl, services, m.version, a) = o
    BY ObjectMade
  <2>4. client' = [client EXCEPT ![c] = o] /\ IsObject(o)
    <3>1. client' = [client EXCEPT ![c] = o]
      BY <2>2, <2>7, Zenon
    <3>2. IsObject(o)
      BY DEF IsObject
    <3> QED
      BY <3>1, <3>2
  <2>5. /\ o.pc = "ready" /\ o.status = "none" /\ o.stub = e.address
        /\ o.services \subseteq e.names /\ e.version >= o.version /\ o.ssl = balancerSSL
    BY <2>1, <2>3
  <2>6. client[c].pc = "none" /\ UNCHANGED <<balancerVars, providerVars>>
    BY <1>3 DEF Construct
  <2> HIDE DEF o
  <2> QED
    BY <1>2, <2>4, <2>5, <2>6 DEF Call
<1>4. CASE PerformOperation(c)
  <2>1. PICK n \in client[c].services, kind \in Kind,
             status \in {"OK", "CANCELLED", "UNAVAILABLE"} :
          /\ status = "UNAVAILABLE" <=> ~Reaches(c)
          /\ status = "CANCELLED" => provider[client[c].stub].services[n] # kind
          /\ client' = [client EXCEPT ![c].status = status, ![c].name = n, ![c].kind = kind]
    BY <1>4 DEF PerformOperation
  <2> DEFINE o == Changed(client[c], status, n, kind)
  <2>2. client' = [client EXCEPT ![c] = o]
    BY <1>1, <2>1 DEF Changed
  <2>3. /\ IsObject(o)
        /\ o = [pc |-> client[c].pc, ssl |-> client[c].ssl, services |-> client[c].services,
                version |-> client[c].version, stub |-> client[c].stub,
                status |-> status, name |-> n, kind |-> kind]
    <3>1. IsObject(client[c])
      BY <1>1
    <3> QED
      BY <3>1, FieldsChanged
  <2> HIDE DEF o
  <2>4. /\ o.pc = client[c].pc /\ o.ssl = client[c].ssl /\ o.services = client[c].services
        /\ o.version = client[c].version /\ o.stub = client[c].stub
        /\ o.status = status /\ o.name = n /\ o.kind = kind
    BY <2>3
  <2>5. client[c].pc = "ready" /\ UNCHANGED <<balancerVars, providerVars>>
    BY <1>4 DEF PerformOperation
  <2>6. Call(c)
    BY <1>2, <2>1, <2>2, <2>3, <2>4, <2>5 DEF Call
  <2> QED
    BY <1>2, <2>2, <2>3, <2>5, <2>6 DEF Call
<1>5. CASE Destroy(c)
  <2>1. client' = [client EXCEPT ![c] = NoObject] /\ UNCHANGED <<balancerVars, providerVars>>
    BY <1>5 DEF Destroy
  <2> QED
    BY <1>2, <2>1, NoObjectShape DEF Call
<1> QED
  BY <1>3, <1>4, <1>5 DEF ClientAction

----------------------------------------------------------------------------
(* The invariant. *)

\* An offer in the list is that of a provider that listens, or tried to, in the
\* balancer's mode, unless the provider was killed since.
OfferKept(e) ==
    /\ e.address \in Provider
    /\ kills[e.address] = 0 => /\ Registers(e.address)
                               /\ provider[e.address].ssl = balancerSSL
                               /\ e = OfferOf(e.address)

\* So is the address a client got from there, for the rest of its life.
StubKept(c) ==
    client[c].pc = "ready" =>
       /\ client[c].stub \in Provider
       /\ kills[client[c].stub] = 0 =>
             /\ Registers(client[c].stub)
             /\ provider[client[c].stub].ssl = client[c].ssl
             /\ \A n \in client[c].services : provider[client[c].stub].services[n] # "none"
             /\ provider[client[c].stub].version >= client[c].version

StatusKept(c) ==
    client[c].status # "none" =>
       /\ client[c].pc = "ready" /\ client[c].name \in client[c].services
       /\ client[c].stub \in CanListen /\ kills[client[c].stub] = 0 =>
             /\ client[c].status # "UNAVAILABLE"
             /\ client[c].status = "CANCELLED" =>
                   provider[client[c].stub].services[client[c].name] # client[c].kind

ServiceInv ==
    /\ Shape
    /\ ~up => listed = {}
    /\ \A p \in CanListen : provider[p].pc # "deaf"
    /\ \A e \in listed : OfferKept(e)
    /\ \A c \in Client : StubKept(c) /\ StatusKept(c)

LEMMA ServiceInit == Init => ServiceInv
<1> SUFFICES ASSUME Init PROVE ServiceInv
  OBVIOUS
<1>1. Shape
  BY OffShape, NoObjectShape DEF Init, Shape
<1>2. \A p \in CanListen : provider[p].pc # "deaf"
  BY CloudAssumption, OffShape DEF Init
<1>3. \A c \in Client : StubKept(c) /\ StatusKept(c)
  BY NoObjectShape DEF Init, StubKept, StatusKept
<1>4. (~up => listed = {}) /\ \A e \in listed : OfferKept(e)
  BY DEF Init
<1> QED
  BY <1>1, <1>2, <1>3, <1>4 DEF ServiceInv

\* A provider that registered and is not killed stays what it is.
LEMMA StaysRegistered ==
    ASSUME Shape, NEW p \in Provider, Life(p), kills'[p] = 0
    PROVE  /\ kills[p] = 0
           /\ Registers(p) => /\ Registers(p)'
                              /\ provider'[p].ssl = provider[p].ssl
                              /\ provider'[p].services = provider[p].services
                              /\ provider'[p].version = provider[p].version
                              /\ OfferOf(p)' = OfferOf(p)
<1>1. kills[p] \in Nat
  BY DEF Shape
<1>2. kills[p] = 0
  BY <1>1 DEF Life
<1>3. ASSUME Registers(p)
      PROVE  /\ Registers(p)'
             /\ provider'[p].ssl = provider[p].ssl
             /\ provider'[p].services = provider[p].services
             /\ provider'[p].version = provider[p].version
  BY <1>1, <1>2, <1>3 DEF Life, Registers
<1> QED
  BY <1>2, <1>3 DEF OfferOf

\* The part of the invariant that other steps than those of clients can disturb.
LEMMA ProvidersKeep ==
    ASSUME ServiceInv, UNCHANGED client, Shape',
           \A p \in Provider : Life(p)
    PROVE  /\ \A p \in CanListen : provider'[p].pc # "deaf"
           /\ \A c \in Client : StubKept(c)' /\ StatusKept(c)'
<1>1. Shape /\ CanListen \subseteq Provider
  BY CloudAssumption DEF ServiceInv
<1>2. \A p \in CanListen : provider'[p].pc # "deaf"
  BY <1>1 DEF ServiceInv, Life
<1>3. ASSUME NEW c \in Client
      PROVE  StubKept(c)'
  <2>1. StubKept(c)
    BY DEF ServiceInv
  <2>2. CASE client[c].pc = "ready"
    <3>1. client[c].stub \in Provider
      BY <2>1, <2>2 DEF StubKept
    <3>2. CASE kills'[client[c].stub] # 0
      BY <3>1, <3>2 DEF StubKept
    <3>3. CASE kills'[client[c].stub] = 0
      BY <1>1, <2>1, <2>2, <3>1, <3>3, StaysRegistered DEF StubKept
    <3> QED
      BY <3>2, <3>3
  <2> QED
    BY <2>2 DEF StubKept
<1>4. ASSUME NEW c \in Client
      PROVE  StatusKept(c)'
  <2>1. StubKept(c) /\ StatusKept(c)
    BY DEF ServiceInv
  <2>2. CASE client[c].status # "none"
    <3>1. client[c].pc = "ready" /\ client[c].stub \in Provider
      BY <2>1, <2>2 DEF StubKept, StatusKept
    <3>2. CASE kills'[client[c].stub] # 0
      BY <2>1, <2>2, <3>1, <3>2 DEF StatusKept
    <3>3. CASE kills'[client[c].stub] = 0
      <4>1. /\ kills[client[c].stub] = 0
            /\ provider'[client[c].stub].services = provider[client[c].stub].services
        BY <1>1, <2>1, <3>1, <3>3, StaysRegistered DEF StubKept
      <4> QED
        BY <2>1, <2>2, <3>1, <4>1 DEF StatusKept
    <3> QED
      BY <3>2, <3>3
  <2> QED
    BY <2>2 DEF StatusKept
<1> QED
  BY <1>2, <1>3, <1>4

\* A step of the balancer or of the registration leaves processes alone.
LEMMA NothingHappens ==
    ASSUME Shape, UNCHANGED <<provider, kills, client>>
    PROVE  Shape' /\ \A p \in Provider : Life(p)
BY DEF Shape, Life

LEMMA ServiceStep == ServiceInv /\ [Next]_vars => ServiceInv'
<1> SUFFICES ASSUME ServiceInv, [Next]_vars PROVE ServiceInv'
  OBVIOUS
<1>1. /\ Shape /\ CanListen \subseteq Provider
      /\ ~up => listed = {}
      /\ \A e \in listed : OfferKept(e)
      /\ \A c \in Client : StubKept(c) /\ StatusKept(c)
  BY CloudAssumption DEF ServiceInv
<1>2. CASE BalancerRun \/ BalancerCrash \/ Expire \/ UNCHANGED vars
  <2>1. UNCHANGED <<provider, kills, client>>
    BY <1>2 DEF BalancerRun, BalancerCrash, Expire, providerVars, vars, balancerVars
  <2>2. Shape' /\ \A p \in Provider : Life(p)
    BY <1>1, <2>1, NothingHappens
  <2>3. /\ ~up' => listed' = {}
        /\ listed' \subseteq listed
        /\ listed' # {} => balancerSSL' = balancerSSL
    BY <1>1, <1>2 DEF BalancerRun, BalancerCrash, Expire, vars, balancerVars
  <2>4. \A e \in listed' : OfferKept(e)'
    BY <1>1, <2>1, <2>3 DEF OfferKept, Registers, OfferOf
  <2> QED
    BY <2>1, <2>2, <2>3, <2>4, ProvidersKeep DEF ServiceInv
<1>3. CASE \E p \in Provider : EstablishServer(p)
  <2>1. PICK p \in Provider : EstablishServer(p)
    BY <1>3
  <2>2. /\ UNCHANGED <<provider, kills, client, balancerSSL>>
        /\ up' = up /\ up /\ listed' = listed \cup {OfferOf(p)}
        /\ Registers(p) /\ provider[p].ssl = balancerSSL
    BY <2>1 DEF EstablishServer, Registers, providerVars
  <2>3. Shape' /\ \A q \in Provider : Life(q)
    BY <1>1, <2>2, NothingHappens
  <2>4. OfferOf(p).address = p
    BY DEF OfferOf
  <2>5. \A e \in listed' : OfferKept(e)
    BY <1>1, <2>2, <2>4 DEF OfferKept
  <2>6. \A e \in listed' : OfferKept(e)'
    BY <2>2, <2>5 DEF OfferKept, Registers, OfferOf
  <2> QED
    BY <2>2, <2>3, <2>6, ProvidersKeep DEF ServiceInv
<1>4. CASE \E p \in Provider : ProviderAction(p)
  <2>1. PICK p \in Provider : ProviderAction(p)
    BY <1>4
  <2>2. /\ DOMAIN provider' = Provider /\ provider' = [q \in Provider |-> provider'[q]]
        /\ kills' \in [Provider -> Nat]
        /\ \A q \in Provider : Life(q) /\ IsProcess(provider'[q])
        /\ UNCHANGED <<balancerVars, client>>
    BY <1>1, <2>1, ProviderActionLife
  <2>3. UNCHANGED <<up, listed, balancerSSL, client>>
    BY <2>2 DEF balancerVars
  <2>4. Shape'
    BY <1>1, <2>2, <2>3 DEF Shape, IsProcess, IsObject
  <2>5. ASSUME NEW e \in listed'
        PROVE  OfferKept(e)'
    <3>1. OfferKept(e) /\ e.address \in Provider
      BY <1>1, <2>3 DEF OfferKept
    <3>2. CASE kills'[e.address] # 0
      BY <3>1, <3>2 DEF OfferKept
    <3>3. CASE kills'[e.address] = 0
      BY <1>1, <2>2, <2>3, <3>1, <3>3, StaysRegistered DEF OfferKept
    <3> QED
      BY <3>2, <3>3
  <2> QED
    BY <1>1, <2>2, <2>3, <2>4, <2>5, ProvidersKeep DEF ServiceInv
<1>5. CASE \E c \in Client : ClientAction(c)
  <2>1. PICK c \in Client : ClientAction(c)
    BY <1>5
  <2>2. /\ DOMAIN client' = Client /\ client' = [d \in Client |-> client'[d]]
        /\ \A d \in Client : Call(d) /\ IsObject(client'[d])
        /\ UNCHANGED <<up, listed, balancerSSL, provider, kills>>
    BY <1>1, <2>1, ClientActionCall DEF balancerVars, providerVars
  <2>3. Shape'
    BY <1>1, <2>2 DEF Shape, IsProcess, IsObject
  <2>4. \A e \in listed' : OfferKept(e)'
    BY <1>1, <2>2 DEF OfferKept, Registers, OfferOf
  <2>5. ASSUME NEW d \in Client
        PROVE  StubKept(d)' /\ StatusKept(d)'
    <3>1. StubKept(d) /\ StatusKept(d) /\ Call(d)
      BY <1>1, <2>2
    <3>2. CASE client'[d] = client[d]
      BY <2>2, <3>1, <3>2 DEF StubKept, StatusKept, Registers
    <3>3. CASE client'[d].pc = "none" /\ client'[d].status = "none"
      BY <3>3 DEF StubKept, StatusKept
    <3>4. CASE /\ client'[d].pc = "ready" /\ client'[d].status = "none"
               /\ \E e \in listed : /\ client'[d].stub = e.address
                                    /\ client'[d].services \subseteq e.names
                                    /\ e.version >= client'[d].version
                                    /\ client'[d].ssl = balancerSSL
      <4>1. PICK e \in listed : /\ client'[d].stub = e.address
                                /\ client'[d].services \subseteq e.names
                                /\ e.version >= client'[d].version
                                /\ client'[d].ssl = balancerSSL
        BY <3>4
      <4>2. OfferKept(e)
        BY <1>1
      <4>3. ASSUME kills[e.address] = 0
            PROVE  /\ e.names = {n \in Name : provider[e.address].services[n] # "none"}
                   /\ e.version = provider[e.address].version
        BY <4>2, <4>3 DEF OfferKept, OfferOf
      <4>4. StubKept(d)'
        BY <2>2, <3>4, <4>1, <4>2, <4>3 DEF StubKept, OfferKept, Registers
      <4> QED
        BY <3>4, <4>4 DEF StatusKept
    <3>5. CASE /\ client[d].pc = "ready" /\ client'[d].pc = "ready"
               /\ client'[d].ssl = client[d].ssl /\ client'[d].services = client[d].services
               /\ client'[d].version = client[d].version /\ client'[d].stub = client[d].stub
               /\ client'[d].name \in client[d].services
               /\ client'[d].status \in {"OK", "CANCELLED", "UNAVAILABLE"}
               /\ client'[d].status = "UNAVAILABLE" <=> ~Reaches(d)
               /\ client'[d].status = "CANCELLED" =>
                     provider[client[d].stub].services[client'[d].name] # client'[d].kind
      <4>1. StubKept(d)'
        BY <2>2, <3>1, <3>5 DEF StubKept, Registers
      <4>2. ASSUME client[d].stub \in CanListen, kills[client[d].stub] = 0
            PROVE  Reaches(d)
        BY <3>1, <3>5, <4>2 DEF StubKept, Registers, Reaches, Listening, ServiceInv
      <4>3. StatusKept(d)'
        BY <2>2, <3>5, <4>2 DEF StatusKept
      <4> QED
        BY <4>1, <4>3
    <3> QED
      BY <3>1, <3>2, <3>3, <3>4, <3>5 DEF Call
  <2> QED
    BY <2>2, <2>3, <2>4, <2>5 DEF ServiceInv
<1> QED
  BY <1>2, <1>3, <1>4, <1>5 DEF Next, ProviderAction, ClientAction

----------------------------------------------------------------------------

LEMMA ServiceInvariant == Spec => []ServiceInv
BY ServiceInit, ServiceStep, PTL DEF Spec

\* Whatever the configuration files, the number of processes and the order in
\* which they start: as long as its provider got its port and was not killed, a
\* client that could be constructed reaches it, and what it finds there is what
\* findBestServer compared.
THEOREM ClientsAreServed == Spec => []OperationsServed
<1>1. ServiceInv => OperationsServed
  <2> SUFFICES ASSUME ServiceInv,
                      NEW c \in {o \in Client : /\ client[o].status # "none"
                                                /\ client[o].stub \in CanListen},
                      kills[client[c].stub] = 0
               PROVE  /\ client[c].status # "UNAVAILABLE"
                      /\ provider[client[c].stub].services[client[c].name] # "none"
                      /\ provider[client[c].stub].version >= client[c].version
                      /\ client[c].status = "CANCELLED" =>
                            provider[client[c].stub].services[client[c].name] # client[c].kind
    BY DEF OperationsServed
  <2>1. StubKept(c) /\ StatusKept(c)
    BY DEF ServiceInv
  <2> QED
    BY <2>1 DEF StubKept, StatusKept
<1> QED
  BY <1>1, ServiceInvariant, PTL

----------------------------------------------------------------------------
(* The types. *)

\* A process that runs may die once more, also after its last restart.
Mortal(p) == provider[p].pc # "off" => kills[p] <= MaxKills

Typed == TypeOK /\ \A p \in Provider : Mortal(p)

\* What the objects that come to be were told.
LEMMA VersionIsTyped ==
    ASSUME NEW program \in Program, NEW s \in Configured(program)
    PROVE  s.version \in Version
<1>1. PICK file \in Files : s = Parse(program, file) /\ Accepts(program, s)
  BY DEF Configured
<1>2. file \in Seq(Line) /\ ~s.threw /\ "version" \in Key
  BY <1>1, ConfigurationAssumption DEF Accepts, Key
<1> HIDE DEF Key
<1>3. s["version"] = Meaning(program, file, "version") /\ ~Spoiled(program, file)
  BY <1>1, <1>2, ParseIsMeaning
<1>4. CASE "version" \notin ReadBy(program) \/ LinesOf(file, {"version"}) = {}
  BY <1>3, <1>4 DEF Meaning, Version
<1>5. CASE "version" \in ReadBy(program) /\ LinesOf(file, {"version"}) # {}
  <2> DEFINE mine == LinesOf(file, {"version"})
             last == CHOOSE i \in mine : \A j \in mine : j <= i
  <2>1. PICK i \in 1 .. Len(file) : IsLast(file, Len(file), "version", i)
                                    /\ s["version"] = Converted(file[i])
    <3>1. Right(program, file, Len(file), s)
      BY <1>1, <1>2, LoopIsRight
    <3>2. HasMeaning(program, file, Len(file), "version", s["version"])
      BY <1>2, <3>1 DEF Right
    <3>3. DOMAIN file = 1 .. Len(file)
      BY <1>2
    <3>4. \E i \in 1 .. Len(file) : file[i].key = "version"
      BY <1>5, <3>3 DEF LinesOf
    <3> QED
      BY <1>5, <3>2, <3>4 DEF HasMeaning
  <2>2. file[i] \in Line /\ file[i].key = "version" /\ i \in DOMAIN file
    BY <1>2, <2>1 DEF IsLast
  <2>3. Converted(file[i]) # Invalid /\ Converted(file[i]) = FloatOf[file[i].value]
    BY <1>3, <1>5, <2>2 DEF Spoiled, LinesOf, Converted
  <2> QED
    BY <2>1, <2>2, <2>3 DEF Version, Line
<1> QED
  BY <1>4, <1>5

LEMMA ModesAreTyped ==
    /\ BalancerModes \subseteq BOOLEAN
    /\ \A m \in ProviderModes : m.ssl \in BOOLEAN /\ m.version \in Version
    /\ \A m \in ClientModes : m.ssl \in BOOLEAN /\ m.version \in Version
<1>1. "provider" \in Program /\ "client" \in Program
  BY DEF Program
<1>2. \A s : UsesSSL(s) \in BOOLEAN
  BY DEF UsesSSL
<1>3. \A s \in Configured("provider") \cup Configured("client") : s.version \in Version
  BY <1>1, VersionIsTyped
<1> QED
  BY <1>2, <1>3 DEF BalancerModes, ProviderModes, ClientModes

LEMMA OffIsTyped == Off \in Process /\ NoObject \in Object
<1>1. Default.version \in Version
  BY DEF Version
<1>2. (CHOOSE v \in Version : TRUE) \in Version
  BY <1>1
<1>3. (CHOOSE n \in Name : TRUE) \in Name
  BY CloudAssumption
<1> QED
  BY <1>2, <1>3 DEF Off, NoObject, Process, Object, Kind

LEMMA TypedInit == Init => Typed
<1> SUFFICES ASSUME Init PROVE Typed
  OBVIOUS
<1>1. MaxKills \in Nat /\ MaxReboots \in Nat
  BY CloudAssumption
<1>2. NoObject.pc = "none" /\ Off.pc = "off"
  BY DEF NoObject, Off
<1>3. /\ provider \in [Provider -> Process] /\ client \in [Client -> Object]
      /\ \A c \in Client : client[c].pc = "none"
      /\ \A p \in Provider : provider[p].pc = "off"
  BY <1>2, OffIsTyped DEF Init
<1>4. up \in BOOLEAN /\ balancerSSL \in BOOLEAN
  BY DEF Init
<1>5. listed \subseteq Offer
  BY DEF Init
<1>6. reboots \in 0 .. MaxReboots
  BY <1>1 DEF Init
<1>7. /\ kills \in [Provider -> 0 .. MaxKills + 1]
      /\ \A p \in Provider : Mortal(p)
  BY <1>1, <1>3 DEF Init, Mortal
<1> QED
  BY <1>3, <1>4, <1>5, <1>6, <1>7 DEF Typed, TypeOK

LEMMA ProviderActionTyped ==
    ASSUME Typed, NEW p \in Provider, ProviderAction(p)
    PROVE  Typed'
<1>1. /\ provider \in [Provider -> Process] /\ kills \in [Provider -> 0 .. MaxKills + 1]
      /\ \A q \in Provider : Mortal(q)
      /\ MaxKills \in Nat
  BY CloudAssumption DEF Typed, TypeOK
<1>2. ASSUME provider' \in [Provider -> Process],
             kills' \in [Provider -> 0 .. MaxKills + 1],
             \A q \in Provider : Mortal(q)', UNCHANGED <<balancerVars, client>>
      PROVE  Typed'
  BY <1>2 DEF Typed, TypeOK, balancerVars
<1>3. CASE BuildProvider(p)
  <2>1. PICK m \in ProviderModes, s \in [Name -> Kind \cup {"none"}] :
           provider' = [provider EXCEPT ![p] = [pc |-> "built", ssl |-> m.ssl,
                                                services |-> s, version |-> m.version]]
    BY <1>3 DEF BuildProvider
  <2>2. kills[p] <= MaxKills /\ UNCHANGED <<balancerVars, kills, client>>
    BY <1>3 DEF BuildProvider
  <2>3. [pc |-> "built", ssl |-> m.ssl, services |-> s, version |-> m.version] \in Process
    BY ModesAreTyped DEF Process
  <2>4. provider' \in [Provider -> Process]
        /\ \A q \in Provider : q # p => provider'[q] = provider[q]
    BY <1>1, <2>1, <2>3
  <2>5. \A q \in Provider : Mortal(q)'
    BY <1>1, <2>2, <2>4 DEF Mortal
  <2> QED
    BY <1>1, <1>2, <2>2, <2>4, <2>5
<1>4. CASE Listen(p) \/ StartBeats(p)
  <2>1. PICK at \in {"listens", "deaf", "beats"} :
             provider' = [provider EXCEPT ![p].pc = at]
    BY <1>4 DEF Listen, StartBeats
  <2>2. provider[p].pc # "off" /\ UNCHANGED <<balancerVars, kills, client>>
    BY <1>4 DEF Listen, StartBeats
  <2>3. provider' \in [Provider -> Process]
        /\ \A q \in Provider : q # p => provider'[q] = provider[q]
    BY <1>1, <2>1 DEF Process
  <2>4. \A q \in Provider : Mortal(q)'
    BY <1>1, <2>2, <2>3 DEF Mortal
  <2> QED
    BY <1>1, <1>2, <2>2, <2>3, <2>4
<1>5. CASE WaitForNoServer(p) \/ KillProvider(p)
  <2>1. /\ provider[p].pc # "off"
        /\ provider' = [provider EXCEPT ![p] = Off]
        /\ kills' = [kills EXCEPT ![p] = @ + 1]
        /\ UNCHANGED <<balancerVars, client>>
    BY <1>5 DEF WaitForNoServer, KillProvider
  <2>2. kills[p] \in 0 .. MaxKills
    BY <1>1, <2>1 DEF Mortal
  <2>3. kills' \in [Provider -> 0 .. MaxKills + 1]
        /\ \A q \in Provider : q # p => kills'[q] = kills[q]
    BY <1>1, <2>1, <2>2
  <2>4. provider' \in [Provider -> Process] /\ provider'[p].pc = "off"
        /\ \A q \in Provider : q # p => provider'[q] = provider[q]
    BY <1>1, <2>1, OffIsTyped, OffShape
  <2>5. \A q \in Provider : Mortal(q)'
    BY <1>1, <2>3, <2>4 DEF Mortal
  <2> QED
    BY <1>2, <2>1, <2>3, <2>4, <2>5
<1> QED
  BY <1>3, <1>4, <1>5 DEF ProviderAction

LEMMA ClientActionTyped ==
    ASSUME Typed, NEW c \in Client, ClientAction(c)
    PROVE  Typed'
<1>1. client \in [Client -> Object] /\ \A d \in Client : client[d].pc = "ready" => client[d].stub # Empty
  BY DEF Typed, TypeOK
<1>2. ASSUME NEW o \in Object, o.pc = "ready" => o.stub # Empty,
             client' = [client EXCEPT ![c] = o], UNCHANGED <<balancerVars, providerVars>>
      PROVE  Typed'
  <2>1. client' \in [Client -> Object] /\ client'[c] = o
        /\ \A d \in Client : d # c => client'[d] = client[d]
    BY <1>1, <1>2
  <2>2. \A d \in Client : client'[d].pc = "ready" => client'[d].stub # Empty
    BY <1>1, <1>2, <2>1
  <2> QED
    BY <1>2, <2>1, <2>2 DEF Typed, TypeOK, Mortal, balancerVars, providerVars
<1>3. CASE Construct(c)
  <2>1. PICK m \in ClientModes, services \in (SUBSET Name) \ {{}} :
          \E a \in GetServer(services, m.version) :
             client' = [client EXCEPT ![c] = Made(m.ssl, services, m.version, a)]
    BY <1>3 DEF Construct, Made
  <2> PICK a \in GetServer(services, m.version) :
          client' = [client EXCEPT ![c] = Made(m.ssl, services, m.version, a)]
    BY <2>1
  <2>2. UNCHANGED <<balancerVars, providerVars>>
    BY <1>3 DEF Construct
  <2>3. a \in Provider /\ a # Empty
    BY CloudAssumption DEF GetServer, Fitting, Typed, TypeOK, Offer
  <2>4. Made(m.ssl, services, m.version, a) =
          [pc |-> "ready", ssl |-> m.ssl, services |-> services, version |-> m.version,
           stub |-> a, status |-> "none", name |-> NoObject.name, kind |-> NoObject.kind]
    BY ObjectMade
  <2>5. NoObject.name \in Name /\ NoObject.kind \in Kind
    BY OffIsTyped DEF Object
  <2> DEFINE o == Made(m.ssl, services, m.version, a)
  <2>6. o \in Object /\ o.stub # Empty
    BY <2>3, <2>4, <2>5, ModesAreTyped DEF Object
  <2> HIDE DEF o
  <2> QED
    BY <1>2, <2>1, <2>2, <2>6 DEF o
<1>4. CASE PerformOperation(c)
  <2>1. PICK n \in client[c].services, kind \in Kind,
             status \in {"OK", "CANCELLED", "UNAVAILABLE"} :
          client' = [client EXCEPT ![c].status = status, ![c].name = n, ![c].kind = kind]
    BY <1>4 DEF PerformOperation
  <2>2. client[c].pc = "ready" /\ UNCHANGED <<balancerVars, providerVars>>
    BY <1>4 DEF PerformOperation
  <2> DEFINE o == Changed(client[c], status, n, kind)
  <2>3. client' = [client EXCEPT ![c] = o]
    BY <1>1, <2>1 DEF Changed
  <2>4. client[c] \in Object /\ IsObject(client[c])
    BY <1>1 DEF Object, IsObject
  <2>5. o = [pc |-> client[c].pc, ssl |-> client[c].ssl, services |-> client[c].services,
             version |-> client[c].version, stub |-> client[c].stub,
             status |-> status, name |-> n, kind |-> kind]
    BY <2>4, FieldsChanged
  <2> HIDE DEF o
  <2>6. n \in Name
    BY <2>4 DEF Object
  <2>7. o \in Object /\ o.stub # Empty
    BY <1>1, <2>2, <2>4, <2>5, <2>6 DEF Object
  <2> QED
    BY <1>2, <2>2, <2>3, <2>7
<1>5. CASE Destroy(c)
  <2>1. client' = [client EXCEPT ![c] = NoObject] /\ UNCHANGED <<balancerVars, providerVars>>
    BY <1>5 DEF Destroy
  <2> QED
    BY <1>2, <2>1, NoObjectShape, OffIsTyped
<1> QED
  BY <1>3, <1>4, <1>5 DEF ClientAction

LEMMA TypedStep == Typed /\ [Next]_vars => Typed'
<1> SUFFICES ASSUME Typed, [Next]_vars PROVE Typed'
  OBVIOUS
<1>1. TypeOK /\ MaxReboots \in Nat /\ \A p \in Provider : Mortal(p)
  BY CloudAssumption DEF Typed
<1>2. CASE BalancerRun \/ BalancerCrash \/ Expire \/ UNCHANGED vars
  <2>1. UNCHANGED <<provider, kills, client>>
    BY <1>2 DEF BalancerRun, BalancerCrash, Expire, providerVars, vars, balancerVars
  <2>2. up' \in BOOLEAN /\ balancerSSL' \in BOOLEAN /\ listed' \subseteq listed
    BY <1>1, <1>2, ModesAreTyped
       DEF TypeOK, BalancerRun, BalancerCrash, Expire, vars, balancerVars
  <2>3. reboots' \in 0 .. MaxReboots
    BY <1>1, <1>2 DEF TypeOK, BalancerRun, BalancerCrash, Expire, vars, balancerVars
  <2> QED
    BY <1>1, <2>1, <2>2, <2>3 DEF Typed, TypeOK, Mortal
<1>3. ASSUME NEW p \in Provider, EstablishServer(p)
      PROVE  Typed'
  <2>1. /\ UNCHANGED <<up, balancerSSL, reboots, provider, kills, client>>
        /\ listed' = listed \cup {OfferOf(p)}
    BY <1>3 DEF EstablishServer, providerVars
  <2>2. OfferOf(p) \in Offer
    <3>1. provider[p].version \in Version
      BY <1>1 DEF TypeOK, Process
    <3> QED
      BY <3>1 DEF OfferOf, Offer
  <2> QED
    BY <1>1, <2>1, <2>2 DEF Typed, TypeOK, Mortal
<1> QED
  BY <1>2, <1>3, ProviderActionTyped, ClientActionTyped DEF Next, ProviderAction, ClientAction

\* The values of all variables; a version is one that std::stof made of a text,
\* a client that was constructed has an address, and a provider that cannot
\* listen dies at most once more than it is killed.
THEOREM TypeCorrect == Spec => []TypeOK
<1>1. Typed => TypeOK
  BY DEF Typed
<1> QED
  BY <1>1, TypedInit, TypedStep, PTL DEF Spec

----------------------------------------------------------------------------
(* The configuration files. *)

LEMMA SetUpArePrograms == SetUp \subseteq Program
BY DEF SetUp

\* Whatever files the processes are started with, each has the settings of the
\* last lines of its own.
THEOREM LastLinesCount == Spec => []LastLineCounts
<1>1. LastLineCounts
  BY SetUpArePrograms, FilesAreRead DEF LastLineCounts
<1> QED
  BY <1>1, PTL

\* A file that sets up a provider sets up a balancer and clients that find it
\* and talk in its mode.
THEOREM OneFileAgrees == Spec => []SameFileAgrees
<1>1. SameFileAgrees
  BY SetUpArePrograms, ProgramsAgree DEF SameFileAgrees
<1> QED
  BY <1>1, PTL
==============================================================================
