---------------------------- MODULE ServiceProvide ----------------------------
(***************************************************************************)
(* One provider process and its clients: the registry of services that     *)
(* ServiceProvider fills before run(), the four handlers of                *)
(* ServiceProviderImpl on their gRPC threads, and the four overloads of    *)
(* CloudClient::performOperation that call them.                           *)
(*                                                                         *)
(* A handler works on a copy of the service it found, model by model, so   *)
(* the steps of several handlers interleave. Calls can be lost before and  *)
(* after they were handled, the process can be killed and started again    *)
(* with other services. Meshes are converted as MeshConversion says.       *)
(***************************************************************************)
EXTENDS Integers, MeshConversion

CONSTANTS
    Name,       \* the names of services
    FormOf,     \* the form of models that the function of a service reads
    Inputs,     \* the sequences of models that clients pass
    Client,
    Thread,     \* the threads of the gRPC server
    NoClient,   \* the client of a handler nobody waits for
    MaxCalls,   \* bound: operations of one client
    MaxFaults,  \* bound: transport failures
    MaxKills    \* bound: kills of the provider

ASSUME ServiceProvideAssumption ==
    /\ FormOf \in [Name -> {"data", "mesh"}]
    /\ Inputs \subseteq Seq(Meshes)
    /\ NoClient \notin Client
    /\ {MaxCalls, MaxFaults, MaxKills} \subseteq Nat

VARIABLES
    modelsToModels,  \* ModelsToModelsServices
    modelsToNumbers, \* ModelToNumbersServices
    names,           \* ListOfServiceNames
    running,         \* run() was called
    thread,          \* the handlers in progress
    call,            \* the call each client is making
    results,         \* the vector each client collects its results in
    done,            \* history: the calls that returned, with their status
    faults, kills

registry == <<modelsToModels, modelsToNumbers, names>>
provider == <<registry, running, kills>>
client == <<results, done>>
vars == <<provider, thread, call, client, faults>>

----------------------------------------------------------------------------
(* The data. *)

Method == {"ModelstoModels", "ModelstoNumbers", "MeshtoMesh", "MeshtoNumbers"}

InForm(method) == IF method \in {"MeshtoMesh", "MeshtoNumbers"} THEN "mesh" ELSE "data"

OutForm(method) == IF method \in {"ModelstoNumbers", "MeshtoNumbers"} THEN "number"
                                                                      ELSE InForm(method)

\* Strings of bytes are not looked into, so a mesh stands for them too.
Result == [service : Name, model : Mesh]

\* A service and its vectors.
Service == [name : Name,
            incoming : [{"data", "mesh"} -> Seq(Mesh)],
            outgoing : [{"data", "mesh", "number"} -> Seq(Result)]]

NewService(n) == [name |-> n,
                  incoming |-> [f \in {"data", "mesh"} |-> <<>>],
                  outgoing |-> [f \in {"data", "mesh", "number"} |-> <<>>]]

\* The vector a handler looks its service up in.
Registry(method) == IF OutForm(method) = "number" THEN modelsToNumbers ELSE modelsToModels

Matches(method, n) == {i \in DOMAIN Registry(method) : Registry(method)[i].name = n}

Idle == [pc |-> "idle", client |-> NoClient, method |-> "ModelstoModels",
         index |-> 0, service |-> <<>>, todo |-> <<>>, mesh |-> EmptyMesh]

NoCall == [pc |-> "idle", method |-> "ModelstoModels", name |-> "none", sent |-> <<>>,
           reply |-> <<>>, status |-> "none"]

----------------------------------------------------------------------------
(* The program that sets up the provider. *)

Known(n) == \E i \in DOMAIN names : names[i] = n

SetModelsToModelsService(n) ==
    /\ ~running /\ ~Known(n)
    /\ modelsToModels' = Append(modelsToModels, NewService(n))
    /\ names' = Append(names, n)
    /\ UNCHANGED <<modelsToNumbers, running, kills, thread, call, client, faults>>

\* A faulty variant of SetModelsToNumbersService: only its own vector is searched.
SetModelsToNumbersServiceOwn(n) ==
    /\ ~running /\ \A i \in DOMAIN modelsToNumbers : modelsToNumbers[i].name # n
    /\ modelsToNumbers' = Append(modelsToNumbers, NewService(n))
    /\ names' = Append(names, n)
    /\ UNCHANGED <<modelsToModels, running, kills, thread, call, client, faults>>

\* A name that exists makes either setter throw, before it has changed anything.
SetModelsToNumbersService(n) ==
    /\ ~running /\ ~Known(n)
    /\ modelsToNumbers' = Append(modelsToNumbers, NewService(n))
    /\ names' = Append(names, n)
    /\ UNCHANGED <<modelsToModels, running, kills, thread, call, client, faults>>

Run ==
    /\ ~running
    /\ running' = TRUE
    /\ UNCHANGED <<registry, kills, thread, call, client, faults>>

----------------------------------------------------------------------------
(* The handlers. *)

\* A faulty variant of KeepRegistry: the loop holds a reference to the service.
KeepRegistryNot(t, service) ==
    /\ UNCHANGED <<names, running, kills>>
    /\ IF OutForm(thread[t].method) = "number"
       THEN /\ modelsToNumbers' = [modelsToNumbers EXCEPT ![thread[t].index] = service]
            /\ UNCHANGED modelsToModels
       ELSE /\ modelsToModels' = [modelsToModels EXCEPT ![thread[t].index] = service]
            /\ UNCHANGED modelsToNumbers

\* What a handler does to its service it does to its copy.
KeepRegistry(t, service) == UNCHANGED provider

\* for (auto service : ...): the first one of the name is copied.
FindService(t, c) ==
    /\ running /\ thread[t].pc = "idle" /\ call[c].pc = "sent"
    /\ \E i \in Matches(call[c].method, call[c].name) :
         /\ \A j \in Matches(call[c].method, call[c].name) : i <= j
         /\ thread' = [thread EXCEPT ![t] =
              [Idle EXCEPT !.pc = "models", !.client = c, !.method = call[c].method,
                           !.index = i, !.service = Registry(call[c].method)[i],
                           !.todo = call[c].sent]]
    /\ call' = [call EXCEPT ![c].pc = "handled"]
    /\ UNCHANGED <<provider, client, faults>>

\* A faulty variant of RefuseCall: the return is inside the loop.
RefuseCallEarly(c) ==
    /\ running /\ call[c].pc = "sent"
    /\ 1 \notin Matches(call[c].method, call[c].name)
    /\ call' = [call EXCEPT ![c].pc = "returned", ![c].status = "CANCELLED"]
    /\ UNCHANGED <<provider, thread, client, faults>>

RefuseCall(c) ==
    /\ running /\ call[c].pc = "sent"
    /\ Matches(call[c].method, call[c].name) = {}
    /\ call' = [call EXCEPT ![c].pc = "returned", ![c].status = "CANCELLED"]
    /\ UNCHANGED <<provider, thread, client, faults>>

\* The model goes into the incoming vector of its form.
Push(t, mesh, m) ==
    LET form == InForm(thread[t].method)
        service == [thread[t].service EXCEPT !.incoming[form] = Append(@, m)]
    IN /\ KeepRegistry(t, service)
       /\ thread' = [thread EXCEPT ![t].service = service, ![t].mesh = mesh,
                                   ![t].todo = Tail(@)]

PushData(t) ==
    /\ thread[t].pc = "models" /\ thread[t].todo # <<>>
    /\ InForm(thread[t].method) = "data"
    /\ Push(t, thread[t].mesh, Head(thread[t].todo))
    /\ UNCHANGED <<call, client, faults>>

\* A faulty variant of PushMesh: the mesh is not cleared.
PushMeshUncleared(t) ==
    /\ thread[t].pc = "models" /\ thread[t].todo # <<>>
    /\ InForm(thread[t].method) = "mesh"
    /\ LET mesh == DeserializeModel(thread[t].mesh, SerializeModel(Head(thread[t].todo)))
       IN Push(t, mesh, mesh)
    /\ UNCHANGED <<call, client, faults>>

\* One mesh object serves all models of the request.
PushMesh(t) ==
    /\ thread[t].pc = "models" /\ thread[t].todo # <<>>
    /\ InForm(thread[t].method) = "mesh"
    /\ LET mesh == DeserializeModel(EmptyMesh, SerializeModel(Head(thread[t].todo)))
       IN Push(t, mesh, mesh)
    /\ UNCHANGED <<call, client, faults>>

\* The function of a service, as meshSmooth, gives one result for each incoming
\* model of its form.
Computed(service) ==
    LET models == service.incoming[FormOf[service.name]]
    IN [k \in DOMAIN models |-> [service |-> service.name, model |-> models[k]]]

\* fp_(&service): the results go into the outgoing vector of their form.
Execute(t) ==
    /\ thread[t].pc = "models" /\ thread[t].todo = <<>>
    /\ LET old == thread[t].service
           out == IF OutForm(thread[t].method) = "number" THEN "number" ELSE FormOf[old.name]
           service == [old EXCEPT !.outgoing[out] = @ \o Computed(old)]
       IN /\ KeepRegistry(t, service)
          /\ thread' = [thread EXCEPT ![t].service = service, ![t].pc = "respond"]
    /\ UNCHANGED <<call, client, faults>>

\* The response goes to the client if it still waits.
Deliver(t, response) ==
    /\ thread' = [thread EXCEPT ![t] = Idle]
    /\ call' = [c \in Client |->
                  IF thread[t].client = c
                  THEN [call[c] EXCEPT !.pc = "returned", !.status = "OK",
                                       !.reply = response]
                  ELSE call[c]]
    /\ UNCHANGED <<provider, client, faults>>

\* Faulty variants of Respond: the models that came in are answered, and an
\* empty response is not sent.
RespondIncoming(t) ==
    /\ thread[t].pc = "respond"
    /\ Deliver(t, thread[t].service.incoming[InForm(thread[t].method)])
RespondNonEmpty(t) ==
    /\ thread[t].pc = "respond"
    /\ thread[t].service.outgoing[OutForm(thread[t].method)] # <<>>
    /\ Deliver(t, thread[t].service.outgoing[OutForm(thread[t].method)])

Respond(t) ==
    /\ thread[t].pc = "respond"
    /\ Deliver(t, thread[t].service.outgoing[OutForm(thread[t].method)])

----------------------------------------------------------------------------
(* The clients. *)

PerformOperation(c) ==
    /\ call[c].pc = "idle" /\ Len(done[c]) < MaxCalls
    /\ \E n \in Name : \E method \in Method : \E models \in Inputs :
         call' = [call EXCEPT ![c] =
                    [NoCall EXCEPT !.pc = "sent", !.method = method, !.name = n,
                                   !.sent = models]]
    /\ UNCHANGED <<provider, thread, client, faults>>

\* What the caller gets of one element of the response.
Received(method, r) ==
    IF OutForm(method) = "mesh" THEN [r EXCEPT !.model = Trip(@)] ELSE r

\* What the history keeps of a call.
Finished(c) == [method |-> call[c].method, name |-> call[c].name,
                sent |-> call[c].sent, status |-> call[c].status]

\* Nothing is added to the caller's vector unless the status is OK.
Return(c) ==
    /\ call[c].pc = "returned"
    /\ \/ /\ call[c].status = "OK"
          /\ LET got == [k \in DOMAIN call[c].reply |->
                           Received(call[c].method, call[c].reply[k])]
             IN results' = [results EXCEPT ![c] = @ \o got]
       \/ call[c].status # "OK" /\ UNCHANGED results
    /\ done' = [done EXCEPT ![c] = Append(@, Finished(c))]
    /\ call' = [call EXCEPT ![c] = NoCall]
    /\ UNCHANGED <<provider, thread, faults>>

----------------------------------------------------------------------------
(* What can go wrong. *)

Waiting(c) == call[c].pc \in {"sent", "handled"}

Unavailable(c) == [call[c] EXCEPT !.pc = "returned", !.status = "UNAVAILABLE",
                                  !.reply = <<>>]

\* The connection breaks before the call is handled, while its handler runs,
\* which goes on for nobody, or before its reply arrives.
ConnectionBreaks(c) ==
    /\ running /\ faults < MaxFaults
    /\ \/ Waiting(c)
       \/ call[c].pc = "returned" /\ call[c].status # "UNAVAILABLE"
    /\ call' = [call EXCEPT ![c] = Unavailable(c)]
    /\ thread' = [t \in Thread |->
                    IF thread[t].client = c THEN [thread[t] EXCEPT !.client = NoClient]
                                            ELSE thread[t]]
    /\ faults' = faults + 1
    /\ UNCHANGED <<provider, client>>

\* The process dies with its handlers and its registry.
KillProvider ==
    /\ running /\ kills < MaxKills
    /\ kills' = kills + 1
    /\ running' = FALSE
    /\ modelsToModels' = <<>> /\ modelsToNumbers' = <<>> /\ names' = <<>>
    /\ thread' = [t \in Thread |-> Idle]
    /\ call' = [c \in Client |-> IF Waiting(c) THEN Unavailable(c) ELSE call[c]]
    /\ UNCHANGED <<client, faults>>

\* A call to a provider that does not listen.
ConnectFails(c) ==
    /\ ~running /\ call[c].pc = "sent"
    /\ call' = [call EXCEPT ![c] = Unavailable(c)]
    /\ UNCHANGED <<provider, thread, client, faults>>

----------------------------------------------------------------------------

Init ==
    /\ modelsToModels = <<>> /\ modelsToNumbers = <<>> /\ names = <<>>
    /\ running = FALSE /\ kills = 0
    /\ thread = [t \in Thread |-> Idle]
    /\ call = [c \in Client |-> NoCall]
    /\ results = [c \in Client |-> <<>>]
    /\ done = [c \in Client |-> <<>>]
    /\ faults = 0

HandlerStep(t) == \/ PushData(t) \/ PushMesh(t) \/ Execute(t) \/ Respond(t)

Accept(c) == RefuseCall(c) \/ ConnectFails(c) \/ \E t \in Thread : FindService(t, c)

Next ==
    \/ \E n \in Name : SetModelsToModelsService(n) \/ SetModelsToNumbersService(n)
    \/ Run \/ KillProvider
    \/ \E t \in Thread : HandlerStep(t)
    \/ \E c \in Client : \/ PerformOperation(c) \/ Return(c)
                         \/ Accept(c) \/ ConnectionBreaks(c)

\* A handler that runs goes on, a call that is waiting gets a thread when
\* threads are free again and again, and a client takes its reply.
Fairness ==
    /\ \A t \in Thread : WF_vars(HandlerStep(t))
    /\ \A c \in Client : SF_vars(Accept(c)) /\ WF_vars(Return(c))

Spec == Init /\ [][Next]_vars

FairSpec == Spec /\ Fairness

----------------------------------------------------------------------------
(* Properties. *)

\* The types; a handler holds a service that the registry has.
TypeOK ==
    /\ modelsToModels \in Seq(Service) /\ modelsToNumbers \in Seq(Service)
    /\ names \in Seq(Name)
    /\ running \in BOOLEAN
    /\ \A t \in Thread :
         /\ thread[t].pc \in {"idle", "models", "respond"}
         /\ thread[t].client \in Client \cup {NoClient}
         /\ thread[t].method \in Method
         /\ thread[t].pc # "idle" => /\ thread[t].service \in Service
                                     /\ thread[t].index \in DOMAIN Registry(thread[t].method)
         /\ thread[t].todo \in Seq(Mesh)
    /\ \A c \in Client :
         /\ call[c].pc \in {"idle", "sent", "handled", "returned"}
         /\ call[c].method \in Method
         /\ call[c].sent \in Seq(Mesh) /\ call[c].reply \in Seq(Result)
         /\ call[c].status \in {"none", "OK", "CANCELLED", "UNAVAILABLE"}
    /\ results \in [Client -> Seq(Result)]
    /\ faults \in 0 .. MaxFaults /\ kills \in 0 .. MaxKills

\* A name is offered to the balancer once, as a service of one kind.
NamesUnique ==
    /\ \A i, j \in DOMAIN names : names[i] = names[j] => i = j
    /\ \A n \in Name :
         Known(n) <=> \/ \E i \in DOMAIN modelsToModels : modelsToModels[i].name = n
                      \/ \E i \in DOMAIN modelsToNumbers : modelsToNumbers[i].name = n
    /\ Len(names) = Len(modelsToModels) + Len(modelsToNumbers)

\* What a call should give, from its arguments alone.
Expected(d) ==
    IF d.status = "OK" /\ FormOf[d.name] = InForm(d.method)
    THEN [k \in DOMAIN d.sent |->
            [service |-> d.name,
             model |-> IF InForm(d.method) = "mesh" THEN Trip(d.sent[k]) ELSE d.sent[k]]]
    ELSE <<>>

ExpectedOf(calls) ==
    LET upTo[n \in 0 .. Len(calls)] ==
          IF n = 0 THEN <<>> ELSE upTo[n - 1] \o Expected(calls[n])
    IN upTo[Len(calls)]

\* A client gets one result for each model it sent, in its order, computed from
\* this model by this service, and nothing of calls that failed or of others:
\* whatever handlers run beside its own or are left over from earlier calls.
ResultsExact == \A c \in Client : results[c] = ExpectedOf(done[c])

\* Whatever the one mesh object of a handler holds, any mesh of a message comes
\* out of deserializeModel with its polygons, in their order, behind those the
\* object had: the indices of the wire, the handles of the new vertices and the
\* faces that were there are never mixed up.
PolygonsKept == \A t \in Thread : thread[t].mesh \in Keeping

\* A mesh goes to the provider and its result comes back. Whatever mesh it is, the
\* second trip leaves it as it is, the numbering included; only the first one
\* gives every face vertices of its own and drops the vertices in no face.
TripSettles == \A t \in Thread : thread[t].mesh \in Settling

\* The status of a call that was handled is that of its service: refused if the
\* provider has none of this name and kind, and only then.
StatusIsRight ==
    [][\A c \in Client :
         call[c].status = "none" =>
            /\ call'[c].status = "CANCELLED" => Matches(call[c].method, call[c].name) = {}
            /\ call'[c].status = "OK" => Matches(call[c].method, call[c].name) # {}]_vars

\* performOperation comes back, from a provider that may be killed too.
CallsReturn == \A c \in Client : call[c].pc # "idle" ~> call[c].pc = "idle"
==============================================================================
