------------------------ MODULE ServiceProvide_proofs ------------------------
(***************************************************************************)
(* Proofs about ServiceProvide, for any services, clients and threads.     *)
(***************************************************************************)
EXTENDS ServiceProvide, MeshConversion_proofs

\* The types of the registry, the part of TypeOK that NamesUnique rests on.
RegistryType ==
    /\ modelsToModels \in Seq(Service) /\ modelsToNumbers \in Seq(Service)
    /\ names \in Seq(Name)

\* Only the setters and the end of the process change the registry: no handler
\* does, whatever it does with its copy of a service.
LEMMA RegistryStep ==
    ASSUME [Next]_vars
    PROVE  \/ UNCHANGED registry
           \/ \E n \in Name : SetModelsToModelsService(n) \/ SetModelsToNumbersService(n)
           \/ KillProvider
<1>1. ASSUME NEW t \in Thread, HandlerStep(t)
      PROVE  UNCHANGED registry
  BY <1>1 DEF HandlerStep, PushData, PushMesh, Push, Execute, Respond, Deliver,
              KeepRegistry, provider
<1>2. ASSUME NEW c \in Client,
             PerformOperation(c) \/ Return(c) \/ Accept(c) \/ ConnectionBreaks(c)
      PROVE  UNCHANGED registry
  BY <1>2 DEF PerformOperation, Return, Accept, RefuseCall, ConnectFails, FindService,
              ConnectionBreaks, provider
<1>3. CASE Run \/ UNCHANGED vars
  BY <1>3 DEF Run, vars, provider
<1> QED
  BY <1>1, <1>2, <1>3 DEF Next

LEMMA NewServiceType ==
    ASSUME NEW n \in Name
    PROVE  NewService(n) \in Service /\ NewService(n).name = n
<1>1. \A S : <<>> \in Seq(S)
  OBVIOUS
<1> QED
  BY <1>1 DEF NewService, Service

LEMMA RegistryTypeStep == RegistryType /\ [Next]_vars => RegistryType'
<1> SUFFICES ASSUME RegistryType, [Next]_vars
             PROVE  RegistryType'
  OBVIOUS
<1>1. CASE UNCHANGED registry
  BY <1>1 DEF registry, RegistryType
<1>2. ASSUME NEW n \in Name, SetModelsToModelsService(n)
      PROVE  RegistryType'
  BY <1>2, Appended, NewServiceType DEF SetModelsToModelsService, RegistryType
<1>3. ASSUME NEW n \in Name, SetModelsToNumbersService(n)
      PROVE  RegistryType'
  BY <1>3, Appended, NewServiceType DEF SetModelsToNumbersService, RegistryType
<1>4. CASE KillProvider
  BY <1>4 DEF KillProvider, RegistryType
<1> QED
  BY <1>1, <1>2, <1>3, <1>4, RegistryStep

\* A new name, of a service in one of the vectors.
LEMMA OneMoreName ==
    ASSUME RegistryType, NamesUnique, NEW n \in Name, ~Known(n),
           names' = Append(names, n),
           \/ /\ modelsToModels' = Append(modelsToModels, NewService(n))
              /\ modelsToNumbers' = modelsToNumbers
           \/ /\ modelsToNumbers' = Append(modelsToNumbers, NewService(n))
              /\ modelsToModels' = modelsToModels
    PROVE  NamesUnique'
<1> DEFINE Named(s, m) == \E i \in DOMAIN s : s[i].name = m
<1>1. /\ DOMAIN names' = DOMAIN names \cup {Len(names) + 1}
      /\ \A i \in DOMAIN names : names'[i] = names[i]
      /\ names'[Len(names) + 1] = n
      /\ Len(names') = Len(names) + 1 /\ Len(names) \in Nat
  BY Appended DEF RegistryType
<1>2. \A m : Known(m)' <=> Known(m) \/ m = n
  BY <1>1 DEF Known
<1>3. ASSUME NEW s \in Seq(Service)
      PROVE  /\ Len(Append(s, NewService(n))) = Len(s) + 1 /\ Len(s) \in Nat
             /\ \A m : Named(Append(s, NewService(n)), m) <=> Named(s, m) \/ m = n
  BY <1>3, Appended, NewServiceType
<1>4. /\ \A m : Named(modelsToModels', m) \/ Named(modelsToNumbers', m)
                  <=> Named(modelsToModels, m) \/ Named(modelsToNumbers, m) \/ m = n
      /\ Len(modelsToModels') + Len(modelsToNumbers')
           = Len(modelsToModels) + Len(modelsToNumbers) + 1
  <2>1. modelsToModels \in Seq(Service) /\ modelsToNumbers \in Seq(Service)
    BY DEF RegistryType
  <2>2. /\ Len(Append(modelsToModels, NewService(n))) = Len(modelsToModels) + 1
        /\ \A m : Named(Append(modelsToModels, NewService(n)), m)
                     <=> Named(modelsToModels, m) \/ m = n
        /\ Len(modelsToModels) \in Nat
    BY <1>3, <2>1
  <2>3. /\ Len(Append(modelsToNumbers, NewService(n))) = Len(modelsToNumbers) + 1
        /\ \A m : Named(Append(modelsToNumbers, NewService(n)), m)
                     <=> Named(modelsToNumbers, m) \/ m = n
        /\ Len(modelsToNumbers) \in Nat
    BY <1>3, <2>1
  <2> HIDE DEF Named
  <2>4. CASE /\ modelsToModels' = Append(modelsToModels, NewService(n))
             /\ modelsToNumbers' = modelsToNumbers
    BY <2>2, <2>3, <2>4
  <2>5. CASE /\ modelsToNumbers' = Append(modelsToNumbers, NewService(n))
             /\ modelsToModels' = modelsToModels
    BY <2>2, <2>3, <2>5
  <2> QED
    BY <2>4, <2>5
<1>5. (\A i, j \in DOMAIN names : names[i] = names[j] => i = j)'
  BY <1>1 DEF NamesUnique, Known
<1>6. /\ \A m \in Name : Known(m) <=> Named(modelsToModels, m) \/ Named(modelsToNumbers, m)
      /\ Len(names) = Len(modelsToModels) + Len(modelsToNumbers)
  BY DEF NamesUnique
<1>7. /\ \A m \in Name : Known(m)' <=> Named(modelsToModels', m) \/ Named(modelsToNumbers', m)
      /\ Len(names') = Len(modelsToModels') + Len(modelsToNumbers')
  <2> HIDE DEF Named
  <2> QED
    BY <1>1, <1>2, <1>4, <1>6
<1> QED
  BY <1>5, <1>7 DEF NamesUnique

\* Whatever services a program sets up, in whatever order and however often it
\* is started, each name is known once and to exactly one of the two vectors.
THEOREM NamesStayUnique == Spec => []NamesUnique
<1>1. Init => RegistryType /\ NamesUnique
  BY DEF Init, RegistryType, NamesUnique, Known
<1>2. RegistryType /\ NamesUnique /\ [Next]_vars => NamesUnique'
  <2> SUFFICES ASSUME RegistryType, NamesUnique, [Next]_vars
               PROVE  NamesUnique'
    OBVIOUS
  <2>1. CASE UNCHANGED registry
    BY <2>1 DEF registry, NamesUnique, Known
  <2>2. ASSUME NEW n \in Name, SetModelsToModelsService(n) \/ SetModelsToNumbersService(n)
        PROVE  NamesUnique'
    BY <2>2, OneMoreName DEF SetModelsToModelsService, SetModelsToNumbersService
  <2>3. CASE KillProvider
    BY <2>3 DEF KillProvider, NamesUnique, Known
  <2> QED
    BY <2>1, <2>2, <2>3, RegistryStep
<1> QED
  BY <1>1, <1>2, RegistryTypeStep, PTL DEF Spec


----------------------------------------------------------------------------
(* The data of handlers and calls. *)

HandlerState ==
    [pc : {"idle", "models", "respond"}, client : Client \cup {NoClient}, method : Method,
     index : Nat, service : Service \cup {<<>>}, todo : Seq(Meshes), mesh : MeshObjects]

Status == {"none", "OK", "CANCELLED", "UNAVAILABLE"}

CallState ==
    [pc : {"idle", "sent", "handled", "returned"}, method : Method, name : Name \cup {"none"},
     sent : Seq(Meshes), reply : Seq(Result), status : Status]

PastCall == [method : Method, name : Name, sent : Seq(Meshes), status : Status]

LEMMA IdleType == Idle \in HandlerState /\ Idle.pc = "idle" /\ Idle.client = NoClient
<1>1. EmptyMesh \in MeshObjects
  BY DEF MeshObjects
<1>2. \A S : <<>> \in Seq(S)
  OBVIOUS
<1> QED
  BY <1>1, <1>2 DEF Idle, HandlerState, Method

LEMMA NoCallType == NoCall \in CallState /\ NoCall.pc = "idle" /\ NoCall.status = "none"
<1>1. \A S : <<>> \in Seq(S)
  OBVIOUS
<1> QED
  BY <1>1 DEF NoCall, CallState, Method, Status

LEMMA Forms ==
    ASSUME NEW method \in Method
    PROVE  /\ InForm(method) \in {"data", "mesh"}
           /\ OutForm(method) \in {"data", "mesh", "number"}
           /\ OutForm(method) # "number" => OutForm(method) = InForm(method)
BY DEF Method, InForm, OutForm

LEMMA FormOfType ==
    ASSUME NEW n \in Name
    PROVE  FormOf[n] \in {"data", "mesh"}
BY ServiceProvideAssumption

\* What a model is when the handler has taken it out of the message.
Taken(method, m) == IF InForm(method) = "mesh" THEN Trip(m) ELSE m

LEMMA TakenType ==
    ASSUME NEW m \in Meshes, NEW method
    PROVE  /\ Taken(method, m) \in Mesh
           /\ InForm(method) = "mesh" => Trip(Taken(method, m)) = Taken(method, m)
BY MeshesType, TripTwice DEF Taken, WellFormed

\* The response to a call, from its arguments.
Answer(d) ==
    IF FormOf[d.name] = InForm(d.method)
    THEN [k \in 1 .. Len(d.sent) |-> [service |-> d.name, model |-> Taken(d.method, d.sent[k])]]
    ELSE <<>>

LEMMA AnswerType ==
    ASSUME NEW d, d.name \in Name, d.sent \in Seq(Meshes)
    PROVE  /\ Answer(d) \in Seq(Result)
           /\ FormOf[d.name] = InForm(d.method) => Len(Answer(d)) = Len(d.sent)
           /\ FormOf[d.name] # InForm(d.method) => Answer(d) = <<>>
<1>1. \A k \in 1 .. Len(d.sent) :
         [service |-> d.name, model |-> Taken(d.method, d.sent[k])] \in Result
  BY TakenType DEF Result
<1>2. Len(d.sent) \in Nat
  OBVIOUS
<1> DEFINE a == [k \in 1 .. Len(d.sent) |->
                  [service |-> d.name, model |-> Taken(d.method, d.sent[k])]]
<1>3. a \in Seq(Result) /\ Len(a) = Len(d.sent)
  BY <1>1, <1>2
<1>4. <<>> \in Seq(Result)
  OBVIOUS
<1>5. Answer(d) = IF FormOf[d.name] = InForm(d.method) THEN a ELSE <<>>
  BY DEF Answer
<1> HIDE DEF a
<1> QED
  BY <1>3, <1>4, <1>5

----------------------------------------------------------------------------
(* What the steps make of a handler, a call and a service. *)

Started(c, d, i, service) ==
    [Idle EXCEPT !.pc = "models", !.client = c, !.method = d.method, !.index = i,
                 !.service = service, !.todo = d.sent]

Pushed(h, service, mesh) ==
    [h EXCEPT !.service = service, !.mesh = mesh, !.todo = Tail(@)]

Executed(h, service) == [h EXCEPT !.service = service, !.pc = "respond"]

LEMMA HandlerFields ==
    ASSUME NEW h \in HandlerState
    PROVE  /\ h = [pc |-> h.pc, client |-> h.client, method |-> h.method, index |-> h.index,
                   service |-> h.service, todo |-> h.todo, mesh |-> h.mesh]
           /\ h.pc \in {"idle", "models", "respond"} /\ h.client \in Client \cup {NoClient}
           /\ h.method \in Method /\ h.index \in Nat /\ h.service \in Service \cup {<<>>}
           /\ h.todo \in Seq(Meshes) /\ h.mesh \in MeshObjects
BY DEF HandlerState

LEMMA StartedFields ==
    ASSUME NEW c, NEW d, NEW i, NEW service
    PROVE  Started(c, d, i, service)
             = [pc |-> "models", client |-> c, method |-> d.method, index |-> i,
                service |-> service, todo |-> d.sent, mesh |-> EmptyMesh]
<1> DEFINE h1 == [Idle EXCEPT !.pc = "models"]
           h2 == [h1 EXCEPT !.client = c]
           h3 == [h2 EXCEPT !.method = d.method]
           h4 == [h3 EXCEPT !.index = i]
           h5 == [h4 EXCEPT !.service = service]
           h6 == [h5 EXCEPT !.todo = d.sent]
<1>1. h1 = [pc |-> "models", client |-> NoClient, method |-> "ModelstoModels", index |-> 0,
            service |-> <<>>, todo |-> <<>>, mesh |-> EmptyMesh]
  BY DEF Idle
<1> HIDE DEF h1
<1>2. h2 = [pc |-> "models", client |-> c, method |-> "ModelstoModels", index |-> 0,
            service |-> <<>>, todo |-> <<>>, mesh |-> EmptyMesh]
  BY <1>1
<1> HIDE DEF h2
<1>3. h3 = [pc |-> "models", client |-> c, method |-> d.method, index |-> 0,
            service |-> <<>>, todo |-> <<>>, mesh |-> EmptyMesh]
  BY <1>2
<1> HIDE DEF h3
<1>4. h4 = [pc |-> "models", client |-> c, method |-> d.method, index |-> i,
            service |-> <<>>, todo |-> <<>>, mesh |-> EmptyMesh]
  BY <1>3
<1> HIDE DEF h4
<1>5. h5 = [pc |-> "models", client |-> c, method |-> d.method, index |-> i,
            service |-> service, todo |-> <<>>, mesh |-> EmptyMesh]
  BY <1>4
<1> HIDE DEF h5
<1>6. h6 = [pc |-> "models", client |-> c, method |-> d.method, index |-> i,
            service |-> service, todo |-> d.sent, mesh |-> EmptyMesh]
  BY <1>5
<1>7. Started(c, d, i, service) = h6
  BY DEF Started, h1, h2, h3, h4, h5
<1> HIDE DEF h6
<1> QED
  BY <1>6, <1>7

LEMMA PushedFields ==
    ASSUME NEW h \in HandlerState, NEW service, NEW mesh
    PROVE  Pushed(h, service, mesh)
             = [pc |-> h.pc, client |-> h.client, method |-> h.method, index |-> h.index,
                service |-> service, todo |-> Tail(h.todo), mesh |-> mesh]
<1> DEFINE h1 == [h EXCEPT !.service = service]
           h2 == [h1 EXCEPT !.mesh = mesh]
           h3 == [h2 EXCEPT !.todo = Tail(@)]
<1>1. h1 = [pc |-> h.pc, client |-> h.client, method |-> h.method, index |-> h.index,
            service |-> service, todo |-> h.todo, mesh |-> h.mesh]
  BY HandlerFields
<1> HIDE DEF h1
<1>2. h2 = [pc |-> h.pc, client |-> h.client, method |-> h.method, index |-> h.index,
            service |-> service, todo |-> h.todo, mesh |-> mesh]
  BY <1>1
<1> HIDE DEF h2
<1>3. h3 = [pc |-> h.pc, client |-> h.client, method |-> h.method, index |-> h.index,
            service |-> service, todo |-> Tail(h.todo), mesh |-> mesh]
  <2>1. h2.todo = h.todo
    BY <1>2
  <2> DEFINE rest == Tail(h2.todo)
  <2>2. h3 = [h2 EXCEPT !.todo = rest] /\ rest = Tail(h.todo)
    BY <2>1
  <2> HIDE DEF rest, h3
  <2>3. h3 = [pc |-> h.pc, client |-> h.client, method |-> h.method, index |-> h.index,
              service |-> service, todo |-> rest, mesh |-> mesh]
    BY <1>2, <2>2
  <2> QED
    BY <2>2, <2>3
<1>4. Pushed(h, service, mesh) = h3
  BY DEF Pushed, h1, h2
<1> HIDE DEF h3
<1> QED
  BY <1>3, <1>4

LEMMA ExecutedFields ==
    ASSUME NEW h \in HandlerState, NEW service
    PROVE  Executed(h, service)
             = [pc |-> "respond", client |-> h.client, method |-> h.method, index |-> h.index,
                service |-> service, todo |-> h.todo, mesh |-> h.mesh]
<1> DEFINE h1 == [h EXCEPT !.service = service]
           h2 == [h1 EXCEPT !.pc = "respond"]
<1>1. h1 = [pc |-> h.pc, client |-> h.client, method |-> h.method, index |-> h.index,
            service |-> service, todo |-> h.todo, mesh |-> h.mesh]
  BY HandlerFields
<1> HIDE DEF h1
<1>2. h2 = [pc |-> "respond", client |-> h.client, method |-> h.method, index |-> h.index,
            service |-> service, todo |-> h.todo, mesh |-> h.mesh]
  BY <1>1
<1>3. Executed(h, service) = h2
  BY DEF Executed, h1
<1> HIDE DEF h2
<1> QED
  BY <1>2, <1>3

Detached(h) == [h EXCEPT !.client = NoClient]

LEMMA DetachedFields ==
    ASSUME NEW h \in HandlerState
    PROVE  /\ Detached(h) \in HandlerState /\ Detached(h).client = NoClient
           /\ Detached(h).pc = h.pc /\ Detached(h).method = h.method
           /\ Detached(h).index = h.index /\ Detached(h).service = h.service
           /\ Detached(h).mesh = h.mesh /\ Detached(h).todo = h.todo
BY DEF Detached, HandlerState


Sent(method, n, models) ==
    [NoCall EXCEPT !.pc = "sent", !.method = method, !.name = n, !.sent = models]

LEMMA SentFields ==
    ASSUME NEW method \in Method, NEW n \in Name, NEW models \in Seq(Meshes)
    PROVE  /\ Sent(method, n, models) \in CallState
           /\ Sent(method, n, models).pc = "sent" /\ Sent(method, n, models).name = n
           /\ Sent(method, n, models).status = "none"
<1> DEFINE d1 == [NoCall EXCEPT !.pc = "sent"]
           d2 == [d1 EXCEPT !.method = method]
           d3 == [d2 EXCEPT !.name = n]
           d4 == [d3 EXCEPT !.sent = models]
<1>1. d1 = [pc |-> "sent", method |-> "ModelstoModels", name |-> "none", sent |-> <<>>,
            reply |-> <<>>, status |-> "none"]
  BY DEF NoCall
<1> HIDE DEF d1
<1>2. d2 = [pc |-> "sent", method |-> method, name |-> "none", sent |-> <<>>,
            reply |-> <<>>, status |-> "none"]
  BY <1>1
<1> HIDE DEF d2
<1>3. d3 = [pc |-> "sent", method |-> method, name |-> n, sent |-> <<>>,
            reply |-> <<>>, status |-> "none"]
  BY <1>2
<1> HIDE DEF d3
<1>4. d4 = [pc |-> "sent", method |-> method, name |-> n, sent |-> models,
            reply |-> <<>>, status |-> "none"]
  BY <1>3
<1>5. Sent(method, n, models) = d4
  BY DEF Sent, d1, d2, d3
<1> HIDE DEF d4
<1>6. <<>> \in Seq(Result)
  OBVIOUS
<1> QED
  BY <1>4, <1>5, <1>6 DEF CallState, Status

\* A call that has come back.
Ended(d, status, reply) == [d EXCEPT !.pc = "returned", !.status = status, !.reply = reply]

LEMMA EndedFields ==
    ASSUME NEW d \in CallState, NEW status, NEW reply
    PROVE  Ended(d, status, reply)
             = [pc |-> "returned", method |-> d.method, name |-> d.name, sent |-> d.sent,
                reply |-> reply, status |-> status]
<1> DEFINE d1 == [d EXCEPT !.pc = "returned"]
           d2 == [d1 EXCEPT !.status = status]
           d3 == [d2 EXCEPT !.reply = reply]
<1>1. d1 = [pc |-> "returned", method |-> d.method, name |-> d.name, sent |-> d.sent,
            reply |-> d.reply, status |-> d.status]
  BY DEF CallState
<1> HIDE DEF d1
<1>2. d2 = [pc |-> "returned", method |-> d.method, name |-> d.name, sent |-> d.sent,
            reply |-> d.reply, status |-> status]
  BY <1>1
<1> HIDE DEF d2
<1>3. d3 = [pc |-> "returned", method |-> d.method, name |-> d.name, sent |-> d.sent,
            reply |-> reply, status |-> status]
  BY <1>2
<1>4. Ended(d, status, reply) = d3
  BY DEF Ended, d1, d2
<1> HIDE DEF d3
<1> QED
  BY <1>3, <1>4

\* Without a reply the fields of an ended call are as before but for two.
Refused(d) == [d EXCEPT !.pc = "returned", !.status = "CANCELLED"]

LEMMA RefusedFields ==
    ASSUME NEW d \in CallState
    PROVE  Refused(d) = Ended(d, "CANCELLED", d.reply)
<1> DEFINE d1 == [d EXCEPT !.pc = "returned"]
           d2 == [d1 EXCEPT !.status = "CANCELLED"]
<1>1. d1 = [pc |-> "returned", method |-> d.method, name |-> d.name, sent |-> d.sent,
            reply |-> d.reply, status |-> d.status]
  BY DEF CallState
<1> HIDE DEF d1
<1>2. d2 = [pc |-> "returned", method |-> d.method, name |-> d.name, sent |-> d.sent,
            reply |-> d.reply, status |-> "CANCELLED"]
  BY <1>1
<1>3. Refused(d) = d2
  BY DEF Refused, d1
<1> HIDE DEF d2
<1> QED
  BY <1>2, <1>3, EndedFields

LEMMA EndedType ==
    ASSUME NEW d \in CallState, NEW status \in Status, NEW reply \in Seq(Result)
    PROVE  /\ Ended(d, status, reply) \in CallState
           /\ Ended(d, status, reply).pc = "returned"
           /\ Ended(d, status, reply).name = d.name
           /\ Ended(d, status, reply).method = d.method
           /\ Ended(d, status, reply).sent = d.sent
           /\ Ended(d, status, reply).status = status
           /\ Ended(d, status, reply).reply = reply
<1>1. /\ d.method \in Method /\ d.name \in Name \cup {"none"} /\ d.sent \in Seq(Meshes)
  BY DEF CallState
<1> QED
  BY <1>1, EndedFields DEF CallState

Handled(d) == [d EXCEPT !.pc = "handled"]

LEMMA HandledFields ==
    ASSUME NEW d \in CallState
    PROVE  /\ Handled(d) \in CallState /\ Handled(d).pc = "handled"
           /\ Handled(d).method = d.method /\ Handled(d).name = d.name
           /\ Handled(d).sent = d.sent /\ Handled(d).status = d.status
BY DEF Handled, CallState

----------------------------------------------------------------------------
(* A handler and the call it works for. *)

\* The service as NewService made it, but for the models that were taken out
\* of the message: with those still to come they are the models of the call.
IsHalfway(h, d) ==
    LET in == h.service.incoming
        form == InForm(h.method)
    IN /\ Len(in[form]) + Len(h.todo) = Len(d.sent)
       /\ \A k \in 1 .. Len(in[form]) : in[form][k] = Taken(d.method, d.sent[k])
       /\ \A k \in 1 .. Len(h.todo) : h.todo[k] = d.sent[Len(in[form]) + k]
       /\ \A f \in {"data", "mesh"} : f # form => in[f] = <<>>
       /\ \A f \in {"data", "mesh", "number"} : h.service.outgoing[f] = <<>>

Link(h, d) ==
    /\ h.pc # "idle" /\ d.pc = "handled"
    /\ d.method = h.method /\ d.name = h.service.name
    /\ h.pc = "models" => IsHalfway(h, d)
    /\ h.pc = "respond" => h.service.outgoing[OutForm(h.method)] = Answer(d)

LEMMA ServiceFields ==
    ASSUME NEW s \in Service
    PROVE  /\ s = [name |-> s.name, incoming |-> s.incoming, outgoing |-> s.outgoing]
           /\ s.name \in Name
           /\ s.incoming \in [{"data", "mesh"} -> Seq(Mesh)]
           /\ s.outgoing \in [{"data", "mesh", "number"} -> Seq(Result)]
BY DEF Service

Took(s, form, m) == [s EXCEPT !.incoming[form] = Append(@, m)]

\* r is the service s with one more model.
HasTaken(r, s, form, m) ==
    /\ r \in Service /\ r.name = s.name /\ r.outgoing = s.outgoing
    /\ r.incoming[form] = Append(s.incoming[form], m)
    /\ \A f \in {"data", "mesh"} : f # form => r.incoming[f] = s.incoming[f]

LEMMA TookService ==
    ASSUME NEW s \in Service, NEW form \in {"data", "mesh"}, NEW m \in Mesh
    PROVE  HasTaken(Took(s, form, m), s, form, m)
<1> DEFINE more == Append(s.incoming[form], m)
           in == [s.incoming EXCEPT ![form] = more]
<1>1. Took(s, form, m) = [s EXCEPT !.incoming = in]
  BY DEF Took
<1>2. s.incoming \in [{"data", "mesh"} -> Seq(Mesh)]
  BY ServiceFields
<1>3. more \in Seq(Mesh)
  <2>1. s.incoming[form] \in Seq(Mesh)
    BY <1>2
  <2> QED
    BY <2>1, Appended
<1> HIDE DEF more
<1>4. /\ in \in [{"data", "mesh"} -> Seq(Mesh)]
      /\ in[form] = more
      /\ \A f \in {"data", "mesh"} : f # form => in[f] = s.incoming[f]
  BY <1>2, <1>3
<1> HIDE DEF in
<1>5. Took(s, form, m) = [name |-> s.name, incoming |-> in, outgoing |-> s.outgoing]
  BY <1>1, ServiceFields
<1> DEFINE r == Took(s, form, m)
<1>6. r \in Service /\ r.name = s.name /\ r.outgoing = s.outgoing /\ r.incoming = in
  BY <1>4, <1>5, ServiceFields DEF Service
<1> HIDE DEF r
<1>7. HasTaken(r, s, form, m)
  BY <1>4, <1>6 DEF HasTaken, more
<1> QED
  BY <1>7 DEF r


LEMMA NewServiceParts ==
    ASSUME NEW n \in Name
    PROVE  /\ NewService(n) \in Service /\ NewService(n).name = n
           /\ \A f \in {"data", "mesh"} : NewService(n).incoming[f] = <<>>
           /\ \A f \in {"data", "mesh", "number"} : NewService(n).outgoing[f] = <<>>
BY NewServiceType DEF NewService

\* A handler starts with all models of its call before it.
LEMMA StartLink ==
    ASSUME NEW d \in CallState, d.name \in Name, NEW c \in Client, NEW i \in Nat
    PROVE  /\ Started(c, d, i, NewService(d.name)) \in HandlerState
           /\ Link(Started(c, d, i, NewService(d.name)), Handled(d))
<1> DEFINE s == NewService(d.name)
           h == Started(c, d, i, s)
           e == Handled(d)
<1>1. h = [pc |-> "models", client |-> c, method |-> d.method, index |-> i,
           service |-> s, todo |-> d.sent, mesh |-> EmptyMesh]
  BY StartedFields
<1>2. /\ s \in Service /\ s.name = d.name
      /\ \A f \in {"data", "mesh"} : s.incoming[f] = <<>>
      /\ \A f \in {"data", "mesh", "number"} : s.outgoing[f] = <<>>
  BY NewServiceParts
<1>3. e.pc = "handled" /\ e.method = d.method /\ e.name = d.name /\ e.sent = d.sent
  BY HandledFields
<1>4. d.method \in Method /\ d.sent \in Seq(Meshes)
  BY DEF CallState
<1>5. EmptyMesh \in MeshObjects
  BY DEF MeshObjects
<1> HIDE DEF s, h, e
<1>6. h \in HandlerState
  BY <1>1, <1>2, <1>4, <1>5 DEF HandlerState
<1>7. /\ h.pc = "models" /\ h.method = d.method /\ h.service = s /\ h.todo = d.sent
  BY <1>1
<1>8. IsHalfway(h, e)
  <2> DEFINE form == InForm(h.method)
             sent == d.sent
  <2>1. form \in {"data", "mesh"}
    BY <1>4, <1>7, Forms
  <2>2. s.incoming[form] = <<>>
    BY <1>2, <2>1
  <2>3. sent \in Seq(Meshes) /\ Len(sent) \in Nat
    BY <1>4
  <2> HIDE DEF form, sent
  <2>4. Len(<<>>) = 0 /\ \A k \in 1 .. Len(sent) : 0 + k = k
    BY <2>3
  <2>5. e.sent = sent /\ h.todo = sent /\ h.service = s
    BY <1>3, <1>7 DEF sent
  <2> QED
    BY <1>2, <2>2, <2>3, <2>4, <2>5 DEF IsHalfway, form
<1>9. Link(h, e)
  BY <1>2, <1>3, <1>7, <1>8 DEF Link
<1> QED
  BY <1>6, <1>9 DEF s, h, e

\* Another model is taken out of the message.
LEMMA PushLink ==
    ASSUME NEW h \in HandlerState, h.pc = "models", h.todo # <<>>, h.service \in Service,
           NEW mesh \in MeshObjects,
           NEW m \in Mesh, m = Taken(h.method, Head(h.todo)),
           NEW r, HasTaken(r, h.service, InForm(h.method), m)
    PROVE  /\ Pushed(h, r, mesh) \in HandlerState
           /\ \A d \in CallState : Link(h, d) => Link(Pushed(h, r, mesh), d)
<1> DEFINE g == Pushed(h, r, mesh)
           form == InForm(h.method)
           A == h.service.incoming[form]
           T == h.todo
<1>1. g = [pc |-> h.pc, client |-> h.client, method |-> h.method, index |-> h.index,
           service |-> r, todo |-> Tail(h.todo), mesh |-> mesh]
  BY PushedFields
<1>2. /\ r \in Service /\ r.name = h.service.name /\ r.outgoing = h.service.outgoing
      /\ r.incoming[form] = Append(A, m)
      /\ \A f \in {"data", "mesh"} : f # form => r.incoming[f] = h.service.incoming[f]
  BY DEF HasTaken
<1>3. form \in {"data", "mesh"} /\ T \in Seq(Meshes)
  BY Forms, HandlerFields
<1>4. A \in Seq(Mesh)
  BY <1>3, ServiceFields
<1>5. /\ Tail(T) \in Seq(Meshes) /\ Len(T) \in Nat /\ Len(Tail(T)) = Len(T) - 1 /\ Len(T) > 0
      /\ Head(T) = T[1]
      /\ \A k \in 1 .. Len(T) - 1 : Tail(T)[k] = T[k + 1]
  BY <1>3
<1> HIDE DEF g
<1>6. g \in HandlerState
  BY <1>1, <1>2, <1>5, HandlerFields DEF HandlerState
<1>7. g.pc = "models" /\ g.method = h.method /\ g.service = r /\ g.todo = Tail(T)
  BY <1>1
<1>8. ASSUME NEW d \in CallState, Link(h, d)
      PROVE  Link(g, d)
  <2> DEFINE sent == d.sent
             B == r.incoming[form]
             U == g.todo
  <2>1. d.method = h.method /\ d.name = h.service.name /\ d.pc = "handled" /\ IsHalfway(h, d)
    BY <1>8 DEF Link
  <2>2. /\ Len(A) + Len(T) = Len(sent)
        /\ \A k \in 1 .. Len(A) : A[k] = Taken(d.method, sent[k])
        /\ \A k \in 1 .. Len(T) : T[k] = sent[Len(A) + k]
        /\ \A f \in {"data", "mesh"} : f # form => h.service.incoming[f] = <<>>
        /\ \A f \in {"data", "mesh", "number"} : h.service.outgoing[f] = <<>>
    BY <2>1 DEF IsHalfway
  <2>3. m = Taken(d.method, sent[Len(A) + 1])
    <3>1. 1 \in 1 .. Len(T)
      BY <1>5
    <3> QED
      BY <1>5, <2>1, <2>2, <3>1
  <2>4. /\ Len(B) = Len(A) + 1 /\ Len(A) \in Nat
        /\ \A k \in 1 .. Len(A) : B[k] = A[k]
        /\ B[Len(A) + 1] = m
    BY <1>2, <1>4, Appended
  <2>5. Len(U) = Len(T) - 1 /\ \A k \in 1 .. Len(T) - 1 : U[k] = T[k + 1]
    BY <1>5, <1>7
  <2>6. g.service = r
    BY <1>7
  <2> HIDE DEF A, T, sent, B, U
  <2>7. Len(B) + Len(U) = Len(sent)
    BY <1>5, <2>2, <2>4, <2>5
  <2>8. \A k \in 1 .. Len(B) : B[k] = Taken(d.method, sent[k])
    <3> TAKE k \in 1 .. Len(B)
    <3>1. k \in 1 .. Len(A) \/ k = Len(A) + 1
      BY <2>4
    <3> QED
      BY <2>2, <2>3, <2>4, <3>1
  <2>9. \A k \in 1 .. Len(U) : U[k] = sent[Len(B) + k]
    <3> TAKE k \in 1 .. Len(U)
    <3>1. k \in 1 .. Len(T) - 1 /\ k + 1 \in 1 .. Len(T)
          /\ Len(A) + (k + 1) = Len(B) + k
      BY <1>5, <2>4, <2>5
    <3> QED
      BY <2>2, <2>5, <3>1
  <2>10. /\ \A f \in {"data", "mesh"} : f # form => r.incoming[f] = <<>>
         /\ \A f \in {"data", "mesh", "number"} : r.outgoing[f] = <<>>
    BY <1>2, <2>2
  <2>11. IsHalfway(g, d)
    BY <1>7, <2>7, <2>8, <2>9, <2>10 DEF IsHalfway, B, U, sent
  <2> QED
    BY <1>2, <1>7, <2>1, <2>11 DEF Link
<1> QED
  BY <1>6, <1>8 DEF g


LEMMA ComputedType ==
    ASSUME NEW s \in Service
    PROVE  /\ Computed(s) \in Seq(Result)
           /\ Len(Computed(s)) = Len(s.incoming[FormOf[s.name]])
           /\ \A k \in 1 .. Len(Computed(s)) :
                 Computed(s)[k] = [service |-> s.name, model |-> s.incoming[FormOf[s.name]][k]]
<1> DEFINE models == s.incoming[FormOf[s.name]]
           r == [k \in DOMAIN models |-> [service |-> s.name, model |-> models[k]]]
<1>1. models \in Seq(Mesh) /\ s.name \in Name
  BY ServiceFields, FormOfType
<1>2. Computed(s) = r
  BY DEF Computed
<1> HIDE DEF models
<1>3. /\ DOMAIN models = 1 .. Len(models) /\ Len(models) \in Nat
      /\ \A k \in 1 .. Len(models) : models[k] \in Mesh
  BY <1>1
<1>4. \A k \in 1 .. Len(models) : [service |-> s.name, model |-> models[k]] \in Result
  BY <1>1, <1>3 DEF Result
<1>5. /\ r \in Seq(Result) /\ Len(r) = Len(models)
      /\ \A k \in 1 .. Len(models) : r[k] = [service |-> s.name, model |-> models[k]]
  BY <1>3, <1>4
<1> HIDE DEF r
<1> QED
  BY <1>2, <1>5 DEF models

OutOf(h) ==
    IF OutForm(h.method) = "number" THEN "number" ELSE FormOf[h.service.name]

Gave(s, out) == [s EXCEPT !.outgoing[out] = @ \o Computed(s)]

\* r is the service s with the results of its function.
HasGiven(r, s, out) ==
    /\ r \in Service /\ r.name = s.name
    /\ r.outgoing[out] = s.outgoing[out] \o Computed(s)
    /\ \A f \in {"data", "mesh", "number"} : f # out => r.outgoing[f] = s.outgoing[f]

LEMMA GaveService ==
    ASSUME NEW s \in Service, NEW out \in {"data", "mesh", "number"}
    PROVE  HasGiven(Gave(s, out), s, out)
<1> DEFINE more == s.outgoing[out] \o Computed(s)
           all == [s.outgoing EXCEPT ![out] = more]
<1>1. Gave(s, out) = [s EXCEPT !.outgoing = all]
  BY DEF Gave
<1>2. s.outgoing \in [{"data", "mesh", "number"} -> Seq(Result)]
  BY ServiceFields
<1>3. more \in Seq(Result)
  <2>1. s.outgoing[out] \in Seq(Result) /\ Computed(s) \in Seq(Result)
    BY <1>2, ComputedType
  <2> QED
    BY <2>1, Joined
<1> HIDE DEF more
<1>4. /\ all \in [{"data", "mesh", "number"} -> Seq(Result)]
      /\ all[out] = more
      /\ \A f \in {"data", "mesh", "number"} : f # out => all[f] = s.outgoing[f]
  BY <1>2, <1>3
<1> HIDE DEF all
<1>5. Gave(s, out) = [name |-> s.name, incoming |-> s.incoming, outgoing |-> all]
  BY <1>1, ServiceFields
<1> DEFINE r == Gave(s, out)
<1>6. r \in Service /\ r.name = s.name /\ r.outgoing = all
  BY <1>4, <1>5, ServiceFields DEF Service
<1> HIDE DEF r
<1>7. HasGiven(r, s, out)
  BY <1>4, <1>6 DEF HasGiven, more
<1> QED
  BY <1>7 DEF r

LEMMA EmptyBefore ==
    ASSUME NEW S, NEW s \in Seq(S)
    PROVE  <<>> \o s = s /\ s \o <<>> = s
<1>1. <<>> \in Seq(S) /\ Len(<<>>) = 0 /\ Len(s) \in Nat
  OBVIOUS
<1>2. <<>> \o s \in Seq(S) /\ Len(<<>> \o s) = Len(s)
      /\ \A i \in 1 .. Len(s) : (<<>> \o s)[i] = s[i]
  BY <1>1, Joined
<1>3. s \o <<>> \in Seq(S) /\ Len(s \o <<>>) = Len(s)
      /\ \A i \in 1 .. Len(s) : (s \o <<>>)[i] = s[i]
  BY <1>1, Joined
<1> DEFINE t == <<>> \o s
           u == s \o <<>>
<1> HIDE DEF t, u
<1>4. t = s
  BY <1>2, SameSequence DEF t
<1>5. u = s
  BY <1>3, SameSequence DEF u
<1> QED
  BY <1>4, <1>5 DEF t, u

\* All models are taken, and the function of the service runs.
LEMMA ExecuteLink ==
    ASSUME NEW h \in HandlerState, h.pc = "models", h.todo = <<>>, h.service \in Service,
           NEW r, HasGiven(r, h.service, OutOf(h))
    PROVE  /\ Executed(h, r) \in HandlerState
           /\ \A d \in CallState : d.name \in Name /\ Link(h, d) => Link(Executed(h, r), d)
<1> DEFINE g == Executed(h, r)
           s == h.service
           form == InForm(h.method)
           out == OutOf(h)
           given == Computed(s)
<1>1. g = [pc |-> "respond", client |-> h.client, method |-> h.method, index |-> h.index,
           service |-> r, todo |-> h.todo, mesh |-> h.mesh]
  BY ExecutedFields
<1>2. /\ r \in Service /\ r.name = s.name
      /\ r.outgoing[out] = s.outgoing[out] \o given
      /\ \A f \in {"data", "mesh", "number"} : f # out => r.outgoing[f] = s.outgoing[f]
  BY DEF HasGiven
<1>3. /\ form \in {"data", "mesh"} /\ OutForm(h.method) \in {"data", "mesh", "number"}
      /\ OutForm(h.method) # "number" => OutForm(h.method) = form
  BY Forms, HandlerFields
<1>4. s.name \in Name /\ FormOf[s.name] \in {"data", "mesh"}
  BY ServiceFields, FormOfType
<1> HIDE DEF g
<1>5. g \in HandlerState
  BY <1>1, <1>2, HandlerFields DEF HandlerState
<1>6. g.pc = "respond" /\ g.method = h.method /\ g.service = r
  BY <1>1
<1>7. /\ given \in Seq(Result)
      /\ Len(given) = Len(s.incoming[FormOf[s.name]])
      /\ \A k \in 1 .. Len(given) :
            given[k] = [service |-> s.name, model |-> s.incoming[FormOf[s.name]][k]]
  BY ComputedType
<1>8. ASSUME NEW d \in CallState, d.name \in Name, Link(h, d)
      PROVE  Link(g, d)
  <2>1. d.method = h.method /\ d.name = s.name /\ d.pc = "handled" /\ IsHalfway(h, d)
    BY <1>8 DEF Link
  <2>2. /\ Len(s.incoming[form]) + Len(h.todo) = Len(d.sent)
        /\ \A k \in 1 .. Len(s.incoming[form]) :
              s.incoming[form][k] = Taken(d.method, d.sent[k])
        /\ \A f \in {"data", "mesh"} : f # form => s.incoming[f] = <<>>
        /\ \A f \in {"data", "mesh", "number"} : s.outgoing[f] = <<>>
    BY <2>1 DEF IsHalfway
  <2>3. /\ Answer(d) \in Seq(Result)
        /\ FormOf[s.name] = form => Len(Answer(d)) = Len(d.sent)
        /\ FormOf[s.name] # form => Answer(d) = <<>>
    <3>1. d.sent \in Seq(Meshes)
      BY DEF CallState
    <3> QED
      BY <1>8, <2>1, <3>1, AnswerType
  <2>4. given = Answer(d)
    <3>1. CASE FormOf[s.name] = form
      <4>1. s.incoming[form] \in Seq(Mesh)
        BY <1>3, ServiceFields
      <4>2. Len(h.todo) = 0
        OBVIOUS
      <4>3. Len(given) = Len(Answer(d)) /\ Len(s.incoming[form]) = Len(Answer(d))
            /\ Len(d.sent) = Len(Answer(d))
        BY <1>7, <2>2, <2>3, <3>1, <4>1, <4>2
      <4>4. Answer(d) = [k \in 1 .. Len(d.sent) |->
                           [service |-> d.name, model |-> Taken(d.method, d.sent[k])]]
        BY <2>1, <3>1 DEF Answer
      <4>5. \A k \in 1 .. Len(Answer(d)) :
               Answer(d)[k] = [service |-> s.name, model |-> Taken(d.method, d.sent[k])]
        BY <2>1, <4>3, <4>4, Zenon
      <4>6. \A k \in 1 .. Len(Answer(d)) : given[k] = Answer(d)[k]
        BY <1>7, <2>2, <3>1, <4>3, <4>5
      <4> QED
        BY <1>7, <2>3, <4>3, <4>6, SameSequence
    <3>2. CASE FormOf[s.name] # form
      <4>1. s.incoming[FormOf[s.name]] = <<>>
        BY <1>4, <2>2, <3>2
      <4>2. Len(given) = 0
        BY <1>7, <4>1
      <4>3. given = <<>>
        BY <1>7, <4>2
      <4> QED
        BY <2>3, <3>2, <4>3
    <3> QED
      BY <3>1, <3>2
  <2> HIDE DEF given
  <2>5. r.outgoing[OutForm(h.method)] = Answer(d)
    <3>1. CASE OutForm(h.method) = out
      <4>1. s.outgoing[out] = <<>>
        BY <1>3, <2>2, <3>1
      <4>2. r.outgoing[out] = <<>> \o given
        BY <1>2, <4>1, Zenon
      <4>3. r.outgoing[out] = given
        BY <1>7, <4>2, EmptyBefore
      <4> QED
        BY <2>4, <3>1, <4>3
    <3>2. CASE OutForm(h.method) # out
      <4>1. FormOf[s.name] # form
        BY <1>3, <3>2 DEF OutOf
      <4> QED
        BY <1>2, <1>3, <2>2, <2>3, <3>2, <4>1
    <3> QED
      BY <3>1, <3>2
  <2> QED
    BY <1>2, <1>6, <2>1, <2>5 DEF Link
<1> QED
  BY <1>5, <1>8 DEF g


----------------------------------------------------------------------------
(* What a client gets. *)

LEMMA ExpectedType ==
    ASSUME NEW d \in PastCall
    PROVE  /\ Expected(d) \in Seq(Result)
           /\ d.status = "OK" => Expected(d) = Answer(d)
           /\ d.status # "OK" => Expected(d) = <<>>
<1>1. d.name \in Name /\ d.sent \in Seq(Meshes)
  BY DEF PastCall
<1>2. Answer(d) \in Seq(Result) /\ <<>> \in Seq(Result)
  BY <1>1, AnswerType
<1>3. DOMAIN d.sent = 1 .. Len(d.sent)
  BY <1>1
<1>4. Expected(d) = IF d.status = "OK" THEN Answer(d) ELSE <<>>
  BY <1>3, Zenon DEF Expected, Answer, Taken
<1> QED
  BY <1>2, <1>4

\* Results of meshes that made one trip are not changed by the second.
LEMMA ReceivedAnswer ==
    ASSUME NEW d \in CallState, d.name \in Name, d.reply = Answer(d)
    PROVE  [k \in DOMAIN d.reply |-> Received(d.method, d.reply[k])] = Answer(d)
<1> DEFINE a == Answer(d)
<1>1. d.sent \in Seq(Meshes) /\ d.method \in Method
  BY DEF CallState
<1>2. /\ a \in Seq(Result)
      /\ FormOf[d.name] = InForm(d.method) => Len(a) = Len(d.sent)
      /\ FormOf[d.name] # InForm(d.method) => a = <<>>
  BY <1>1, AnswerType
<1>3. ASSUME NEW k \in DOMAIN a
      PROVE  Received(d.method, a[k]) = a[k]
  <2>1. CASE OutForm(d.method) # "mesh"
    BY <2>1 DEF Received
  <2>2. CASE OutForm(d.method) = "mesh"
    <3>1. InForm(d.method) = "mesh"
      BY <1>1, <2>2, Forms
    <3>2. DOMAIN a = 1 .. Len(a)
      BY <1>2
    <3>3. FormOf[d.name] = InForm(d.method)
      BY <1>2, <3>2
    <3>4. k \in 1 .. Len(d.sent) /\ d.sent[k] \in Meshes
      BY <1>1, <1>2, <3>2, <3>3
    <3> DEFINE m == Taken(d.method, d.sent[k])
    <3>5. a[k] = [service |-> d.name, model |-> m]
      BY <3>3, <3>4, Zenon DEF Answer
    <3>6. Trip(m) = m
      BY <3>1, <3>4, TakenType
    <3> HIDE DEF m, a
    <3>7. [a[k] EXCEPT !.model = Trip(@)] = [service |-> d.name, model |-> m]
      BY <3>5, <3>6
    <3> QED
      BY <2>2, <3>5, <3>7 DEF Received
  <2> QED
    BY <2>1, <2>2
<1>4. a = [k \in DOMAIN a |-> a[k]]
  BY <1>2
<1> HIDE DEF a
<1>5. [k \in DOMAIN a |-> Received(d.method, a[k])] = a
  BY <1>3, <1>4, Zenon
<1> QED
  BY <1>5, Zenon DEF a

\* The function that ExpectedOf is defined by.
IsUpTo(f, calls) ==
    f = [n \in 0 .. Len(calls) |-> IF n = 0 THEN <<>> ELSE f[n - 1] \o Expected(calls[n])]

LEMMA ExpectedOfChoice ==
    ASSUME NEW calls \in Seq(PastCall)
    PROVE  \E f \in [0 .. Len(calls) -> Seq(Result)] :
              /\ f[0] = <<>>
              /\ \A n \in 1 .. Len(calls) : f[n] = f[n - 1] \o Expected(calls[n])
              /\ ExpectedOf(calls) = f[Len(calls)]
<1> DEFINE N == Len(calls)
           V == Seq(Result)
           step == [n \in 1 .. N |-> [s \in V |-> s \o Expected(calls[n])]]
           g == CHOOSE f : IsUpTo(f, calls)
<1>1. N \in Nat /\ \A n \in 1 .. N : calls[n] \in PastCall
  OBVIOUS
<1>2. \A n \in 1 .. N : \A s \in V : s \o Expected(calls[n]) \in V
  BY <1>1, ExpectedType, Joined
<1>3. step \in [1 .. N -> [V -> V]] /\ <<>> \in V
  BY <1>2
<1>4. \A n \in 1 .. N : \A s \in V : step[n][s] = s \o Expected(calls[n])
  OBVIOUS
<1> HIDE DEF N, V, step
<1>5. PICK f \in [0 .. N -> V] : IsRecursive(f, N, <<>>, step)
  BY <1>1, <1>3, IntervalRecursion
<1>6. \A n \in 0 .. N : f[n] = IF n = 0 THEN <<>> ELSE f[n - 1] \o Expected(calls[n])
  <2>1. \A n \in 0 .. N : n = 0 \/ (n # 0 /\ n \in 1 .. N /\ f[n - 1] \in V)
    BY <1>1, <1>5
  <2>2. f[0] = <<>> /\ \A n \in 1 .. N : f[n] = step[n][f[n - 1]]
    BY <1>5 DEF IsRecursive
  <2> QED
    BY <1>4, <2>1, <2>2, Zenon
<1>7. IsUpTo(f, calls)
  <2>1. f = [n \in 0 .. N |-> f[n]]
    BY <1>5
  <2> QED
    BY <1>6, <2>1, Zenon DEF IsUpTo, N
<1>8. IsUpTo(g, calls)
  BY <1>7, Zenon
<1>9. ExpectedOf(calls) = g[Len(calls)]
  BY DEF ExpectedOf, IsUpTo
<1> HIDE DEF g
<1>10. /\ g = [n \in 0 .. N |-> g[n]] /\ g[0] = <<>>
       /\ \A n \in 1 .. N : g[n] = g[n - 1] \o Expected(calls[n])
  <2> DEFINE value(n) == IF n = 0 THEN <<>> ELSE g[n - 1] \o Expected(calls[n])
  <2>1. g = [n \in 0 .. N |-> value(n)]
    BY <1>8 DEF IsUpTo, N
  <2>2. value(0) = <<>> /\ \A n : n # 0 => value(n) = g[n - 1] \o Expected(calls[n])
    BY Zenon
  <2> HIDE DEF value
  <2>3. g = [n \in 0 .. N |-> g[n]] /\ \A n \in 0 .. N : g[n] = value(n)
    BY <2>1
  <2>4. 0 \in 0 .. N /\ \A n \in 1 .. N : n # 0 /\ n \in 0 .. N
    BY <1>1
  <2> QED
    BY <2>2, <2>3, <2>4, Zenon
<1>11. \A n \in 0 .. N : g[n] \in V
  <2> DEFINE S == {n \in 0 .. N : g[n] \in V}
  <2>1. 0 \in S
    BY <1>1, <1>3, <1>10
  <2>2. ASSUME NEW n \in 0 .. N - 1, n \in S
        PROVE  n + 1 \in S
    <3>1. n + 1 \in 1 .. N /\ (n + 1) - 1 = n
      BY <1>1
    <3>2. g[n + 1] = g[n] \o Expected(calls[n + 1])
      BY <1>10, <3>1
    <3>3. g[n] \o Expected(calls[n + 1]) \in V
      BY <1>2, <2>2, <3>1
    <3>4. g[n + 1] \in V
      BY <3>2, <3>3, Zenon
    <3> QED
      BY <1>1, <3>1, <3>4
  <2> HIDE DEF S
  <2>3. 0 .. N \subseteq S
    BY <1>1, <2>1, <2>2, IntervalInduction
  <2> QED
    BY <2>3 DEF S
<1>12. g \in [0 .. N -> V]
  BY <1>10, <1>11
<1> QED
  BY <1>9, <1>10, <1>12 DEF N, V

\* One more call adds what it should give.
LEMMA ExpectedOfAppend ==
    ASSUME NEW calls \in Seq(PastCall), NEW d \in PastCall
    PROVE  ExpectedOf(Append(calls, d)) = ExpectedOf(calls) \o Expected(d)
<1> DEFINE N == Len(calls)
           more == Append(calls, d)
<1>1. /\ more \in Seq(PastCall) /\ Len(more) = N + 1 /\ N \in Nat
      /\ \A n \in 1 .. N : more[n] = calls[n]
      /\ more[N + 1] = d
  BY Appended
<1> HIDE DEF more
<1>2. PICK f \in [0 .. N -> Seq(Result)] :
         /\ f[0] = <<>>
         /\ \A n \in 1 .. N : f[n] = f[n - 1] \o Expected(calls[n])
         /\ ExpectedOf(calls) = f[N]
  BY ExpectedOfChoice
<1>3. PICK g \in [0 .. Len(more) -> Seq(Result)] :
         /\ g[0] = <<>>
         /\ \A n \in 1 .. Len(more) : g[n] = g[n - 1] \o Expected(more[n])
         /\ ExpectedOf(more) = g[Len(more)]
  BY <1>1, ExpectedOfChoice
<1> HIDE DEF N
<1> DEFINE S == {n \in 0 .. N : f[n] = g[n]}
<1>4. 0 \in S
  BY <1>1, <1>2, <1>3
<1>5. ASSUME NEW n \in 0 .. N - 1, n \in S
      PROVE  n + 1 \in S
  <2>1. n + 1 \in 1 .. N /\ (n + 1) - 1 = n /\ n + 1 \in 1 .. Len(more)
    BY <1>1
  <2>2. f[n + 1] = f[n] \o Expected(calls[n + 1])
    BY <1>2, <2>1
  <2>3. g[n + 1] = g[n] \o Expected(more[n + 1])
    BY <1>3, <2>1
  <2>4. f[n] = g[n] /\ more[n + 1] = calls[n + 1]
    BY <1>1, <1>5, <2>1
  <2>5. f[n + 1] = g[n + 1]
    BY <2>2, <2>3, <2>4
  <2> QED
    BY <1>1, <2>1, <2>5
<1> HIDE DEF S
<1>6. 0 .. N \subseteq S
  BY <1>1, <1>4, <1>5, IntervalInduction
<1>7. f[N] = g[N]
  BY <1>1, <1>6 DEF S
<1>8. g[N + 1] = g[N] \o Expected(d)
  <2>1. N + 1 \in 1 .. Len(more) /\ (N + 1) - 1 = N
    BY <1>1
  <2> QED
    BY <1>1, <1>3, <2>1
<1> QED
  BY <1>1, <1>2, <1>3, <1>7, <1>8 DEF more


----------------------------------------------------------------------------
(* The inductive invariant. *)

\* Services stay as NewService made them: handlers work on copies.
Fresh ==
    \A method \in Method : \A i \in DOMAIN Registry(method) :
       /\ i \in Nat
       /\ Registry(method)[i] \in Service
       /\ Registry(method)[i] = NewService(Registry(method)[i].name)

HoldsService(h) ==
    /\ h.service \in Service
    /\ h.index \in DOMAIN Registry(h.method)
    /\ Registry(h.method)[h.index].name = h.service.name

Holding == \A t \in Thread : thread[t].pc # "idle" => HoldsService(thread[t])

\* A call that was made has a name, and its response is the right one.
CallOK(d) ==
    /\ d \in CallState
    /\ d.pc # "idle" => d.name \in Name
    /\ d.pc = "returned" /\ d.status = "OK" => d.reply = Answer(d)

\* Handlers and the clients that wait for them.
Serving ==
    /\ thread \in [Thread -> HandlerState]
    /\ call \in [Client -> CallState] /\ \A c \in Client : CallOK(call[c])
    /\ \A t \in Thread : thread[t].client # NoClient =>
                            Link(thread[t], call[thread[t].client])
    /\ \A t, u \in Thread :
          thread[t].client = thread[u].client /\ thread[t].client # NoClient => t = u

History ==
    /\ results \in [Client -> Seq(Result)] /\ done \in [Client -> Seq(PastCall)]
    /\ ResultsExact

Counters == running \in BOOLEAN /\ faults \in 0 .. MaxFaults /\ kills \in 0 .. MaxKills

IInv == RegistryType /\ Fresh /\ Holding /\ Serving /\ History /\ Counters

----------------------------------------------------------------------------
(* The kinds of steps. *)

\* A handler goes on, from thread[t] to h.
Work(t, h) ==
    /\ thread[t].pc # "idle" /\ thread' = [thread EXCEPT ![t] = h]
    /\ h \in HandlerState /\ h.pc # "idle" /\ h.client = thread[t].client
    /\ h.method = thread[t].method /\ h.index = thread[t].index
    /\ h.service \in Service /\ h.service.name = thread[t].service.name
    /\ \A d \in CallState : d.name \in Name /\ Link(thread[t], d) => Link(h, d)
    /\ UNCHANGED <<provider, call, client, faults>>

LEMMA PushWorks ==
    ASSUME Holding, Serving, NEW t \in Thread,
           thread[t].pc = "models", thread[t].todo # <<>>,
           NEW mesh \in MeshObjects, NEW m, m = Taken(thread[t].method, Head(thread[t].todo)),
           Push(t, mesh, m), UNCHANGED <<call, client, faults>>
    PROVE  \E h : Work(t, h)
<1> DEFINE o == thread[t]
           r == Took(o.service, InForm(o.method), m)
           h == Pushed(o, r, mesh)
<1>1. o \in HandlerState /\ o.pc = "models" /\ o.todo # <<>>
  BY DEF Serving
<1>2. o.service \in Service
  BY DEF Holding, HoldsService
<1>3. o.method \in Method /\ o.todo \in Seq(Meshes)
  BY <1>1, HandlerFields
<1>4. m \in Mesh
  <2>1. Head(o.todo) \in Meshes
    BY <1>1, <1>3
  <2> QED
    BY <2>1, TakenType
<1>5. HasTaken(r, o.service, InForm(o.method), m)
  BY <1>2, <1>3, <1>4, Forms, TookService
<1>6. thread' = [thread EXCEPT ![t] = h] /\ UNCHANGED provider
  BY DEF Push, Took, Pushed, KeepRegistry
<1>7. /\ h \in HandlerState
      /\ \A d \in CallState : Link(o, d) => Link(h, d)
  BY <1>1, <1>2, <1>4, <1>5, PushLink
<1>8. h = [pc |-> o.pc, client |-> o.client, method |-> o.method, index |-> o.index,
           service |-> r, todo |-> Tail(o.todo), mesh |-> mesh]
  BY <1>1, PushedFields
<1>9. r \in Service /\ r.name = o.service.name
  BY <1>5 DEF HasTaken
<1> HIDE DEF r, h
<1>10. /\ h.pc = o.pc /\ h.client = o.client /\ h.method = o.method /\ h.index = o.index
       /\ h.service = r
  BY <1>8
<1>11. Work(t, h)
  BY <1>1, <1>6, <1>7, <1>9, <1>10 DEF Work
<1> QED
  BY <1>11

LEMMA HandlerWorks ==
    ASSUME Holding, Serving, NEW t \in Thread,
           PushData(t) \/ PushMesh(t) \/ Execute(t)
    PROVE  \E h : Work(t, h)
<1> DEFINE o == thread[t]
<1>1. o \in HandlerState
  BY DEF Serving
<1>2. o.method \in Method /\ o.todo \in Seq(Meshes) /\ o.mesh \in MeshObjects
  BY <1>1, HandlerFields
<1>3. CASE PushData(t)
  <2>1. /\ o.pc = "models" /\ o.todo # <<>> /\ InForm(o.method) = "data"
        /\ Push(t, o.mesh, Head(o.todo)) /\ UNCHANGED <<call, client, faults>>
    BY <1>3 DEF PushData
  <2>2. Head(o.todo) = Taken(o.method, Head(o.todo))
    BY <2>1 DEF Taken
  <2> QED
    BY <1>2, <2>1, <2>2, PushWorks
<1>4. CASE PushMesh(t)
  <2> DEFINE mesh == Trip(Head(o.todo))
  <2>1. /\ o.pc = "models" /\ o.todo # <<>> /\ InForm(o.method) = "mesh"
        /\ Push(t, mesh, mesh) /\ UNCHANGED <<call, client, faults>>
    BY <1>4 DEF PushMesh, Trip
  <2>2. mesh = Taken(o.method, Head(o.todo))
    BY <2>1 DEF Taken
  <2>3. mesh \in MeshObjects
    <3>1. Head(o.todo) \in Meshes
      BY <1>2, <2>1
    <3> QED
      BY <3>1 DEF MeshObjects
  <2> HIDE DEF mesh
  <2> QED
    BY <2>1, <2>2, <2>3, PushWorks
<1>5. CASE Execute(t)
  <2> DEFINE s == o.service
             r == Gave(s, OutOf(o))
             h == Executed(o, r)
  <2>1. o.pc = "models" /\ o.todo = <<>> /\ UNCHANGED <<call, client, faults>>
    BY <1>5 DEF Execute
  <2>2. s \in Service
    BY <2>1 DEF Holding, HoldsService
  <2>3. OutOf(o) \in {"data", "mesh", "number"}
    BY <2>2, ServiceFields, FormOfType DEF OutOf
  <2>4. thread' = [thread EXCEPT ![t] = h] /\ UNCHANGED provider
    BY <1>5 DEF Execute, OutOf, Gave, Executed, KeepRegistry
  <2>5. HasGiven(r, s, OutOf(o))
    BY <2>2, <2>3, GaveService
  <2>6. /\ h \in HandlerState
        /\ \A d \in CallState : d.name \in Name /\ Link(o, d) => Link(h, d)
    BY <1>1, <2>1, <2>2, <2>5, ExecuteLink
  <2>7. h = [pc |-> "respond", client |-> o.client, method |-> o.method, index |-> o.index,
             service |-> r, todo |-> o.todo, mesh |-> o.mesh]
    BY <1>1, ExecutedFields
  <2>8. r \in Service /\ r.name = s.name
    BY <2>5 DEF HasGiven
  <2> HIDE DEF r, h
  <2>9. /\ h.pc = "respond" /\ h.client = o.client /\ h.method = o.method
        /\ h.index = o.index /\ h.service = r
    BY <2>7
  <2>10. Work(t, h)
    BY <2>1, <2>4, <2>6, <2>8, <2>9 DEF Work
  <2> QED
    BY <2>10
<1> QED
  BY <1>3, <1>4, <1>5


\* A call that no handler works for becomes d.
OnlyCall(c, d) ==
    /\ call[c].pc # "handled" /\ CallOK(d)
    /\ call' = [call EXCEPT ![c] = d] /\ UNCHANGED thread

LEMMA CallEnds ==
    ASSUME NEW d, CallOK(d), NEW status \in Status, NEW reply \in Seq(Result),
           status # "OK", d.pc # "idle"
    PROVE  CallOK(Ended(d, status, reply))
BY EndedType DEF CallOK

LEMMA CallSteps ==
    ASSUME Serving, NEW c \in Client,
           PerformOperation(c) \/ RefuseCall(c) \/ ConnectFails(c) \/ Return(c)
    PROVE  \E d : OnlyCall(c, d)
<1> DEFINE o == call[c]
<1>1. o \in CallState /\ CallOK(o)
  BY DEF Serving
<1>2. <<>> \in Seq(Result) /\ o.reply \in Seq(Result)
      /\ "CANCELLED" \in Status /\ "UNAVAILABLE" \in Status
  BY <1>1 DEF CallState, Status
<1>3. CASE PerformOperation(c)
  <2>1. PICK n \in Name, method \in Method, models \in Inputs :
           call' = [call EXCEPT ![c] = Sent(method, n, models)]
    BY <1>3 DEF PerformOperation, Sent
  <2>2. models \in Seq(Meshes)
    BY ServiceProvideAssumption
  <2>3. CallOK(Sent(method, n, models))
    BY <2>2, SentFields DEF CallOK
  <2>4. o.pc = "idle" /\ UNCHANGED thread
    BY <1>3 DEF PerformOperation
  <2> QED
    BY <2>1, <2>3, <2>4 DEF OnlyCall
<1>4. CASE RefuseCall(c)
  <2>1. o.pc = "sent" /\ UNCHANGED thread
    BY <1>4 DEF RefuseCall
  <2>2. call' = [call EXCEPT ![c] = Refused(o)]
    BY <1>4 DEF RefuseCall, Refused
  <2>3. CallOK(Refused(o))
    BY <1>1, <1>2, <2>1, CallEnds, RefusedFields
  <2> QED
    BY <2>1, <2>2, <2>3 DEF OnlyCall
<1>5. CASE ConnectFails(c)
  <2>1. o.pc = "sent" /\ UNCHANGED thread
    BY <1>5 DEF ConnectFails
  <2>2. call' = [call EXCEPT ![c] = Ended(o, "UNAVAILABLE", <<>>)]
    BY <1>5 DEF ConnectFails, Unavailable, Ended
  <2>3. CallOK(Ended(o, "UNAVAILABLE", <<>>))
    BY <1>1, <1>2, <2>1, CallEnds
  <2> QED
    BY <2>1, <2>2, <2>3 DEF OnlyCall
<1>6. CASE Return(c)
  <2>1. o.pc = "returned" /\ UNCHANGED thread /\ call' = [call EXCEPT ![c] = NoCall]
    BY <1>6 DEF Return
  <2>2. CallOK(NoCall)
    BY NoCallType DEF CallOK
  <2> QED
    BY <2>1, <2>2 DEF OnlyCall
<1> QED
  BY <1>3, <1>4, <1>5, <1>6

LEMMA ServingCall ==
    ASSUME Serving, NEW c \in Client, NEW d, OnlyCall(c, d)
    PROVE  Serving'
<1>1. d \in CallState /\ CallOK(d) /\ call[c].pc # "handled"
  BY DEF OnlyCall, CallOK
<1>2. /\ thread' = thread /\ call' \in [Client -> CallState]
      /\ call'[c] = d /\ \A b \in Client : b # c => call'[b] = call[b]
  BY <1>1 DEF OnlyCall, Serving
<1>3. \A b \in Client : CallOK(call'[b])
  BY <1>1, <1>2 DEF Serving
<1>4. ASSUME NEW t \in Thread, thread[t].client # NoClient
      PROVE  Link(thread[t], call'[thread[t].client])
  <2>1. thread[t].client \in Client /\ Link(thread[t], call[thread[t].client])
    BY <1>4, HandlerFields DEF Serving
  <2>2. thread[t].client # c
    BY <1>1, <2>1 DEF Link
  <2> QED
    BY <1>2, <2>1, <2>2
<1> QED
  BY <1>2, <1>3, <1>4 DEF Serving

LEMMA ServingWork ==
    ASSUME Serving, NEW t \in Thread, NEW h, Work(t, h)
    PROVE  Serving'
<1>1. /\ h \in HandlerState /\ h.client = thread[t].client
      /\ thread' \in [Thread -> HandlerState] /\ call' = call
      /\ thread'[t] = h /\ \A u \in Thread : u # t => thread'[u] = thread[u]
  BY DEF Work, Serving
<1>2. \A u \in Thread : thread'[u].client = thread[u].client
  BY <1>1
<1>3. ASSUME NEW u \in Thread, thread[u].client # NoClient
      PROVE  Link(thread'[u], call[thread[u].client])
  <2> DEFINE d == call[thread[u].client]
  <2>1. thread[u].client \in Client /\ Link(thread[u], d)
    BY <1>3, HandlerFields DEF Serving
  <2>2. d \in CallState /\ CallOK(d)
    BY <2>1 DEF Serving
  <2>3. d.name \in Name
    BY <2>1, <2>2 DEF CallOK, Link
  <2> HIDE DEF d
  <2>4. ASSUME u = t
        PROVE  Link(thread'[u], d)
    BY <1>1, <2>1, <2>2, <2>3, <2>4 DEF Work
  <2>5. ASSUME u # t
        PROVE  Link(thread'[u], d)
    BY <1>1, <2>1, <2>5
  <2> QED
    BY <2>4, <2>5 DEF d
<1>4. \A u, v \in Thread :
         thread'[u].client = thread'[v].client /\ thread'[u].client # NoClient => u = v
  BY <1>2 DEF Serving
<1>5. \A u \in Thread : thread'[u].client # NoClient => Link(thread'[u], call'[thread'[u].client])
  BY <1>1, <1>2, <1>3
<1> QED
  BY <1>1, <1>4, <1>5 DEF Serving

LEMMA FirstMatch ==
    ASSUME Fresh, NEW method \in Method, NEW n, NEW i \in Matches(method, n)
    PROVE  /\ i \in DOMAIN Registry(method) /\ i \in Nat
           /\ Registry(method)[i].name = n /\ n \in Name
           /\ Registry(method)[i] = NewService(n)
BY ServiceFields DEF Fresh, Matches

LEMMA ServingFind ==
    ASSUME Fresh, Serving, NEW t \in Thread, NEW c \in Client, FindService(t, c)
    PROVE  Serving'
<1> DEFINE o == call[c]
<1>1. o \in CallState /\ CallOK(o) /\ o.pc = "sent" /\ o.method \in Method
      /\ thread[t].pc = "idle"
  BY DEF Serving, FindService, CallState
<1>2. o.name \in Name
  BY <1>1 DEF CallOK
<1>3. PICK i \in Matches(o.method, o.name) :
         thread' = [thread EXCEPT ![t] = Started(c, o, i, Registry(o.method)[i])]
  BY DEF FindService, Started
<1>4. i \in Nat /\ Registry(o.method)[i] = NewService(o.name)
  BY <1>1, <1>3, FirstMatch
<1> DEFINE h == Started(c, o, i, NewService(o.name))
           e == Handled(o)
<1>5. h \in HandlerState /\ Link(h, e)
  BY <1>1, <1>2, <1>4, StartLink
<1>6. h.client = c
  BY StartedFields
<1>7. e \in CallState /\ CallOK(e)
  <2>1. e \in CallState /\ e.pc = "handled" /\ e.name = o.name
    BY <1>1, HandledFields
  <2> QED
    BY <1>2, <2>1 DEF CallOK
<1>8. call' = [call EXCEPT ![c] = e]
  BY DEF FindService, Handled
<1> HIDE DEF h, e
<1>9. /\ thread' \in [Thread -> HandlerState] /\ thread'[t] = h
      /\ \A u \in Thread : u # t => thread'[u] = thread[u]
  BY <1>3, <1>4, <1>5 DEF Serving, h
<1>10. /\ call' \in [Client -> CallState] /\ call'[c] = e
       /\ \A b \in Client : b # c => call'[b] = call[b]
  BY <1>7, <1>8 DEF Serving
<1>11. ASSUME NEW u \in Thread, u # t, thread[u].client # NoClient
       PROVE  thread[u].client # c /\ Link(thread[u], call'[thread[u].client])
  <2>1. thread[u].client \in Client /\ Link(thread[u], call[thread[u].client])
    BY <1>11, HandlerFields DEF Serving
  <2>2. thread[u].client # c
    BY <1>1, <2>1 DEF Link
  <2> QED
    BY <1>10, <2>1, <2>2
<1>12. \A b \in Client : CallOK(call'[b])
  BY <1>7, <1>10 DEF Serving
<1>13. \A u \in Thread : thread'[u].client # NoClient => Link(thread'[u], call'[thread'[u].client])
  BY <1>5, <1>6, <1>9, <1>10, <1>11
<1>14. ASSUME NEW u \in Thread, NEW v \in Thread,
              thread'[u].client = thread'[v].client, thread'[u].client # NoClient
       PROVE  u = v
  <2>1. CASE u = t
    BY <1>6, <1>9, <1>11, <1>14, <2>1
  <2>2. CASE v = t
    BY <1>6, <1>9, <1>11, <1>14, <2>2
  <2>3. CASE u # t /\ v # t
    BY <1>9, <1>14, <2>3 DEF Serving
  <2> QED
    BY <2>1, <2>2, <2>3
<1> QED
  BY <1>9, <1>10, <1>12, <1>13, <1>14 DEF Serving


LEMMA ServingRespond ==
    ASSUME Serving, NEW t \in Thread, Respond(t)
    PROVE  /\ Serving'
           /\ \A c \in Client :
                 \/ call'[c] = call[c]
                 \/ /\ thread[t].client = c /\ thread[t].pc # "idle"
                    /\ Link(thread[t], call[c])
<1> DEFINE o == thread[t]
           response == o.service.outgoing[OutForm(o.method)]
<1>1. o \in HandlerState /\ o.pc = "respond" /\ thread' = [thread EXCEPT ![t] = Idle]
      /\ NoClient \notin Client
  BY ServiceProvideAssumption DEF Respond, Deliver, Serving
<1>2. call' = [c \in Client |-> IF o.client = c THEN Ended(call[c], "OK", response) ELSE call[c]]
  BY DEF Respond, Deliver, Ended
<1>3. /\ thread' \in [Thread -> HandlerState] /\ thread'[t].client = NoClient
      /\ \A u \in Thread : u # t => thread'[u] = thread[u]
  BY <1>1, IdleType DEF Serving
<1>4. \A c \in Client : o.client # c => call'[c] = call[c]
  BY <1>2
<1>5. ASSUME NEW c \in Client, o.client = c
      PROVE  Link(o, call[c]) /\ CallOK(call'[c])
  <2> DEFINE d == call[c]
  <2>1. d \in CallState /\ CallOK(d) /\ Link(o, d)
    BY <1>1, <1>5 DEF Serving
  <2>2. response = Answer(d) /\ d.pc = "handled" /\ d.name \in Name
    BY <1>1, <2>1 DEF Link, CallOK
  <2>3. response \in Seq(Result) /\ "OK" \in Status
    <3>1. d.sent \in Seq(Meshes)
      BY <2>1 DEF CallState
    <3> QED
      BY <2>2, <3>1, AnswerType DEF Status
  <2>4. call'[c] = Ended(d, "OK", response)
    BY <1>2, <1>5
  <2> HIDE DEF response
  <2>5. response = Answer(Ended(d, "OK", response))
    <3> DEFINE x == Ended(d, "OK", response)
    <3>1. x.name = d.name /\ x.method = d.method /\ x.sent = d.sent
      BY <2>1, <2>3, EndedType
    <3> HIDE DEF x
    <3>2. Answer(x) = Answer(d)
      BY <3>1, Zenon DEF Answer
    <3> QED
      BY <2>2, <3>2 DEF x
  <2>6. CallOK(Ended(d, "OK", response))
    BY <2>1, <2>2, <2>3, <2>5, EndedType DEF CallOK
  <2> QED
    BY <2>1, <2>4, <2>6
<1>6. \A c \in Client : CallOK(call'[c])
  BY <1>4, <1>5 DEF Serving
<1>7. call' \in [Client -> CallState]
  BY <1>2, <1>6 DEF CallOK
<1>8. ASSUME NEW u \in Thread, thread'[u].client # NoClient
      PROVE  Link(thread'[u], call'[thread'[u].client])
  <2>1. u # t /\ thread'[u] = thread[u]
    BY <1>3, <1>8
  <2>2. thread[u].client \in Client /\ Link(thread[u], call[thread[u].client])
    BY <1>8, <2>1, HandlerFields DEF Serving
  <2>3. thread[u].client # o.client
    BY <1>8, <2>1 DEF Serving
  <2> QED
    BY <1>4, <2>1, <2>2, <2>3
<1>9. \A u, v \in Thread :
         thread'[u].client = thread'[v].client /\ thread'[u].client # NoClient => u = v
  BY <1>3 DEF Serving
<1>10. Serving'
  BY <1>3, <1>6, <1>7, <1>8, <1>9 DEF Serving
<1> QED
  BY <1>1, <1>4, <1>5, <1>10

LEMMA ServingBreak ==
    ASSUME Serving, NEW c \in Client, ConnectionBreaks(c)
    PROVE  Serving' /\ \A t \in Thread : thread'[t] = thread[t] \/ thread'[t] = Detached(thread[t])
<1> DEFINE e == Ended(call[c], "UNAVAILABLE", <<>>)
<1>1. call[c] \in CallState /\ CallOK(call[c]) /\ call[c].pc # "idle"
  BY DEF Serving, ConnectionBreaks, Waiting
<1>2. call' = [call EXCEPT ![c] = e]
  BY DEF ConnectionBreaks, Unavailable, Ended
<1>3. thread' = [t \in Thread |-> IF thread[t].client = c THEN Detached(thread[t]) ELSE thread[t]]
  BY DEF ConnectionBreaks, Detached
<1>4. CallOK(e)
  <2>1. <<>> \in Seq(Result) /\ "UNAVAILABLE" \in Status
    BY DEF Status
  <2> QED
    BY <1>1, <2>1, CallEnds
<1> HIDE DEF e
<1>5. /\ call' \in [Client -> CallState] /\ call'[c] = e
      /\ \A b \in Client : b # c => call'[b] = call[b]
  BY <1>2, <1>4 DEF Serving, CallOK
<1>6. \A b \in Client : CallOK(call'[b])
  BY <1>4, <1>5 DEF Serving
<1>7. \A t \in Thread : /\ thread'[t] \in HandlerState
                        /\ thread'[t].client # NoClient =>
                              thread'[t] = thread[t] /\ thread[t].client # c
                        /\ thread'[t] = thread[t] \/ thread'[t] = Detached(thread[t])
  <2> TAKE t \in Thread
  <2>1. thread[t] \in HandlerState
    BY DEF Serving
  <2>2. thread'[t] = IF thread[t].client = c THEN Detached(thread[t]) ELSE thread[t]
    BY <1>3
  <2> QED
    BY <2>1, <2>2, DetachedFields
<1>8. thread' \in [Thread -> HandlerState]
  BY <1>3, <1>7
<1>9. ASSUME NEW t \in Thread, thread'[t].client # NoClient
      PROVE  Link(thread'[t], call'[thread'[t].client])
  <2>1. thread'[t] = thread[t] /\ thread[t].client # c
    BY <1>7, <1>9
  <2>2. thread[t].client \in Client /\ Link(thread[t], call[thread[t].client])
    BY <1>9, <2>1, HandlerFields DEF Serving
  <2> QED
    BY <1>5, <2>1, <2>2
<1>10. \A t, u \in Thread :
          thread'[t].client = thread'[u].client /\ thread'[t].client # NoClient => t = u
  BY <1>7 DEF Serving
<1> QED
  BY <1>5, <1>6, <1>7, <1>8, <1>9, <1>10 DEF Serving

LEMMA ServingKill ==
    ASSUME Serving, KillProvider
    PROVE  Serving' /\ \A t \in Thread : thread'[t] = Idle
<1>1. /\ thread' = [t \in Thread |-> Idle]
      /\ call' = [c \in Client |->
                    IF Waiting(c) THEN Ended(call[c], "UNAVAILABLE", <<>>) ELSE call[c]]
  BY DEF KillProvider, Unavailable, Ended
<1>2. ASSUME NEW c \in Client
      PROVE  CallOK(call'[c])
  <2>1. CallOK(call[c])
    BY DEF Serving
  <2>2. ASSUME Waiting(c)
        PROVE  CallOK(Ended(call[c], "UNAVAILABLE", <<>>))
    <3>1. <<>> \in Seq(Result) /\ "UNAVAILABLE" \in Status /\ call[c].pc # "idle"
      BY <2>2 DEF Status, Waiting
    <3> QED
      BY <2>1, <3>1, CallEnds
  <2>3. call'[c] = IF Waiting(c) THEN Ended(call[c], "UNAVAILABLE", <<>>) ELSE call[c]
    BY <1>1
  <2> QED
    BY <2>1, <2>2, <2>3
<1>3. call' \in [Client -> CallState]
  BY <1>1, <1>2 DEF CallOK
<1>4. thread' \in [Thread -> HandlerState] /\ \A t \in Thread : thread'[t] = Idle
  BY <1>1, IdleType
<1> QED
  BY <1>2, <1>3, <1>4, IdleType DEF Serving


----------------------------------------------------------------------------
(* The registry under the handlers. *)

Grown(s, r) == r = s \/ \E n \in Name : r = Append(s, NewService(n))

LEMMA RegistryGrows ==
    ASSUME [Next]_vars, NEW method
    PROVE  KillProvider \/ Grown(Registry(method), Registry(method)')
<1>1. CASE UNCHANGED registry
  BY <1>1 DEF registry, Registry, Grown
<1>2. ASSUME NEW n \in Name, SetModelsToModelsService(n)
      PROVE  Grown(Registry(method), Registry(method)')
  BY <1>2 DEF SetModelsToModelsService, Registry, Grown
<1>3. ASSUME NEW n \in Name, SetModelsToNumbersService(n)
      PROVE  Grown(Registry(method), Registry(method)')
  BY <1>3 DEF SetModelsToNumbersService, Registry, Grown
<1> QED
  BY <1>1, <1>2, <1>3, RegistryStep

LEMMA RegistrySeq ==
    ASSUME RegistryType, NEW method
    PROVE  Registry(method) \in Seq(Service)
BY DEF RegistryType, Registry

LEMMA GrownSeq ==
    ASSUME NEW s \in Seq(Service), NEW r, Grown(s, r)
    PROVE  /\ \A i \in DOMAIN s : i \in DOMAIN r /\ r[i] = s[i]
           /\ \A i \in DOMAIN r : i \in DOMAIN s \/ \E n \in Name : r[i] = NewService(n)
<1>1. CASE r = s
  BY <1>1
<1>2. ASSUME NEW n \in Name, r = Append(s, NewService(n))
      PROVE  /\ \A i \in DOMAIN s : i \in DOMAIN r /\ r[i] = s[i]
             /\ \A i \in DOMAIN r : i \in DOMAIN s \/ r[i] = NewService(n)
  BY <1>2, Appended, NewServiceType
<1> QED
  BY <1>1, <1>2 DEF Grown

LEMMA FreshStep ==
    ASSUME RegistryType, Fresh, [Next]_vars
    PROVE  Fresh'
<1> SUFFICES ASSUME NEW method \in Method, NEW i \in DOMAIN Registry(method)'
             PROVE  /\ i \in Nat
                    /\ Registry(method)'[i] \in Service
                    /\ Registry(method)'[i] = NewService(Registry(method)'[i].name)
  BY DEF Fresh
<1> DEFINE s == Registry(method)
           r == s'
<1>1. s \in Seq(Service)
  BY RegistrySeq
<1>2. r \in Seq(Service)
  BY RegistryTypeStep DEF RegistryType, Registry
<1>3. i \in Nat
  BY <1>2
<1>4. CASE KillProvider
  <2>1. r = <<>>
    BY <1>4 DEF KillProvider, Registry
  <2> QED
    BY <2>1
<1>5. CASE Grown(s, r)
  <2>1. ASSUME i \in DOMAIN s
        PROVE  r[i] \in Service /\ r[i] = NewService(r[i].name)
    <3>1. r[i] = s[i] /\ s[i] = NewService(s[i].name) /\ s[i] \in Service
      BY <1>1, <1>5, <2>1, GrownSeq DEF Fresh
    <3> HIDE DEF s, r
    <3> QED
      BY <1>3, <3>1
  <2>2. ASSUME NEW n \in Name, r[i] = NewService(n)
        PROVE  r[i] \in Service /\ r[i] = NewService(r[i].name)
    BY <2>2, NewServiceType
  <2>3. i \in DOMAIN s \/ \E n \in Name : r[i] = NewService(n)
    BY <1>1, <1>5, GrownSeq
  <2>4. r[i] \in Service /\ r[i] = NewService(r[i].name)
    <3> HIDE DEF s, r
    <3> QED
      BY <2>1, <2>2, <2>3
  <2> QED
    BY <1>3, <2>4
<1> QED
  BY <1>4, <1>5, RegistryGrows

\* What a handler holds is in the registry until the process ends.
LEMMA StillHolds ==
    ASSUME RegistryType, [Next]_vars, ~KillProvider,
           NEW h, HoldsService(h)
    PROVE  HoldsService(h)'
<1> DEFINE s == Registry(h.method)
           r == s'
<1>1. s \in Seq(Service) /\ Grown(s, r)
  BY RegistrySeq, RegistryGrows
<1>2. \A i \in DOMAIN s : i \in DOMAIN r /\ r[i] = s[i]
  BY <1>1, GrownSeq
<1> QED
  BY <1>2 DEF HoldsService

LEMMA SameHold ==
    ASSUME NEW h, NEW g, HoldsService(h), g.method = h.method, g.index = h.index,
           g.service \in Service, g.service.name = h.service.name
    PROVE  HoldsService(g)
BY DEF HoldsService


----------------------------------------------------------------------------
(* Every step keeps the invariant. *)

LEMMA Kinds ==
    ASSUME Holding, Serving, [Next]_vars
    PROVE  \/ UNCHANGED <<thread, call, client>>
           \/ KillProvider
           \/ \E t \in Thread : \E h : Work(t, h)
           \/ \E t \in Thread : Respond(t)
           \/ \E t \in Thread, c \in Client : FindService(t, c)
           \/ \E c \in Client : \/ PerformOperation(c) \/ RefuseCall(c)
                                \/ ConnectFails(c) \/ Return(c)
           \/ \E c \in Client : ConnectionBreaks(c)
<1>1. CASE \E n \in Name : SetModelsToModelsService(n) \/ SetModelsToNumbersService(n)
  BY <1>1 DEF SetModelsToModelsService, SetModelsToNumbersService
<1>2. CASE Run \/ UNCHANGED vars
  BY <1>2 DEF Run, vars
<1>3. ASSUME NEW t \in Thread, HandlerStep(t)
      PROVE  (\E h : Work(t, h)) \/ Respond(t)
  BY <1>3, HandlerWorks DEF HandlerStep
<1> QED
  BY <1>1, <1>2, <1>3 DEF Next, Accept

LEMMA ServingStep ==
    ASSUME Fresh, Holding, Serving, [Next]_vars
    PROVE  Serving'
<1>1. CASE UNCHANGED <<thread, call, client>>
  BY <1>1 DEF Serving
<1>2. CASE \E c \in Client : PerformOperation(c) \/ RefuseCall(c) \/ ConnectFails(c) \/ Return(c)
  BY <1>2, CallSteps, ServingCall
<1> QED
  BY <1>1, <1>2, Kinds, ServingKill, ServingWork, ServingRespond, ServingFind, ServingBreak

LEMMA HoldingStep ==
    ASSUME RegistryType, Fresh, Holding, Serving, [Next]_vars
    PROVE  Holding'
<1>1. CASE KillProvider
  BY <1>1, ServingKill, IdleType DEF Holding
<1>2. CASE ~KillProvider
  <2> SUFFICES ASSUME NEW t \in Thread, thread'[t].pc # "idle"
               PROVE  HoldsService(thread'[t])
                      \/ \E h : HoldsService(h) /\ thread'[t].method = h.method
                                /\ thread'[t].index = h.index
                                /\ thread'[t].service \in Service
                                /\ thread'[t].service.name = h.service.name
    <3>1. ASSUME NEW t \in Thread, NEW g, g = thread'[t],
                 \/ HoldsService(g)
                 \/ \E h : HoldsService(h) /\ g.method = h.method /\ g.index = h.index
                           /\ g.service \in Service /\ g.service.name = h.service.name
          PROVE  HoldsService(g)'
      BY <1>2, <3>1, SameHold, StillHolds
    <3> QED
      BY <3>1 DEF Holding
  <2> DEFINE Goal == \/ HoldsService(thread'[t])
                     \/ \E h : HoldsService(h) /\ thread'[t].method = h.method
                               /\ thread'[t].index = h.index
                               /\ thread'[t].service \in Service
                               /\ thread'[t].service.name = h.service.name
  <2>1. ASSUME thread'[t] = thread[t]
        PROVE  Goal
    BY <2>1 DEF Holding
  <2>2. ASSUME NEW u \in Thread, NEW h, Work(u, h)
        PROVE  Goal
    <3>1. CASE t = u
      <4>1. /\ thread'[t] = h /\ HoldsService(thread[t])
            /\ h.method = thread[t].method /\ h.index = thread[t].index
            /\ h.service \in Service /\ h.service.name = thread[t].service.name
        BY <2>2, <3>1 DEF Work, Serving, Holding
      <4> QED
        BY <4>1
    <3>2. CASE t # u
      BY <2>1, <2>2, <3>2 DEF Work, Serving
    <3> QED
      BY <3>1, <3>2
  <2>3. ASSUME NEW u \in Thread, Respond(u)
        PROVE  Goal
    <3>1. thread' = [thread EXCEPT ![u] = Idle]
      BY <2>3 DEF Respond, Deliver
    <3> QED
      BY <2>1, <3>1, IdleType DEF Serving
  <2>4. ASSUME NEW u \in Thread, NEW c \in Client, FindService(u, c)
        PROVE  Goal
    <3> DEFINE d == call[c]
    <3>1. PICK i \in Matches(d.method, d.name) :
             thread' = [thread EXCEPT ![u] = Started(c, d, i, Registry(d.method)[i])]
      BY <2>4 DEF FindService, Started
    <3>2. d.method \in Method
      BY DEF Serving, CallState
    <3>3. i \in DOMAIN Registry(d.method) /\ Registry(d.method)[i] \in Service
      BY <3>1, <3>2, FirstMatch DEF Fresh
    <3> DEFINE h == Started(c, d, i, Registry(d.method)[i])
    <3>4. h.method = d.method /\ h.index = i /\ h.service = Registry(d.method)[i]
      BY StartedFields
    <3> HIDE DEF h
    <3>5. HoldsService(h)
      BY <3>3, <3>4 DEF HoldsService
    <3>6. thread'[t] = h \/ thread'[t] = thread[t]
      BY <3>1 DEF Serving, h
    <3> QED
      BY <2>1, <3>5, <3>6
  <2>5. ASSUME NEW c \in Client, ConnectionBreaks(c)
        PROVE  Goal
    <3>1. CASE thread'[t] = thread[t]
      BY <2>1, <3>1
    <3>2. CASE thread'[t] = Detached(thread[t])
      <4>1. thread[t] \in HandlerState
        BY DEF Serving
      <4> DEFINE g == Detached(thread[t])
      <4>2. g.pc = thread[t].pc /\ g.method = thread[t].method
            /\ g.index = thread[t].index /\ g.service = thread[t].service
        BY <4>1, DetachedFields
      <4> HIDE DEF g
      <4>3. thread'[t] = g
        BY <3>2 DEF g
      <4>4. HoldsService(thread[t])
        BY <4>2, <4>3 DEF Holding
      <4>5. g.service \in Service /\ g.service.name = thread[t].service.name
        BY <4>2, <4>4 DEF HoldsService
      <4> QED
        BY <4>2, <4>3, <4>4, <4>5
    <3> QED
      BY <2>5, <3>1, <3>2, ServingBreak
  <2>6. ASSUME NEW c \in Client,
               PerformOperation(c) \/ RefuseCall(c) \/ ConnectFails(c) \/ Return(c)
        PROVE  Goal
    BY <2>1, <2>6, CallSteps DEF OnlyCall
  <2>7. ASSUME UNCHANGED <<thread, call, client>>
        PROVE  Goal
    BY <2>1, <2>7
  <2> HIDE DEF Goal
  <2>8. Goal
    BY <1>2, <2>2, <2>3, <2>4, <2>5, <2>6, <2>7, Kinds
  <2> QED
    BY <2>8 DEF Goal
<1> QED
  BY <1>1, <1>2

LEMMA ReturnHistory ==
    ASSUME Serving, History, NEW c \in Client, Return(c)
    PROVE  History'
<1> DEFINE d == call[c]
           x == Finished(c)
<1>1. d \in CallState /\ CallOK(d) /\ d.pc = "returned"
  BY DEF Serving, Return
<1>2. /\ d.name \in Name /\ (d.status = "OK" => d.reply = Answer(d))
      /\ d.method \in Method /\ d.sent \in Seq(Meshes) /\ d.status \in Status
  BY <1>1 DEF CallOK, CallState
<1>3. x = [method |-> d.method, name |-> d.name, sent |-> d.sent, status |-> d.status]
  BY DEF Finished
<1>4. x \in PastCall /\ x.status = d.status
  BY <1>2, <1>3 DEF PastCall
<1>5. Answer(x) = Answer(d)
  <2>1. x.method = d.method /\ x.name = d.name /\ x.sent = d.sent
    BY <1>3
  <2> HIDE DEF x
  <2> QED
    BY <2>1, Zenon DEF Answer
<1>6. done' = [done EXCEPT ![c] = Append(@, x)]
  BY DEF Return
<1>7. results[c] \in Seq(Result) /\ done[c] \in Seq(PastCall)
      /\ results[c] = ExpectedOf(done[c])
  BY DEF History, ResultsExact
<1> HIDE DEF x
<1>8. results' = [results EXCEPT ![c] = results[c] \o Expected(x)]
  <2>1. CASE d.status = "OK"
    <3>1. results' = [results EXCEPT ![c] = @ \o [k \in DOMAIN d.reply |->
                                                    Received(d.method, d.reply[k])]]
      BY <2>1 DEF Return
    <3>2. [k \in DOMAIN d.reply |-> Received(d.method, d.reply[k])] = Answer(d)
      BY <1>1, <1>2, <2>1, ReceivedAnswer
    <3>3. Expected(x) = Answer(d)
      BY <1>4, <1>5, <2>1, ExpectedType
    <3> QED
      BY <3>1, <3>2, <3>3, Zenon
  <2>2. CASE d.status # "OK"
    <3>1. results' = results
      BY <2>2 DEF Return
    <3>2. Expected(x) = <<>>
      BY <1>4, <2>2, ExpectedType
    <3>3. results[c] \o <<>> = results[c]
      BY <1>7, EmptyBefore
    <3>4. results = [results EXCEPT ![c] = results[c]]
      BY DEF History
    <3> QED
      BY <3>1, <3>2, <3>3, <3>4, Zenon
  <2> QED
    BY <2>1, <2>2
<1>9. Expected(x) \in Seq(Result) /\ results[c] \o Expected(x) \in Seq(Result)
  BY <1>4, <1>7, ExpectedType, Joined
<1>10. Append(done[c], x) \in Seq(PastCall)
       /\ ExpectedOf(Append(done[c], x)) = results[c] \o Expected(x)
  <2>1. Append(done[c], x) \in Seq(PastCall)
    BY <1>4, <1>7, Appended
  <2>2. ExpectedOf(Append(done[c], x)) = ExpectedOf(done[c]) \o Expected(x)
    BY <1>4, <1>7, ExpectedOfAppend
  <2> QED
    BY <1>7, <2>1, <2>2, Zenon
<1> DEFINE r == results[c] \o Expected(x)
           e == Append(done[c], x)
<1>11. results' = [results EXCEPT ![c] = r] /\ done' = [done EXCEPT ![c] = e]
       /\ r \in Seq(Result) /\ e \in Seq(PastCall) /\ ExpectedOf(e) = r
  BY <1>6, <1>8, <1>9, <1>10
<1> HIDE DEF r, e
<1>12. /\ results' \in [Client -> Seq(Result)] /\ done' \in [Client -> Seq(PastCall)]
       /\ results'[c] = r /\ done'[c] = e
       /\ \A b \in Client : b # c => results'[b] = results[b] /\ done'[b] = done[b]
  BY <1>11 DEF History
<1>13. \A b \in Client : results'[b] = ExpectedOf(done'[b])
  BY <1>11, <1>12 DEF History, ResultsExact
<1> QED
  BY <1>12, <1>13 DEF History, ResultsExact

LEMMA HistoryStep ==
    ASSUME Serving, Holding, History, [Next]_vars
    PROVE  History'
<1>1. CASE UNCHANGED client
  BY <1>1 DEF client, History, ResultsExact
<1>2. \/ UNCHANGED client
      \/ \E c \in Client : Return(c)
  BY Kinds DEF KillProvider, Work, Respond, Deliver, FindService, PerformOperation,
               RefuseCall, ConnectFails, ConnectionBreaks
<1> QED
  BY <1>1, <1>2, ReturnHistory

LEMMA CountersStep ==
    ASSUME Counters, [Next]_vars
    PROVE  Counters'
<1>0. MaxFaults \in Nat /\ MaxKills \in Nat
  BY ServiceProvideAssumption
<1>1. ASSUME NEW n \in Name, SetModelsToModelsService(n) \/ SetModelsToNumbersService(n)
      PROVE  Counters'
  BY <1>1 DEF SetModelsToModelsService, SetModelsToNumbersService, Counters
<1>2. CASE Run \/ UNCHANGED vars
  BY <1>2 DEF Run, vars, provider, Counters
<1>6. CASE KillProvider
  <2>1. running' \in BOOLEAN
    BY <1>6 DEF KillProvider
  <2>2. kills' \in 0 .. MaxKills /\ faults' \in 0 .. MaxFaults
    BY <1>0, <1>6 DEF KillProvider, Counters
  <2> QED
    BY <2>1, <2>2 DEF Counters
<1>3. ASSUME NEW t \in Thread, HandlerStep(t)
      PROVE  Counters'
  BY <1>3 DEF HandlerStep, PushData, PushMesh, Push, Execute, Respond, Deliver,
              KeepRegistry, provider, Counters
<1>4. ASSUME NEW c \in Client, PerformOperation(c) \/ Return(c) \/ Accept(c)
      PROVE  Counters'
  BY <1>4 DEF PerformOperation, Return, Accept, RefuseCall, ConnectFails, FindService,
              provider, Counters
<1>5. ASSUME NEW c \in Client, ConnectionBreaks(c)
      PROVE  Counters'
  BY <1>0, <1>5 DEF ConnectionBreaks, provider, Counters
<1> QED
  BY <1>1, <1>2, <1>3, <1>4, <1>5, <1>6 DEF Next


LEMMA InitIInv == Init => IInv
<1> SUFFICES ASSUME Init
             PROVE  IInv
  OBVIOUS
<1>1. \A S : <<>> \in Seq(S)
  OBVIOUS
<1>2. RegistryType /\ Fresh
  BY <1>1 DEF Init, RegistryType, Fresh, Registry
<1>3. Holding
  BY IdleType DEF Init, Holding
<1>4. Serving
  BY IdleType, NoCallType DEF Init, Serving, CallOK
<1>5. History
  <2>1. ExpectedOf(<<>>) = <<>>
    <3>1. <<>> \in Seq(PastCall) /\ Len(<<>>) = 0
      OBVIOUS
    <3> QED
      BY <3>1, ExpectedOfChoice
  <2> QED
    BY <1>1, <2>1 DEF Init, History, ResultsExact
<1>6. Counters
  <2>1. MaxFaults \in Nat /\ MaxKills \in Nat
    BY ServiceProvideAssumption
  <2>2. running \in BOOLEAN
    BY DEF Init
  <2>3. kills \in 0 .. MaxKills /\ faults \in 0 .. MaxFaults
    BY <2>1 DEF Init
  <2> QED
    BY <2>2, <2>3 DEF Counters
<1> QED
  BY <1>2, <1>3, <1>4, <1>5, <1>6 DEF IInv

LEMMA StepIInv == IInv /\ [Next]_vars => IInv'
BY RegistryTypeStep, FreshStep, HoldingStep, ServingStep, HistoryStep, CountersStep DEF IInv

LEMMA Invariance == Spec => []IInv
BY InitIInv, StepIInv, PTL DEF Spec

LEMMA SentMeshes ==
    ASSUME NEW s \in Seq(Meshes)
    PROVE  s \in Seq(Mesh)
BY MeshConversionAssumption

\* The types hold, and a handler that works holds a service that is still in
\* the registry, for any services, clients and threads.
THEOREM TypeCorrect == Spec => []TypeOK
<1>1. IInv => TypeOK
  <2> SUFFICES ASSUME IInv
               PROVE  TypeOK
    OBVIOUS
  <2>1. ASSUME NEW t \in Thread
        PROVE  /\ thread[t].pc \in {"idle", "models", "respond"}
               /\ thread[t].client \in Client \cup {NoClient}
               /\ thread[t].method \in Method
               /\ thread[t].pc # "idle" => /\ thread[t].service \in Service
                                           /\ thread[t].index \in DOMAIN Registry(thread[t].method)
               /\ thread[t].todo \in Seq(Mesh)
    BY HandlerFields, SentMeshes DEF IInv, Serving, Holding, HoldsService
  <2>2. ASSUME NEW c \in Client
        PROVE  /\ call[c].pc \in {"idle", "sent", "handled", "returned"}
               /\ call[c].method \in Method
               /\ call[c].sent \in Seq(Mesh) /\ call[c].reply \in Seq(Result)
               /\ call[c].status \in {"none", "OK", "CANCELLED", "UNAVAILABLE"}
    <3>1. call[c] \in CallState
      BY DEF IInv, Serving
    <3> QED
      BY <3>1, SentMeshes DEF CallState, Status
  <2>3. RegistryType /\ Counters /\ results \in [Client -> Seq(Result)]
    BY DEF IInv, History
  <2> QED
    BY <2>1, <2>2, <2>3 DEF TypeOK, RegistryType, Counters
<1> QED
  BY <1>1, Invariance, PTL

\* Every client gets exactly the results of its calls that succeeded, in their
\* order, whatever handlers run at the same time and whatever breaks.
THEOREM ResultsAreExact == Spec => []ResultsExact
<1>1. IInv => ResultsExact
  BY DEF IInv, History
<1> QED
  BY <1>1, Invariance, PTL

\* The mesh object of a handler takes the next message whatever is left in it:
\* polygons come out behind those it had.
THEOREM PolygonsStay == Spec => []PolygonsKept
<1>1. IInv => PolygonsKept
  BY AllKeep, HandlerFields DEF IInv, Serving, PolygonsKept
<1> QED
  BY <1>1, Invariance, PTL

\* What comes out of it does not change on the way back.
THEOREM TripsSettle == Spec => []TripSettles
<1>1. IInv => TripSettles
  BY AllSettle, HandlerFields DEF IInv, Serving, TripSettles
<1> QED
  BY <1>1, Invariance, PTL

\* The status of a call is right for the service it names: a call is refused
\* only where no service of the kind has the name, and answered only where one has.
THEOREM StatusRight == Spec => StatusIsRight
<1> DEFINE P(c) == call[c].status = "none" =>
                     /\ call'[c].status = "CANCELLED" =>
                           Matches(call[c].method, call[c].name) = {}
                     /\ call'[c].status = "OK" =>
                           Matches(call[c].method, call[c].name) # {}
<1>1. ASSUME IInv, [Next]_vars, NEW c \in Client
      PROVE  P(c)
  <2> DEFINE d == call[c]
  <2>1. /\ Holding /\ Serving /\ Fresh /\ d \in CallState
        /\ call' \in [Client -> CallState] /\ call \in [Client -> CallState]
    BY <1>1, ServingStep DEF IInv, Serving
  <2>2. ASSUME call'[c] = d \/ call'[c].status \in {"none", "UNAVAILABLE"}
        PROVE  P(c)
    BY <2>2
  <2>4. ASSUME NEW t \in Thread, Respond(t)
        PROVE  P(c)
    <3>1. CASE call'[c] = d
      BY <2>2, <3>1
    <3>2. CASE thread[t].client = c /\ thread[t].pc # "idle" /\ Link(thread[t], d)
      <4>1. /\ d.method = thread[t].method /\ d.name = thread[t].service.name
            /\ thread[t].index \in DOMAIN Registry(thread[t].method)
            /\ Registry(thread[t].method)[thread[t].index].name = thread[t].service.name
        BY <2>1, <3>2 DEF Link, Holding, HoldsService
      <4>2. thread[t].index \in Matches(d.method, d.name)
        BY <4>1 DEF Matches
      <4>3. call'[c].status = "OK"
        <5>1. call'[c] = Ended(d, "OK", thread[t].service.outgoing[OutForm(thread[t].method)])
          BY <2>4, <3>2 DEF Respond, Deliver, Ended
        <5> QED
          BY <2>1, <5>1, EndedFields
      <4> QED
        BY <4>2, <4>3
    <3> QED
      BY <2>1, <2>4, <3>1, <3>2, ServingRespond
  <2>5. ASSUME RefuseCall(c)
        PROVE  P(c)
    <3>1. Matches(d.method, d.name) = {} /\ call' = [call EXCEPT ![c] = Refused(d)]
      BY <2>5 DEF RefuseCall, Refused
    <3>2. call'[c].status = "CANCELLED"
      BY <2>1, <3>1, RefusedFields, EndedFields
    <3> QED
      BY <3>1, <3>2
  <2>6. ASSUME NEW b \in Client, b # c,
               RefuseCall(b) \/ ConnectFails(b) \/ Return(b) \/ PerformOperation(b)
                             \/ ConnectionBreaks(b)
        PROVE  P(c)
    <3>1. call'[c] = d
      BY <2>1, <2>6 DEF RefuseCall, ConnectFails, Return, PerformOperation, ConnectionBreaks
    <3> QED
      BY <2>2, <3>1
  <2>7. ASSUME ConnectFails(c) \/ ConnectionBreaks(c) \/ Return(c) \/ PerformOperation(c)
        PROVE  P(c)
    <3>1. CASE ConnectFails(c) \/ ConnectionBreaks(c)
      <4>1. call' = [call EXCEPT ![c] = Ended(d, "UNAVAILABLE", <<>>)]
        BY <3>1 DEF ConnectFails, ConnectionBreaks, Unavailable, Ended
      <4>2. call'[c].status = "UNAVAILABLE"
        BY <2>1, <4>1, EndedFields
      <4> QED
        BY <2>2, <4>2
    <3>2. CASE Return(c)
      BY <2>1, <2>2, <3>2, NoCallType DEF Return
    <3>3. CASE PerformOperation(c)
      <4>1. PICK n \in Name, method \in Method, models \in Inputs :
               call' = [call EXCEPT ![c] = Sent(method, n, models)]
        BY <3>3 DEF PerformOperation, Sent
      <4>2. models \in Seq(Meshes)
        BY ServiceProvideAssumption
      <4> QED
        BY <2>1, <2>2, <4>1, <4>2, SentFields
    <3> QED
      BY <2>7, <3>1, <3>2, <3>3
  <2>8. ASSUME NEW t \in Thread, NEW b \in Client, FindService(t, b)
        PROVE  P(c)
    <3>1. call' = [call EXCEPT ![b] = Handled(call[b])]
      BY <2>8 DEF FindService, Handled
    <3>2. CASE b = c
      BY <2>1, <3>1, <3>2, HandledFields
    <3>3. CASE b # c
      BY <2>1, <2>2, <3>1, <3>3
    <3> QED
      BY <3>2, <3>3
  <2>9. ASSUME KillProvider
        PROVE  P(c)
    <3>1. call'[c] = IF Waiting(c) THEN Ended(d, "UNAVAILABLE", <<>>) ELSE d
      BY <2>9 DEF KillProvider, Unavailable, Ended
    <3>2. Ended(d, "UNAVAILABLE", <<>>).status = "UNAVAILABLE"
      BY <2>1, EndedFields
    <3> QED
      BY <2>2, <3>1, <3>2
  <2>10. ASSUME (\E t \in Thread : \E h : Work(t, h)) \/ UNCHANGED <<thread, call, client>>
         PROVE  P(c)
    BY <2>2, <2>10 DEF Work
  <2> HIDE DEF P
  <2> QED
    BY <1>1, <2>1, <2>4, <2>5, <2>6, <2>7, <2>8, <2>9, <2>10, Kinds
<1>2. IInv /\ [Next]_vars => [\A c \in Client : P(c)]_vars
  BY <1>1
<1> QED
  BY <1>2, Invariance, PTL DEF Spec, StatusIsRight
==============================================================================
