----------------------- MODULE ServerListThreads_proofs -----------------------
(***************************************************************************)
(* Proofs about ServerListThreads, for any number of providers, of beats   *)
(* and of requests under way.                                              *)
(***************************************************************************)
EXTENDS ServerListThreads, TLAPS, FiniteSetTheorems

----------------------------------------------------------------------------
(* Nodes, buffers and calls with one field changed. *)

LEMMA NodeWithAddress ==
    ASSUME NEW n \in ServerNode, NEW a \in Anyone
    PROVE  /\ [n EXCEPT !.address = a] \in ServerNode
           /\ [n EXCEPT !.address = a].address = a
           /\ [n EXCEPT !.address = a].rest = n.rest
           /\ [n EXCEPT !.address = a].active = n.active
BY DEF ServerNode

LEMMA NodeWithRest ==
    ASSUME NEW n \in ServerNode, NEW a \in Anyone
    PROVE  /\ [n EXCEPT !.rest = a] \in ServerNode
           /\ [n EXCEPT !.rest = a].address = n.address
           /\ [n EXCEPT !.rest = a].rest = a
           /\ [n EXCEPT !.rest = a].active = n.active
BY DEF ServerNode

LEMMA NodeWithUsageBy ==
    ASSUME NEW n \in ServerNode, NEW a \in Anyone
    PROVE  /\ [n EXCEPT !.usageBy = a] \in ServerNode
           /\ [n EXCEPT !.usageBy = a].address = n.address
           /\ [n EXCEPT !.usageBy = a].rest = n.rest
           /\ [n EXCEPT !.usageBy = a].active = n.active
BY DEF ServerNode

LEMMA NodeWithActive ==
    ASSUME NEW n \in ServerNode, NEW b \in BOOLEAN
    PROVE  /\ [n EXCEPT !.active = b] \in ServerNode
           /\ [n EXCEPT !.active = b].address = n.address
           /\ [n EXCEPT !.active = b].rest = n.rest
           /\ [n EXCEPT !.active = b].active = b
BY DEF ServerNode

LEMMA BufferWith ==
    ASSUME NEW s \in Seq(ServerNode), NEW i \in DOMAIN s, NEW n \in ServerNode
    PROVE  /\ [s EXCEPT ![i] = n] \in Seq(ServerNode)
           /\ Len([s EXCEPT ![i] = n]) = Len(s)
           /\ DOMAIN [s EXCEPT ![i] = n] = DOMAIN s
           /\ [s EXCEPT ![i] = n][i] = n
           /\ \A k \in DOMAIN s : k # i => [s EXCEPT ![i] = n][k] = s[k]
OBVIOUS

\* What the steps of a call make of it.
StepTo(s, pc) == [s EXCEPT !.pc = pc]
Advanced(s) == [s EXCEPT !.pos = @ + 1]
Replied(s, r) == [s EXCEPT !.pc = "idle", !.reply = r]
Copied(s, a) == [s EXCEPT !.pc = "copyRest", !.address = a]
Looked(s, F) == [s EXCEPT !.pc = "copy", !.pos = @ + 1, !.found = F]

LEMMA StepToState ==
    ASSUME NEW s \in CallState,
           NEW pc \in {"idle", "compare", "usage", "time", "copy", "copyRest"}
    PROVE  /\ StepTo(s, pc) \in CallState /\ StepTo(s, pc).pc = pc
           /\ StepTo(s, pc).pos = s.pos /\ StepTo(s, pc).last = s.last
           /\ StepTo(s, pc).buffer = s.buffer
BY DEF CallState, StepTo

LEMMA AdvancedState ==
    ASSUME NEW s \in CallState
    PROVE  /\ Advanced(s) \in CallState /\ Advanced(s).pc = s.pc
           /\ Advanced(s).pos = s.pos + 1 /\ Advanced(s).last = s.last
           /\ Advanced(s).buffer = s.buffer
BY DEF CallState, Advanced

LEMMA RepliedState ==
    ASSUME NEW s \in CallState, NEW r \in Anyone \cup {"none", "OK", "CANCELLED"}
    PROVE  /\ Replied(s, r) \in CallState /\ Replied(s, r).pc = "idle"
           /\ Replied(s, r).pos = s.pos /\ Replied(s, r).last = s.last
           /\ Replied(s, r).buffer = s.buffer
<1> DEFINE u == [s EXCEPT !.pc = "idle"]
<1>1. u \in CallState /\ u.pc = "idle" /\ u.pos = s.pos /\ u.last = s.last /\ u.buffer = s.buffer
  BY DEF CallState
<1>2. Replied(s, r) = [u EXCEPT !.reply = r]
  BY DEF u, Replied
<1> HIDE DEF u
<1> QED
  BY <1>1, <1>2 DEF CallState

LEMMA CopiedState ==
    ASSUME NEW s \in CallState, NEW a \in Anyone
    PROVE  /\ Copied(s, a) \in CallState /\ Copied(s, a).pc = "copyRest"
           /\ Copied(s, a).pos = s.pos /\ Copied(s, a).last = s.last
           /\ Copied(s, a).buffer = s.buffer
<1> DEFINE u == [s EXCEPT !.pc = "copyRest"]
<1>1. /\ u \in CallState /\ u.pc = "copyRest" /\ u.pos = s.pos
      /\ u.last = s.last /\ u.buffer = s.buffer
  BY DEF CallState
<1>2. Copied(s, a) = [u EXCEPT !.address = a]
  BY DEF u, Copied
<1> HIDE DEF u
<1> QED
  BY <1>1, <1>2 DEF CallState

LEMMA LookedState ==
    ASSUME NEW s \in CallState, NEW F \in SUBSET Anyone
    PROVE  /\ Looked(s, F) \in CallState /\ Looked(s, F).pc = "copy"
           /\ Looked(s, F).pos = s.pos + 1 /\ Looked(s, F).last = s.last
           /\ Looked(s, F).buffer = s.buffer
<1> DEFINE u == [s EXCEPT !.pc = "copy"]
           v == [u EXCEPT !.pos = s.pos + 1]
<1>1. /\ u \in CallState /\ u.pc = "copy" /\ u.pos = s.pos
      /\ u.last = s.last /\ u.buffer = s.buffer
  BY DEF CallState
<1>2. Looked(s, F) = [v EXCEPT !.found = F]
  BY DEF u, v, Looked
<1> HIDE DEF u
<1>3. /\ v \in CallState /\ v.pc = "copy" /\ v.pos = s.pos + 1
      /\ v.last = s.last /\ v.buffer = s.buffer
  BY <1>1 DEF CallState, v
<1> HIDE DEF v
<1> QED
  BY <1>2, <1>3 DEF CallState

----------------------------------------------------------------------------
(* Types. The invariant adds to TypeOK who may be between which steps, and  *)
(* that a call whose buffer was not replaced walks inside it.               *)

\* Only the owner of the mutex is between its lock and its unlock; a provider
\* that has locked it may still register.
Exclusion ==
    /\ upc # "sleep" <=> mutex = Updater
    /\ \A a \in Address : epc[a] = "push" <=> mutex = a
    /\ \A a \in Address : epc[a] = "push" => established[a] < MaxEstablish

Within(s) ==
    /\ s.pos > 0
    /\ s.buffer <= buffer
    /\ s.buffer = buffer => s.last <= Capacity
    /\ s.pc \in {"usage", "time", "copyRest"} => s.pos <= s.last

CallsWithin == \A c \in Call : Within(call[c])

Typed == TypeOK /\ Exclusion /\ CallsWithin

\* What the steps of a call leave alone.
LEMMA CallChanged ==
    ASSUME Typed, NEW c \in Call, NEW s \in CallState,
           call' = [call EXCEPT ![c] = s],
           Within(s), UNCHANGED <<buffer>>, Capacity' = Capacity
    PROVE  call' \in [Call -> CallState] /\ CallsWithin'
<1>1. call \in [Call -> CallState] /\ \A d \in Call : Within(call[d])
  BY DEF Typed, TypeOK, CallsWithin
<1>2. call' \in [Call -> CallState]
  BY <1>1
<1>3. ASSUME NEW d \in Call
      PROVE  Within(call[d])'
  <2>1. call'[d] = IF d = c THEN s ELSE call[d]
    BY <1>1
  <2>2. Within(call'[d])
    BY <1>1, <2>1
  <2> QED
    BY <2>2 DEF Within
<1> QED
  BY <1>2, <1>3 DEF CallsWithin

\* The calls stay inside their buffer when it grows or is replaced.
LEMMA CallsStayWithin ==
    ASSUME Typed, UNCHANGED call, buffer' \in Nat, Capacity' \in Nat,
           \/ buffer' = buffer /\ Capacity' >= Capacity
           \/ buffer' = buffer + 1
    PROVE  call' \in [Call -> CallState] /\ CallsWithin'
<1>1. call \in [Call -> CallState] /\ buffer \in Nat /\ Capacity \in Nat
  BY DEF Typed, TypeOK, Capacity
<1>2. ASSUME NEW d \in Call
      PROVE  Within(call[d])'
  <2>1. call[d].buffer \in Nat /\ call[d].last \in Nat
    BY <1>1 DEF CallState
  <2>2. Within(call[d])
    BY DEF Typed, CallsWithin
  <2> QED
    BY <1>1, <2>1, <2>2 DEF Within
<1> QED
  BY <1>1, <1>2 DEF CallsWithin

\* What a step leaves alone: the vector, the threads that take the mutex, and
\* the history.
LEMMA ListAlone ==
    ASSUME Typed, UNCHANGED <<listVars, mutex, updaterVars, epc>>,
           call' \in [Call -> CallState] /\ CallsWithin',
           UNCHANGED <<established, expired>>,
           steady' \in [Call -> SUBSET Address]
    PROVE  Typed'
BY DEF Typed, TypeOK, Exclusion, Capacity, listVars, updaterVars

LEMMA GoesTyped ==
    ASSUME Typed, NEW c \in Call, NEW s \in CallState, Within(s), Goes(c, s)
    PROVE  Typed'
<1>1. call' \in [Call -> CallState] /\ CallsWithin'
  BY CallChanged DEF Goes, listVars, Capacity
<1> QED
  BY <1>1, ListAlone DEF Goes, Typed, TypeOK, historyVars

\* A step of the updater or a beat on the nodes themselves.
LEMMA SlotsTyped ==
    ASSUME Typed, slots' \in Seq(ServerNode), Len(slots') = Len(slots),
           UNCHANGED <<size, buffer, established, expired, steady>>,
           call' \in [Call -> CallState], CallsWithin', Exclusion',
           /\ mutex' \in Address \cup {NoOne, Updater}
           /\ upc' \in {"sleep", "scan", "move", "moveRest"}
           /\ it' \in Nat \ {0} /\ res' \in 1 .. it'
           /\ upc' \in {"move", "moveRest"} => res' < it' /\ it' <= size
           /\ upc' = "scan" => it' <= size + 1,
           epc' \in [Address -> {"idle", "push"}]
    PROVE  Typed'
BY DEF Typed, TypeOK, Capacity

LEMMA NodesTyped ==
    ASSUME Typed, NEW i \in 1 .. size
    PROVE  /\ i \in DOMAIN slots /\ slots[i] \in ServerNode
           /\ slots[i].address \in Anyone /\ slots[i].rest \in Anyone
           /\ slots[i].usageBy \in Anyone /\ slots[i].active \in BOOLEAN
<1>1. i \in DOMAIN slots
  BY DEF Typed, TypeOK, Capacity
<1>2. slots[i] \in ServerNode
  BY <1>1 DEF Typed, TypeOK
<1> QED
  BY <1>1, <1>2 DEF ServerNode

\* What the two steps of a move leave in the buffer.
LEMMA UpdaterMoveSlots ==
    ASSUME Typed, UpdaterMove
    PROVE  /\ slots' \in Seq(ServerNode) /\ Len(slots') = Len(slots)
           /\ slots'[res].address = slots[it].address
           /\ slots'[res].rest = slots[res].rest /\ slots'[res].active = slots[res].active
           /\ slots'[it].rest = slots[it].rest /\ slots'[it].active = slots[it].active
           /\ \A k \in DOMAIN slots \ {it, res} : slots'[k] = slots[k]
<1>1. res \in 1 .. size /\ it \in 1 .. size /\ res < it
  BY DEF Typed, TypeOK, UpdaterMove
<1>2. /\ slots \in Seq(ServerNode) /\ NoAddress \in Anyone /\ TRUE \in BOOLEAN
      /\ {res, it} \subseteq DOMAIN slots
      /\ slots[res] \in ServerNode /\ slots[it] \in ServerNode /\ slots[it].address \in Anyone
  BY <1>1, NodesTyped DEF Typed, TypeOK, Anyone
<1> DEFINE m == [slots[res] EXCEPT !.address = slots[it].address]
           s == [slots EXCEPT ![res] = m]
           n == [s[it] EXCEPT !.address = NoAddress]
<1>3. slots' = [s EXCEPT ![it] = n]
  BY DEF UpdaterMove
<1>4. /\ m \in ServerNode /\ m.address = slots[it].address
      /\ m.rest = slots[res].rest /\ m.active = slots[res].active
  BY <1>2, NodeWithAddress, Zenon
<1> HIDE DEF m
<1>5. /\ s \in Seq(ServerNode) /\ Len(s) = Len(slots) /\ DOMAIN s = DOMAIN slots
      /\ s[res] = m /\ \A k \in DOMAIN slots : k # res => s[k] = slots[k]
  BY <1>2, <1>4, BufferWith
<1> HIDE DEF s
<1>6. s[it] = slots[it]
  BY <1>1, <1>2, <1>5
<1>7. n \in ServerNode /\ n.rest = slots[it].rest /\ n.active = slots[it].active
  <2>1. n = [slots[it] EXCEPT !.address = NoAddress]
    BY <1>6
  <2> QED
    BY <1>2, <2>1, NodeWithAddress, Zenon
<1> HIDE DEF n
<1>8. /\ [s EXCEPT ![it] = n] \in Seq(ServerNode) /\ Len([s EXCEPT ![it] = n]) = Len(s)
      /\ [s EXCEPT ![it] = n][it] = n
      /\ \A k \in DOMAIN s : k # it => [s EXCEPT ![it] = n][k] = s[k]
  BY <1>2, <1>5, <1>7, BufferWith
<1> QED
  BY <1>1, <1>2, <1>3, <1>4, <1>5, <1>7, <1>8

LEMMA UpdaterMoveRestSlots ==
    ASSUME Typed, UpdaterMoveRest
    PROVE  /\ slots' \in Seq(ServerNode) /\ Len(slots') = Len(slots)
           /\ slots'[res].address = slots[res].address
           /\ slots'[res].rest = slots[it].rest /\ slots'[res].active = slots[it].active
           /\ \A k \in DOMAIN slots \ {it, res} : slots'[k] = slots[k]
<1>1. res \in 1 .. size /\ it \in 1 .. size /\ res < it
  BY DEF Typed, TypeOK, UpdaterMoveRest
<1>2. /\ slots \in Seq(ServerNode) /\ NoAddress \in Anyone /\ TRUE \in BOOLEAN
      /\ {res, it} \subseteq DOMAIN slots
      /\ slots[res] \in ServerNode /\ slots[it] \in ServerNode /\ slots[res].address \in Anyone
  BY <1>1, NodesTyped DEF Typed, TypeOK, Anyone
<1> DEFINE m == [slots[it] EXCEPT !.address = slots[res].address]
           s == [slots EXCEPT ![res] = m]
           n == [s[it] EXCEPT !.rest = NoAddress]
<1>3. slots' = [s EXCEPT ![it] = n]
  BY DEF UpdaterMoveRest
<1>4. /\ m \in ServerNode /\ m.address = slots[res].address
      /\ m.rest = slots[it].rest /\ m.active = slots[it].active
  BY <1>2, NodeWithAddress, Zenon
<1> HIDE DEF m
<1>5. /\ s \in Seq(ServerNode) /\ Len(s) = Len(slots) /\ DOMAIN s = DOMAIN slots
      /\ s[res] = m /\ \A k \in DOMAIN slots : k # res => s[k] = slots[k]
  BY <1>2, <1>4, BufferWith
<1> HIDE DEF s
<1>6. s[it] = slots[it]
  BY <1>1, <1>2, <1>5
<1>7. n \in ServerNode
  <2>1. n = [slots[it] EXCEPT !.rest = NoAddress]
    BY <1>6
  <2> QED
    BY <1>2, <2>1, NodeWithRest, Zenon
<1> HIDE DEF n
<1>8. /\ [s EXCEPT ![it] = n] \in Seq(ServerNode) /\ Len([s EXCEPT ![it] = n]) = Len(s)
      /\ \A k \in DOMAIN s : k # it => [s EXCEPT ![it] = n][k] = s[k]
  BY <1>2, <1>5, <1>7, BufferWith
<1> QED
  BY <1>1, <1>2, <1>3, <1>4, <1>5, <1>8

LEMMA PushBackSlots ==
    ASSUME Typed, NEW node \in ServerNode, PushBack(node)
    PROVE  /\ slots' \in Seq(ServerNode) /\ Len(slots') \in Nat
           /\ size' = size + 1 /\ size' \in 0 .. Len(slots')
           /\ slots'[size + 1] = node
           /\ \A k \in 1 .. size : slots'[k] = slots[k]
           /\ \/ buffer' = buffer /\ Len(slots') >= Len(slots)
              \/ buffer' = buffer + 1
<1>1. slots \in Seq(ServerNode) /\ size \in 0 .. Len(slots) /\ size \in Nat
  BY DEF Typed, TypeOK, Capacity
<1>2. CASE size < Capacity /\ slots' = [slots EXCEPT ![size + 1] = node] /\ buffer' = buffer
  <2>1. size + 1 \in DOMAIN slots
    BY <1>1, <1>2 DEF Capacity
  <2> QED
    BY <1>1, <1>2, <2>1, BufferWith DEF PushBack, Capacity
<1>3. CASE /\ size = Capacity /\ buffer' = buffer + 1
           /\ slots' = [i \in 1 .. (IF size = 0 THEN 1 ELSE 2 * size) |->
                          IF i <= size THEN slots[i] ELSE node]
  <2> DEFINE n == IF size = 0 THEN 1 ELSE 2 * size
  <2>1. n \in Nat /\ n >= size + 1
    BY <1>1
  <2>2. slots' = [i \in 1 .. n |-> IF i <= size THEN slots[i] ELSE node]
    BY <1>3
  <2>3. \A i \in 1 .. n : (IF i <= size THEN slots[i] ELSE node) \in ServerNode
    BY <1>1
  <2> HIDE DEF n
  <2>4. slots' \in Seq(ServerNode) /\ Len(slots') = n
    BY <2>1, <2>2, <2>3
  <2> QED
    BY <1>1, <1>3, <2>1, <2>2, <2>4 DEF PushBack
<1> QED
  BY <1>2, <1>3 DEF PushBack

\* A beat writes where it stands, unless the buffer was replaced under it.
LEMMA BeatSlots ==
    ASSUME Typed, NEW c \in BeatCall, BeatUsage(c) \/ BeatTime(c)
    PROVE  /\ slots' \in Seq(ServerNode) /\ Len(slots') = Len(slots)
           /\ \A k \in DOMAIN slots :
                 /\ slots'[k].address = slots[k].address
                 /\ slots'[k].rest = slots[k].rest
                 /\ \/ slots'[k].active = slots[k].active
                    \/ k = call[c].pos /\ slots'[k].active = TRUE
           /\ \A k \in DOMAIN slots \ {call[c].pos} : slots'[k] = slots[k]
<1> DEFINE i == call[c].pos
<1>1. CASE Dangling(c)
  BY <1>1 DEF Typed, TypeOK, BeatUsage, BeatTime
<1>2. CASE ~Dangling(c)
  <2>1. /\ slots \in Seq(ServerNode)
        /\ call[c] \in CallState /\ i \in Nat /\ call[c].last \in Nat
        /\ call[c].address \in Anyone /\ call[c].pc \in {"usage", "time"}
    BY DEF Typed, TypeOK, CallState, BeatUsage, BeatTime, Call
  <2>2. i \in DOMAIN slots /\ slots[i] \in ServerNode
    <3>1. Within(call[c])
      BY DEF Typed, CallsWithin, Call
    <3> QED
      BY <1>2, <2>1, <3>1 DEF Within, Dangling, Capacity
  <2>3. PICK n \in ServerNode : /\ slots' = [slots EXCEPT ![i] = n]
                                /\ n.address = slots[i].address /\ n.rest = slots[i].rest
                                /\ n.active = slots[i].active \/ n.active = TRUE
    <3>1. CASE BeatUsage(c)
      <4> DEFINE n == [slots[i] EXCEPT !.usageBy = call[c].address]
      <4>1. slots' = [slots EXCEPT ![i] = n]
        BY <1>2, <3>1 DEF BeatUsage
      <4>2. /\ n \in ServerNode /\ n.address = slots[i].address
            /\ n.rest = slots[i].rest /\ n.active = slots[i].active
        BY <2>1, <2>2, NodeWithUsageBy, Zenon
      <4> QED
        BY <4>1, <4>2
    <3>2. CASE BeatTime(c)
      <4> DEFINE n == [slots[i] EXCEPT !.active = TRUE]
      <4>1. slots' = [slots EXCEPT ![i] = n]
        BY <1>2, <3>2 DEF BeatTime
      <4>2. TRUE \in BOOLEAN
        OBVIOUS
      <4>3. /\ n \in ServerNode /\ n.address = slots[i].address
            /\ n.rest = slots[i].rest /\ n.active = TRUE
        BY <2>2, <4>2, NodeWithActive, Zenon
      <4> QED
        BY <4>1, <4>3
    <3> QED
      BY <3>1, <3>2
  <2> HIDE DEF i
  <2>4. /\ slots' \in Seq(ServerNode) /\ Len(slots') = Len(slots)
        /\ slots'[i] = n /\ \A k \in DOMAIN slots : k # i => slots'[k] = slots[k]
    BY <2>1, <2>2, <2>3, BufferWith
  <2> QED
    BY <2>3, <2>4 DEF i
<1> QED
  BY <1>1, <1>2

LEMMA PlaceInList ==
    ASSUME Typed, NEW k \in 1 .. ListLength
    PROVE  /\ Place(k) \in 1 .. size /\ Place(k) \in DOMAIN slots
           /\ upc # "sleep" => Place(k) \notin res .. it - 1
           /\ upc = "sleep" => Place(k) = k
           /\ k < res => Place(k) = k
           /\ k >= res /\ upc # "sleep" => Place(k) = k + (it - res)
BY DEF Typed, TypeOK, Place, ListLength, Gap, Capacity

LEMMA ExpireSlots ==
    ASSUME Typed, NEW k \in 1 .. ListLength, Expire(Place(k))
    PROVE  /\ slots' \in Seq(ServerNode) /\ Len(slots') = Len(slots)
           /\ \A i \in DOMAIN slots :
                 /\ slots'[i].address = slots[i].address
                 /\ slots'[i].rest = slots[i].rest
                 /\ slots'[i].active = (slots[i].active /\ i # Place(k))
<1> DEFINE i == Place(k)
           n == [slots[i] EXCEPT !.active = FALSE]
<1>1. slots \in Seq(ServerNode) /\ i \in DOMAIN slots /\ slots[i] \in ServerNode
  BY PlaceInList DEF Typed, TypeOK
<1>2. slots' = [slots EXCEPT ![i] = n]
  BY DEF Expire
<1>3. FALSE \in BOOLEAN
  OBVIOUS
<1>4. /\ n \in ServerNode /\ n.address = slots[i].address
      /\ n.rest = slots[i].rest /\ n.active = FALSE
  BY <1>1, <1>3, NodeWithActive, Zenon
<1> HIDE DEF n, i
<1>5. /\ slots' \in Seq(ServerNode) /\ Len(slots') = Len(slots)
      /\ slots'[i] = n /\ \A j \in DOMAIN slots : j # i => slots'[j] = slots[j]
  BY <1>1, <1>2, <1>4, BufferWith
<1>6. \A j \in DOMAIN slots : slots[j].active \in BOOLEAN
  <2> TAKE j \in DOMAIN slots
  <2>1. slots[j] \in ServerNode
    BY <1>1
  <2> QED
    BY <2>1 DEF ServerNode
<1>7. \A j \in DOMAIN slots : /\ slots'[j].address = slots[j].address
                              /\ slots'[j].rest = slots[j].rest
                              /\ slots'[j].active = (slots[j].active /\ j # i)
  <2> TAKE j \in DOMAIN slots
  <2>1. CASE j = i
    BY <1>4, <1>5, <2>1
  <2>2. CASE j # i
    BY <1>5, <1>6, <2>2
  <2> QED
    BY <2>1, <2>2
<1> QED
  BY <1>5, <1>7 DEF i

LEMMA UpdaterTyped ==
    ASSUME Typed, UpdaterLock \/ UpdaterStep
    PROVE  Typed'
<1>1. /\ mutex \in Address \cup {NoOne, Updater} /\ size \in Nat
      /\ Updater \notin Address /\ NoOne \notin Address /\ NoOne # Updater
      /\ it \in Nat \ {0} /\ res \in 1 .. it
  BY ThreadsAssumption DEF Typed, TypeOK
<1>2. CASE UpdaterLock
  <2>1. Exclusion'
    BY <1>1, <1>2 DEF Typed, Exclusion, UpdaterLock, LockList, historyVars
  <2>2. call' \in [Call -> CallState] /\ CallsWithin'
    BY <1>2, CallsStayWithin DEF Typed, TypeOK, UpdaterLock, listVars, Capacity
  <2> QED
    BY <1>1, <1>2, <2>1, <2>2
    DEF Typed, TypeOK, UpdaterLock, LockList, listVars, historyVars, Capacity
<1>3. ASSUME UNCHANGED <<buffer, call>>, Len(slots') = Len(slots)
      PROVE  call' \in [Call -> CallState] /\ CallsWithin'
  BY <1>3, CallsStayWithin DEF Typed, TypeOK, Capacity
<1>4. CASE UpdaterScan
  <2>1. call' \in [Call -> CallState] /\ CallsWithin'
    BY <1>3, <1>4 DEF UpdaterScan, listVars
  <2>2. Exclusion'
    BY <1>4 DEF Typed, Exclusion, UpdaterScan, historyVars
  <2> QED
    BY <1>1, <1>4, <2>1, <2>2
    DEF Typed, TypeOK, UpdaterScan, listVars, historyVars, Capacity
<1>5. CASE UpdaterMove
  <2>1. slots' \in Seq(ServerNode) /\ Len(slots') = Len(slots)
    BY <1>5, UpdaterMoveSlots
  <2>2. call' \in [Call -> CallState] /\ CallsWithin'
    BY <1>3, <1>5, <2>1 DEF UpdaterMove
  <2>3. Exclusion'
    BY <1>5 DEF Typed, Exclusion, UpdaterMove, historyVars
  <2> QED
    BY <1>1, <1>5, <2>1, <2>2, <2>3, SlotsTyped
    DEF Typed, TypeOK, UpdaterMove, historyVars
<1>6. CASE UpdaterMoveRest
  <2>1. slots' \in Seq(ServerNode) /\ Len(slots') = Len(slots)
    BY <1>6, UpdaterMoveRestSlots
  <2>2. call' \in [Call -> CallState] /\ CallsWithin'
    BY <1>3, <1>6, <2>1 DEF UpdaterMoveRest
  <2>3. Exclusion'
    BY <1>6 DEF Typed, Exclusion, UpdaterMoveRest, historyVars
  <2> QED
    BY <1>1, <1>6, <2>1, <2>2, <2>3, SlotsTyped
    DEF Typed, TypeOK, UpdaterMoveRest, historyVars
<1>7. CASE UpdaterErase
  <2>1. call' \in [Call -> CallState] /\ CallsWithin'
    BY <1>3, <1>7 DEF UpdaterErase
  <2>2. Exclusion'
    BY <1>1, <1>7 DEF Typed, Exclusion, UpdaterErase, historyVars
  <2> QED
    BY <1>1, <1>7, <2>1, <2>2
    DEF Typed, TypeOK, UpdaterErase, historyVars, Capacity
<1> QED
  BY <1>2, <1>4, <1>5, <1>6, <1>7 DEF UpdaterStep

LEMMA EstablishTyped ==
    ASSUME Typed, NEW a \in Address, EstablishLock(a) \/ EstablishPush(a)
    PROVE  Typed'
<1>1. /\ mutex \in Address \cup {NoOne, Updater}
      /\ Updater \notin Address /\ NoOne \notin Address /\ NoOne # Updater
      /\ epc \in [Address -> {"idle", "push"}]
      /\ established \in [Address -> 0 .. MaxEstablish] /\ MaxEstablish \in Nat
      /\ upc # "sleep" <=> mutex = Updater
      /\ \A b \in Address : epc[b] = "push" <=> mutex = b
      /\ \A b \in Address : epc[b] = "push" => established[b] < MaxEstablish
  BY ThreadsAssumption DEF Typed, TypeOK, Exclusion
<1>2. CASE EstablishLock(a)
  <2>1. Exclusion'
    BY <1>1, <1>2 DEF Exclusion, EstablishLock, LockList, updaterVars, historyVars
  <2>2. call' \in [Call -> CallState] /\ CallsWithin'
    BY <1>2, CallsStayWithin DEF Typed, TypeOK, EstablishLock, listVars, Capacity
  <2> QED
    BY <1>1, <1>2, <2>1, <2>2
    DEF Typed, TypeOK, EstablishLock, LockList, listVars, updaterVars, historyVars, Capacity
<1>3. CASE EstablishPush(a)
  <2>1. NewNode(a) \in ServerNode
    BY DEF NewNode, ServerNode, Anyone
  <2>2. /\ slots' \in Seq(ServerNode) /\ Len(slots') \in Nat
        /\ size' = size + 1 /\ size' \in 0 .. Len(slots')
        /\ \/ buffer' = buffer /\ Len(slots') >= Len(slots)
           \/ buffer' = buffer + 1
    BY <1>3, <2>1, PushBackSlots DEF EstablishPush
  <2>3. buffer' \in Nat /\ Capacity \in Nat
    BY <2>2 DEF Typed, TypeOK, Capacity
  <2>4. call' \in [Call -> CallState] /\ CallsWithin'
    BY <1>3, <2>2, <2>3, CallsStayWithin DEF EstablishPush, Capacity
  <2>5. upc = "sleep" /\ mutex = a
    BY <1>1, <1>3 DEF EstablishPush
  <2>6. Exclusion'
    BY <1>1, <1>3, <2>5 DEF Exclusion, EstablishPush, updaterVars
  <2>7. established' \in [Address -> 0 .. MaxEstablish]
    BY <1>1, <1>3, <2>5 DEF EstablishPush
  <2> QED
    BY <1>1, <1>3, <2>2, <2>3, <2>4, <2>5, <2>6, <2>7
    DEF Typed, TypeOK, EstablishPush, updaterVars, Capacity
<1> QED
  BY <1>2, <1>3

LEMMA CallTyped ==
    ASSUME Typed, NEW c \in Call
    PROVE  /\ call[c] \in CallState /\ Within(call[c])
           /\ call[c].pos \in Nat /\ call[c].last \in Nat /\ call[c].address \in Anyone
           /\ call[c].found \in SUBSET Anyone
           /\ ~Dangling(c) /\ ~AtEnd(c) => /\ call[c].pos \in DOMAIN slots
                                           /\ Node(c) \in ServerNode
<1>1. call[c] \in CallState /\ Within(call[c])
  BY DEF Typed, TypeOK, CallsWithin
<1>2. /\ call[c].pos \in Nat /\ call[c].last \in Nat /\ call[c].address \in Anyone
      /\ call[c].found \in SUBSET Anyone
  BY <1>1 DEF CallState
<1>3. ASSUME ~Dangling(c), ~AtEnd(c)
      PROVE  call[c].pos \in DOMAIN slots /\ Node(c) \in ServerNode
  <2>1. slots \in Seq(ServerNode)
    BY DEF Typed, TypeOK
  <2>2. call[c].pos \in 1 .. Len(slots)
    BY <1>1, <1>2, <1>3, <2>1 DEF Within, Dangling, AtEnd, Capacity
  <2> QED
    BY <2>1, <2>2 DEF Node
<1> QED
  BY <1>1, <1>2, <1>3

LEMMA BeginTyped ==
    ASSUME Typed, NEW c \in Call, NEW pc \in {"compare", "copy"}, NEW a \in Anyone,
           Begin(c, pc, a)
    PROVE  Typed'
<1>1. size \in Nat /\ buffer \in Nat /\ size <= Capacity /\ NoAddress \in Anyone
  BY DEF Typed, TypeOK, Anyone
<1>2. Started(pc, a) \in CallState /\ Within(Started(pc, a))
  BY <1>1 DEF Started, CallState, Within
<1>3. call' \in [Call -> CallState] /\ CallsWithin'
  BY <1>2, CallChanged DEF Begin, listVars, Capacity
<1>4. steady' \in [Call -> SUBSET Address]
  BY DEF Typed, TypeOK, Begin
<1> QED
  BY <1>3, <1>4, ListAlone DEF Begin

LEMMA BeatTyped ==
    ASSUME Typed, NEW c \in BeatCall, BeatStep(c)
    PROVE  Typed'
<1>1. c \in Call
  BY DEF Call
<1>2. /\ call[c] \in CallState /\ Within(call[c])
      /\ call[c].pos \in Nat /\ call[c].last \in Nat /\ call[c].address \in Anyone
  BY <1>1, CallTyped
<1>3. ASSUME NEW s \in CallState, s.pos = call[c].pos, s.last = call[c].last,
             s.buffer = call[c].buffer,
             s.pc \notin {"usage", "time", "copyRest"} \/ ~AtEnd(c)
      PROVE  Within(s)
  BY <1>2, <1>3 DEF Within, AtEnd
<1>4. CASE BeatCompare(c)
  <2>1. ~AtEnd(c) /\ call[c].pc = "compare"
    BY <1>4 DEF BeatCompare
  <2>2. CASE Goes(c, StepTo(call[c], "usage"))
    <3>1. StepTo(call[c], "usage") \in CallState /\ Within(StepTo(call[c], "usage"))
      BY <1>2, <1>3, <2>1, StepToState
    <3> QED
      BY <1>1, <2>2, <3>1, GoesTyped
  <2>3. CASE Goes(c, Advanced(call[c]))
    <3>1. Advanced(call[c]) \in CallState /\ Within(Advanced(call[c]))
      BY <1>2, <2>1, AdvancedState DEF Within
    <3> QED
      BY <1>1, <2>3, <3>1, GoesTyped
  <2> QED
    BY <1>4, <2>2, <2>3 DEF BeatCompare, StepTo, Advanced
<1>5. CASE BeatNotFound(c)
  <2>1. /\ Replied(call[c], "CANCELLED") \in CallState
        /\ Within(Replied(call[c], "CANCELLED"))
    BY <1>2, <1>3, RepliedState
  <2>2. Goes(c, Replied(call[c], "CANCELLED"))
    BY <1>5 DEF BeatNotFound, Replied
  <2> QED
    BY <1>1, <2>1, <2>2, GoesTyped
<1>6. CASE BeatUsage(c) \/ BeatTime(c)
  <2>1. slots' \in Seq(ServerNode) /\ Len(slots') = Len(slots)
    BY <1>6, BeatSlots
  <2>2. PICK s \in CallState : call' = [call EXCEPT ![c] = s] /\ Within(s)
    <3>1. CASE BeatUsage(c)
      <4>1. ~AtEnd(c)
        BY <1>2, <3>1 DEF Within, AtEnd, BeatUsage
      <4>2. StepTo(call[c], "time") \in CallState /\ Within(StepTo(call[c], "time"))
        BY <1>2, <1>3, <4>1, StepToState
      <4>3. call' = [call EXCEPT ![c] = StepTo(call[c], "time")]
        BY <3>1 DEF BeatUsage, StepTo
      <4> QED
        BY <4>2, <4>3
    <3>2. CASE BeatTime(c)
      <4>1. Replied(call[c], "OK") \in CallState /\ Within(Replied(call[c], "OK"))
        BY <1>2, <1>3, RepliedState
      <4> DEFINE once == [call EXCEPT ![c] = StepTo(call[c], "idle")]
      <4>2. call' = [once EXCEPT ![c].reply = "OK"]
        BY <3>2 DEF BeatTime, StepTo
      <4>3. call' = [call EXCEPT ![c] = Replied(call[c], "OK")]
        <5>1. call \in [Call -> CallState]
          BY DEF Typed, TypeOK
        <5>2. once[c] = StepTo(call[c], "idle")
          BY <1>1, <5>1
        <5>3. [once[c] EXCEPT !.reply = "OK"] = Replied(call[c], "OK")
          BY <5>2 DEF StepTo, Replied
        <5> QED
          BY <1>1, <4>2, <5>1, <5>3
      <4> QED
        BY <4>1, <4>3
    <3> QED
      BY <1>6, <3>1, <3>2
  <2>3. UNCHANGED <<size, buffer, mutex, updaterVars, epc, historyVars>>
    BY <1>6 DEF BeatUsage, BeatTime
  <2>4. call' \in [Call -> CallState] /\ CallsWithin'
    BY <1>1, <2>1, <2>2, <2>3, CallChanged DEF Capacity
  <2>5. Exclusion'
    BY <2>3 DEF Typed, Exclusion, updaterVars, historyVars
  <2> QED
    BY <2>1, <2>3, <2>4, <2>5, SlotsTyped DEF Typed, TypeOK, updaterVars, historyVars
<1> QED
  BY <1>4, <1>5, <1>6 DEF BeatStep

LEMMA FindTyped ==
    ASSUME Typed, NEW c \in FindCall, FindStep(c)
    PROVE  Typed'
<1>1. c \in Call /\ NoAddress \in Anyone
  BY DEF Call, Anyone
<1>2. /\ call[c] \in CallState /\ Within(call[c])
      /\ call[c].pos \in Nat /\ call[c].last \in Nat /\ call[c].address \in Anyone
      /\ call[c].found \in SUBSET Anyone
      /\ ~Dangling(c) /\ ~AtEnd(c) => Node(c) \in ServerNode
  BY <1>1, CallTyped
<1>3. CASE FindCopy(c)
  <2>1. ~AtEnd(c)
    BY <1>3 DEF FindCopy
  <2>2. PICK a \in Anyone : Goes(c, Copied(call[c], a))
    BY <1>2, <1>3 DEF FindCopy, Copied, ServerNode
  <2>3. Copied(call[c], a) \in CallState /\ Within(Copied(call[c], a))
    BY <1>2, <2>1, CopiedState DEF Within, AtEnd
  <2> QED
    BY <1>1, <2>2, <2>3, GoesTyped
<1>4. CASE FindCopyRest(c)
  <2>1. PICK F \in SUBSET Anyone : Goes(c, Looked(call[c], F))
    <3>1. PICK r : Goes(c, [call[c] EXCEPT !.pc = "copy", !.pos = @ + 1,
                              !.found = IF r \in Fits THEN @ \cup {call[c].address} ELSE @])
      BY <1>4 DEF FindCopyRest
    <3> DEFINE F == IF r \in Fits THEN call[c].found \cup {call[c].address}
                    ELSE call[c].found
    <3>2. F \in SUBSET Anyone
      BY <1>2
    <3>3. Goes(c, Looked(call[c], F))
      BY <3>1 DEF Looked
    <3> QED
      BY <3>2, <3>3
  <2>2. Looked(call[c], F) \in CallState /\ Within(Looked(call[c], F))
    BY <1>2, LookedState DEF Within
  <2> QED
    BY <1>1, <2>1, <2>2, GoesTyped
<1>5. CASE FindReturns(c)
  <2>1. PICK a \in Anyone : Goes(c, Replied(call[c], a))
    BY <1>1, <1>2, <1>5 DEF FindReturns, Replied
  <2>2. Replied(call[c], a) \in CallState /\ Within(Replied(call[c], a))
    BY <1>2, RepliedState DEF Within
  <2> QED
    BY <1>1, <2>1, <2>2, GoesTyped
<1> QED
  BY <1>3, <1>4, <1>5 DEF FindStep

----------------------------------------------------------------------------
(* The list of the threads. Entry(k), Rest(k) and On(k) say what the k-th   *)
(* node of it holds while its address may be on its way to a new place.    *)

Entry(k) == IF upc = "moveRest" /\ Place(k) = it THEN slots[res].address
            ELSE slots[Place(k)].address
Rest(k) == slots[Place(k)].rest
On(k) == slots[Place(k)].active

\* Every node of the list is whole: it has an address, and the operations of
\* the provider of that address. ListIntact says so only of the free mutex.
Whole == \A k \in 1 .. ListLength : Entry(k) \in Address /\ Rest(k) = Entry(k)

LEMMA ExpireTyped ==
    ASSUME Typed, Whole, NEW k \in 1 .. ListLength, Expire(Place(k))
    PROVE  Typed'
<1>1. slots' \in Seq(ServerNode) /\ Len(slots') = Len(slots)
  BY ExpireSlots
<1>2. UNCHANGED <<size, buffer, mutex, updaterVars, epc, call, established>>
  BY DEF Expire
<1>3. call' \in [Call -> CallState] /\ CallsWithin'
  BY <1>1, <1>2, CallsStayWithin DEF Typed, TypeOK, Capacity
<1>4. Exclusion'
  BY <1>2 DEF Typed, Exclusion, updaterVars
<1>5. Rest(k) \in Address
  BY DEF Whole
<1>6. expired' \subseteq Address /\ steady' \in [Call -> SUBSET Address]
  BY <1>5 DEF Typed, TypeOK, Expire, Rest
<1> QED
  BY <1>1, <1>2, <1>3, <1>4, <1>6 DEF Typed, TypeOK, updaterVars, Capacity

LEMMA InitTyped == Init => Typed /\ Whole
<1> SUFFICES ASSUME Init
             PROVE  Typed /\ Whole
  OBVIOUS
<1>1. Updater \notin Address /\ NoOne \notin Address /\ NoOne # Updater /\ MaxEstablish \in Nat
  BY ThreadsAssumption
<1>2. slots = <<>> /\ size = 0 /\ Capacity = 0
  BY DEF Init, Capacity
<1> DEFINE s == [Started("idle", NoAddress) EXCEPT !.last = 0]
<1>3. s \in CallState /\ Within(s)
  BY <1>2 DEF Init, Started, CallState, Within, Anyone
<1>4. call = [c \in Call |-> s]
  BY DEF Init
<1> HIDE DEF s
<1>5. call \in [Call -> CallState] /\ CallsWithin
  BY <1>3, <1>4 DEF CallsWithin
<1>6. TypeOK
  BY <1>1, <1>2, <1>5 DEF Init, TypeOK
<1>7. Exclusion
  BY <1>1 DEF Init, Exclusion
<1>8. Whole
  BY <1>2 DEF Init, Whole, ListLength, Gap
<1> QED
  BY <1>5, <1>6, <1>7, <1>8 DEF Typed

\* Every step keeps the types, as long as the nodes of the list are whole.
LEMMA NextTyped ==
    ASSUME Typed, Whole, [Next]_vars
    PROVE  Typed'
<1>1. CASE UpdaterLock \/ UpdaterStep
  BY <1>1, UpdaterTyped
<1>2. CASE \E a \in Address : EstablishLock(a) \/ EstablishPush(a)
  BY <1>2, EstablishTyped
<1>3. CASE \E c \in BeatCall : BeatStart(c)
  BY <1>3, BeginTyped DEF BeatStart, Call, Anyone
<1>4. CASE \E c \in BeatCall : BeatStep(c)
  BY <1>4, BeatTyped
<1>5. CASE \E c \in FindCall : FindStart(c)
  BY <1>5, BeginTyped DEF FindStart, Call, Anyone
<1>6. CASE \E c \in FindCall : FindStep(c)
  BY <1>6, FindTyped
<1>7. CASE \E k \in 1 .. ListLength : Expire(Place(k))
  BY <1>7, ExpireTyped
<1>8. CASE UNCHANGED vars
  <2>1. call' \in [Call -> CallState] /\ CallsWithin'
    BY <1>8, CallsStayWithin DEF vars, listVars, Typed, TypeOK, Capacity
  <2> QED
    BY <1>8, <2>1, ListAlone DEF vars, historyVars, Typed, TypeOK
<1> QED
  BY <1>1, <1>2, <1>3, <1>4, <1>5, <1>6, <1>7, <1>8 DEF Next

\* What a step may do to the list: nothing, or what one action of ServerList
\* does, together with what the history remembers of it.
IsNow(k, j) == Entry(k)' = Entry(j) /\ Rest(k)' = Rest(j) /\ On(k)' = On(j)

Same == /\ ListLength' = ListLength
        /\ \A k \in 1 .. ListLength : IsNow(k, k)
        /\ UNCHANGED <<established, expired>>

Refreshed(i) == /\ ListLength' = ListLength
                /\ \A k \in 1 .. ListLength :
                      /\ Entry(k)' = Entry(k) /\ Rest(k)' = Rest(k)
                      /\ On(k)' = IF k = i THEN TRUE ELSE On(k)
                /\ UNCHANGED <<established, expired>>

Expired(i) == /\ ListLength' = ListLength
              /\ \A k \in 1 .. ListLength :
                    /\ Entry(k)' = Entry(k) /\ Rest(k)' = Rest(k)
                    /\ On(k)' = (On(k) /\ k # i)
              /\ established' = established /\ expired' = expired \cup {Rest(i)}

Removed(i) == /\ ~On(i)
              /\ ListLength' = ListLength - 1
              /\ \A k \in 1 .. ListLength - 1 : IsNow(k, IF k < i THEN k ELSE k + 1)
              /\ UNCHANGED <<established, expired>>

Added(a) == /\ ListLength' = ListLength + 1
            /\ \A k \in 1 .. ListLength : IsNow(k, k)
            /\ Entry(ListLength)' = a /\ Rest(ListLength)' = a /\ On(ListLength)' = TRUE
            /\ established' = [established EXCEPT ![a] = @ + 1] /\ expired' = expired

LEMMA ListAloneSame ==
    ASSUME UNCHANGED <<listVars, updaterVars, established, expired>>
    PROVE  Same
BY DEF listVars, updaterVars, Same, IsNow, Entry, Rest, On, Place, ListLength, Gap

LEMMA UpdaterScans ==
    ASSUME Typed, UpdaterScan
    PROVE  Same \/ \E i \in 1 .. ListLength : Removed(i)
<1>1. /\ size \in Nat /\ it \in Nat \ {0} /\ res \in 1 .. it
      /\ it <= size /\ upc = "scan"
      /\ UNCHANGED <<slots, size, established, expired>>
  BY DEF Typed, TypeOK, UpdaterScan, listVars, historyVars
<1>2. CASE ~slots[it].active /\ it' = it + 1 /\ UNCHANGED <<upc, res>>
  <2>1. res \in 1 .. ListLength /\ Place(res) = it
    BY <1>1 DEF Place, ListLength, Gap
  <2>2. ListLength' = ListLength - 1 /\ ListLength \in Nat
    BY <1>1, <1>2 DEF ListLength, Gap
  <2>3. ASSUME NEW k \in 1 .. ListLength - 1
        PROVE  IsNow(k, IF k < res THEN k ELSE k + 1)
    <3>1. Place(k)' = Place(IF k < res THEN k ELSE k + 1)
      BY <1>1, <1>2, <2>2 DEF Place, Gap
    <3> QED
      BY <1>1, <1>2, <3>1 DEF IsNow, Entry, Rest, On
  <2>4. Removed(res)
    BY <1>1, <1>2, <2>1, <2>2, <2>3 DEF Removed, On
  <2> QED
    BY <2>1, <2>4
<1>3. CASE slots[it].active /\ res = it /\ it' = it + 1 /\ res' = res + 1 /\ UNCHANGED upc
  BY <1>1, <1>3 DEF Same, IsNow, Entry, Rest, On, Place, ListLength, Gap
<1>4. CASE slots[it].active /\ res < it /\ upc' = "move" /\ UNCHANGED <<it, res>>
  BY <1>1, <1>4 DEF Same, IsNow, Entry, Rest, On, Place, ListLength, Gap
<1> QED
  BY <1>2, <1>3, <1>4 DEF UpdaterScan

LEMMA UpdaterMoves ==
    ASSUME Typed, UpdaterMove \/ UpdaterMoveRest
    PROVE  Same
<1>1. /\ size \in Nat /\ it \in Nat \ {0} /\ res \in 1 .. it /\ res < it /\ it <= size
      /\ upc \in {"move", "moveRest"} /\ DOMAIN slots = 1 .. Capacity /\ size <= Capacity
      /\ Capacity \in Nat
      /\ UNCHANGED <<size, established, expired>>
  BY DEF Typed, TypeOK, UpdaterMove, UpdaterMoveRest, historyVars, Capacity
<1>2. ListLength' = ListLength
  BY <1>1 DEF UpdaterMove, UpdaterMoveRest, ListLength, Gap
<1>3. ASSUME NEW k \in 1 .. ListLength
      PROVE  IsNow(k, k)
  <2>1. Place(k) \in DOMAIN slots /\ Place(k) # res
    BY <1>1, PlaceInList
  <2>2. Place(k) = it <=> k = res
    BY <1>1 DEF Place, Gap
  <2>3. CASE UpdaterMove
    <3>1. Place(k)' = Place(k)
      BY <1>1, <2>3 DEF UpdaterMove, Place, Gap
    <3>2. CASE k = res
      BY <1>1, <2>2, <2>3, <3>1, <3>2, UpdaterMoveSlots
      DEF UpdaterMove, IsNow, Entry, Rest, On
    <3>3. CASE k # res
      <4>1. slots'[Place(k)] = slots[Place(k)]
        BY <2>1, <2>2, <2>3, <3>3, UpdaterMoveSlots
      <4> QED
        BY <1>1, <2>2, <2>3, <3>1, <3>3, <4>1 DEF UpdaterMove, IsNow, Entry, Rest, On
    <3> QED
      BY <3>2, <3>3
  <2>4. CASE UpdaterMoveRest
    <3>1. Place(k)' = IF k = res THEN res ELSE Place(k)
      BY <1>1, <2>4 DEF UpdaterMoveRest, Place, Gap
    <3>2. CASE k = res
      BY <1>1, <2>2, <2>4, <3>1, <3>2, UpdaterMoveRestSlots
      DEF UpdaterMoveRest, IsNow, Entry, Rest, On
    <3>3. CASE k # res
      <4>1. slots'[Place(k)] = slots[Place(k)]
        BY <2>1, <2>2, <2>4, <3>3, UpdaterMoveRestSlots
      <4> QED
        BY <1>1, <2>2, <2>4, <3>1, <3>3, <4>1 DEF UpdaterMoveRest, IsNow, Entry, Rest, On
    <3> QED
      BY <3>2, <3>3
  <2> QED
    BY <2>3, <2>4
<1> QED
  BY <1>1, <1>2, <1>3 DEF Same

LEMMA UpdaterEnds ==
    ASSUME Typed, UpdaterLock \/ UpdaterErase
    PROVE  Same
<1>1. /\ size \in Nat /\ it \in Nat \ {0} /\ res \in 1 .. it
      /\ upc = "scan" => it <= size + 1
      /\ UNCHANGED <<slots, established, expired>>
  BY DEF Typed, TypeOK, UpdaterLock, UpdaterErase, listVars, historyVars
<1>2. CASE UpdaterLock
  BY <1>1, <1>2 DEF UpdaterLock, listVars, Same, IsNow, Entry, Rest, On, Place, ListLength, Gap
<1>3. CASE UpdaterErase
  BY <1>1, <1>3 DEF UpdaterErase, Same, IsNow, Entry, Rest, On, Place, ListLength, Gap
<1> QED
  BY <1>2, <1>3

LEMMA EstablishAdds ==
    ASSUME Typed, NEW a \in Address, EstablishLock(a) \/ EstablishPush(a)
    PROVE  Same \/ Added(a)
<1>1. CASE EstablishLock(a)
  BY <1>1, ListAloneSame DEF EstablishLock, historyVars
<1>2. CASE EstablishPush(a)
  <2>1. upc = "sleep" /\ upc' = "sleep" /\ res' = res /\ it' = it /\ size \in Nat
    <3>1. mutex = a /\ a # Updater
      BY <1>2, ThreadsAssumption DEF Typed, Exclusion, EstablishPush
    <3> QED
      BY <1>2, <3>1 DEF Typed, TypeOK, Exclusion, EstablishPush, updaterVars
  <2>2. NewNode(a) \in ServerNode
    BY DEF NewNode, ServerNode, Anyone
  <2>3. /\ size' = size + 1 /\ slots'[size + 1] = NewNode(a)
        /\ \A k \in 1 .. size : slots'[k] = slots[k]
    BY <1>2, <2>2, PushBackSlots DEF EstablishPush
  <2>4. \A k \in Nat : Place(k) = k /\ Place(k)' = k
    BY <2>1 DEF Place, Gap
  <2>5. ListLength = size /\ ListLength' = size + 1
    BY <2>1, <2>3 DEF ListLength, Gap
  <2>6. \A k \in 1 .. size : IsNow(k, k)
    BY <2>1, <2>3, <2>4 DEF IsNow, Entry, Rest, On
  <2>7. Entry(ListLength)' = a /\ Rest(ListLength)' = a /\ On(ListLength)' = TRUE
    <3>1. Place(ListLength)' = size + 1
      BY <2>1, <2>5 DEF Place, Gap
    <3> QED
      BY <2>1, <2>3, <3>1 DEF Entry, Rest, On, NewNode
  <2> QED
    BY <1>2, <2>5, <2>6, <2>7 DEF Added, EstablishPush
<1> QED
  BY <1>1, <1>2

\* A beat that stands on a node of the list refreshes it; one whose buffer was
\* replaced, or that stands on a node moved or erased, changes nothing.
LEMMA BeatRefreshes ==
    ASSUME Typed, NEW c \in BeatCall, BeatStep(c)
    PROVE  Same \/ \E i \in 1 .. ListLength : Refreshed(i)
<1>1. CASE BeatCompare(c) \/ BeatNotFound(c)
  BY <1>1, ListAloneSame DEF BeatCompare, BeatNotFound, Goes, historyVars
<1>2. CASE BeatUsage(c) \/ BeatTime(c)
  <2>1. UNCHANGED <<size, it, res, upc, established, expired>>
    BY <1>2 DEF BeatUsage, BeatTime, updaterVars, historyVars
  <2>2. \A k : Place(k)' = Place(k)
    BY <2>1 DEF Place, Gap
  <2>3. ListLength' = ListLength
    BY <2>1 DEF ListLength, Gap
  <2>4. \A k \in 1 .. ListLength :
           /\ Place(k) \in DOMAIN slots
           /\ upc = "moveRest" => res \in DOMAIN slots
    BY PlaceInList DEF Typed, TypeOK, Capacity
  <2>5. \A k \in 1 .. ListLength : Entry(k)' = Entry(k) /\ Rest(k)' = Rest(k)
    BY <1>2, <2>1, <2>2, <2>4, BeatSlots DEF Entry, Rest
  <2>6. \A k \in 1 .. ListLength : \/ On(k)' = On(k)
                                   \/ Place(k) = call[c].pos /\ On(k)' = TRUE
    BY <1>2, <2>2, <2>4, BeatSlots DEF On
  <2>7. \A k, j \in 1 .. ListLength : Place(k) = Place(j) => k = j
    BY DEF Typed, TypeOK, Place, Gap, ListLength
  <2>8. CASE \A k \in 1 .. ListLength : On(k)' = On(k)
    BY <2>1, <2>3, <2>5, <2>8 DEF Same, IsNow
  <2>9. ASSUME NEW i \in 1 .. ListLength, On(i)' # On(i)
        PROVE  Refreshed(i)
    BY <2>1, <2>3, <2>5, <2>6, <2>7, <2>9 DEF Refreshed
  <2> QED
    BY <2>8, <2>9
<1> QED
  BY <1>1, <1>2 DEF BeatStep

LEMMA ExpireExpires ==
    ASSUME Typed, NEW i \in 1 .. ListLength, Expire(Place(i))
    PROVE  Expired(i) /\ On(i)
<1>1. UNCHANGED <<size, it, res, upc, established>> /\ expired' = expired \cup {Rest(i)} /\ On(i)
  BY DEF Expire, updaterVars, Rest, On
<1>2. \A k : Place(k)' = Place(k)
  BY <1>1 DEF Place, Gap
<1>3. ListLength' = ListLength
  BY <1>1 DEF ListLength, Gap
<1>4. \A k \in 1 .. ListLength :
         /\ Place(k) \in DOMAIN slots
         /\ upc = "moveRest" => res \in DOMAIN slots
  BY PlaceInList DEF Typed, TypeOK, Capacity
<1>5. \A k \in 1 .. ListLength : Entry(k)' = Entry(k) /\ Rest(k)' = Rest(k)
  BY <1>1, <1>2, <1>4, ExpireSlots DEF Entry, Rest
<1>6. \A k \in 1 .. ListLength : Place(k) = Place(i) <=> k = i
  BY DEF Typed, TypeOK, Place, Gap, ListLength
<1>7. \A k \in 1 .. ListLength : On(k)' = (On(k) /\ k # i)
  <2> TAKE k \in 1 .. ListLength
  <2>1. On(k)' = (On(k) /\ Place(k) # Place(i))
    BY <1>2, <1>4, ExpireSlots DEF On
  <2> QED
    BY <1>6, <2>1
<1> QED
  BY <1>1, <1>3, <1>5, <1>7 DEF Expired

\* Every step of the threads is one of these five.
LEMMA NextOnList ==
    ASSUME Typed, [Next]_vars
    PROVE  \/ Same
           \/ \E i \in 1 .. ListLength : Refreshed(i) \/ Removed(i) \/ (Expired(i) /\ On(i))
           \/ \E a \in Address : Added(a)
<1>1. CASE UpdaterLock \/ UpdaterStep
  BY <1>1, UpdaterScans, UpdaterMoves, UpdaterEnds DEF UpdaterStep
<1>2. CASE \E a \in Address : EstablishLock(a) \/ EstablishPush(a)
  BY <1>2, EstablishAdds
<1>3. CASE \E c \in BeatCall : BeatStart(c)
  BY <1>3, ListAloneSame DEF BeatStart, Begin
<1>4. CASE \E c \in BeatCall : BeatStep(c)
  BY <1>4, BeatRefreshes
<1>5. CASE \E c \in FindCall : FindStart(c) \/ FindStep(c)
  BY <1>5, ListAloneSame
  DEF FindStart, Begin, FindStep, FindCopy, FindCopyRest, FindReturns, Goes, historyVars
<1>6. CASE \E k \in 1 .. ListLength : Expire(Place(k))
  BY <1>6, ExpireExpires
<1>7. CASE UNCHANGED vars
  BY <1>7, ListAloneSame DEF vars, historyVars
<1> QED
  BY <1>1, <1>2, <1>3, <1>4, <1>5, <1>6, <1>7 DEF Next

\* The length of the list, as a number.
LEMMA LengthType ==
    ASSUME Typed
    PROVE  ListLength \in Nat /\ (mutex = NoOne => upc = "sleep" /\ ListLength = size)
BY ThreadsAssumption DEF Typed, TypeOK, Exclusion, ListLength, Gap

LEMMA NextWhole ==
    ASSUME Typed, Whole, [Next]_vars
    PROVE  Whole'
<1>1. ListLength \in Nat
  BY LengthType
<1> SUFFICES ASSUME NEW k \in 1 .. ListLength'
             PROVE  Entry(k)' \in Address /\ Rest(k)' = Entry(k)'
  BY DEF Whole
<1>2. CASE Same \/ \E i \in 1 .. ListLength : Refreshed(i) \/ Expired(i)
  BY <1>1, <1>2 DEF Same, IsNow, Refreshed, Expired, Whole
<1>3. CASE \E i \in 1 .. ListLength : Removed(i)
  <2>1. PICK i \in 1 .. ListLength : Removed(i)
    BY <1>3
  <2>2. k \in 1 .. ListLength - 1 /\ k + 1 \in 1 .. ListLength
    BY <1>1, <2>1 DEF Removed
  <2>3. CASE k < i
    <3>1. Entry(k)' = Entry(k) /\ Rest(k)' = Rest(k)
      BY <2>1, <2>2, <2>3 DEF Removed, IsNow
    <3> QED
      BY <1>1, <2>2, <3>1 DEF Whole
  <2>4. CASE ~(k < i)
    <3>1. Entry(k)' = Entry(k + 1) /\ Rest(k)' = Rest(k + 1)
      BY <2>1, <2>2, <2>4 DEF Removed, IsNow
    <3> QED
      BY <2>2, <3>1 DEF Whole
  <2> QED
    BY <2>3, <2>4
<1>4. CASE \E a \in Address : Added(a)
  <2>1. PICK a \in Address : Added(a)
    BY <1>4
  <2>2. CASE k \in 1 .. ListLength
    BY <2>1, <2>2 DEF Added, IsNow, Whole
  <2>3. CASE k = ListLength'
    BY <2>1, <2>3 DEF Added, Entry, Rest
  <2> QED
    BY <1>1, <2>1, <2>2, <2>3 DEF Added
<1> QED
  BY <1>2, <1>3, <1>4, NextOnList

\* The state has its types, and the iterators of remove_if stay in the list.
THEOREM TypeCorrect == Spec => []TypeOK
<1>1. Init => Typed /\ Whole
  BY InitTyped
<1>2. Typed /\ Whole /\ [Next]_vars => Typed' /\ Whole'
  BY NextTyped, NextWhole
<1>3. Typed => TypeOK
  BY DEF Typed
<1> QED
  BY <1>1, <1>2, <1>3, PTL DEF Spec

\* Whoever takes the mutex finds whole nodes.
THEOREM NodesIntact == Spec => []ListIntact
<1>1. Init => Typed /\ Whole
  BY InitTyped
<1>2. Typed /\ Whole /\ [Next]_vars => Typed' /\ Whole'
  BY NextTyped, NextWhole
<1>3. Typed /\ Whole => ListIntact
  <2> SUFFICES ASSUME Typed, Whole, mutex = NoOne, NEW i \in 1 .. size
               PROVE  slots[i].address # NoAddress /\ slots[i].rest = slots[i].address
    BY DEF ListIntact
  <2>1. upc = "sleep" /\ i \in 1 .. ListLength
    BY LengthType
  <2>2. Place(i) = i
    BY <2>1, PlaceInList
  <2>3. slots[i].address \in Address /\ slots[i].rest = slots[i].address
    BY <2>1, <2>2 DEF Whole, Entry, Rest
  <2> QED
    BY <2>3, ThreadsAssumption
<1> QED
  BY <1>1, <1>2, <1>3, PTL DEF Spec

----------------------------------------------------------------------------
(* Registrations. *)

Listed(a) == {k \in 1 .. ListLength : Entry(k) = a}

\* A provider that never became inactive has every registration in the list,
\* active and once, also while remove_if runs.
Counted ==
    \A a \in Address \ expired : /\ \A k \in Listed(a) : On(k)
                                 /\ Cardinality(Listed(a)) = established[a]

LEMMA ListedFinite ==
    ASSUME Typed, NEW a
    PROVE  IsFiniteSet(Listed(a)) /\ Cardinality(Listed(a)) \in Nat
<1>1. IsFiniteSet(1 .. ListLength)
  BY LengthType, FS_Interval
<1>2. Listed(a) \in SUBSET (1 .. ListLength)
  BY DEF Listed
<1> QED
  BY <1>1, <1>2, FS_Subset, FS_CardinalityType

\* Removing an entry of another provider renumbers the entries of a.
LEMMA RemovedKeeps ==
    ASSUME Typed, NEW a, NEW i \in 1 .. ListLength, Removed(i), i \notin Listed(a)
    PROVE  Cardinality(Listed(a)') = Cardinality(Listed(a))
<1> DEFINE f == [k \in Listed(a)' |-> IF k < i THEN k ELSE k + 1]
<1>1. /\ ListLength \in Nat /\ ListLength' = ListLength - 1
      /\ \A k \in 1 .. ListLength - 1 :
            Entry(k)' = Entry(IF k < i THEN k ELSE k + 1)
  BY LengthType DEF Removed, IsNow
<1>2. \A k : k \in Listed(a)' <=> k \in 1 .. ListLength - 1 /\ Entry(k)' = a
  BY <1>1 DEF Listed
<1>3. \A k : k \in Listed(a) <=> k \in 1 .. ListLength /\ Entry(k) = a
  BY DEF Listed
<1>4. \A k \in Listed(a)' : f[k] \in Listed(a) /\ f[k] = IF k < i THEN k ELSE k + 1
  BY <1>1, <1>2, <1>3
<1>5. \A k, j \in Listed(a)' : f[k] = f[j] => k = j
  BY <1>1, <1>2, <1>4
<1>6. \A j \in Listed(a) : \E k \in Listed(a)' : f[k] = j
  <2> TAKE j \in Listed(a)
  <2>1. j \in 1 .. ListLength /\ Entry(j) = a /\ j # i
    BY <1>3
  <2>2. CASE j < i
    <3>1. j \in Listed(a)'
      BY <1>1, <1>2, <2>1, <2>2
    <3> QED
      BY <2>2, <3>1
  <2>3. CASE j > i
    <3>1. j - 1 \in 1 .. ListLength - 1 /\ ~(j - 1 < i) /\ (j - 1) + 1 = j
      BY <1>1, <2>1, <2>3
    <3>2. \A k : k = j - 1 => k \in Listed(a)'
      BY <1>1, <1>2, <2>1, <3>1
    <3>3. \A k : k = j - 1 => f[k] = j
      BY <1>1, <2>1, <3>1, <3>2
    <3> QED
      BY <3>2, <3>3
  <2> QED
    BY <1>1, <2>1, <2>2, <2>3
<1>7. f \in Bijection(Listed(a)', Listed(a))
  <2>1. f \in [Listed(a)' -> Listed(a)] /\ DOMAIN f = Listed(a)'
    BY <1>4
  <2> HIDE DEF f
  <2> QED
    BY <1>5, <1>6, <2>1 DEF Bijection, Injection, Surjection, IsInjective
<1>8. ExistsBijection(Listed(a)', Listed(a))
  BY <1>7 DEF ExistsBijection
<1>9. IsFiniteSet(Listed(a)')
  <2>1. IsFiniteSet(1 .. ListLength - 1)
    BY <1>1, FS_Interval
  <2>2. Listed(a)' \in SUBSET (1 .. ListLength - 1)
    BY <1>2
  <2> QED
    BY <2>1, <2>2, FS_Subset
<1> QED
  BY <1>8, <1>9, FS_Bijection

LEMMA NextCounted ==
    ASSUME Typed, Whole, Counted, [Next]_vars
    PROVE  Counted'
<1>1. ListLength \in Nat /\ established \in [Address -> 0 .. MaxEstablish]
  BY LengthType DEF Typed, TypeOK
<1>2. \A a, k : k \in Listed(a) <=> k \in 1 .. ListLength /\ Entry(k) = a
  BY DEF Listed
<1>3. \A a \in Address \ expired : /\ \A k \in Listed(a) : On(k)
                                   /\ Cardinality(Listed(a)) = established[a]
  BY DEF Counted
<1>4. CASE Same \/ \E i \in 1 .. ListLength : Refreshed(i)
  <2>1. /\ ListLength' = ListLength /\ UNCHANGED <<established, expired>>
        /\ \A k \in 1 .. ListLength : Entry(k)' = Entry(k)
        /\ \A k \in 1 .. ListLength : On(k)' = On(k) \/ On(k)' = TRUE
    BY <1>4 DEF Same, IsNow, Refreshed
  <2>2. \A a : Listed(a)' = Listed(a)
    BY <2>1 DEF Listed
  <2> QED
    BY <1>2, <1>3, <2>1, <2>2 DEF Counted
<1>5. CASE \E i \in 1 .. ListLength : Expired(i)
  <2>1. PICK i \in 1 .. ListLength : Expired(i)
    BY <1>5
  <2>2. /\ ListLength' = ListLength /\ established' = established
        /\ expired' = expired \cup {Entry(i)}
        /\ \A k \in 1 .. ListLength : Entry(k)' = Entry(k)
        /\ \A k \in 1 .. ListLength : k # i => On(k)' = (On(k) /\ TRUE)
    BY <2>1 DEF Expired, Whole
  <2>3. \A a : Listed(a)' = Listed(a)
    BY <2>2 DEF Listed
  <2> QED
    BY <1>2, <1>3, <2>2, <2>3 DEF Counted
<1>6. CASE \E i \in 1 .. ListLength : Removed(i)
  <2>1. PICK i \in 1 .. ListLength : Removed(i)
    BY <1>6
  <2>2. /\ ListLength' = ListLength - 1 /\ UNCHANGED <<established, expired>>
        /\ ~On(i)
        /\ \A k \in 1 .. ListLength - 1 :
              /\ Entry(k)' = Entry(IF k < i THEN k ELSE k + 1)
              /\ On(k)' = On(IF k < i THEN k ELSE k + 1)
    BY <2>1 DEF Removed, IsNow
  <2> SUFFICES ASSUME NEW a \in Address \ expired
               PROVE  /\ \A k \in Listed(a)' : On(k)'
                      /\ Cardinality(Listed(a)') = established[a]
    BY <2>2 DEF Counted
  <2>3. i \notin Listed(a)
    BY <1>3, <2>2
  <2>4. Cardinality(Listed(a)') = Cardinality(Listed(a))
    BY <2>1, <2>3, RemovedKeeps
  <2>5. ASSUME NEW k \in Listed(a)'
        PROVE  On(k)'
    <3>1. k \in 1 .. ListLength - 1 /\ Entry(k)' = a
      BY <2>2, <2>5 DEF Listed
    <3> DEFINE j == IF k < i THEN k ELSE k + 1
    <3>2. j \in 1 .. ListLength /\ Entry(k)' = Entry(j) /\ On(k)' = On(j)
      BY <1>1, <2>2, <3>1
    <3> HIDE DEF j
    <3>3. j \in Listed(a)
      BY <1>2, <3>1, <3>2
    <3> QED
      BY <1>3, <3>2, <3>3
  <2> QED
    BY <1>3, <2>4, <2>5
<1>7. CASE \E b \in Address : Added(b)
  <2>1. PICK b \in Address : Added(b)
    BY <1>7
  <2>2. /\ ListLength' = ListLength + 1 /\ expired' = expired
        /\ established' = [established EXCEPT ![b] = established[b] + 1]
        /\ \A k \in 1 .. ListLength : Entry(k)' = Entry(k) /\ On(k)' = On(k)
        /\ \A k : k = ListLength + 1 => Entry(k)' = b /\ On(k)' = TRUE
    BY <2>1 DEF Added, IsNow, Entry, On
  <2> SUFFICES ASSUME NEW a \in Address \ expired
               PROVE  /\ \A k \in Listed(a)' : On(k)'
                      /\ Cardinality(Listed(a)') = established'[a]
    BY <2>2 DEF Counted
  <2>3. \A k : k \in Listed(a)' <=> k \in 1 .. ListLength + 1 /\ Entry(k)' = a
    BY <2>2 DEF Listed
  <2>4. \A k \in 1 .. ListLength + 1 : k \in 1 .. ListLength \/ k = ListLength + 1
    BY <1>1
  <2>5. \A k \in Listed(a)' : On(k)'
    BY <1>2, <1>3, <2>2, <2>3, <2>4
  <2>6. IsFiniteSet(Listed(a)) /\ Cardinality(Listed(a)) = established[a]
        /\ ListLength + 1 \notin Listed(a) /\ ListLength + 1 \in 1 .. ListLength + 1
    BY <1>1, <1>2, <1>3, ListedFinite
  <2>7. CASE a = b
    <3>1. Listed(a)' = Listed(a) \cup {ListLength + 1}
      BY <1>1, <1>2, <2>2, <2>3, <2>4, <2>6, <2>7
    <3>2. Cardinality(Listed(a)') = Cardinality(Listed(a)) + 1
      BY <2>6, <3>1, FS_AddElement
    <3> QED
      BY <1>1, <2>2, <2>5, <2>6, <2>7, <3>2
  <2>8. CASE a # b
    <3>1. Listed(a)' = Listed(a)
      BY <1>1, <1>2, <2>2, <2>3, <2>4, <2>8
    <3> QED
      BY <1>1, <2>2, <2>5, <2>6, <2>8, <3>1
  <2> QED
    BY <2>7, <2>8
<1> QED
  BY <1>4, <1>5, <1>6, <1>7, NextOnList

\* No registration is lost and none is doubled, whatever the updater and the
\* other registrations do in between.
THEOREM RegistrationsKept == Spec => []NoRegistrationLost
<1>1. Init => Typed /\ Whole
  BY InitTyped
<1>2. Init => Counted
  <2> SUFFICES ASSUME Init, NEW a \in Address
               PROVE  /\ \A k \in Listed(a) : On(k)
                      /\ Cardinality(Listed(a)) = established[a]
    BY DEF Counted
  <2>1. ListLength = 0 /\ established[a] = 0
    BY DEF Init, ListLength, Gap
  <2>2. Listed(a) = {}
    BY <2>1 DEF Listed
  <2> QED
    BY <2>1, <2>2, FS_EmptySet
<1>3. Typed /\ Whole /\ Counted /\ [Next]_vars => Typed' /\ Whole' /\ Counted'
  BY NextTyped, NextWhole, NextCounted
<1>4. Typed /\ Counted => NoRegistrationLost
  <2> SUFFICES ASSUME Typed, Counted, mutex = NoOne, NEW a \in Address \ expired
               PROVE  Cardinality(Entries(a)) = established[a]
    BY DEF NoRegistrationLost
  <2>1. upc = "sleep" /\ ListLength = size
    BY LengthType
  <2>2. \A k \in 1 .. size : Entry(k) = slots[k].address
    BY <2>1, PlaceInList DEF Entry
  <2>3. Entries(a) = Listed(a)
    BY <2>1, <2>2 DEF Entries, Listed
  <2> QED
    BY <2>3 DEF Counted
<1> QED
  BY <1>1, <1>2, <1>3, <1>4, PTL DEF Spec

----------------------------------------------------------------------------
(* The refinement. *)

LEMMA ListShape ==
    ASSUME Typed
    PROVE  /\ ListLength \in Nat /\ DOMAIN List = 1 .. ListLength /\ Len(List) = ListLength
           /\ List = [k \in 1 .. ListLength |-> [address |-> Entry(k), active |-> On(k)]]
           /\ \A k \in 1 .. ListLength : List[k] = [address |-> Entry(k), active |-> On(k)]
<1>1. ListLength \in Nat
  BY LengthType
<1>2. List = [k \in 1 .. ListLength |-> [address |-> Entry(k), active |-> On(k)]]
  BY DEF List, Entry, On
<1> QED
  BY <1>1, <1>2

LEMMA NextShape ==
    List' = [k \in 1 .. ListLength' |-> [address |-> Entry(k)', active |-> On(k)']]
BY DEF List, Entry, On

LEMMA EntryActive ==
    ASSUME NEW a, NEW b, NEW x
    PROVE  [[address |-> a, active |-> b] EXCEPT !.active = x] = [address |-> a, active |-> x]
OBVIOUS

\* Each step of the threads is a step of the abstract list or leaves it alone.
LEMMA NextAbstract ==
    ASSUME Typed, [Next]_vars
    PROVE  [Abstract!Next]_List
<1> DEFINE N == ListLength
<1>1. /\ N \in Nat /\ DOMAIN List = 1 .. N /\ Len(List) = N
      /\ List = [k \in 1 .. N |-> [address |-> Entry(k), active |-> On(k)]]
      /\ \A k \in 1 .. N : List[k] = [address |-> Entry(k), active |-> On(k)]
      /\ \A k \in 1 .. N : List[k].active = On(k)
  BY ListShape
<1>2. List' = [k \in 1 .. ListLength' |-> [address |-> Entry(k)', active |-> On(k)']]
  BY NextShape
<1>3. CASE Same
  BY <1>1, <1>2, <1>3 DEF Same, IsNow
<1>4. CASE \E i \in 1 .. N : Refreshed(i)
  <2>1. PICK i \in 1 .. N : Refreshed(i)
    BY <1>4
  <2>2. List' = [k \in 1 .. N |-> [address |-> Entry(k), active |-> IF k = i THEN TRUE ELSE On(k)]]
    BY <1>2, <2>1 DEF Refreshed
  <2>3. [List[i] EXCEPT !.active = TRUE] = [address |-> Entry(i), active |-> TRUE]
    <3>1. List[i] = [address |-> Entry(i), active |-> On(i)]
      BY <1>1
    <3>2. [[address |-> Entry(i), active |-> On(i)] EXCEPT !.active = TRUE]
             = [address |-> Entry(i), active |-> TRUE]
      BY EntryActive
    <3> QED
      BY <3>1, <3>2, Zenon
  <2>4. List' = [List EXCEPT ![i].active = TRUE]
    BY <1>1, <2>2, <2>3
  <2> QED
    BY <1>1, <2>4 DEF Abstract!Refresh, Abstract!Next
<1>5. CASE \E i \in 1 .. N : Expired(i) /\ On(i)
  <2>1. PICK i \in 1 .. N : Expired(i) /\ On(i)
    BY <1>5
  <2>2. List' = [k \in 1 .. N |-> [address |-> Entry(k), active |-> (On(k) /\ k # i)]]
    BY <1>2, <2>1 DEF Expired
  <2>3. \A k \in 1 .. N : [List[k] EXCEPT !.active = @ /\ k \notin {i}]
                             = [address |-> Entry(k), active |-> (On(k) /\ k # i)]
    BY <1>1
  <2>4. List' = [k \in DOMAIN List |-> [List[k] EXCEPT !.active = @ /\ k \notin {i}]]
    BY <1>1, <2>2, <2>3
  <2>5. {i} \in SUBSET DOMAIN List
    BY <1>1
  <2> QED
    BY <2>4, <2>5 DEF Abstract!Expire, Abstract!Next
<1>6. CASE \E i \in 1 .. N : Removed(i)
  <2>1. PICK i \in 1 .. N : Removed(i)
    BY <1>6
  <2>2. ~List[i].active
    BY <1>1, <2>1 DEF Removed
  <2>3. List' = [k \in 1 .. N - 1 |-> [address |-> Entry(IF k < i THEN k ELSE k + 1),
                                       active |-> On(IF k < i THEN k ELSE k + 1)]]
    BY <1>2, <2>1 DEF Removed, IsNow
  <2>4. \A k \in 1 .. N - 1 : (IF k < i THEN List[k] ELSE List[k + 1])
                                = [address |-> Entry(IF k < i THEN k ELSE k + 1),
                                   active |-> On(IF k < i THEN k ELSE k + 1)]
    <3> TAKE k \in 1 .. N - 1
    <3>1. k \in 1 .. N /\ k + 1 \in 1 .. N
      BY <1>1
    <3> QED
      BY <1>1, <3>1
  <2>5. List' = [k \in 1 .. Len(List) - 1 |-> IF k < i THEN List[k] ELSE List[k + 1]]
    BY <1>1, <2>3, <2>4
  <2> QED
    BY <1>1, <2>2, <2>5 DEF Abstract!Remove, Abstract!Next
<1>7. CASE \E a \in Address : Added(a)
  <2>1. PICK a \in Address : Added(a)
    BY <1>7
  <2> DEFINE node == [address |-> a, active |-> TRUE]
  <2>2. /\ ListLength' = N + 1
        /\ \A k \in 1 .. N : Entry(k)' = Entry(k) /\ On(k)' = On(k)
        /\ \A k : k = N + 1 => Entry(k)' = a /\ On(k)' = TRUE
    BY <2>1 DEF Added, IsNow, Entry, On
  <2>3. \A k \in 1 .. N + 1 : [address |-> Entry(k)', active |-> On(k)']
                                = IF k <= N THEN List[k] ELSE node
    <3> TAKE k \in 1 .. N + 1
    <3>1. CASE k \in 1 .. N
      BY <1>1, <2>2, <3>1
    <3>2. CASE k = N + 1
      <4>1. Entry(k)' = a /\ On(k)' = TRUE
        BY <2>2, <3>2
      <4>2. ~(k <= N)
        BY <1>1, <3>2
      <4> QED
        BY <4>1, <4>2
    <3> QED
      BY <1>1, <3>1, <3>2
  <2>4. List' = [k \in 1 .. N + 1 |-> IF k <= N THEN List[k] ELSE node]
    BY <1>2, <2>2, <2>3
  <2>5. Append(List, node) = [k \in 1 .. N + 1 |-> IF k <= N THEN List[k] ELSE node]
    BY <1>1
  <2>6. List' = Append(List, node)
    BY <2>4, <2>5
  <2> QED
    BY <2>6 DEF Abstract!Add, Abstract!Next
<1> QED
  BY <1>3, <1>4, <1>5, <1>6, <1>7, NextOnList

\* The vector under its threads implements the abstract list.
THEOREM Refinement == Spec => ImplementsServerList
<1>1. Init => Typed /\ Whole
  BY InitTyped
<1>2. Typed /\ Whole /\ [Next]_vars => Typed' /\ Whole'
  BY NextTyped, NextWhole
<1>3. Init => Abstract!Init
  BY DEF Init, Abstract!Init, List, ListLength, Gap
<1>4. Typed /\ [Next]_vars => [Abstract!Next]_List
  BY NextAbstract
<1> QED
  BY <1>1, <1>2, <1>3, <1>4, PTL DEF Spec, ImplementsServerList, Abstract!Spec
===============================================================================
