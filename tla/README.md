# Cloud3D in TLA+

Models, model-checking runs and machine-checked proofs of Cloud3D: a load
balancer that keeps a list of service providers, providers that register with it
and send heartbeats, and clients that ask it for a provider and then let this
provider compute on 3D models. All paths are relative to the repository.

## 1. The system

| part | state | operations | talks to |
|---|---|---|---|
| list of providers, `load_balancer/LoadBalanceImpl` | `servers_` (address, operations, version, usage, lastBeat), `mutex_`, `updater_` | RPCs `EstablishServer`, `SendHeartbeat`, `ListServer`; `updateServerList` on its own thread | providers, clients |
| choice of a provider, `findBestServer`, `minUsageServer` | local | part of `ListServer` | reads `servers_` |
| balancer process, `load_balancer/LoadBalancer` | configuration, `server_` | constructors, `run` | |
| heartbeat, `provider/BalancerEstablisher` | `usage_`, usage function | `establishServer`, `sendHeartBeat`, `setUsageFunction` | balancer |
| provider process, `provider/ServiceProvider` | configuration, `server_`, `balancer_` | constructors, setters, `run` | the two above and below |
| registry and handlers, `provider/ServiceProviderImpl`, `provider/Service` | two vectors of services, `ListOfServiceNames` (a singleton of the process) | four RPCs | clients |
| client, `client/CloudClient`, `client/ProviderFinder` | configuration, stub of one provider | constructors, `performOperation` (four overloads), load and save | balancer once, then provider |
| mesh conversion, `Shared/ModelProcessor` | none | `serializeModel`, `deserializeModel`, load and save | |
| configuration files, `Shared/FileParser` | none | three parsers, `read` | |
| samples, `Samples` | last reading of `/proc/stat` | `getCurrentValue`, `meshSmooth`, four mains | |

The processes share nothing but calls. Inside the balancer three kinds of gRPC
handlers and the updater share `servers_`; only `EstablishServer` and the updater
lock `mutex_`. Inside a provider the handlers share the registry, which is filled
before `run()`, and the heartbeat runs on a thread of its own.

What is hard, and what makes each part right:

* **List**: unlocked readers and a writer on a vector that is reallocated and
  compacted; two timers of different processes with no margin between them;
  registrations that always append, with retries, lost replies and late calls;
  no persistence. Right: no registration is lost, nobody silent stays, nobody
  alive goes, nobody is in it twice without a fault of its own, the usage in it is the one
  last reported, everybody comes back after a crash or after the clock by which ages are
  measured was set.
* **Choice**: a test by counting and a minimum with random ties. Right: every
  provider that suits and has the lowest usage, and only such a one, can be
  the answer.
* **Handlers and clients**: concurrent calls on shared services, calls that fail
  after they were handled. Right: results are complete, in order and the caller's own.
* **Meshes**: three numberings of vertices (of the message, of the new vertices, of
  the mesh that is added to). Right: the polygons come out as they went in.
* **Configuration**: three parsers with a list of keys each, lines in any order,
  exceptions in the middle. Right: the last line of a key counts, and one file
  means the same to all programs.
* **Together**: an address asked for once and never again, the order of listening
  and registering, processes with different security settings. Right: whoever got
  an address is served there.

`PROJECT.json` lists every hazard with its line, and the properties for it.

## 2. The modules

| module | models | composed of |
|---|---|---|
| `LoadBalance` | registration, heartbeat, sweep, with time, crashes and an unreliable network | |
| `SampleUsage` | the same with the usage function of the sample | extends `LoadBalance`, `ProviderSample` |
| `LoadBalance_proofs` | theorems about both | `SampleUsage` |
| `ServerList` | what the list promises, without threads | |
| `ServerListThreads` | `servers_` and `mutex_`, access by access | implements `ServerList` |
| `ServerListThreads_proofs` | theorems about it, the refinement among them | `ServerListThreads` |
| `FindBestServer` | the loops that choose a provider | |
| `FindBestServer_proofs` | theorems about it | `FindBestServer` |
| `Induction` | lemmas: induction and recursion over an interval | |
| `MeshConversion` | `serializeModel`, `deserializeModel` | |
| `MeshConversion_proofs` | theorems about every mesh object | `MeshConversion`, `Induction` |
| `ServiceProvide` | registry, handlers, `performOperation` | extends `MeshConversion` |
| `ServiceProvide_proofs` | theorems about it | `ServiceProvide`, `MeshConversion_proofs` |
| `Configuration` | the three parsers, what the constructors accept | |
| `Configuration_proofs` | theorems about every file | `Configuration`, `Induction` |
| `Cloud` | balancer, providers and clients end to end, coarse | extends `Configuration`, abstracts the others |
| `Cloud_proofs` | theorems about it | `Cloud`, `Configuration_proofs` |
| `ProviderSample` | the usage function of the sample provider | |
| `MC...` | instances for TLC | |

Operators named as a *faulty variant* directly above a definition are that
definition with a plausible bug. No specification uses them; they are put in its
place to see that a property notices.

### LoadBalance

`servers` is `servers_`; the time stamp of a node is kept as its `age`. `pc`, `timer`,
`offer`, `usage` are the heartbeat thread of each provider: `register` is the call
in `run()`, `asleep` the `sleep_for` of `sendHeartBeat`, `beat` the call in
`sendBeat`, `retry` and `backoff` its loop around `establishServer`. `reply` is
the call the thread waits for: handled in one step (`EstablishServer`,
`SendHeartbeat`), taken by the provider in another (`RegisterReturns`,
`BeatReturns`, `RetryReturns`).

Between the two anything may happen: the sweep (`RemoveInactiveServer`: the body of
`updateServerList` as one step), a crash of the balancer, a broken connection
(before or after the handling, or leaving a request behind in `late` that
`HandleLate` handles later), a kill of the provider. `SendHeartbeat` updates
the first entry of the address, as the `return` in its loop does.

Time is discrete; `Tick` advances all timers. It waits for the updater when this
is `SweepLag` late, and for the providers in `Prompt` when they are `BeatLag` late
with a step; other providers may take any time. Ages are capped one above the
bound that `SilenceIsBounded` proves, so the cap is never reached.

Ages are differences of `system_clock`, which can be set while the balancer runs;
`sleep_for` is not affected. `ClockJumps` adds any of `Jumps` to every age (`Aged`, as
`Tick` does) and counts the sizes of the jumps in `skew`. Forward, live
providers may be swept; backward, dead ones stay longer, and an age may be negative.

`usage` goes through the `uint32` of `HeartBeat.usage`: `ToWire` and `FromWire` wrap at
`Word`, 2^32 in the code and 256 in the runs. An unassigned `int` of a new node is
any value in `Garbage`. `confirmed` is a history variable, which no guard reads: the usage
of the provider's last confirmed beat since the process started or registered again, if
there was one. `UsageArrives` compares the list with it.

Two simplifications: `EstablishServer` takes the time when it adds the node, the code
just before it waits for the mutex; and a provider keeps an `OK` that was handled before
`BalancerCrash`, where a real crash might lose it (the list is empty then, and the next
beat fails).

Versions and operations are one value, `offer`: nothing here looks inside.

### ServerListThreads and ServerList

One step per access to `servers_`: `remove_if` compares or moves one node per step,
a move in two halves (`address`, the first member, then the rest, each leaving the
source empty), `erase`, `push_back` with its reallocation. `SendHeartbeat` compares,
writes `usage` and writes `lastBeat` in separate steps; `findBestServer` copies a
node in two. Both keep the end of the vector and the buffer they began with. What
is read through a buffer that was freed is any value, and what is written there is
lost; that such an access may also end the process is left out, and so are values
torn inside one word.

`Abstract == INSTANCE ServerList WITH list <- List` is the refinement mapping: while
`remove_if` runs, the positions from its result iterator up to the current one
are a gap, and the list is what is before and behind it.

### FindBestServer

The outer loop of `findBestServer` is `NextServer` ... `ServerDone`, its middle
loop `CountOperation` (the innermost loop with its `break` is the test
`Requested`), the loop of `minUsageServer` is `CompareUsage`. `i`, `k`,
`opCounter`, `minUsage`, `same` are the code's variables. Best is compared with
`Best`, which has no loops.

### ServiceProvide

The registry is filled by the setters until `Run`. A call is `sent`, `handled` on a
thread that has copied its service, `returned`; the handler pushes one model per
step, executes the service's function, responds. One operator stands for the
same step of the four handlers; `InForm` and `OutForm` tell them apart. The
function of a service is the provider program's own: here it reads the incoming models of
its form and adds
a result for each (`Computed`), as `meshSmooth` of the samples does. `results` is the
vector the caller passes to `performOperation`, `done` the history of calls it is
compared with.

### MeshConversion

Operators only. A mesh is its points and its faces, which name vertices by handles from
0; a message is the same with indices. `SerializeModel` copies both, `AddFace` is a
round of the loop of `deserializeModel`: it adds a vertex per corner and a face of them to
the mesh it is given, which keeps what it had. So a mesh comes out with separate faces and
without loose vertices. `Polygons` forgets the numbering and is what the result is
compared by; `Trip` is one way through a message. `Keeping` and `Settling` are the mesh
objects into which every mesh of `Meshes` can be deserialized as it should; `PolygonsKept`
and `TripSettles` in `ServiceProvide` say that a handler's object is always one of them. An OpenMesh mesh is any list of faces here: that `add_face` refuses
complex edges does not matter where every face has vertices of its own, and a mesh that is
sent was built before.

### Configuration

Operators only. A line is its key and its text; no key is the beginning of another,
so the order of `find` calls in a parser does not matter. `ReadBy` is the list of keys of each
parser, `ParseLine` a round of its loop, `threw` the exception of `stoi` or `stof`, after
which the settings of earlier lines are there and those of later lines are not.
`Accepts` is what the constructors check; `UsesSSL` their test of the three file names.
`IntOf` and `FloatOf` give what a text converts to. `Meaning` says without a loop what a file
means; `RightlyConfigured` and `Agreeing` are the programs for which this holds of all
`Files`, and `LastLineCounts` and `SameFileAgrees` in `Cloud` say that those which run are
among them.

### ProviderSample

Operators only: `CurrentValue` is `getCurrentValue` from two readings of the four counters,
with its three cases: a counter went back, no time has passed (0.0 / 0, converted to an
`int`: any of `NotANumber`), a share. Cutting off the double may give a whole number
of percent or one less; that counters above some 4e13 ticks are rounded when they become
doubles is left out, and small against the two percent of `Busier`. `Comparable` compares a usage with every interval between `Readings`;
`BusierIsHigher` in `SampleUsage` says that what the providers report is comparable.
`MCLoadBalance` lets its provider report such usages.

### Cloud

The list is a set of offers that any running provider may renew and the sweep may
take away at any time, which is more than `LoadBalance` allows. A client
asks once, in its constructor, and keeps the address; an empty answer makes the
constructor throw. Each process is set up by one of the configuration `Files`, through
`Parse` and `Accepts`; the constructors without a file take their settings as arguments,
all or none for SSL, which are settings some file gives too. The network is ideal here: a call fails only if nobody
listens or the modes differ; broken connections are the subject of `ServiceProvide`. Versions are those of the
files, a service is of one of two `Kind`s, of which the balancer knows nothing.

`run()` does not look at what `BuildAndStart` returned. At an address outside `CanListen`
the provider is `deaf`: it registers, then waits through a null pointer and
ends (`WaitForNoServer`).

## 3. The runs

TLC checks deadlock except where the modelled system really stops: an algorithm
that ended (`FindBestServer`), a client that has made all its calls
(`ServiceProvide`), processes of different modes that retry for ever without
effect, or providers that used up their kills (`Cloud`).

| run | instance | shows |
|---|---|---|
| `MCLoadBalance` | 1 provider, 1 offer, the usages of the sample (0, 49, 50, 100, -1, and -100 for a NaN), 1 fault, 1 crash, rates 4 and 1, lags of 1, a jump of 1 | types; nobody older than three periods plus lag and skew; every duplicate has its fault; the list has the usage of the last confirmed beat; the sweep takes no live provider; the inductive invariant; the busier computer reports more |
| `MCTwoProviders` | 2 providers, 1 fault each, no lag, equal rates | duplicates, usages and the sweep where entries of others are before one's own |
| `MCLiveness` | 2 faults, 1 crash, equal rates, not prompt, a jump of 3 (more than a period) forward or backward | recovery (under fairness) |
| `MCServerListThreads` | 2 registrations (a buffer of 1, then 2), updater, beat, search | implements `ServerList`; the list is whole under the mutex; no registration lost; calls end (under fairness) |
| `MCFindBestServer` | all lists of up to 2, and of 3 of the version asked for; 2 addresses, 3 sets of operations, usages -3 and 0 | loop invariants, the answer, its completeness, termination |
| `MCServiceProvide` | 1 client, 2 calls, 2 threads, 2 services, 4 methods, 1 fault, 1 kill; all meshes of up to 2 triangles on 3 points, and two of 4 points | results exact beside handlers left over; unique names; statuses; calls come back (under fairness); polygons are kept, one trip settles a mesh |
| `MCCloud` | 2 providers, one of which cannot listen, 1 client, 1 service, 1 kill each, 1 crash; files of up to 2 lines, alone and after the 5 lines of a complete file | whoever was constructed is served; the last line counts; one file means the same to all programs |

Five runs are expected to find a violation, each of a sentence in the sources:

| run | what happens |
|---|---|
| `MCEqualRates` | with equal rates, the default, a live provider one unit late is removed: a sweep falls between two beats |
| `MCOfferIsListed` | killed and restarted with another offer within a period, a provider refreshes its predecessor's entry while its own expires; as its beats succeed it never registers again |
| `MCUsageOfOwnBeat` | an unlocked beat has found its node; the node is erased and another provider's is pushed back into the same place of the vector, where the beat then writes its usage |
| `MCFittingProvider` | an unlocked search meets a half-moved node and answers with the empty address |
| `MCPortTaken` | a provider whose port is taken registers all the same; its clients reach nobody |

Three more limits of the code are in the statement of properties that hold: a new
entry's usage is indeterminate until a beat is confirmed (`UsageArrives` speaks
of the time after it), a request that names an operation twice fits nobody
(`AnswerProvides` excludes it), and a service called in the form of models it
does not read returns OK and nothing (`Expected`).

Two limits are in what `BusierIsHigher` compares (`Measured`): where a counter went back the sample
reports -1, although its comment says that the value is skipped, and -1 is lower than
every real usage; where no tick passed the share is 0/0.

Why the bounds are enough: what happens to an entry depends on its own address and on
the order of entries, so one provider with a fault that duplicates it, and two
providers, cover the cases; the theorems cover every number. One fault
suffices for each race of a reply with a retry, two for a fault during recovery. A
crash of the balancer resets everything but the providers, so a second one adds
nothing a first does not. Two registrations force a reallocation with a node to
move, and a node to remove before one that stays. Three providers are the
smallest list with a tie, a loser before it and one after it. Two calls of one client
give every pair of handlers on one service, the first left over by a broken connection.
Rates 4 and 1 are the smallest with lags and a jump of 1 that leave `SafeMargin`, so that
`MCLoadBalance` is about jumps the margin should cover. Two lines after a complete
file replace, repeat, remove and spoil every setting, in both orders. Two triangles on three
points share all, one or no vertex and leave points unused; conversion treats faces one
by one, so a third one adds nothing.

### Fairness

`LoadBalance`: weak fairness of each thread's next step, of time, of handling or
failing a call (gRPC does one of the two), and of restarting a crashed balancer;
none for starts and kills of providers. `ServerListThreads`: weak fairness of running
threads, strong fairness of `EstablishServer`'s lock, since the updater sleeps two
periods between rounds. `ServiceProvide`: weak fairness of handlers and clients,
strong fairness of getting a thread. `FindBestServer`: of the only thread.

## 4. What is proved

With TLAPS, for every value of the constants that satisfies the module's assumption:

* `LoadBalance_proofs`: `TypeCorrect`, `SilenceIsBounded`, `Inductive`, `DuplicatesBounded`,
  `PromptIsKept`, `UsageIsReported`, `UsagesTellApart`, `BusierReportsMore`.
* `ServerListThreads_proofs`: `TypeCorrect`, `NodesIntact`, `RegistrationsKept`, `Refinement`.
* `FindBestServer_proofs`: `TypeCorrect`, `AnswerCorrect`, `ChoiceComplete`, `LoopsCorrect`,
  `AnswerServes`.
* `MeshConversion_proofs`: `AllKeep`, `AllSettle`.
* `ServiceProvide_proofs`: `TypeCorrect`, `NamesStayUnique`, `ResultsAreExact`, `StatusRight`,
  `PolygonsStay`, `TripsSettle`.
* `Configuration_proofs`: `FilesAreRead`, `ProgramsAgree`.
* `Cloud_proofs`: `TypeCorrect`, `ClientsAreServed`, `LastLinesCount`, `OneFileAgrees`.

So every invariant, every action property and the refinement that the passing runs check is
a theorem; the runs check them on small instances, and liveness besides.

The assumptions on constants are types, with a few facts about the code's data: a usage has
room in the word of the wire (`ConstantsAssumption`); a text without a number does not
convert (`ConfigurationAssumption`); the faces of a mesh that is sent name vertices it has
(`MeshConversionAssumption`), which OpenMesh ensures; the address of the balancer and those of providers
are not empty, and there are names for services (`CloudAssumption`).

**SilenceIsBounded.** The bound on ages is not inductive: it says nothing of when the
next sweep comes. `AgeInv` does: age + time to the next sweep is at most three
periods and the skew. `Tick` keeps the sum, a beat makes it smaller, a jump adds to the
age at most what it adds to the skew, and the sweep, which adds two periods, leaves only
entries of age up to one. The updater is at most `SweepLag` late, which gives the bound.

**DuplicatesBounded.** The bound on a provider's entries is not inductive: a registration is
handled now and its lost reply repeats it later. `CountInv` counts beside the entries what
is still to come without another fault: one if a request to register was left behind in
the network (`LeftBehind`), one if the provider is about to register or will be once its
call has returned (`Owed`). A handled registration turns one into the other (`AddedEntry`), sweeps
and crashes only take entries away (`EntriesFall`), a beat is answered CANCELLED only where
there is no entry, a call fails without a fault only if the balancer is down and has none;
the sum grows by one with a fault, which may leave a request behind and make the provider
register again, but not both from nothing. So it stays within one and the faults.

**PromptIsKept.** `PromptInv` relates the age of a prompt provider's entry to its timer:
their sum is at most `BeatRate + BeatLag` and the skew while it sleeps or calls, and at
most the skew when a beat was just confirmed. With `SafeMargin`,
`BeatRate + 2 * BeatLag + MaxSkew <= HeartBeatRate`, the age stays within the period, and
the sweep keeps it. That a provider without faults has one entry only, and none where it
believes so, is `RegInv`. The margin is an assumption of the theorem, not of the
specification: `MCEqualRates` shows what happens without it.

**UsageIsReported.** `FromWire` undoes `ToWire` for every usage that has room in the word
(`WireKeeps`). `UsageInv` adds that there is no confirmed beat while a provider registers, which is
when its entry is new and its usage anything. A beat that is answered OK has written its usage to the first
entry of the address (`BeatBrings`), which is the only one (`RegInv`); no step of another provider
touches it (`EntriesOf`).

**UsagesTellApart, BusierReportsMore.** A usage `u` of an interval is its percentage rounded
down, or one less where that is a whole number: in both cases the percentage is between `u`
and `u + 1` (`ShareBounds`). Two percent more, multiplied out by both lengths, therefore leave the
usages apart (`BusierHigher`), without a bound on readings or lengths. `TypeCorrect` gives the
rest.

**NodesIntact, RegistrationsKept, Refinement.** `ListIntact` speaks of the free mutex only, so it
cannot be inductive. `Typed` adds who owns the mutex in which state (`Exclusion`) and that
a handler with an old end or an old buffer stays within what it has seen (`CallsWithin`);
`Whole` says of the list with the gap of `remove_if` closed that each node has the address
and operations of one provider, also while a node is moved in halves. `NextOnList` is the
heart: on this list every step of every thread does nothing, refreshes, expires, removes an
inactive entry or adds one. `Counted` (a provider that never became inactive has all its
registrations there, active) and the steps of `ServerList` both follow from these five cases. The
unlocked writes of `SendHeartbeat` are harmless to the list because `lastBeat` can only be
refreshed by them, and `usage` is no part of it.

**AnswerCorrect, ChoiceComplete, LoopsCorrect.** `LoopInv` says what each loop has
collected of the part of the list it has passed; at the end this part is all.
**AnswerServes.** Without repetitions on either side the operations of a server that are
requested are in bijection with positions of the request, so the counts are equal only if
all are provided (`CountMeansProvision`).

**NamesStayUnique.** Each setter appends one name and one service if the name is new, and
nothing else touches the registry, which takes the types of the three vectors only.

**AllKeep, AllSettle.** By induction over the faces of the message: after each round of the loop
the new vertices and the new face are behind what was there, so every polygon is where it should be
(`PolygonsOfRun`). A mesh that came out of a message is `Compact`: its faces number
its vertices upwards without a gap; a compact mesh comes out of a message as it went in
(`CompactStays`), since its corners are exactly its vertices in order (`CornersOfCompact`).

**ResultsAreExact, StatusRight, PolygonsStay, TripsSettle.** The inductive invariant is `IInv`. Services in
the registry stay as the setters made them, because handlers copy (`Fresh`); a working
handler holds a copy of one that is there (`Holding`); a handler and the client that waits for
it belong to the same call, no two handlers to the same client, and what the handler has
pushed and computed so far is what the call's arguments ask for (`Serving`, `Link`, `IsHalfway`); a
response that was returned is the `Answer` to the arguments (`CallOK`). A handler whose client has gone
has no link, so nothing it does reaches a client. That the result of two conversions is the one
`Expected` says is `TripTwice`, of the previous paragraph.

**FilesAreRead, ProgramsAgree, LastLinesCount, OneFileAgrees.** By induction over the lines: `Right` says of
the first `n` lines that the parser has thrown exactly if one of them is spoiled, and otherwise
has for each key the value of the last of them (`RoundIsRight`). A file thus means to each program
what `Meaning` says, which depends on the program only through the keys it reads; since a provider
reads all keys, what it accepts the others do, and they agree on what they share.

**Types.** `ServiceProvide` and `Cloud` need more than their types too: that a handler's index stays within the
registry is part of `IInv`, and that a provider at a taken port dies at most once after its last
restart is `Mortal`. A version is one `stof` gave because a spoiled line stops the program
(`VersionIsTyped`).

**ClientsAreServed.** `ServiceInv`: an offer in the list is that of a
provider which has listened or tried to, in the balancer's mode, unless it was killed since
(`OfferKept`); so is the address a client has kept (`StubKept`); the status of its last call
is right (`StatusKept`). `Life` is what one step can do to a provider: short of a kill, one
that registered keeps its services, version and mode (`StaysRegistered`). Nothing about
`Files` is used: the theorems hold for whatever the configurations are.

Lemmas state what the operators on lists do (`KeepServers` gives a subsequence,
`UpdateServer` changes one entry of the address, a count over one more position).

Induction. The library's induction theorems take an operator as a parameter, which the provers cannot
instantiate. `Induction` states what is needed here with sets instead: a set that has 0 and
the successor of each of its numbers has the interval (from `WFMin` and
`NatLessThanWellFounded`, by a smallest counterexample), and a function defined by recursion over an
interval exists. `DeserializeModel` and `Parse`, the loops of the code, are written as
such functions.

Only model-checked: liveness (`RunningIsListed`, `DeadIsForgotten`, `DuplicatesVanish`, `CallsEnd`,
`CallsReturn`, `Terminates`), as fairness and `ENABLED` are out of the prover's reach. The five
properties that are expected to be violated have no proof, of course.

## 5. Not modelled

* Build files, editor settings, the model: no behaviour of the system. The mains of the
  samples construct one object and call `run()`, or perform one operation.
* gRPC, SSL, log4cplus, OpenMesh: external. gRPC by what callers see of it (a status,
  handlers that may go on after their caller), SSL by who can talk to whom.
* `loadModel`, `saveModel`, `read`: file I/O. `read` leaves the text empty when a file cannot
  be opened; the server that gRPC then refuses to build is an address outside
  `CanListen`.
* Destructors: those of the balancer and the provider follow a `run()` that never returns,
  or free an object that never ran. So the join of the updater thread, which never
  ends, is not reached.
* A balancer whose own port is taken: it ends at once, as one that is never up.
* Rates of zero or less and rates above 2^30 ms, which a configuration file can give: time
  and period have no meaning there.
* `performOperation` with a name the client was not constructed for in `Cloud`
  (`ServiceProvide` has any name).
* A usage reported by a process that was killed, or through calls that were lost: the entry
  of such a provider may have any usage it ever reported, or none (`UsageArrives` excepts it).
* Undefined behaviour that ends the process.

## 6. Plan

Done, in this order: the list and its proofs, the threads on it, the choice and its
proofs, the handlers and clients, the whole; then jumps of the clock, `MeshConversion`,
`Configuration` as part of the whole, `ProviderSample`, and the proofs about the registry,
the usages and the whole; then the proofs about the threads and their refinement, the
conversion of meshes, the handlers and clients, the parsers, and the usage function. A module
for construction and destruction was dropped: what it would be about is unreachable
(section 5).

Next theorems, in this order:

1. The part of `Terminates`, `CallsEnd` and `CallsReturn` that needs no fairness: a measure that
   each step of an algorithm or a handler makes smaller.
2. What `Cloud` takes from the other modules, where it can be stated about them: an answer of
   `FindBestServer` is one `GetServer` allows.
