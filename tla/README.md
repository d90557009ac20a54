# A verification development of the fabric adapter

The fabric adapter receives the configuration of SD-fabrics over gNMI and keeps
two kinds of southbound systems in line with it: the ONOS controller of every
fabric (a JSON *netconfig*, POSTed over REST) and every Stratum switch (a
*chassis configuration*, set over gNMI).  This directory holds TLA+ models of
it, TLC configurations that check them on small instances, and TLAPS proofs.

## 1. Inventory

| Part | Code | State | Operations |
|---|---|---|---|
| Callbacks | `cmd/fabric-adapter/fabric-adapter.go` (`synchronizerWrapper`), `synchronizer.go` (`Synchronize`), `delete.go` | none of their own; they run on goroutines of the gNMI server and of the diagnostic API | update, delete (a no-op), forced resync |
| Update queue | `async.go` | `updateChannel` (capacity 1), the atomic `busy` | `enqueue` (deep copy, count, `drain`, send), `dequeue`, `complete`, `newUpdatesPending`, `isIdle` |
| Loop | `synchronizer.go` | the update being serviced | `Start`, `Loop`, `SynchronizeAndRetry` |
| Cache | `cache.go` | fabric -> last netconfig ONOS acknowledged | `CacheCheck`, `CacheUpdate`, `CacheInvalidate`, `CacheDelete` (unused) |
| Round | `synchronize-device.go` | `FabricScope`, `pushFailuresTotal` | `SynchronizeDevice`, `SynchronizeFabricToOnos`, `SynchronizeFabricToStratum` |
| Translations | `synchronize-device.go`, `util.go`, `validate.go`, `lookup.go` | `nextIP` | `handleSwitch`, `handleSwitchPort`, `handleRoute`, `handleStratumSwitch`, `handleStratumSwitchPort` |
| Pushers | `restpusher.go`, `gnmipusher.go`, `gnmiclient.go` | none | `PushUpdate` with a timeout |
| Topology | `lookup.go` | none | `lookupFabricControllerInfo` |
| SID store | `pkg/store/store.go` | an Atomix counter and an Atomix map, shared by all instances | `NewAtomixStore`, `Get` |
| KPIs, schemas, generated protobuf | `kpi.go`, `schema.go`, ... , `pkg/stratum_hal` | not modelled | |

How they interact: a callback copies the server's configuration and leaves it in
the channel, throwing out what was there; a forced resync first empties the
cache.  One goroutine, the loop, takes the update and runs rounds over it until
one reports no push failure, or an error, or something newer is in the channel.
A round visits the fabrics in no particular order; for each it asks onos-topo
for the controller, builds the netconfig (which needs a SID for every switch),
POSTs it unless the cache holds the same one, then sets the chassis
configuration of each switch.

What is hard to test, with its line and the properties that would catch it (or a note
why none does), is in `PROJECT.json` under `hazards`: callbacks that overtake each other between copy
and send, the cache written by the loop while a callback empties it, pushes that
are applied although they are reported as failed, the many error paths of a
round and what each counts, crashes between two remote calls of the SID store.

What makes each part correct:

- queue: the loop takes the newest request, each at most once, and never goes
  back; no callback blocks for ever; `busy` is exact;
- loop: a device that refuses one update does not keep it from the next;
- cache: it never makes a round skip a push that is needed;
- round: "success" is reported only when everything was pushed;
- all of it: once requests stop, the fabric ends up configured as last asked;
- SID store: SIDs are unique, not reserved, and stable;
- translations: no two devices of ONOS share a SID, nor a loopback unless the IP addresses
  of the content clash; a bad switch, port or route costs that one and no other; an unchanged fabric gives the same netconfig again;
  port numbers fit and do not collide.

## 2. Modules

| Module | Models | Extends / instantiates |
|---|---|---|
| `SidRegistry` | abstract: what the SID store promises | |
| `SidStore` | `store.go`, one action per remote call, several instances (`Pods`) | implements `SidRegistry` |
| `LatestWins` | abstract: what the queue promises for requests that come one at a time | |
| `UpdateQueue` | `async.go`, `Synchronize`, `Start`, `Loop`, `SynchronizeAndRetry`; the round is a call with any result | implements `LatestWins` |
| `Synchronizer` | the whole synchronizer: the queue, the cache, the rounds, ONOS and the switches, crashes | extends `UpdateQueue` |
| `PortNumbers` | the translation of one switch's ports, to ONOS and to Stratum, and the two numberings, as operators | |
| `FabricToOnos` | `SynchronizeFabricToOnos` with `handleSwitch` and `handleRoute` step by step, in several instances on the shared SID store | extends `SidStore`, `PortNumbers` |
| `MC_*` | instances for TLC | |
| `*_proofs` | theorems about the module of that name | |

**SidStore.** `counter` and `sidMap` are the Atomix primitives; `pc[p]` says
which remote call instance `p` is about to make, `arg` and `newSid` are locals
of `Get`. Every call may fail with its effect applied or not (`ReserveSids`,
`IncrementError`, `PutError`), an instance may die between any two calls
(`Crash`). `issued` is a history variable: what `Get` ever returned without an
error. A SID goes into the map as four bytes and is read back from them
(`uint32ToBytes`, `bytesToUint32`, `Recorded`). A call whose effect comes after the client gave up on it is not modelled.

**UpdateQueue.** `call[c]` is the program counter of a callback: `invalidate`,
`copy`, `count`, `drain`, `discount`, `send`; every step that another goroutine can
see is an action. `loop` is that of the loop goroutine, `off` before `Start`
and `dead` when `Start` could not create the SID store. `tree` is the gNMI server's
configuration with the number of requests that led to it, which orders the
updates; `offered` and `taken` are history variables. A caller that is in both
`GnmiCallers` and `DiagCallers` stands for requests that come one at a time. That
gNMI requests are served one at a time, and that forced resyncs are not ordered
with them, is how the gNMI target of sdcore-adapter (not in this repository) is
understood. `Copy` is one step, although the code copies target by target: a copy torn
across fabrics by a Set that runs meanwhile is not modelled.

**Synchronizer.** `phase` is where `SynchronizeDevice` is: `fabrics` (between
two fabrics), `build`, `post`, `cacheUpdate`, `stratum`. A fabric's configuration is a
model value whose switches, and which of them lack attributes or a management
address, are constants (`SwitchesOf`, `Incomplete`, `Unmanaged`). A netconfig is
the content it was made from, the switches that made it into it, and a *rendering*: what
else a build from the same content may come out with (`RenderingsOf`), of which
`FabricToOnos` shows the details. `onos` and
`stratum` are what the southbound systems have applied. What may fail is chosen by
constants: `TopoFails`, `SidFails`, `RepliesLost` (a push applied and yet reported
as failed), `DialPanics` (the client is used although no connection was made). The effect
of a push comes with the call, or not at all: a POST that ONOS applies after the client gave
up on it (10 s), or a Set that a switch does (5 s), later than the next one, is not modelled. `acked` and `owed` are history variables. After a crash the
configuration comes back with later requests (`Die` resets the tree to the initial
one): how onos-config does this is outside the repository.

**PortNumbers.** A switch is a record of the cages its model knows, its VLANs, its ports
and pairing ports. `PortTables` and `PairLocalPorts` are the *sets* of results the code
may come out with: a Go map is visited in any order, so of two ports with one number
either may stay. `cageChannelToPort` keeps the 16 bits of the code, and leaves out its branch
for a nil cage, which is a key of the port and always set; `singletonPortId` is
the other numbering, the one of the chassis configuration. Speeds are in units of 100 Mbit/s.

**FabricToOnos.** `content[p]`, `left[p]` and `devices[p]` are the build that pod `p` has
under way: the fabric, the switches to be visited (by `Rank`, the order of their
identifiers) and `NetConfig.Devices`. `handleSwitch` is cut at the calls of the SID store,
where other pods may come in between: `SkipSwitch` (rejected before `Get`), `GetSid`,
`GetGoesOn`, `SidUnavailable`, and `HandleSwitch` for all that follows once `Get` has
returned: the address, the checks that still may reject the switch, device and ports.
`nextIP[p]` is the package variable of `util.go`; `MadeUp` counts the two or three
addresses that one switch known by name takes, and `Loopback` the one it ends up with.
`cache[p]` and `onos` hold the netconfig together with the content it was made from, and
`onos` also `sidless`, a history variable: the switches no SID could be had for.
Nothing keeps a configuration from giving two switches one address, or an address in
192.168.55.0/24, which the adapter may make up for another switch; the model takes any
addresses, and `MayClash` names these two cases, in which two devices may share a loopback.
`SidsOnRecord` relates what is in `onos` to the store's map. `Synchronizer` sees all this as one step, `BuildNetConfig`, and adds what may happen between
POST and cache update, which here is one step.

Race on the cache: `CacheInvalidate` replaces the map and `CacheUpdate` writes into
the one it finds; a write into the replaced map is the same as one just before the
replacement, so both are atomic here. A read of a map that is being written to
would be a crash of the Go runtime; the loop alone writes into it.

## 3. Runs

| Run | Shows | Bounds |
|---|---|---|
| `sid_one` | `SidsUnique`, `SidsNotReserved`, `SidsStable`, `SidsOnRecord`, refinement of `SidRegistry` under the translation; `NothingElseLost`, `SettledNotReposted`, `OnosTypeOK` | 1 instance on a fresh counter; fabrics of up to 3 switches: known by name, with everything that may be wrong with a switch, a port, a route, or with two routes; 4 SIDs, so that increments lost to errors and crashes can happen; 3 made-up addresses, so that they run out |
| `sid_pods` | `SidsUnique`, `DevicesDistinct` with an initialized counter | 2 instances, 3 switches, known by name or (`clashing`) two with one IP address, which is also one that is made up for the third; 2 SIDs, 4 made-up addresses |
| `sid_first_start` | **violation**: two instances initialize the counter | 2 instances, 2 switches, 3 SIDs |
| `queue_one` | `TypeOK` (`busy` never negative), refinement of `LatestWins`, `LatestTaken` | 1 caller, 3 requests, 2 configurations: one in service, one queued, one on the way |
| `queue_two` | `BusyExact`, `IdleTookAll`, `CallsReturn`, `BecomesIdle` | 2 callers, 3 requests |
| `queue_order` | **violation**: the older copy drains the newer update | 2 callers, 2 requests |
| `sync_safety` | `CacheIsLastAcked`, `SuccessMeansPushed`, `OnlyOwnApplied` with everything failing | 2 fabrics, one with a switch without address, 2 requests, 1 crash |
| `sync_live` | `SuccessMeansApplied`, `Converges` | 1 fabric, 2 contents with one and two switches, the second with 2 renderings, 3 requests, so that a configuration can be left and come back |
| `reply_lost` | **violation** of `SuccessMeansApplied`: a stale cache entry after an ambiguous POST | 1 fabric, 3 requests |
| `forced_lost` | **violation** of `ForcedTakesEffect`: an invalidation undone by `CacheUpdate` | 2 callers, 2 requests |
| `topo_no_retry` | **violation** of `Converges`: a failed look up is not retried | 1 request |
| `bad_switch` | **violation**: a switch without address is not skipped, the process dies | 1 request |

`MaxVersion` bounds the number of requests, `MaxSid` the SIDs, `MaxCrashes` the
crashes, `MaxIP` the made-up addresses that may be in use when another fabric is begun
(an instance that was restarted begins at 0 again). `MadeUpAddresses`
stands for the 256 of 192.168.55.0/24: past them `managementAddressToIP` makes no valid
address, which is why switches known by name are lost after 256 calls of it. Crashes of
`FabricToOnos` need no bound. Runs of the queue and of the synchronizer set `CHECK_DEADLOCK FALSE`: when
the bounded requests are served, a server that waits has no step left.

**Fairness.** Weak fairness of every callback and of the loop: Go schedules all
goroutines, pushers have timeouts (10 s and 5 s), the sleep before a retry
ends. The look up in onos-topo and the calls of the SID store have no deadline;
that they return is an assumption. Strong fairness of `PostAccepted`, `SetAccepted`
and `LookupController` in the liveness of `Synchronizer`: a system that is asked again
and again accepts in the end, without which no retry could achieve anything.
`LatestTaken` does without it.

## 4. Proofs

The theorems hold for any instances, callers (finitely many), fabrics, switches,
contents and bounds. Where a run shows a property violated, a theorem says what
it takes: the property holds in every behaviour in which one named step does not
happen.

| Violated in | Holds unless | Theorem |
|---|---|---|
| `sid_first_start`: `SidsUnique` | a Set moves the counter back (`CounterNeverFalls`), which takes two instances on a fresh counter (`NeverMovedBack`) | `UniqueUnlessMovedBack` |
| two instances, no run: `SidsStable`, `RegistrySpec`, `SidsOnRecord` | that, or two instances allocate for the same switch at a time (`AllocationsApart`) | `StableUnlessTogether`, `RegistryUnlessTogether`, `SidsAreOnRecord` |
| `queue_order`: `DiscardsOlder` | two callbacks are between copy and send at a time (`EnqueuesApart`) | `OlderIsDiscarded`, `SyncDiscardsOlder` |
| two callers, no run: `BufferSpec` | two calls of `Synchronize` overlap (`CallsApart`) | `LatestWinsUnlessOverlapping` |
| `reply_lost`: `SuccessMeansApplied` | a POST has an effect and is reported as failed (`FailedPostsHaveNoEffect`) | `AppliedUnlessReplyLost` |
| `forced_lost`: `ForcedTakesEffect` | a callback empties the cache between a POST's answer and `CacheUpdate` (`InvalidationsApart`) | `ForcedUnlessInBetween` |

The conditions are invariants or action properties of the behaviour, not of the constants;
the simple cases (one instance, an initialized counter, one caller, replies that are never
lost) follow as corollaries (`Unique`, `Stable`, `Refinement`, `AppliedCorrect`).

- `SidStore_proofs`. The inductive invariant of uniqueness speaks of
  *claims*: a SID that was returned, is in the map, or is about to be put there. Claims
  lie between the reserved SIDs and the counter, and two claims to the same SID are of the
  same switch; `Increment` makes the only new claim, above all others. That the map gives
  back the SID that was put there is `BytesRoundTrip`, for all SIDs of 32 bits. While
  allocations are apart, a switch whose SID is being allocated is not on record, which gives
  stability and the refinement of `SidRegistry`. `RegistryPromise` closes the circle: every
  implementation of `SidRegistry` has unique and stable SIDs.
- `UpdateQueue_proofs`. `BusyExact` is inductive together with `TypeOK`, for any finite
  number of callers. `SentInv`, for any interleaving: the channel holds the last update sent,
  which is otherwise with the loop, or was drained by a caller that still counts; so an idle
  synchronizer has taken it (`IdleTookAll`). `ForwardInv`, while no two callers enqueue at a
  time: what the caller has is no older than what the channel holds, so that the loop never
  goes back and no send blocks (`LoopGoesForward`). `OrderInv`, while no two calls overlap:
  it is strictly newer, which gives the refinement of `LatestWins`; `BufferGoesForward` says
  what that is good for.
- `Synchronizer_proofs`, with any failures and crashes. A step is a step of `UpdateQueue` or
  a death of the process (`QueueView`), which carries `TypeOK`, `BusyExact`, `IdleTookAll` and
  `DiscardsOlder` over. `RoundInv` says where a round
  is: the loop keeps its update for as long as a round lasts, the fabric visited is one of
  that update's, and what is POSTed was made from it. From it follow `OnlyOwnApplied`,
  that what was applied of an update is not undone while the loop works on it
  (`RetriesUndoNothing`), and, with `BusyExact`, that nothing is pushed while `busy` is zero
  (`IdlePushesNothing`). With it `CacheIsLastAcked` is inductive. `PushedInv` adds what a round that
  has not failed yet has achieved: the fabrics visited are acknowledged and their switches
  set, and of the current one every switch is set or left to visit. When it skips a
  POST because of the cache, it is `CacheIsLastAcked` that says ONOS acknowledged this very
  netconfig. `SuccessMeansPushed` follows, and from end to end `IdleAfterSuccess`: a success
  while `busy` counts nothing but the loop's own update is one of the last update that any callback
  sent, and what it pushed stays while `busy` is zero. `OwedInv` is about forced resyncs: the cache vouches
  for no fabric that is owed a POST. As long as the process lives, the whole implements
  `UpdateQueue` (`QueueImplemented`).
- `PortNumbers_proofs`, for any switch. The number ONOS knows a port by fits into 16 bits
  (`PortFits`); below cage 100 no two ports share it, so that no good port is lost and the
  port table does not depend on the order of the map (`NoPortLost`, `OnePortTable`). The
  chassis configuration's ids are distinct for cages 1..99 and up to 100 channels
  (`ChassisPortsDistinct`). The two numberings agree exactly for channel 0 (`NumbersAgree`).
- `FabricToOnos_proofs`, for any pods, contents and switches, with failures and crashes.
  A step is a step of the SID store or leaves it alone, so the theorems about SIDs carry
  over (`SidStoreImplemented`), and with them that ONOS has the SIDs on record (`SidsAreOnRecord`). The inductive invariant `OnosInv` says of every build
  (`Building`) that the devices so far are faithful to their switches, that their SIDs were
  issued to them, that the addresses made up in this process are below `nextIP`, and that a
  switch that is missing is bad, still to be visited, without SID, or known by name; and of
  what is cached or in ONOS that it came out of such a build (`GoodNetConfig`). From it
  follow `OnosTypeOK`, `NothingElseLost`, `SettledNotReposted` (with `OnePortTable`, and that
  one route has one order), and, with uniqueness of SIDs, `DevicesDistinct`, which inherits
  `CounterNeverFalls`. Of the contents `FabricToOnosAssumption` says no more than what the
  configuration's types do: addresses are IP addresses or names, routes are finitely many, and a
  switch has one port for each cage and channel. So `DevicesAreDistinct` holds for any fabrics,
  those whose addresses clash included: a process never makes an address up twice
  (`LoopbackIsNew`), and the clashes of `MayClash` are the only ones.

Every invariant, action property and refinement the passing runs check is also a theorem.
Liveness (`LatestTaken`, `CallsReturn`, `BecomesIdle`, `Converges`) is only model-checked: its
proof needs ENABLED and fairness, which TLAPS does not do; `LoopGoesForward` and `IdleTookAll` are
the safety half of `LatestTaken` and `BecomesIdle`. `ContinuesWithNextSwitch` has no theorem: the
code violates it whenever such a switch is reached. What `SingletonPorts` makes of one switch is evaluated for one example in
`MC_FabricToOnos` (`ChassisOfAddressed`).

## 5. Not modelled

What is left has no state that a property could be about, or no caller:

- Generated code (`common.pb.go`), schema, type names, interfaces, flags, metrics and KPIs:
  nothing reads them back. `common.pb.go` is most of the lines of the repository.
- The constant parts of netconfig and chassis configuration, names, JSON and text encoding,
  VLAN and subnet values, IPv6. A MAC address is a function of the loopback.
- `CacheDelete`, `PushDelete`, `Close` of the store, `Get`, `Poll`, `Subscribe` and `Capabilities` of
  the gNMI client: nothing calls them.
- `postEnable` and `postTimeout`: nothing but a log line reads them, so every model POSTs.
- Connections to onos-topo, which are never closed; its look up has no deadline either, and
  liveness assumes that it returns.
- The wrap of the 32-bit `nextIP`, which takes far more calls than a process lives for.
- Pushes that take effect after the client gave up on them and has gone on, and a deep copy torn
  by a concurrent Set (see *Synchronizer* and *UpdateQueue* above).
- The `(0, err)` returns of `SynchronizeFabricToOnos` (lines 332-339): a netconfig that cannot be
  marshalled and a scope without endpoint do not occur when `SynchronizeDevice` calls it.

Observed while modelling, with no property against it:

- With two routes an unchanged fabric may be POSTed again: switches are sorted ("be
  deterministic"), routes are not, and `CacheCheck` compares lists. `SettledNotReposted`
  says that only this, made-up addresses and cages from 100 on can be the reason.
- Switches known by name get new addresses in every round, and none after 256 calls; one
  that is made up may be the IP address of another switch.
- `PairDeviceID` is set to the switch's own identifier.
- The cache is one instance's own: while two instances run, a hit may leave ONOS with what
  the other one sent.
- A switch without display name is dereferenced, as one without management address is.
