-------------------------- MODULE FabricToOnos_proofs --------------------------
(***************************************************************************)
(* Proofs about FabricToOnos, for any pods, contents and switches, and     *)
(* through any failures and crashes.                                       *)
(***************************************************************************)
EXTENDS FabricToOnos, SidStore_proofs, PortNumbers_proofs, FiniteSetTheorems

-----------------------------------------------------------------------------
(* The SID store underneath *)

OnosTypes ==
  /\ TypeOK
  /\ content \in [Pods -> Contents \cup {None}]
  /\ left \in [Pods -> SUBSET Switches]
  /\ sidless \in [Pods -> SUBSET Switches]
  /\ nextIP \in [Pods -> Nat]
  /\ DOMAIN devices = Pods
  /\ DOMAIN cache = Pods

LEMMA SidStoreStep ==
  ASSUME OnosTypes, OnosNext PROVE [Next]_vars
<1>1. ASSUME NEW p \in Pods, StartStep(p) PROVE Next
  BY <1>1 DEF StartStep, Next
<1>2. ASSUME NEW p \in Pods, NEW s \in left[p], GetSid(p, s) PROVE Next
  <2>1. s \in Switches
    BY DEF OnosTypes
  <2>2. QED
    BY <1>2, <2>1 DEF GetSid, Next
<1>3. ASSUME NEW p \in Pods, GetGoesOn(p) PROVE Next
  BY <1>3 DEF GetGoesOn, Next
<1>4. ASSUME NEW p \in Pods, SidUnavailable(p) PROVE Next
  BY <1>4 DEF SidUnavailable, Next
<1>5. ASSUME NEW p \in Pods, HandleSwitch(p) PROVE Next
  BY <1>5 DEF HandleSwitch, GetReturns, Next
<1>6. ASSUME NEW p \in Pods, CrashPod(p) PROVE Next
  BY <1>6 DEF CrashPod, Next
<1>7. ASSUME NEW p \in Pods,
             \/ CacheInvalidate(p)
             \/ \E c \in Contents : BeginFabric(p, c)
             \/ \E s \in left[p] : SkipSwitch(p, s)
             \/ Unchanged(p) \/ PostAccepted(p) \/ PostFails(p)
      PROVE  UNCHANGED vars
  BY <1>7 DEF CacheInvalidate, BeginFabric, SkipSwitch, Unchanged, PostAccepted, PostFails
<1>8. QED
  BY <1>1, <1>2, <1>3, <1>4, <1>5, <1>6, <1>7 DEF OnosNext

LEMMA TypesInit == OnosInit => OnosTypes
  BY TypeInit DEF OnosInit, OnosTypes

(* What the actions do to the variables of the build, one pod at a time. *)
LEMMA TypesStep ==
  ASSUME OnosTypes, [OnosNext]_allVars PROVE OnosTypes'
<1>1. TypeOK'
  <2>1. CASE OnosNext
    BY <2>1, SidStoreStep, TypeStep DEF OnosTypes
  <2>2. CASE UNCHANGED allVars
    BY <2>2, TypeStep DEF OnosTypes, allVars
  <2>3. QED
    BY <2>1, <2>2
<1> DEFINE Rest ==
      /\ content' \in [Pods -> Contents \cup {None}]
      /\ left' \in [Pods -> SUBSET Switches]
      /\ sidless' \in [Pods -> SUBSET Switches]
      /\ nextIP' \in [Pods -> Nat]
      /\ DOMAIN devices' = Pods
      /\ DOMAIN cache' = Pods
<1> USE DEF OnosTypes, buildVars
<1>2. ASSUME UNCHANGED onosVars PROVE Rest
  BY <1>2 DEF onosVars
<1>3. ASSUME NEW p \in Pods, CacheInvalidate(p) PROVE Rest
  BY <1>3 DEF CacheInvalidate
<1>4. ASSUME NEW p \in Pods, NEW c \in Contents, BeginFabric(p, c) PROVE Rest
  <2>1. DOMAIN SwitchIn[c] \subseteq Switches
    BY FabricToOnosAssumption
  <2>2. QED
    BY <1>4, <2>1 DEF BeginFabric
<1>5. ASSUME NEW p \in Pods, NEW s \in left[p], SkipSwitch(p, s) PROVE Rest
  BY <1>5 DEF SkipSwitch, Visited
<1>6. ASSUME NEW p \in Pods, SidUnavailable(p) PROVE Rest
  <2>1. arg[p] \in Switches
    BY <1>6 DEF SidUnavailable, LookupError, IncrementError, PutError, TypeOK
  <2>2. QED
    BY <1>6, <2>1 DEF SidUnavailable, Visited
<1>7. ASSUME NEW p \in Pods, HandleSwitch(p) PROVE Rest
  <2>1. \A sw, n : MadeUp(sw, n) \in Nat
    BY DEF MadeUp
  <2>2. left' \in [Pods -> SUBSET Switches] /\ nextIP' \in [Pods -> Nat]
    BY <1>7, <2>1 DEF HandleSwitch, Visited
  <2>3. DOMAIN devices' = Pods
    BY <1>7 DEF HandleSwitch
  <2>4. QED
    BY <1>7, <2>2, <2>3 DEF HandleSwitch
<1>8. ASSUME NEW p \in Pods, Unchanged(p) \/ PostAccepted(p) \/ PostFails(p) PROVE Rest
  BY <1>8 DEF Unchanged, PostAccepted, PostFails, EndFabric
<1>9. ASSUME NEW p \in Pods, CrashPod(p) PROVE Rest
  BY <1>9 DEF CrashPod, EndFabric
<1>10. Rest
  <2>1. ASSUME NEW p \in Pods, StartStep(p) \/ GetGoesOn(p) \/ \E s \in left[p] : GetSid(p, s)
        PROVE  UNCHANGED onosVars
    BY <2>1 DEF StartStep, GetGoesOn, GetSid
  <2>2. CASE OnosNext
    BY <2>1, <2>2, <1>2, <1>3, <1>4, <1>5, <1>6, <1>7, <1>8, <1>9, Zenon DEF OnosNext
  <2>3. CASE UNCHANGED allVars
    BY <1>2, <2>3 DEF allVars
  <2>4. QED
    BY <2>2, <2>3
<1>11. QED
  BY <1>1, <1>10

(* Every behaviour of the pods is one of the SID store they share, so that  *)
(* what is proved of it holds of them.                                      *)
THEOREM SidStoreImplemented == OnosSpec => Spec
<1>1. OnosInit => Init
  BY DEF OnosInit
<1>2. OnosTypes /\ [OnosNext]_allVars => OnosTypes' /\ [Next]_vars
  <2> SUFFICES ASSUME OnosTypes, [OnosNext]_allVars PROVE OnosTypes' /\ [Next]_vars
    OBVIOUS
  <2>1. CASE OnosNext
    BY <2>1, SidStoreStep, TypesStep
  <2>2. CASE UNCHANGED allVars
    BY <2>2, TypesStep DEF allVars
  <2>3. QED
    BY <2>1, <2>2
<1>3. QED
  BY <1>1, <1>2, TypesInit, PTL DEF OnosSpec, Spec

(* The SIDs that the translation is given are unique and not reserved,      *)
(* unless the counter was moved back, which takes a race for the first      *)
(* start ...                                                                *)
THEOREM OnosSidsUnique ==
  /\ OnosSpec /\ CounterNeverFalls => [](SidsUnique /\ SidsNotReserved)
  /\ SafeFirstStart => (OnosSpec => CounterNeverFalls)
<1>1. OnosSpec /\ CounterNeverFalls => [](SidsUnique /\ SidsNotReserved)
  BY SidStoreImplemented, UniqueUnlessMovedBack, PTL
<1>2. ASSUME SafeFirstStart PROVE OnosSpec => CounterNeverFalls
  BY <1>2, SidStoreImplemented, NeverMovedBack
<1>3. QED
  BY <1>1, <1>2

(* ... and, while no two pods allocate for one switch at a time, they are   *)
(* stable and the store is a SidRegistry; so it is with one pod.            *)
THEOREM OnosSidsStable ==
  /\ OnosSpec /\ CounterNeverFalls /\ []AllocationsApart => []SidsStable /\ RegistrySpec
  /\ SinglePod => (OnosSpec => CounterNeverFalls /\ []AllocationsApart)
<1>1. OnosSpec /\ CounterNeverFalls /\ []AllocationsApart => []SidsStable /\ RegistrySpec
  BY SidStoreImplemented, StableUnlessTogether, RegistryUnlessTogether
<1>2. ASSUME SinglePod PROVE OnosSpec => CounterNeverFalls /\ []AllocationsApart
  BY <1>2, SidStoreImplemented, OnePodApart
<1>3. QED
  BY <1>1, <1>2

-----------------------------------------------------------------------------
(* What a netconfig has of its content.  The operators below speak of the   *)
(* values of variables, so that they can be used of the next state as well. *)

DeviceOf(sw) ==
  [sid : Nat, loopback : Nat, pairLocalPort : PairLocalPorts(sw), ports : PortTables(sw)]

FaithfulDevice(sw, device) ==
  /\ Complete(sw)
  /\ device \in DeviceOf(sw)
  /\ sw.address = Hostname => device.loopback < MadeUpAddresses
  /\ sw.address # Hostname => device.loopback = sw.address

(* Two devices share a loopback only if their switches' addresses clash. *)
LoopbacksApart(c, devs) ==
  \A s, t \in DOMAIN devs :
    s # t => \/ devs[s].loopback # devs[t].loopback
             \/ MayClash(SwitchIn[c][s].address, SwitchIn[c][t].address)

Faithful(c, devs) ==
  /\ DOMAIN devs \subseteq DOMAIN SwitchIn[c]
  /\ devs = [s \in DOMAIN devs |-> devs[s]]
  /\ \A s \in DOMAIN devs : FaithfulDevice(SwitchIn[c][s], devs[s])
  /\ LoopbacksApart(c, devs)

(* Whatever is missing is in without, or was left out for a reason. *)
Covered(c, devs, without) ==
  \A s \in DOMAIN SwitchIn[c] \ DOMAIN devs :
    ~Complete(SwitchIn[c][s]) \/ s \in without \/ SwitchIn[c][s].address = Hostname

(* The SIDs are those that Get returned. *)
Told(devs, told) == \A s \in DOMAIN devs : <<s, devs[s].sid>> \in told

(* The addresses made up in this round are below nextIP. *)
BelowNextIP(c, devs, n) ==
  \A s \in DOMAIN devs : SwitchIn[c][s].address = Hostname => devs[s].loopback < n

Building(c, l, devs, without, n, told) ==
  /\ c \in Contents
  /\ l \subseteq DOMAIN SwitchIn[c]
  /\ Faithful(c, devs)
  /\ Told(devs, told)
  /\ BelowNextIP(c, devs, n)
  /\ Covered(c, devs, without \cup l)

GoodNetConfig(c, config, told) ==
  /\ c \in Contents
  /\ config = [devices |-> config.devices, routes |-> config.routes]
  /\ Faithful(c, config.devices)
  /\ config.routes \in RouteOrders(c)
  /\ Told(config.devices, told)

LEMMA Addresses ==
  ASSUME NEW c \in Contents, NEW s \in DOMAIN SwitchIn[c],
         SwitchIn[c][s].address # Hostname
  PROVE  SwitchIn[c][s].address \in Nat
  BY FabricToOnosAssumption

LEMMA ClashIsSymmetric ==
  ASSUME NEW address1, NEW address2, MayClash(address1, address2)
  PROVE  MayClash(address2, address1)
  BY DEF MayClash

LEMMA BuildingTold ==
  ASSUME NEW c, NEW l, NEW devs, NEW without, NEW n, NEW told, NEW told2,
         Building(c, l, devs, without, n, told), told \subseteq told2
  PROVE  Building(c, l, devs, without, n, told2)
  BY DEF Building, Told

LEMMA GoodTold ==
  ASSUME NEW c, NEW config, NEW told, NEW told2,
         GoodNetConfig(c, config, told), told \subseteq told2
  PROVE  GoodNetConfig(c, config, told2)
  BY DEF GoodNetConfig, Told

LEMMA BuildingBegins ==
  ASSUME NEW c \in Contents, NEW without, NEW n, NEW told
  PROVE  Building(c, DOMAIN SwitchIn[c], NoDevices, without, n, told)
<1>1. DOMAIN NoDevices = {} /\ NoDevices = [s \in {} |-> NoDevices[s]]
  BY DEF NoDevices
<1>2. Faithful(c, NoDevices) /\ Told(NoDevices, told) /\ BelowNextIP(c, NoDevices, n)
  BY <1>1 DEF Faithful, LoopbacksApart, Told, BelowNextIP
<1>3. QED
  BY <1>2 DEF Building, Covered

LEMMA BuildingSkips ==
  ASSUME NEW c, NEW l, NEW devs, NEW without, NEW n, NEW told,
         Building(c, l, devs, without, n, told), NEW s \in l, ~Complete(SwitchIn[c][s])
  PROVE  Building(c, l \ {s}, devs, without, n, told)
  BY DEF Building, Covered

LEMMA BuildingSidless ==
  ASSUME NEW c, NEW l, NEW devs, NEW without, NEW n, NEW told,
         Building(c, l, devs, without, n, told), NEW s \in l
  PROVE  Building(c, l \ {s}, devs, without \cup {s}, n, told)
  BY DEF Building, Covered

(* A switch that handleSwitch refuses after Get has no pipeconf, or there   *)
(* is no address left for it.                                               *)
LEMMA BuildingRefuses ==
  ASSUME NEW c, NEW l, NEW devs, NEW without, NEW n \in Nat, NEW told,
         Building(c, l, devs, without, n, told), NEW s \in l,
         ~Accepted(SwitchIn[c][s], n)
  PROVE  Building(c, l \ {s}, devs, without, n + MadeUp(SwitchIn[c][s], n), told)
<1> DEFINE sw == SwitchIn[c][s]
<1>1. s \in DOMAIN SwitchIn[c] /\ c \in Contents
  BY DEF Building
<1>2. MadeUp(sw, n) \in Nat
  BY DEF MadeUp
<1>3. ~Complete(sw) \/ sw.address = Hostname
  <2>1. ASSUME sw.address # Hostname PROVE Loopback(sw, n) # NoAddress
    <3>1. sw.address \in Nat
      BY <1>1, <2>1, Addresses
    <3>2. QED
      BY <2>1, <3>1 DEF Loopback, NoAddress
  <2>2. QED
    BY <2>1 DEF Accepted, Complete
<1>4. Covered(c, devs, without \cup (l \ {s}))
  BY <1>3 DEF Building, Covered
<1>5. BelowNextIP(c, devs, n + MadeUp(sw, n))
  <2>1. \A t \in DOMAIN devs : devs[t].loopback \in Nat
    BY DEF Building, Faithful, FaithfulDevice, DeviceOf
  <2>2. \A k \in Nat : k < n => k < n + MadeUp(sw, n)
    BY <1>2
  <2>3. QED
    BY <2>1, <2>2 DEF Building, BelowNextIP
<1>6. QED
  BY <1>4, <1>5 DEF Building

(* A device's loopback is another one than those of the devices before it,  *)
(* or addresses of the content clash: those that are made up grow.          *)
LEMMA LoopbackIsNew ==
  ASSUME NEW c, NEW l, NEW devs, NEW without, NEW n \in Nat, NEW told,
         Building(c, l, devs, without, n, told), NEW s \in l,
         Accepted(SwitchIn[c][s], n), NEW t \in DOMAIN devs, t # s,
         devs[t].loopback = Loopback(SwitchIn[c][s], n)
  PROVE  MayClash(SwitchIn[c][s].address, SwitchIn[c][t].address)
<1> DEFINE address(u) == SwitchIn[c][u].address
<1>1. /\ c \in Contents
      /\ s \in DOMAIN SwitchIn[c] /\ t \in DOMAIN SwitchIn[c]
      /\ FaithfulDevice(SwitchIn[c][t], devs[t])
      /\ devs[t].loopback \in Nat
  BY DEF Building, Faithful, FaithfulDevice, DeviceOf
<1>2. MadeUpAddresses \in Nat
  BY FabricToOnosAssumption
<1>3. /\ address(t) = Hostname => devs[t].loopback < n /\ devs[t].loopback < MadeUpAddresses
      /\ address(t) # Hostname => devs[t].loopback = address(t)
  BY <1>1 DEF Building, BelowNextIP, FaithfulDevice
<1>4. CASE address(s) = Hostname
  <2>1. devs[t].loopback = n + 1 /\ n + 1 < MadeUpAddresses
    BY <1>4 DEF Accepted, Loopback, NoAddress
  <2>2. address(t) = n + 1
    BY <1>3, <2>1
  <2>3. n + 1 \in 0..(MadeUpAddresses - 1)
    BY <1>2, <2>1
  <2>4. QED
    BY <1>4, <2>2, <2>3 DEF MayClash
<1>5. CASE address(s) # Hostname
  <2>1. devs[t].loopback = address(s)
    BY <1>5 DEF Loopback
  <2>2. CASE address(t) = Hostname
    <3>1. address(s) \in 0..(MadeUpAddresses - 1)
      BY <1>1, <1>2, <1>3, <2>1, <2>2
    <3>2. QED
      BY <2>2, <3>1 DEF MayClash
  <2>3. CASE address(t) # Hostname
    BY <1>3, <1>5, <2>1, <2>3 DEF MayClash
  <2>4. QED
    BY <2>2, <2>3
<1>6. QED
  BY <1>4, <1>5

LEMMA DeviceIsFaithful ==
  ASSUME NEW c \in Contents, NEW s \in DOMAIN SwitchIn[c], NEW n \in Nat, NEW sid \in Nat,
         Presentable(SwitchIn[c][s]), Accepted(SwitchIn[c][s], n),
         NEW device \in DevicesFor(SwitchIn[c][s], sid, n)
  PROVE  /\ FaithfulDevice(SwitchIn[c][s], device)
         /\ device.sid = sid
         /\ device.loopback = Loopback(SwitchIn[c][s], n)
<1> DEFINE sw == SwitchIn[c][s]
<1>1. device.sid = sid /\ device.loopback = Loopback(sw, n)
  BY DEF DevicesFor
<1>2. Complete(sw)
  BY DEF Complete, Accepted
<1>3. sw.address # Hostname => Loopback(sw, n) = sw.address /\ sw.address \in Nat
  <2>1. sw.address # Hostname => Loopback(sw, n) = sw.address
    BY DEF Loopback
  <2>2. sw.address # Hostname => sw.address \in Nat
    BY Addresses
  <2>3. QED
    BY <2>1, <2>2
<1>4. sw.address = Hostname => Loopback(sw, n) = n + 1 /\ n + 1 < MadeUpAddresses
  BY DEF Loopback, Accepted, NoAddress
<1>5. Loopback(sw, n) \in Nat
  BY <1>3, <1>4
<1>6. device \in DeviceOf(sw)
  BY <1>5 DEF DevicesFor, DeviceOf
<1>7. QED
  BY <1>1, <1>2, <1>3, <1>4, <1>6 DEF FaithfulDevice

LEMMA BuildingAccepts ==
  ASSUME NEW c, NEW l, NEW devs, NEW without, NEW n \in Nat, NEW told,
         Building(c, l, devs, without, n, told), NEW s \in l,
         Presentable(SwitchIn[c][s]), Accepted(SwitchIn[c][s], n),
         NEW sid \in Nat, <<s, sid>> \in told,
         NEW device \in DevicesFor(SwitchIn[c][s], sid, n)
  PROVE  Building(c, l \ {s}, Extended(devs, s, device), without,
                  n + MadeUp(SwitchIn[c][s], n), told)
<1> DEFINE sw == SwitchIn[c][s]
           more == Extended(devs, s, device)
           next == n + MadeUp(sw, n)
<1>1. c \in Contents /\ s \in DOMAIN SwitchIn[c]
  BY DEF Building
<1>2. /\ FaithfulDevice(sw, device)
      /\ device.sid = sid
      /\ device.loopback = Loopback(sw, n)
  BY <1>1, DeviceIsFaithful
<1>3. /\ DOMAIN more = DOMAIN devs \cup {s}
      /\ more[s] = device
      /\ \A t \in DOMAIN devs : t # s => more[t] = devs[t]
      /\ more = [t \in DOMAIN more |-> more[t]]
  BY DEF Extended
<1> HIDE DEF more
<1>4. LoopbacksApart(c, more)
  <2>1. \A t \in DOMAIN devs :
          t # s => \/ devs[t].loopback # Loopback(sw, n)
                   \/ MayClash(sw.address, SwitchIn[c][t].address)
    BY LoopbackIsNew
  <2>2. \A t \in DOMAIN devs :
          t # s => \/ devs[t].loopback # Loopback(sw, n)
                   \/ MayClash(SwitchIn[c][t].address, sw.address)
    BY <2>1, ClashIsSymmetric
  <2>3. LoopbacksApart(c, devs)
    BY DEF Building, Faithful
  <2>4. QED
    BY <1>2, <1>3, <2>1, <2>2, <2>3 DEF LoopbacksApart
<1>5. Faithful(c, more)
  BY <1>1, <1>2, <1>3, <1>4 DEF Building, Faithful
<1>6. Told(more, told)
  BY <1>2, <1>3 DEF Building, Told
<1>7. BelowNextIP(c, more, next)
  <2>1. MadeUp(sw, n) \in Nat
    BY DEF MadeUp
  <2>2. \A t \in DOMAIN devs : devs[t].loopback \in Nat
    BY DEF Building, Faithful, FaithfulDevice, DeviceOf
  <2>3. \A t \in DOMAIN devs : SwitchIn[c][t].address = Hostname => devs[t].loopback < next
    <3>1. \A k \in Nat : k < n => k < next
      BY <2>1
    <3>2. QED
      BY <2>2, <3>1 DEF Building, BelowNextIP
  <2>4. sw.address = Hostname => device.loopback < next
    <3>1. SUFFICES ASSUME sw.address = Hostname PROVE device.loopback < next
      OBVIOUS
    <3>2. Loopback(sw, n) = n + 1 /\ n + 1 < MadeUpAddresses
      BY <3>1 DEF Loopback, Accepted, NoAddress
    <3>3. MadeUpAddresses \in Nat /\ ~(n >= MadeUpAddresses)
      BY <3>2, FabricToOnosAssumption
    <3>4. MadeUp(sw, n) = 2
      BY <3>1, <3>2, <3>3 DEF MadeUp, Accepted
    <3>5. QED
      BY <1>2, <3>2, <3>4
  <2>5. QED
    BY <1>3, <2>3, <2>4 DEF BelowNextIP
<1>8. Covered(c, more, without \cup (l \ {s}))
  BY <1>3 DEF Building, Covered
<1>9. l \ {s} \subseteq DOMAIN SwitchIn[c]
  BY DEF Building
<1> HIDE DEF next
<1>10. Building(c, l \ {s}, more, without, next, told)
  BY <1>1, <1>5, <1>6, <1>7, <1>8, <1>9 DEF Building
<1>11. QED
  BY <1>10 DEF more, next

(* What is POSTed is made of a finished build. *)
LEMMA BuiltIsGood ==
  ASSUME NEW c, NEW devs, NEW without, NEW n, NEW told,
         Building(c, {}, devs, without, n, told),
         NEW config \in [devices : {devs}, routes : RouteOrders(c)]
  PROVE  GoodNetConfig(c, config, told) /\ Covered(c, config.devices, without)
<1>1. config.devices = devs /\ config.routes \in RouteOrders(c)
  OBVIOUS
<1>2. config = [devices |-> config.devices, routes |-> config.routes]
  OBVIOUS
<1>3. without \cup {} = without
  OBVIOUS
<1>4. QED
  BY <1>1, <1>2, <1>3 DEF Building, GoodNetConfig

-----------------------------------------------------------------------------
(* The invariant *)

InGet(state) == state \in {"lookup", "increment", "put"}

(* A pod is idle, or building; while Get runs it does so for a switch that  *)
(* is still to be visited.                                                  *)
PodOK(c, l, devs, without, n, told, state, s) ==
  /\ \/ c = None /\ l = {} /\ devs = NoDevices
     \/ Building(c, l, devs, without, n, told)
  /\ InGet(state) => s \in l /\ Presentable(SwitchIn[c][s])

PodInv(p) ==
  PodOK(content[p], left[p], devices[p], sidless[p], nextIP[p], issued, pc[p], arg[p])

CacheOK(entry, told) == entry # None => GoodNetConfig(entry.content, entry.netConfig, told)

OnosOK(applied, told) ==
  applied # None =>
    /\ GoodNetConfig(applied.content, applied.netConfig, told)
    /\ Covered(applied.content, applied.netConfig.devices, applied.sidless)

OnosInv ==
  /\ OnosTypes
  /\ \A p \in Pods : PodInv(p)
  /\ \A p \in Pods : CacheOK(cache[p], issued)
  /\ OnosOK(onos, issued)

LEMMA IssuedGrows ==
  ASSUME Next PROVE issued \subseteq issued'
<1>1. ASSUME NEW p \in Pods,
             \/ QueryCounter(p) \/ ReserveSids(p) \/ StartFails(p)
             \/ \E s \in Switches : CallGet(p, s)
             \/ LookupNotFound(p) \/ LookupError(p)
             \/ Increment(p) \/ IncrementError(p) \/ PutError(p) \/ Crash(p)
      PROVE  issued' = issued
  BY <1>1 DEF QueryCounter, ReserveSids, StartFails, CallGet, LookupNotFound, LookupError,
              Increment, IncrementError, PutError, Crash
<1>2. ASSUME NEW p \in Pods, LookupFound(p) \/ Put(p) PROVE issued \subseteq issued'
  BY <1>2 DEF LookupFound, Put
<1>3. QED
  BY <1>1, <1>2 DEF Next

(* What one pod does leaves the others as they are. *)
Alone(p) ==
  \A q \in Pods \ {p} :
    /\ content'[q] = content[q] /\ left'[q] = left[q] /\ devices'[q] = devices[q]
    /\ sidless'[q] = sidless[q] /\ nextIP'[q] = nextIP[q]
    /\ pc'[q] = pc[q] /\ arg'[q] = arg[q]

LEMMA OthersAlone ==
  ASSUME OnosTypes, NEW p \in Pods, Alone(p), issued \subseteq issued',
         \A q \in Pods : PodInv(q)
  PROVE  \A q \in Pods \ {p} : PodInv(q)'
<1> SUFFICES ASSUME NEW q \in Pods \ {p} PROVE PodInv(q)'
  OBVIOUS
<1>1. PodOK(content[q], left[q], devices[q], sidless[q], nextIP[q], issued', pc[q], arg[q])
  BY BuildingTold DEF PodInv, PodOK
<1>2. QED
  BY <1>1 DEF Alone, PodInv

(* The cache and ONOS only get what is good. *)
LEMMA StaysGood ==
  ASSUME issued \subseteq issued',
         \A q \in Pods : CacheOK(cache[q], issued), OnosOK(onos, issued)
  PROVE  /\ \A q \in Pods : CacheOK(cache[q], issued')
         /\ OnosOK(onos, issued')
<1>1. ASSUME NEW q \in Pods PROVE CacheOK(cache[q], issued')
  BY GoodTold DEF CacheOK
<1>2. OnosOK(onos, issued')
  BY GoodTold DEF OnosOK
<1>3. QED
  BY <1>1, <1>2

LEMMA OnosInvInit == OnosInit => OnosInv
<1> SUFFICES ASSUME OnosInit PROVE OnosInv
  OBVIOUS
<1>1. ASSUME NEW p \in Pods PROVE PodInv(p)
  BY DEF OnosInit, Init, PodInv, PodOK, InGet
<1>2. ASSUME NEW p \in Pods PROVE CacheOK(cache[p], issued)
  BY DEF OnosInit, CacheOK
<1>3. OnosOK(onos, issued)
  BY DEF OnosInit, OnosOK
<1>4. QED
  BY <1>1, <1>2, <1>3, TypesInit DEF OnosInv

(* The steps that are not about a switch, or wait for Get. *)
LEMMA PodInvQuiet ==
  ASSUME OnosInv, issued \subseteq issued', NEW p \in Pods,
         \/ StartStep(p) \/ CacheInvalidate(p) \/ GetGoesOn(p)
         \/ \E c \in Contents : BeginFabric(p, c)
         \/ \E s \in left[p] : GetSid(p, s)
         \/ Unchanged(p) \/ PostAccepted(p) \/ PostFails(p)
         \/ CrashPod(p)
  PROVE  Alone(p) /\ PodInv(p)'
<1> USE DEF OnosInv, OnosTypes, TypeOK
<1>0. PodOK(content[p], left[p], devices[p], sidless[p], nextIP[p], issued', pc[p], arg[p])
  BY BuildingTold DEF PodInv, PodOK
<1>1. CASE StartStep(p)
  <2>1. /\ ~InGet(pc'[p]) /\ arg' = arg
        /\ \A q \in Pods \ {p} : pc'[q] = pc[q]
    BY <1>1 DEF StartStep, QueryCounter, ReserveSids, StartFails, GoTo, InGet
  <2>2. UNCHANGED <<content, left, devices, sidless, nextIP>>
    BY <1>1 DEF StartStep, onosVars, buildVars
  <2>3. QED
    BY <1>0, <2>1, <2>2 DEF Alone, PodInv, PodOK
<1>2. CASE CacheInvalidate(p)
  <2>1. UNCHANGED <<content, left, devices, sidless, nextIP, pc, arg>>
    BY <1>2 DEF CacheInvalidate, vars, buildVars
  <2>2. QED
    BY <1>0, <2>1 DEF Alone, PodInv
<1>3. CASE GetGoesOn(p)
  <2>1. /\ InGet(pc[p]) /\ arg' = arg
        /\ \A q \in Pods \ {p} : pc'[q] = pc[q]
    BY <1>3 DEF GetGoesOn, LookupNotFound, Increment, GoTo, InGet
  <2>2. UNCHANGED <<content, left, devices, sidless, nextIP>>
    BY <1>3 DEF GetGoesOn, onosVars, buildVars
  <2>3. QED
    BY <1>0, <2>1, <2>2 DEF Alone, PodInv, PodOK
<1>4. ASSUME NEW c \in Contents, BeginFabric(p, c) PROVE Alone(p) /\ PodInv(p)'
  <2>1. /\ content'[p] = c /\ left'[p] = DOMAIN SwitchIn[c]
        /\ \A q \in Pods \ {p} : content'[q] = content[q] /\ left'[q] = left[q]
    BY <1>4 DEF BeginFabric
  <2>2. UNCHANGED <<devices, sidless, nextIP, pc, arg>>
    BY <1>4 DEF BeginFabric, vars
  <2>3. pc[p] = "ready" /\ content[p] = None
    BY <1>4 DEF BeginFabric
  <2>4. devices[p] = NoDevices
    BY <2>3, FabricToOnosAssumption DEF PodInv, PodOK, Building
  <2>5. Building(c, DOMAIN SwitchIn[c], NoDevices, sidless[p], nextIP[p], issued')
    BY BuildingBegins
  <2>6. PodInv(p)'
    BY <2>1, <2>2, <2>3, <2>4, <2>5 DEF PodInv, PodOK, InGet
  <2>7. QED
    BY <2>1, <2>2, <2>6 DEF Alone
<1>5. ASSUME NEW s \in left[p], GetSid(p, s) PROVE Alone(p) /\ PodInv(p)'
  <2>1. /\ arg'[p] = s /\ Presentable(SwitchIn[content[p]][s])
        /\ \A q \in Pods \ {p} : pc'[q] = pc[q] /\ arg'[q] = arg[q]
    BY <1>5 DEF GetSid, CallGet, GoTo, Switch
  <2>2. UNCHANGED <<content, left, devices, sidless, nextIP>>
    BY <1>5 DEF GetSid, onosVars, buildVars
  <2>3. QED
    BY <1>0, <2>1, <2>2 DEF Alone, PodInv, PodOK
<1>6. CASE Unchanged(p) \/ PostAccepted(p) \/ PostFails(p)
  <2>1. EndFabric(p) /\ pc[p] = "ready" /\ UNCHANGED <<nextIP, pc, arg>>
    BY <1>6 DEF Unchanged, PostAccepted, PostFails, Ready, vars
  <2>2. QED
    BY <2>1 DEF EndFabric, Alone, PodInv, PodOK, InGet
<1>7. CASE CrashPod(p)
  <2>1. /\ pc'[p] = "down"
        /\ \A q \in Pods \ {p} : pc'[q] = pc[q] /\ arg'[q] = arg[q] /\ nextIP'[q] = nextIP[q]
    BY <1>7 DEF CrashPod, Crash, GoTo
  <2>2. EndFabric(p)
    BY <1>7 DEF CrashPod
  <2>3. QED
    BY <2>1, <2>2 DEF EndFabric, Alone, PodInv, PodOK, InGet
<1>8. QED
  BY <1>1, <1>2, <1>3, <1>4, <1>5, <1>6, <1>7

LEMMA PodInvSkip ==
  ASSUME OnosInv, issued \subseteq issued', NEW p \in Pods, NEW s \in left[p],
         SkipSwitch(p, s)
  PROVE  Alone(p) /\ PodInv(p)'
<1> USE DEF OnosInv, OnosTypes, TypeOK
<1>1. /\ left'[p] = left[p] \ {s}
      /\ \A q \in Pods \ {p} : left'[q] = left[q]
  BY DEF SkipSwitch, Visited
<1>2. UNCHANGED <<content, devices, sidless, nextIP, pc, arg>> /\ pc[p] = "ready"
  BY DEF SkipSwitch, vars
<1>3. Building(content[p], left[p], devices[p], sidless[p], nextIP[p], issued')
  BY BuildingTold DEF PodInv, PodOK
<1>4. ~Complete(SwitchIn[content[p]][s])
  BY DEF SkipSwitch, Switch, Complete
<1>5. Building(content[p], left[p] \ {s}, devices[p], sidless[p], nextIP[p], issued')
  BY <1>3, <1>4, BuildingSkips
<1>6. PodInv(p)'
  BY <1>1, <1>2, <1>5 DEF PodInv, PodOK, InGet
<1>7. QED
  BY <1>1, <1>2, <1>6 DEF Alone

LEMMA PodInvSidless ==
  ASSUME OnosInv, issued \subseteq issued', NEW p \in Pods, SidUnavailable(p)
  PROVE  Alone(p) /\ PodInv(p)'
<1> USE DEF OnosInv, OnosTypes, TypeOK
<1> DEFINE s == arg[p]
<1>1. /\ left'[p] = left[p] \ {s} /\ sidless'[p] = sidless[p] \cup {s}
      /\ \A q \in Pods \ {p} : left'[q] = left[q] /\ sidless'[q] = sidless[q]
  BY DEF SidUnavailable, Visited
<1>2. UNCHANGED <<content, devices, nextIP>>
  BY DEF SidUnavailable
<1>3. /\ InGet(pc[p]) /\ pc'[p] = "ready"
      /\ \A q \in Pods \ {p} : pc'[q] = pc[q] /\ arg'[q] = arg[q]
  BY DEF SidUnavailable, LookupError, IncrementError, PutError, Return, GoTo, InGet
<1>4. s \in left[p]
  BY <1>3 DEF PodInv, PodOK
<1>5. Building(content[p], left[p], devices[p], sidless[p], nextIP[p], issued')
  BY <1>4, BuildingTold DEF PodInv, PodOK
<1>6. Building(content[p], left[p] \ {s}, devices[p], sidless[p] \cup {s}, nextIP[p], issued')
  BY <1>4, <1>5, BuildingSidless
<1>7. PodInv(p)'
  BY <1>1, <1>2, <1>3, <1>6 DEF PodInv, PodOK, InGet
<1>8. QED
  BY <1>1, <1>2, <1>3, <1>7 DEF Alone

LEMMA PodInvHandle ==
  ASSUME OnosInv, issued \subseteq issued', NEW p \in Pods, HandleSwitch(p)
  PROVE  Alone(p) /\ PodInv(p)'
<1> USE DEF OnosInv, OnosTypes, TypeOK
<1> DEFINE s == arg[p]
           sw == SwitchIn[content[p]][s]
           n == nextIP[p]
<1>1. /\ left'[p] = left[p] \ {s} /\ nextIP'[p] = n + MadeUp(sw, n)
      /\ \A q \in Pods \ {p} : left'[q] = left[q] /\ nextIP'[q] = nextIP[q]
  BY DEF HandleSwitch, Visited, Switch
<1>2. UNCHANGED <<content, sidless>>
  BY DEF HandleSwitch
<1>3. /\ InGet(pc[p]) /\ pc'[p] = "ready"
      /\ \A q \in Pods \ {p} : pc'[q] = pc[q] /\ arg'[q] = arg[q]
  BY DEF HandleSwitch, GetReturns, LookupFound, Put, Return, GoTo, InGet
<1>4. s \in left[p] /\ Presentable(sw)
  BY <1>3 DEF PodInv, PodOK
<1>5. Building(content[p], left[p], devices[p], sidless[p], n, issued')
  BY <1>4, BuildingTold DEF PodInv, PodOK
<1>6. n \in Nat
  OBVIOUS
<1>7. SidReturned(p) \in Nat /\ <<s, SidReturned(p)>> \in issued'
  <2>1. s \in Switches
    BY <1>4
  <2>2. CASE LookupFound(p)
    BY <2>1, <2>2 DEF LookupFound, SidReturned
  <2>3. CASE Put(p)
    BY <2>1, <2>3 DEF Put, SidReturned
  <2>4. QED
    BY <2>2, <2>3 DEF HandleSwitch, GetReturns
<1>8. \A q \in Pods \ {p} : devices'[q] = devices[q]
  BY DEF HandleSwitch
<1>9. Building(content[p], left[p] \ {s}, devices'[p], sidless[p], n + MadeUp(sw, n), issued')
  <2>1. CASE ~Accepted(sw, n)
    <3>1. devices' = devices
      BY <2>1 DEF HandleSwitch, Switch
    <3>2. QED
      BY <1>4, <1>5, <1>6, <2>1, <3>1, BuildingRefuses
  <2>2. CASE Accepted(sw, n)
    <3>1. PICK device \in DevicesFor(sw, SidReturned(p), n) :
            devices' = [devices EXCEPT ![p] = Extended(@, s, device)]
      BY <2>2 DEF HandleSwitch, Switch
    <3>2. devices'[p] = Extended(devices[p], s, device)
      BY <3>1
    <3>3. Building(content[p], left[p] \ {s}, Extended(devices[p], s, device), sidless[p],
                   n + MadeUp(sw, n), issued')
      BY <1>4, <1>5, <1>6, <1>7, <2>2, BuildingAccepts
    <3>4. QED
      BY <3>2, <3>3
  <2>3. QED
    BY <2>1, <2>2
<1>10. PodInv(p)'
  BY <1>1, <1>2, <1>3, <1>9 DEF PodInv, PodOK, InGet
<1>11. QED
  BY <1>1, <1>2, <1>3, <1>8, <1>10 DEF Alone

(* What ONOS gets, and the cache, is the finished build of a pod. *)
LEMMA BuiltGood ==
  ASSUME OnosInv, issued \subseteq issued', NEW p \in Pods, Ready(p), NEW build \in Built(p)
  PROVE  /\ GoodNetConfig(build.content, build.netConfig, issued')
         /\ Covered(build.content, build.netConfig.devices, build.sidless)
<1>1. Building(content[p], {}, devices[p], sidless[p], nextIP[p], issued')
  BY BuildingTold DEF OnosInv, PodInv, PodOK, Ready
<1>2. /\ build.content = content[p] /\ build.sidless = sidless[p]
      /\ build.netConfig \in [devices : {devices[p]}, routes : RouteOrders(content[p])]
  BY DEF Built
<1>3. QED
  BY <1>1, <1>2, BuiltIsGood

LEMMA CacheAndOnosStep ==
  ASSUME OnosInv, issued \subseteq issued', OnosNext
  PROVE  /\ \A q \in Pods : CacheOK(cache'[q], issued')
         /\ OnosOK(onos', issued')
<1>0. /\ DOMAIN cache = Pods
      /\ \A q \in Pods : CacheOK(cache[q], issued')
      /\ OnosOK(onos, issued')
  BY StaysGood DEF OnosInv, OnosTypes
<1>1. ASSUME NEW p \in Pods, PostAccepted(p)
      PROVE  (\A q \in Pods : CacheOK(cache'[q], issued')) /\ OnosOK(onos', issued')
  <2>1. PICK build \in Built(p) :
          /\ onos' = build
          /\ cache' = [cache EXCEPT ![p] = [content |-> build.content, netConfig |-> build.netConfig]]
    BY <1>1 DEF PostAccepted
  <2>2. /\ GoodNetConfig(build.content, build.netConfig, issued')
        /\ Covered(build.content, build.netConfig.devices, build.sidless)
    BY <1>1, BuiltGood DEF PostAccepted
  <2>3. QED
    BY <1>0, <2>1, <2>2 DEF CacheOK, OnosOK
<1>2. ASSUME NEW p \in Pods, PostFails(p)
      PROVE  (\A q \in Pods : CacheOK(cache'[q], issued')) /\ OnosOK(onos', issued')
  <2>1. PICK build \in Built(p) : onos' \in {onos, build}
    BY <1>2 DEF PostFails
  <2>2. /\ GoodNetConfig(build.content, build.netConfig, issued')
        /\ Covered(build.content, build.netConfig.devices, build.sidless)
    BY <1>2, BuiltGood DEF PostFails
  <2>3. OnosOK(onos', issued')
    BY <1>0, <2>1, <2>2 DEF OnosOK
  <2>4. cache' = cache
    BY <1>2 DEF PostFails
  <2>5. QED
    BY <1>0, <2>3, <2>4
<1>3. ASSUME NEW p \in Pods, CacheInvalidate(p) \/ CrashPod(p)
      PROVE  onos' = onos /\ \A q \in Pods : cache'[q] = cache[q] \/ cache'[q] = None
  BY <1>0, <1>3 DEF CacheInvalidate, CrashPod
<1>4. ASSUME NEW p \in Pods,
             \/ StartStep(p) \/ GetGoesOn(p) \/ SidUnavailable(p) \/ HandleSwitch(p)
             \/ \E c \in Contents : BeginFabric(p, c)
             \/ \E s \in left[p] : SkipSwitch(p, s) \/ GetSid(p, s)
             \/ Unchanged(p)
      PROVE  onos' = onos /\ cache' = cache
  BY <1>4 DEF StartStep, GetGoesOn, SidUnavailable, HandleSwitch, BeginFabric, SkipSwitch, GetSid,
              Unchanged, onosVars
<1>5. (\E p \in Pods : PostAccepted(p) \/ PostFails(p)) \/
      (onos' = onos /\ \A q \in Pods : cache'[q] = cache[q] \/ cache'[q] = None)
  BY <1>3, <1>4, Zenon DEF OnosNext
<1>6. QED
  BY <1>0, <1>1, <1>2, <1>5 DEF CacheOK

LEMMA OnosInvStep == OnosInv /\ [OnosNext]_allVars => OnosInv'
<1> SUFFICES ASSUME OnosInv, [OnosNext]_allVars PROVE OnosInv'
  OBVIOUS
<1>1. OnosTypes'
  BY TypesStep DEF OnosInv
<1>2. CASE OnosNext
  <2>1. issued \subseteq issued'
    <3>1. CASE Next
      BY <3>1, IssuedGrows
    <3>2. CASE UNCHANGED vars
      BY <3>2 DEF vars
    <3>3. QED
      BY <1>2, <3>1, <3>2, SidStoreStep DEF OnosInv
  <2>2. PICK p \in Pods : Alone(p) /\ PodInv(p)'
    BY <1>2, <2>1, PodInvQuiet, PodInvSkip, PodInvSidless, PodInvHandle, Zenon DEF OnosNext
  <2>3. \A q \in Pods : PodInv(q)'
    BY <2>1, <2>2, OthersAlone DEF OnosInv
  <2>4. QED
    BY <1>1, <1>2, <2>1, <2>3, CacheAndOnosStep DEF OnosInv
<1>3. CASE UNCHANGED allVars
  BY <1>1, <1>3 DEF OnosInv, allVars, onosVars, buildVars, vars, PodInv
<1>4. QED
  BY <1>2, <1>3

THEOREM OnosInvariant == OnosSpec => []OnosInv
  BY OnosInvInit, OnosInvStep, PTL DEF OnosSpec

-----------------------------------------------------------------------------
(* What it is good for *)

LEMMA FaithfulDevicesOK ==
  ASSUME NEW c \in Contents, NEW devs, Faithful(c, devs)
  PROVE  DevicesOK(devs)
<1>1. DOMAIN SwitchIn[c] \subseteq Switches
  BY FabricToOnosAssumption
<1>2. QED
  BY <1>1 DEF DevicesOK, Faithful, FaithfulDevice, DeviceOf

(* The type invariant: whatever fails, a device in a netconfig has a SID    *)
(* and a valid loopback, be it under way, in the cache or in ONOS.          *)
THEOREM OnosTypeCorrect == OnosSpec => []OnosTypeOK
<1>1. OnosInv => OnosTypeOK
  <2> SUFFICES ASSUME OnosInv PROVE OnosTypeOK
    OBVIOUS
  <2>1. ASSUME NEW p \in Pods PROVE DevicesOK(devices[p])
    <3>1. CASE devices[p] = NoDevices
      BY <3>1 DEF DevicesOK, NoDevices
    <3>2. CASE devices[p] # NoDevices
      BY <3>2, FaithfulDevicesOK DEF OnosInv, PodInv, PodOK, Building
    <3>3. QED
      BY <3>1, <3>2
  <2>2. ASSUME NEW p \in Pods, cache[p] # None
        PROVE  cache[p].content \in Contents /\ DevicesOK(cache[p].netConfig.devices)
    BY <2>2, FaithfulDevicesOK DEF OnosInv, CacheOK, GoodNetConfig
  <2>3. onos # None => onos.content \in Contents /\ DevicesOK(onos.netConfig.devices)
    BY FaithfulDevicesOK DEF OnosInv, OnosOK, GoodNetConfig
  <2>4. QED
    BY <2>1, <2>2, <2>3 DEF OnosInv, OnosTypes, OnosTypeOK
<1>2. QED
  BY <1>1, OnosInvariant, PTL

(* The devices of ONOS have SIDs of their own, and loopbacks of their own   *)
(* where the content's IP addresses do not clash, whatever fails and        *)
(* whichever pod configured ONOS last, unless the counter was moved back,   *)
(* which takes two pods that race for the first start.                      *)
THEOREM DevicesAreDistinct ==
  /\ OnosSpec /\ CounterNeverFalls => []DevicesDistinct
  /\ SafeFirstStart => (OnosSpec => []DevicesDistinct)
<1>1. OnosInv /\ SidsUnique /\ SidsNotReserved => DevicesDistinct
  <2> SUFFICES ASSUME OnosInv, SidsUnique, SidsNotReserved, onos # None,
                      NEW s \in DOMAIN onos.netConfig.devices,
                      NEW t \in DOMAIN onos.netConfig.devices
               PROVE  LET devs == onos.netConfig.devices
                          address(u) == SwitchIn[onos.content][u].address
                      IN  /\ devs[s].sid > Reserved
                          /\ s # t => /\ devs[s].sid # devs[t].sid
                                      /\ \/ devs[s].loopback # devs[t].loopback
                                         \/ MayClash(address(s), address(t))
    BY DEF DevicesDistinct
  <2> DEFINE devs == onos.netConfig.devices
             address(u) == SwitchIn[onos.content][u].address
  <2>1. GoodNetConfig(onos.content, onos.netConfig, issued)
    BY DEF OnosInv, OnosOK
  <2>2. <<s, devs[s].sid>> \in issued /\ <<t, devs[t].sid>> \in issued
    BY <2>1 DEF GoodNetConfig, Told
  <2>3. devs[s].sid > Reserved
    BY <2>2 DEF SidsNotReserved
  <2>4. s # t => devs[s].sid # devs[t].sid
    BY <2>2 DEF SidsUnique
  <2>5. s # t => devs[s].loopback # devs[t].loopback \/ MayClash(address(s), address(t))
    BY <2>1 DEF GoodNetConfig, Faithful, LoopbacksApart
  <2>6. QED
    BY <2>3, <2>4, <2>5
<1>2. OnosSpec /\ CounterNeverFalls => [](SidsUnique /\ SidsNotReserved)
  BY OnosSidsUnique
<1>3. OnosSpec /\ CounterNeverFalls => []DevicesDistinct
  BY <1>1, <1>2, OnosInvariant, PTL
<1>4. ASSUME SafeFirstStart PROVE OnosSpec => []DevicesDistinct
  BY <1>3, <1>4, OnosSidsUnique
<1>5. QED
  BY <1>3, <1>4

(* What ONOS was told of a switch's SID, by whichever pod, is what the store *)
(* has on record for it now, unless the counter was moved back or two pods   *)
(* allocated for one switch at a time: a netconfig never changes a SID.      *)
THEOREM SidsAreOnRecord ==
  /\ OnosSpec /\ CounterNeverFalls /\ []AllocationsApart => []SidsOnRecord
  /\ SinglePod => (OnosSpec => []SidsOnRecord)
<1>1. OnosInv /\ SidsStable => SidsOnRecord
  <2> SUFFICES ASSUME OnosInv, SidsStable, onos # None,
                      NEW s \in DOMAIN onos.netConfig.devices
               PROVE  onos.netConfig.devices[s].sid = sidMap[s]
    BY DEF SidsOnRecord
  <2>1. <<s, onos.netConfig.devices[s].sid>> \in issued
    BY DEF OnosInv, OnosOK, GoodNetConfig, Told
  <2>2. QED
    BY <2>1 DEF SidsStable
<1>2. OnosSpec /\ CounterNeverFalls /\ []AllocationsApart => []SidsStable
  BY OnosSidsStable
<1>3. OnosSpec /\ CounterNeverFalls /\ []AllocationsApart => []SidsOnRecord
  BY <1>1, <1>2, OnosInvariant, PTL
<1>4. ASSUME SinglePod PROVE OnosSpec => []SidsOnRecord
  BY <1>3, <1>4, OnosSidsStable
<1>5. QED
  BY <1>3, <1>4

LEMMA RoutesOnce ==
  ASSUME NEW c \in Contents, NEW order \in RouteOrders(c)
  PROVE  /\ {order[i] : i \in DOMAIN order} = Routes(c)
         /\ \A i, j \in DOMAIN order : order[i] = order[j] => i = j
<1> DEFINE size == Cardinality(Routes(c))
<1>1. IsFiniteSet(Routes(c)) /\ size \in Nat
  <2>1. IsFiniteSet(RouteIn[c]) /\ Routes(c) \subseteq RouteIn[c]
    BY FabricToOnosAssumption DEF Routes
  <2>2. QED
    BY <2>1, FS_Subset, FS_CardinalityType
<1>2. IsFiniteSet(1..size) /\ Cardinality(1..size) = size
  BY <1>1, FS_Interval
<1>3. /\ order \in [1..size -> Routes(c)]
      /\ \A route \in Routes(c) : \E i \in 1..size : order[i] = route
  BY DEF RouteOrders
<1>4. order \in Surjection(1..size, Routes(c))
  BY <1>3 DEF Surjection
<1>5. order \in Injection(1..size, Routes(c))
  BY <1>2, <1>4, FS_SurjSameCardinalityImpliesInj
<1>6. QED
  BY <1>3, <1>5 DEF Injection, IsInjective

LEMMA KeyedPorts ==
  ASSUME NEW c \in Contents, NEW s \in DOMAIN SwitchIn[c]
  PROVE  Keyed(SwitchIn[c][s].port)
<1>1. WellFormed(SwitchIn[c][s])
  BY FabricToOnosAssumption
<1>2. QED
  BY <1>1 DEF WellFormed, Keyed

(* A bad switch, port or route costs ONOS that one and no other.            *)
THEOREM NothingElseIsLost == OnosSpec => []NothingElseLost
<1>1. OnosInv => NothingElseLost
  <2> SUFFICES ASSUME OnosInv, onos # None PROVE NothingElseLost
    BY DEF NothingElseLost
  <2> DEFINE devs == onos.netConfig.devices
             switch == SwitchIn[onos.content]
             routes == onos.netConfig.routes
  <2>1. /\ GoodNetConfig(onos.content, onos.netConfig, issued)
        /\ Covered(onos.content, onos.netConfig.devices, onos.sidless)
        /\ onos.content \in Contents
    BY DEF OnosInv, OnosOK, GoodNetConfig
  <2>2. \A s \in DOMAIN devs : s \in DOMAIN switch /\ Complete(switch[s])
    BY <2>1 DEF GoodNetConfig, Faithful, FaithfulDevice
  <2>3. \A s \in DOMAIN switch \ DOMAIN devs :
          ~Complete(switch[s]) \/ s \in onos.sidless \/ switch[s].address = Hostname
    BY <2>1 DEF Covered
  <2>4. ASSUME NEW s \in DOMAIN devs, \A port \in switch[s].port : port.cage < 100,
               NEW port \in OnosPorts(switch[s])
        PROVE  /\ PortID(port) \in DOMAIN devs[s].ports
               /\ devs[s].ports[PortID(port)] = port
    <3>1. devs[s].ports \in PortTables(switch[s])
      BY <2>1 DEF GoodNetConfig, Faithful, FaithfulDevice, DeviceOf
    <3>2. Keyed(switch[s].port) /\ LowCages(switch[s].port)
      BY <2>1, <2>2, <2>4, KeyedPorts DEF LowCages
    <3>3. QED
      BY <3>1, <3>2, NoPortLost
  <2>5. /\ {routes[i] : i \in DOMAIN routes} = Routes(onos.content)
        /\ \A i, j \in DOMAIN routes : routes[i] = routes[j] => i = j
    BY <2>1, RoutesOnce DEF GoodNetConfig
  <2>6. QED
    BY <2>2, <2>3, <2>4, <2>5 DEF NothingElseLost
<1>2. QED
  BY <1>1, OnosInvariant, PTL

(* Where the content leaves nothing open, content and SIDs determine the    *)
(* devices ...                                                              *)
LEMMA SameDevices ==
  ASSUME NEW c \in Contents, Settled(c), NEW devs1, NEW devs2,
         Faithful(c, devs1), Faithful(c, devs2), SameSids(devs1, devs2)
  PROVE  devs1 = devs2
<1>1. ASSUME NEW s \in DOMAIN devs1 PROVE devs1[s] = devs2[s]
  <2> DEFINE sw == SwitchIn[c][s]
  <2>1. s \in DOMAIN SwitchIn[c] /\ s \in DOMAIN devs2 /\ devs1[s].sid = devs2[s].sid
    BY DEF Faithful, SameSids
  <2>2. FaithfulDevice(sw, devs1[s]) /\ FaithfulDevice(sw, devs2[s])
    BY <2>1 DEF Faithful
  <2>3. devs1[s].loopback = devs2[s].loopback
    BY <2>1, <2>2 DEF FaithfulDevice, Settled
  <2>4. devs1[s].pairLocalPort = devs2[s].pairLocalPort
    BY <2>2, OnePairLocalPort DEF FaithfulDevice, DeviceOf
  <2>5. devs1[s].ports = devs2[s].ports
    <3>1. Keyed(sw.port) /\ LowCages(sw.port)
      BY <2>1, KeyedPorts DEF Settled, LowCages
    <3>2. QED
      BY <2>2, <3>1, OnePortTable DEF FaithfulDevice, DeviceOf
  <2>6. devs1[s] \in DeviceOf(sw) /\ devs2[s] \in DeviceOf(sw)
    BY <2>2 DEF FaithfulDevice
  <2>7. QED
    BY <2>1, <2>3, <2>4, <2>5, <2>6 DEF DeviceOf
<1>2. DOMAIN devs1 = DOMAIN devs2
  BY DEF SameSids
<1>3. QED
  BY <1>1, <1>2 DEF Faithful

(* ... and the routes. *)
LEMMA OneOrder ==
  ASSUME NEW c \in Contents, Settled(c), NEW order1 \in RouteOrders(c), NEW order2 \in RouteOrders(c)
  PROVE  order1 = order2
<1> DEFINE places == 1..Cardinality(Routes(c))
<1>1. order1 \in [places -> Routes(c)] /\ order2 \in [places -> Routes(c)]
  BY DEF RouteOrders
<1>2. \A i \in places : order1[i] = order2[i]
  BY <1>1 DEF Settled
<1> HIDE DEF places
<1>3. QED
  BY <1>1, <1>2

(* The cache saves ONOS from a second POST of a fabric whose switches have  *)
(* IP addresses, cages below 100 and at most one route.                     *)
THEOREM SettledIsNotReposted == OnosSpec => []SettledNotReposted
<1>1. OnosInv => SettledNotReposted
  <2> SUFFICES ASSUME OnosInv, NEW p \in Pods, Reposts(p), Settled(content[p]) PROVE FALSE
    BY DEF SettledNotReposted
  <2>1. /\ Ready(p) /\ partialUpdateEnable
        /\ cache[p] # None
        /\ cache[p].content = content[p]
        /\ SameSids(cache[p].netConfig.devices, devices[p])
    BY DEF Reposts
  <2>2. PICK build \in Built(p) : cache[p].netConfig # build.netConfig
    BY <2>1 DEF Reposts, MustPost, CacheCheck
  <2>3. GoodNetConfig(content[p], cache[p].netConfig, issued)
    BY <2>1 DEF OnosInv, CacheOK
  <2>4. content[p] \in Contents /\ Faithful(content[p], devices[p])
    BY <2>1 DEF OnosInv, PodInv, PodOK, Building, Ready
  <2>5. build.netConfig \in [devices : {devices[p]}, routes : RouteOrders(content[p])]
    BY DEF Built
  <2>6. cache[p].netConfig.devices = devices[p]
    BY <2>1, <2>3, <2>4, SameDevices DEF GoodNetConfig
  <2>7. cache[p].netConfig.routes = build.netConfig.routes
    BY <2>3, <2>4, <2>5, OneOrder DEF GoodNetConfig
  <2>8. cache[p].netConfig = [devices |-> devices[p], routes |-> build.netConfig.routes]
    BY <2>3, <2>6, <2>7 DEF GoodNetConfig
  <2>9. build.netConfig = [devices |-> devices[p], routes |-> build.netConfig.routes]
    BY <2>5
  <2>10. QED
    BY <2>2, <2>8, <2>9
<1>2. QED
  BY <1>1, OnosInvariant, PTL
=============================================================================
