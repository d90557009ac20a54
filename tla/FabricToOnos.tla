------------------------------ MODULE FabricToOnos ------------------------------
(***************************************************************************)
(* SynchronizeFabricToOnos (synchronize-device.go) step by step, in every  *)
(* pod, on top of the SID store that the pods share: the switches of a     *)
(* fabric are visited in the order of their identifiers, handleSwitch gets *)
(* each one's SID, makes up an address for a switch known by name, and     *)
(* adds device and ports to the netconfig, or leaves the switch out; the   *)
(* routes follow, in the order of a Go map; and the netconfig is POSTed    *)
(* unless the cache holds the same one.                                    *)
(*                                                                         *)
(* Between two Gets a pod touches nothing that another one sees, but for   *)
(* the POST: a step here does all there is to do until then.  What may     *)
(* happen between the POST and the cache update is in Synchronizer.tla.    *)
(*                                                                         *)
(* A switch is as in PortNumbers, with an address as well, an IP address   *)
(* or Hostname; known says whether the fabric has its model, and managed,  *)
(* driver and pipeconf whether it has a management address and port, and   *)
(* the two attributes.                                                     *)
(***************************************************************************)
EXTENDS SidStore, PortNumbers, FiniteSets

CONSTANTS
  Contents,            \* the contents the fabric may have
  SwitchIn,            \* SwitchIn[c]: the switches of c, by their identifiers
  RouteIn,             \* RouteIn[c]: the routes of c
  Rank,                \* Rank[s]: the place of s among all switch identifiers
  Hostname,            \* a management address that is no IP address
  MadeUpAddresses,     \* how many addresses 192.168.55.n there are: 256
  MaxIP,               \* bound on nextIP
  partialUpdateEnable, \* the option: is the cache consulted?
  None                 \* no content, no netconfig

(* A switch has at most one port, and one pairing port, per cage and channel. *)
WellFormed(sw) ==
  \A ports \in {sw.port, sw.pairing} :
    /\ \A port \in ports : port.cage \in Uint8 /\ port.channel \in Uint8
    /\ \A port1, port2 \in ports :
         port1.cage = port2.cage /\ port1.channel = port2.channel => port1 = port2

(* IP addresses are numbers, n < MadeUpAddresses for 192.168.55.n. *)
ASSUME FabricToOnosAssumption ==
  /\ Rank \in [Switches -> Nat]
  /\ \A s, t \in Switches : Rank[s] = Rank[t] => s = t
  /\ MadeUpAddresses \in Nat
  /\ MaxIP \in Nat
  /\ partialUpdateEnable \in BOOLEAN
  /\ Hostname \notin Nat
  /\ None \notin Contents
  /\ \A c \in Contents :
       /\ IsFiniteSet(RouteIn[c])
       /\ DOMAIN SwitchIn[c] \subseteq Switches
       /\ \A s \in DOMAIN SwitchIn[c] :
            /\ WellFormed(SwitchIn[c][s])
            /\ SwitchIn[c][s].address \in Nat \cup {Hostname}

VARIABLES
  content,     \* content[p]: what pod p is building a netconfig of
  left,        \* left[p]: the switches it has yet to visit
  devices,     \* devices[p]: NetConfig.Devices so far, each with its ports
  sidless,     \* history: sidless[p], the switches it could have no SID for
  nextIP,      \* nextIP[p]: how many addresses its process has made up
  cache,       \* cache[p]: what CacheUpdate recorded, and of what content
  onos         \* the latest netconfig ONOS has applied, and of what content

buildVars == <<content, left, devices, sidless>>
onosVars == <<buildVars, nextIP, cache, onos>>
allVars == <<vars, onosVars>>

NoDevices == <<>>
NoAddress == -1

DevicesOK(devs) ==
  /\ DOMAIN devs \subseteq Switches
  /\ \A s \in DOMAIN devs : devs[s].sid \in Nat /\ devs[s].loopback \in Nat

OnosTypeOK ==
  /\ TypeOK
  /\ content \in [Pods -> Contents \cup {None}]
  /\ left \in [Pods -> SUBSET Switches]
  /\ sidless \in [Pods -> SUBSET Switches]
  /\ nextIP \in [Pods -> Nat]
  /\ DOMAIN devices = Pods
  /\ \A p \in Pods : DevicesOK(devices[p])
  /\ DOMAIN cache = Pods
  /\ \A p \in Pods :
       cache[p] # None => cache[p].content \in Contents /\ DevicesOK(cache[p].netConfig.devices)
  /\ onos # None => onos.content \in Contents /\ DevicesOK(onos.netConfig.devices)

OnosInit ==
  /\ Init
  /\ content = [p \in Pods |-> None]
  /\ left = [p \in Pods |-> {}]
  /\ devices = [p \in Pods |-> NoDevices]
  /\ sidless = [p \in Pods |-> {}]
  /\ nextIP = [p \in Pods |-> 0]
  /\ cache = [p \in Pods |-> None]
  /\ onos = None

-----------------------------------------------------------------------------
(* The process *)

StartStep(p) ==
  /\ QueryCounter(p) \/ ReserveSids(p) \/ StartFails(p)
  /\ UNCHANGED onosVars

(* A forced resync. *)
CacheInvalidate(p) ==
  /\ pc[p] # "down"
  /\ cache' = [cache EXCEPT ![p] = None]
  /\ UNCHANGED <<vars, buildVars, nextIP, onos>>

EndFabric(p) ==
  /\ content' = [content EXCEPT ![p] = None]
  /\ left' = [left EXCEPT ![p] = {}]
  /\ devices' = [devices EXCEPT ![p] = NoDevices]
  /\ sidless' = [sidless EXCEPT ![p] = {}]

CrashPod(p) ==
  /\ Crash(p)
  /\ EndFabric(p)
  /\ nextIP' = [nextIP EXCEPT ![p] = 0]
  /\ cache' = [cache EXCEPT ![p] = None]
  /\ UNCHANGED onos

-----------------------------------------------------------------------------
(* The switches *)

BeginFabric(p, c) ==
  /\ pc[p] = "ready"
  /\ content[p] = None
  /\ nextIP[p] <= MaxIP
  /\ content' = [content EXCEPT ![p] = c]
  /\ left' = [left EXCEPT ![p] = DOMAIN SwitchIn[c]]
  /\ UNCHANGED <<vars, devices, sidless, nextIP, cache, onos>>

(* s is the next switch to be visited. *)
Visits(p, s) == s \in left[p] /\ \A t \in left[p] : Rank[s] <= Rank[t]
Switch(p, s) == SwitchIn[content[p]][s]
Visited(p, s) == left' = [left EXCEPT ![p] = @ \ {s}]

(* What handleSwitch looks at before it asks for a SID. *)
Presentable(sw) == sw.known /\ sw.managed /\ sw.driver

SkipSwitch(p, s) ==
  /\ pc[p] = "ready"
  /\ Visits(p, s)
  /\ ~Presentable(Switch(p, s))
  /\ Visited(p, s)
  /\ UNCHANGED <<vars, content, devices, sidless, nextIP, cache, onos>>

GetSid(p, s) ==
  /\ Visits(p, s)
  /\ Presentable(Switch(p, s))
  /\ CallGet(p, s)
  /\ UNCHANGED onosVars

GetGoesOn(p) ==
  /\ LookupNotFound(p) \/ Increment(p)
  /\ UNCHANGED onosVars

SidUnavailable(p) ==
  /\ LookupError(p) \/ IncrementError(p) \/ PutError(p)
  /\ Visited(p, arg[p])
  /\ sidless' = [sidless EXCEPT ![p] = @ \cup {arg[p]}]
  /\ UNCHANGED <<content, devices, nextIP, cache, onos>>

GetReturns(p) == LookupFound(p) \/ Put(p)

(* Mutant: the local of the allocation is returned, whatever was found. *)
SidReturnedStale(p) == newSid[p]

SidReturned(p) == IF pc[p] = "put" THEN newSid[p] ELSE sidMap[arg[p]]

(* addressToMac(address), managementAddressToIP(address) and addressToMac  *)
(* of the result: for a name each of the first two makes an address up,    *)
(* and so does the third if the second's is no valid one.                  *)
Loopback(sw, n) ==
  IF sw.address # Hostname THEN sw.address
  ELSE IF n + 1 < MadeUpAddresses THEN n + 1
  ELSE NoAddress

MadeUp(sw, n) ==
  IF sw.address # Hostname THEN 0
  ELSE IF n >= MadeUpAddresses \/ ~sw.pipeconf THEN 1
  ELSE IF n + 1 < MadeUpAddresses THEN 2
  ELSE 3

(* Mutant: the error of the second addressToMac is not returned. *)
AcceptedUnchecked(sw, n) == sw.pipeconf

Accepted(sw, n) == sw.pipeconf /\ Loopback(sw, n) # NoAddress

DevicesFor(sw, sid, n) ==
  [sid : {sid}, loopback : {Loopback(sw, n)}, pairLocalPort : PairLocalPorts(sw),
   ports : PortTables(sw)]

Extended(devs, s, device) ==
  [t \in DOMAIN devs \cup {s} |-> IF t = s THEN device ELSE devs[t]]

(* The rest of handleSwitch, once Get has returned the SID. *)
HandleSwitch(p) ==
  LET s == arg[p]
      sw == Switch(p, s)
  IN  /\ GetReturns(p)
      /\ Visited(p, s)
      /\ nextIP' = [nextIP EXCEPT ![p] = @ + MadeUp(sw, nextIP[p])]
      /\ \/ /\ Accepted(sw, nextIP[p])
            /\ \E device \in DevicesFor(sw, SidReturned(p), nextIP[p]) :
                 devices' = [devices EXCEPT ![p] = Extended(@, s, device)]
         \/ /\ ~Accepted(sw, nextIP[p])
            /\ UNCHANGED devices
      /\ UNCHANGED <<content, sidless, cache, onos>>

-----------------------------------------------------------------------------
(* The routes, and the POST *)

(* validateRoute: a route without prefix or address is logged and left out. *)
Routes(c) == {route \in RouteIn[c] : route.complete}

RouteOrders(c) ==
  {order \in [1..Cardinality(Routes(c)) -> Routes(c)] :
     \A route \in Routes(c) : \E i \in DOMAIN order : order[i] = route}

Built(p) ==
  [content : {content[p]}, sidless : {sidless[p]},
   netConfig : [devices : {devices[p]}, routes : RouteOrders(content[p])]]

Ready(p) == pc[p] = "ready" /\ content[p] # None /\ left[p] = {}

(* Mutant: entry == contents compares two pointers, which always differ. *)
CacheCheckIdentity(p, contents) == FALSE

CacheCheck(p, contents) == cache[p] # None /\ cache[p].netConfig = contents

Unchanged(p) ==
  /\ Ready(p)
  /\ partialUpdateEnable
  /\ \E build \in Built(p) : CacheCheck(p, build.netConfig)
  /\ EndFabric(p)
  /\ UNCHANGED <<vars, nextIP, cache, onos>>

MustPost(p, build) == ~(partialUpdateEnable /\ CacheCheck(p, build.netConfig))

(* PushUpdate succeeds, and CacheUpdate. *)
PostAccepted(p) ==
  /\ Ready(p)
  /\ \E build \in Built(p) :
       /\ MustPost(p, build)
       /\ onos' = build
       /\ cache' = [cache EXCEPT ![p] = [content |-> build.content, netConfig |-> build.netConfig]]
  /\ EndFabric(p)
  /\ UNCHANGED <<vars, nextIP>>

(* PushUpdate fails, with or without effect. *)
PostFails(p) ==
  /\ Ready(p)
  /\ \E build \in Built(p) : MustPost(p, build) /\ onos' \in {onos, build}
  /\ EndFabric(p)
  /\ UNCHANGED <<vars, nextIP, cache>>

-----------------------------------------------------------------------------
OnosNext ==
  \E p \in Pods :
    \/ StartStep(p)
    \/ CacheInvalidate(p)
    \/ \E c \in Contents : BeginFabric(p, c)
    \/ \E s \in left[p] : SkipSwitch(p, s) \/ GetSid(p, s)
    \/ GetGoesOn(p) \/ SidUnavailable(p)
    \/ HandleSwitch(p)
    \/ Unchanged(p) \/ PostAccepted(p) \/ PostFails(p)
    \/ CrashPod(p)

OnosSpec == OnosInit /\ [][OnosNext]_allVars

-----------------------------------------------------------------------------
(* Switches with these addresses may come out with one loopback: the content *)
(* gives both the same IP address, or gives one an IP address that the       *)
(* adapter may make up for the other.                                        *)
MayClash(address1, address2) ==
  \/ address1 # Hostname /\ address1 = address2
  \/ \E n \in 0..(MadeUpAddresses - 1) : {address1, address2} = {Hostname, n}

(* The devices ONOS is told of have SIDs of their own, none reserved, and   *)
(* loopbacks of their own unless the content's IP addresses clash, whichever *)
(* pod told it and however many others allocate at the same time, fail or   *)
(* restart: no address is made up twice.                                    *)
DevicesDistinct ==
  onos # None =>
    LET devs == onos.netConfig.devices
        address(s) == SwitchIn[onos.content][s].address
    IN  \A s, t \in DOMAIN devs :
          /\ devs[s].sid > Reserved
          /\ s # t => /\ devs[s].sid # devs[t].sid
                      /\ \/ devs[s].loopback # devs[t].loopback
                         \/ MayClash(address(s), address(t))

(* The SIDs that ONOS has are those on record: the next netconfig, whoever  *)
(* builds it after whatever restart, gives a switch no other one.           *)
SidsOnRecord ==
  onos # None =>
    \A s \in DOMAIN onos.netConfig.devices : onos.netConfig.devices[s].sid = sidMap[s]

Complete(sw) == Presentable(sw) /\ sw.pipeconf

(* One bad switch, port or route costs ONOS that one and no other: the      *)
(* devices are complete switches, and every one that has an IP address and  *)
(* could be given a SID; a device's ports are its good ones, each under its *)
(* own number while cages are below 100; and every good route is there,     *)
(* once.                                                                    *)
NothingElseLost ==
  onos # None =>
    LET devs == onos.netConfig.devices
        switch == SwitchIn[onos.content]
        routes == onos.netConfig.routes
    IN  /\ \A s \in DOMAIN devs : s \in DOMAIN switch /\ Complete(switch[s])
        /\ \A s \in DOMAIN switch \ DOMAIN devs :
             \/ ~Complete(switch[s])
             \/ s \in onos.sidless
             \/ switch[s].address = Hostname
        /\ \A s \in DOMAIN devs :
             (\A port \in switch[s].port : port.cage < 100)
               => \A port \in OnosPorts(switch[s]) :
                    /\ PortID(port) \in DOMAIN devs[s].ports
                    /\ devs[s].ports[PortID(port)] = port
        /\ {routes[i] : i \in DOMAIN routes} = Routes(onos.content)
        /\ \A i, j \in DOMAIN routes : routes[i] = routes[j] => i = j

(* Nothing in the content leaves anything open: every address is given, and  *)
(* there is at most one route to put in order.                              *)
Settled(c) ==
  /\ \A s \in DOMAIN SwitchIn[c] :
       /\ SwitchIn[c][s].address # Hostname
       /\ \A port \in SwitchIn[c][s].port : port.cage < 100
  /\ \A route1, route2 \in Routes(c) : route1 = route2

SameSids(devs1, devs2) ==
  /\ DOMAIN devs1 = DOMAIN devs2
  /\ \A s \in DOMAIN devs1 : devs1[s].sid = devs2[s].sid

(* Pod p may be about to POST again what it POSTed before. *)
Reposts(p) ==
  /\ Ready(p)
  /\ partialUpdateEnable
  /\ cache[p] # None
  /\ cache[p].content = content[p]
  /\ SameSids(cache[p].netConfig.devices, devices[p])
  /\ \E build \in Built(p) : MustPost(p, build)

(* "be deterministic...", and CacheCheck "returns true if ... the contents  *)
(* have not changed": a fabric whose configuration and SIDs stay what they  *)
(* are is not POSTed a second time.  So it is if its content is settled;    *)
(* with two routes, a switch known by name, or two ports of one number, it  *)
(* may be.                                                                  *)
SettledNotReposted == \A p \in Pods : Reposts(p) => ~Settled(content[p])
=============================================================================
