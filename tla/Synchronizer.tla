------------------------------ MODULE Synchronizer ------------------------------
(***************************************************************************)
(* The synchronizer of pkg/synchronizer: the buffer and the loop of        *)
(* UpdateQueue, and what synchronizeDeviceFunc does in production          *)
(* (synchronize-device.go): for every fabric of the update, look its       *)
(* controller up in onos-topo, build the ONOS netconfig, POST it unless    *)
(* the cache (cache.go) holds the same one, then set the chassis           *)
(* configuration of every switch over gNMI.  Translation of the contents   *)
(* is abstracted to which switches end up in the netconfig.                *)
(***************************************************************************)
EXTENDS UpdateQueue

CONSTANTS
  Fabrics,        \* fabric identifiers, the targets of the gNMI server
  Contents,       \* configurations of one fabric
  Switches,       \* switch identifiers
  SwitchesOf,     \* SwitchesOf[c]: the switches of c whose model is known,
                  \* sorted by identifier
  Incomplete,     \* Incomplete[c]: those handleSwitch rejects, SID apart
  Unmanaged,      \* Unmanaged[c]: those without management address or port
  Renderings,     \* ways to write a netconfig down: the order of its routes,
                  \* the addresses made up for switches known by name
  RenderingsOf,   \* RenderingsOf[c]: those a build from c may come out with
  Nothing,        \* no netconfig, no chassis configuration, no fabric
  partialUpdateEnable,   \* the option: is the cache consulted?
  TopoFails,      \* may the look up in onos-topo fail?
  SidFails,       \* may sidStore.Get fail?
  RepliesLost,    \* may a push be applied and yet be reported as failed?
  DialPanics,     \* may using a client made of no connection panic?
  MaxCrashes      \* bound on the number of crashes

NetConfig == [content : Contents, devices : SUBSET Switches, rendering : Renderings]

(* What may be built from content c *)
NetConfigsFrom(c) ==
  [content : {c}, devices : SUBSET Switches, rendering : RenderingsOf[c]]

ASSUME SynchronizerAssumption ==
  /\ \A config \in Configs : \E F \in SUBSET Fabrics : config \in [F -> Contents]
  /\ SwitchesOf \in [Contents -> Seq(Switches)]
  /\ Incomplete \in [Contents -> SUBSET Switches]
  /\ Unmanaged \in [Contents -> SUBSET Switches]
  /\ RenderingsOf \in [Contents -> SUBSET Renderings]
  /\ \A c \in Contents : Unmanaged[c] \subseteq Incomplete[c]
  /\ Nothing \notin Contents \cup Fabrics /\ Nothing \notin NetConfig
  /\ {partialUpdateEnable, TopoFails, SidFails, RepliesLost, DialPanics} \subseteq BOOLEAN
  /\ MaxCrashes \in Nat

VARIABLES
  cache,         \* cache[f]: what CacheUpdate recorded of fabric f
  phase,         \* where SynchronizeDevice is
  todo,          \* the fabrics this round has yet to visit
  fabric,        \* scope.FabricId, the fabric being visited
  netConfig,     \* scope.NetConfig
  switchesLeft,  \* the switches SynchronizeFabricToStratum has yet to visit
  pushFailures,  \* pushFailuresTotal
  onos,          \* onos[f]: the netconfig fabric f's ONOS has applied
  stratum,       \* stratum[f][s]: the content switch s of f has applied
  acked,         \* history: acked[f], the netconfig of the last POST for f
                 \* that was answered with success
  owed,          \* history: the fabrics not POSTed since the last forced resync
  crashes        \* how often the process has crashed

roundVars == <<phase, todo, fabric, netConfig, switchesLeft, pushFailures>>
coreVars == <<onos, stratum>>
historyVars == <<acked, owed>>
deviceVars == <<cache, roundVars, coreVars, historyVars, crashes>>
syncVars == <<vars, deviceVars>>

Phases == {"none", "fabrics", "build", "post", "cacheUpdate", "stratum"}
MaybeNetConfig == NetConfig \cup {Nothing}

SyncTypeOK ==
  /\ TypeOK
  /\ cache \in [Fabrics -> MaybeNetConfig]
  /\ phase \in Phases
  /\ todo \subseteq Fabrics
  /\ fabric \in Fabrics \cup {Nothing}
  /\ netConfig \in MaybeNetConfig
  /\ switchesLeft \in Seq(Switches)
  /\ pushFailures \in Nat
  /\ onos \in [Fabrics -> MaybeNetConfig]
  /\ stratum \in [Fabrics -> [Switches -> Contents \cup {Nothing}]]
  /\ acked \in [Fabrics -> MaybeNetConfig]
  /\ owed \subseteq Fabrics
  /\ crashes \in 0..MaxCrashes

EmptyCache == [f \in Fabrics |-> Nothing]

SyncInit ==
  /\ Init
  /\ cache = EmptyCache
  /\ phase = "none"
  /\ todo = {}
  /\ fabric = Nothing
  /\ netConfig = Nothing
  /\ switchesLeft = <<>>
  /\ pushFailures = 0
  /\ onos = [f \in Fabrics |-> Nothing]
  /\ stratum = [f \in Fabrics |-> [s \in Switches |-> Nothing]]
  /\ acked = [f \in Fabrics |-> Nothing]
  /\ owed = {}
  /\ crashes = 0

-----------------------------------------------------------------------------
(* The buffer and the loop, outside a round *)

(* Synchronize called with callbackType Forced empties the cache, whatever *)
(* the loop is doing.                                                      *)
CacheInvalidate(c) ==
  /\ Invalidated(c)
  /\ cache' = EmptyCache
  /\ owed' = Fabrics
  /\ UNCHANGED <<roundVars, coreVars, acked, crashes>>

QueueStep ==
  /\ \/ Start \/ StartFails
     \/ \E c \in Callers : Request(c)
     \/ \E c \in Callers : EnqueueStep(c) /\ call[c] # "invalidate"
     \/ Dequeue \/ Obsoleted \/ WakeUp \/ complete
  /\ UNCHANGED deviceVars

-----------------------------------------------------------------------------
(* SynchronizeDevice *)

BeginRound ==
  /\ CallSynchronizeDevice
  /\ phase' = "fabrics"
  /\ todo' = DOMAIN current.config
  /\ pushFailures' = 0
  /\ UNCHANGED <<cache, fabric, netConfig, switchesLeft, coreVars, historyVars, crashes>>

(* Mutant: the failures of the fabrics already visited are forgotten. *)
LookupControllerAnew(f) ==
  /\ phase = "fabrics"
  /\ f \in todo
  /\ todo' = todo \ {f}
  /\ fabric' = f
  /\ phase' = "build"
  /\ pushFailures' = 0
  /\ UNCHANGED <<vars, cache, netConfig, switchesLeft, coreVars, historyVars, crashes>>

(* lookupFabricControllerInfo; the map of fabrics is ranged over in any order. *)
LookupController(f) ==
  /\ phase = "fabrics"
  /\ f \in todo
  /\ todo' = todo \ {f}
  /\ fabric' = f
  /\ phase' = "build"
  /\ UNCHANGED <<vars, cache, netConfig, switchesLeft, pushFailures, coreVars,
                 historyVars, crashes>>

EndRound ==
  /\ phase' = "none"
  /\ todo' = {}
  /\ fabric' = Nothing
  /\ netConfig' = Nothing
  /\ switchesLeft' = <<>>
  /\ pushFailures' = 0

(* The look up fails: the round returns 0, err at once. *)
LookupFails ==
  /\ TopoFails
  /\ phase = "fabrics"
  /\ todo # {}
  /\ SynchronizeDeviceReturns(0, TRUE)
  /\ EndRound
  /\ UNCHANGED <<cache, coreVars, historyVars, crashes>>

SyncDone ==
  /\ phase = "fabrics"
  /\ todo = {}
  /\ SynchronizeDeviceReturns(pushFailures, FALSE)
  /\ EndRound
  /\ UNCHANGED <<cache, coreVars, historyVars, crashes>>

-----------------------------------------------------------------------------
(* SynchronizeFabricToOnos *)

(* Mutant: the variables of the range over the fabrics are captured. *)
contentCaptured == current.config[CHOOSE f \in DOMAIN current.config : TRUE]

content == current.config[fabric]

(* Mutant: any entry will do. *)
CacheCheckPresence(f, contents) == cache[f] # Nothing

CacheCheck(f, contents) == cache[f] = contents

(* A round goes on to Stratum however the push to ONOS ended. *)
ToStratum ==
  /\ phase' = "stratum"
  /\ switchesLeft' = SwitchesOf[content]

(* The switches handleSwitch adds to the netconfig: one it rejects, or whose *)
(* SID cannot be had, is logged and left out.                                *)
Devices ==
  LET complete_ == {SwitchesOf[content][i] : i \in DOMAIN SwitchesOf[content]}
                     \ Incomplete[content]
  IN  IF SidFails THEN SUBSET complete_ ELSE {complete_}

BuildNetConfig ==
  /\ phase = "build"
  /\ netConfig' \in
       [content : {content}, devices : Devices, rendering : RenderingsOf[content]]
  /\ IF partialUpdateEnable /\ CacheCheck(fabric, netConfig')
     THEN ToStratum
     ELSE phase' = "post" /\ UNCHANGED switchesLeft
  /\ UNCHANGED <<vars, cache, todo, fabric, pushFailures, coreVars, historyVars, crashes>>

(* The POST is applied and answered with a 2xx status. *)
PostAccepted ==
  /\ phase = "post"
  /\ onos' = [onos EXCEPT ![fabric] = netConfig]
  /\ acked' = [acked EXCEPT ![fabric] = netConfig]
  /\ owed' = owed \ {fabric}
  /\ phase' = "cacheUpdate"
  /\ UNCHANGED <<vars, cache, todo, fabric, netConfig, switchesLeft, pushFailures,
                 stratum, crashes>>

CountFailure == pushFailures' = pushFailures + 1

(* Mutant: the result of PushUpdate is not looked at. *)
PostFailsUnnoticed ==
  /\ phase = "post"
  /\ \/ UNCHANGED onos
     \/ RepliesLost /\ onos' = [onos EXCEPT ![fabric] = netConfig]
  /\ owed' = owed \ {fabric}
  /\ phase' = "cacheUpdate"
  /\ UNCHANGED <<vars, cache, todo, fabric, netConfig, switchesLeft, pushFailures,
                 stratum, acked, crashes>>

(* Mutant: the failure is not counted. *)
PostFailsUncounted ==
  /\ phase = "post"
  /\ \/ UNCHANGED onos
     \/ RepliesLost /\ onos' = [onos EXCEPT ![fabric] = netConfig]
  /\ owed' = owed \ {fabric}
  /\ ToStratum
  /\ UNCHANGED <<vars, cache, todo, fabric, netConfig, pushFailures, stratum, acked,
                 crashes>>

(* The POST fails: one push failure.  What ONOS holds has changed if only  *)
(* the reply was lost, or came after the timeout.  An effect that comes    *)
(* after later steps of the client is not modelled.                        *)
PostFails ==
  /\ phase = "post"
  /\ \/ UNCHANGED onos
     \/ RepliesLost /\ onos' = [onos EXCEPT ![fabric] = netConfig]
  /\ owed' = owed \ {fabric}
  /\ CountFailure
  /\ ToStratum
  /\ UNCHANGED <<vars, cache, todo, fabric, netConfig, stratum, acked, crashes>>

CacheUpdate ==
  /\ phase = "cacheUpdate"
  /\ cache' = [cache EXCEPT ![fabric] = netConfig]
  /\ ToStratum
  /\ UNCHANGED <<vars, todo, fabric, netConfig, pushFailures, coreVars, historyVars, crashes>>

-----------------------------------------------------------------------------
(* SynchronizeFabricToStratum *)

VisitSwitch ==
  /\ phase = "stratum"
  /\ switchesLeft # <<>>
  /\ Head(switchesLeft) \notin Unmanaged[content]

ApplyChassis == stratum' = [stratum EXCEPT ![fabric][Head(switchesLeft)] = content]

SetAccepted ==
  /\ VisitSwitch
  /\ ApplyChassis
  /\ switchesLeft' = Tail(switchesLeft)
  /\ UNCHANGED <<vars, cache, phase, todo, fabric, netConfig, pushFailures, onos,
                 historyVars, crashes>>

(* The gNMI Set fails, with or without effect: the switches left are not   *)
(* visited, and this is one push failure.                                  *)
SetFails ==
  /\ VisitSwitch
  /\ UNCHANGED stratum \/ (RepliesLost /\ ApplyChassis)
  /\ switchesLeft' = <<>>
  /\ CountFailure
  /\ UNCHANGED <<vars, cache, phase, todo, fabric, netConfig, onos, historyVars, crashes>>

FabricDone ==
  /\ phase = "stratum"
  /\ switchesLeft = <<>>
  /\ phase' = "fabrics"
  /\ UNCHANGED <<vars, cache, todo, fabric, netConfig, switchesLeft, pushFailures,
                 coreVars, historyVars, crashes>>

-----------------------------------------------------------------------------
(* The process dies and is started again: what the core has applied stays, *)
(* the configuration comes back with the next requests.                    *)
Die ==
  /\ tree' = [tree EXCEPT !.config = InitialConfig]
  /\ channel' = <<>>
  /\ busy' = 0
  /\ call' = [c \in Callers |-> "idle"]
  /\ arg' = [c \in Callers |-> NoUpdate]
  /\ loop' = "off"
  /\ current' = NoUpdate
  /\ offered' = NoUpdate
  /\ taken' = NoUpdate
  /\ cache' = EmptyCache
  /\ owed' = {}
  /\ EndRound
  /\ UNCHANGED <<coreVars, acked>>

Crash ==
  /\ crashes < MaxCrashes
  /\ crashes' = crashes + 1
  /\ Die

(* A switch without management address: handleStratumSwitch's error is     *)
(* logged, and the address is dereferenced all the same.                   *)
PanicOnUnmanaged ==
  /\ phase = "stratum"
  /\ switchesLeft # <<>>
  /\ Head(switchesLeft) \in Unmanaged[content]
  /\ Die
  /\ UNCHANGED crashes

(* The connection to a switch is not made: the error is logged, and the    *)
(* client is used and closed all the same.  If that does not end the       *)
(* process, the Set fails.                                                 *)
PanicOnDial ==
  /\ VisitSwitch
  /\ DialPanics
  /\ Die
  /\ UNCHANGED crashes

-----------------------------------------------------------------------------
RoundStep ==
  \/ BeginRound
  \/ \E f \in Fabrics : LookupController(f)
  \/ LookupFails
  \/ BuildNetConfig
  \/ PostAccepted \/ PostFails \/ CacheUpdate
  \/ SetAccepted \/ SetFails \/ FabricDone
  \/ SyncDone
  \/ PanicOnUnmanaged \/ PanicOnDial

SyncNext ==
  \/ QueueStep
  \/ \E c \in Callers : CacheInvalidate(c)
  \/ RoundStep
  \/ Crash

SyncSpec == SyncInit /\ [][SyncNext]_syncVars

LoopIsOn ==
  \/ (Dequeue \/ Obsoleted \/ WakeUp \/ complete) /\ UNCHANGED deviceVars
  \/ RoundStep

(* Go schedules the goroutines; and the core, asked again and again, answers *)
(* in the end: the retries could achieve nothing otherwise.                  *)
SyncFairness ==
  /\ WF_syncVars((Start \/ StartFails) /\ UNCHANGED deviceVars)
  /\ \A c \in Callers :
       /\ WF_syncVars(EnqueueStep(c) /\ call[c] # "invalidate" /\ UNCHANGED deviceVars)
       /\ WF_syncVars(CacheInvalidate(c))
  /\ WF_syncVars(LoopIsOn)
  /\ \A f \in Fabrics :
       /\ SF_syncVars(LookupController(f))
       /\ SF_syncVars(PostAccepted /\ fabric = f)
       /\ \A s \in Switches : SF_syncVars(SetAccepted /\ fabric = f /\ Head(switchesLeft) = s)

SyncFairSpec == SyncSpec /\ SyncFairness

-----------------------------------------------------------------------------
(* The cache never holds anything but the last netconfig ONOS acknowledged *)
(* ("data that is pushed to the core", cache.go), whatever fails and       *)
(* whenever it is invalidated.                                             *)
CacheIsLastAcked ==
  \A f \in Fabrics :
    \/ cache[f] \in {Nothing, acked[f]}
    \/ phase = "cacheUpdate" /\ fabric = f

Success == SyncDone /\ pushFailures = 0

SwitchesSet(f, c) ==
  \A i \in DOMAIN SwitchesOf[c] : stratum[f][SwitchesOf[c][i]] = c

(* The loop stops working on an update, with success, only when every      *)
(* fabric's ONOS has acknowledged a netconfig made from it and every       *)
(* switch of a known model has applied its chassis configuration.          *)
SuccessMeansPushed ==
  [][Success => \A f \in DOMAIN current.config :
                  /\ acked[f] \in NetConfigsFrom(current.config[f])
                  /\ SwitchesSet(f, current.config[f])]_syncVars

(* ... and only when ONOS is configured accordingly: "netconfig has not    *)
(* changed" is said of what ONOS has.                                      *)
SuccessMeansApplied ==
  [][Success => \A f \in DOMAIN current.config :
                  onos[f] \in NetConfigsFrom(current.config[f])]_syncVars

(* A fabric's ONOS and its switches only ever apply what the update being   *)
(* worked on says of that very fabric: fabrics are not mixed up, whatever   *)
(* their order, and a retry undoes nothing that an earlier round applied.   *)
OnlyOwnApplied ==
  [][\A f \in Fabrics :
       LET own == f \in DOMAIN current.config
       IN  /\ onos'[f] # onos[f] => own /\ onos'[f] \in NetConfigsFrom(current.config[f])
           /\ \A s \in Switches :
                stratum'[f][s] # stratum[f][s] => own /\ stratum'[f][s] = current.config[f]
    ]_syncVars

Applied(config) ==
  \A f \in DOMAIN config :
    /\ onos[f] \in NetConfigsFrom(config[f])
    /\ SwitchesSet(f, config[f])

(* Once no more updates are sent, the last one is applied in the end, and  *)
(* stays so ("automatically retries if synchronization fails").            *)
Converges ==
  [](loop # "dead") =>
    \A config \in Configs :
      <>[](offered.version > 0 /\ offered.config = config) => <>[]Applied(config)

(* A forced resync POSTs every fabric anew: the cache cannot make it skip  *)
(* one that was not POSTed since.                                          *)
ForcedTakesEffect ==
  [][phase = "build" /\ phase' = "stratum" => fabric \notin owed]_syncVars

(* "log the error and continue with next switch"                           *)
ContinuesWithNextSwitch ==
  [][(phase = "stratum" /\ switchesLeft # <<>> /\ Head(switchesLeft) \in Unmanaged[content])
       => (phase' = "stratum" /\ switchesLeft' = Tail(switchesLeft))]_<<phase, switchesLeft>>
=============================================================================
