-------------------------- MODULE Synchronizer_proofs --------------------------
(***************************************************************************)
(* Proofs about Synchronizer, for any fabrics, switches, configurations    *)
(* and finite number of callers, any failures and any number of crashes:   *)
(* the cache is what ONOS last acknowledged, success means that all was    *)
(* pushed, and nothing is pushed but what the update says of the fabric.   *)
(* What a lost reply and an untimely forced resync may break holds without *)
(* them.                                                                   *)
(***************************************************************************)
EXTENDS Synchronizer, UpdateQueue_proofs

LEMMA ConfigTypes ==
  ASSUME NEW config \in Configs
  PROVE  /\ DOMAIN config \subseteq Fabrics
         /\ \A f \in DOMAIN config : config[f] \in Contents
<1>1. PICK F \in SUBSET Fabrics : config \in [F -> Contents]
  BY SynchronizerAssumption
<1>2. QED
  BY <1>1

-----------------------------------------------------------------------------
(* What a step of the synchronizer is to the queue *)

Panics == PanicOnUnmanaged \/ PanicOnDial

LEMMA StepView ==
  ASSUME pushFailures \in Nat,
         QueueStep \/ (\E c \in Callers : CacheInvalidate(c)) \/ RoundStep
  PROVE  [Next]_vars \/ Panics
<1>1. ASSUME QueueStep PROVE Next
  BY <1>1 DEF QueueStep, Next, LoopStep
<1>2. ASSUME NEW c \in Callers, CacheInvalidate(c) PROVE Next
  BY <1>2 DEF CacheInvalidate, Next, EnqueueStep
<1>3. ASSUME BeginRound PROVE Next
  BY <1>3 DEF BeginRound, Next, LoopStep
<1>4. ASSUME LookupFails PROVE Next
  <2>1. SynchronizeDeviceReturns(0, TRUE)
    BY <1>4 DEF LookupFails
  <2>2. 0 \in 0..1 /\ TRUE \in BOOLEAN
    OBVIOUS
  <2>3. DeviceStep
    BY <2>1, <2>2, Zenon DEF DeviceStep
  <2>4. QED
    BY <2>3 DEF Next
<1>5. ASSUME SyncDone PROVE Next
  <2>1. SynchronizeDeviceReturns(pushFailures, FALSE)
    BY <1>5 DEF SyncDone
  <2>2. PICK n \in 0..1 : n > 0 <=> pushFailures > 0
    OBVIOUS
  <2>3. SynchronizeDeviceReturns(n, FALSE)
    BY <2>1, <2>2 DEF SynchronizeDeviceReturns
  <2>4. DeviceStep
    BY <2>3, Zenon DEF DeviceStep
  <2>5. QED
    BY <2>4 DEF Next
<1>6. ASSUME \/ \E f \in Fabrics : LookupController(f)
             \/ BuildNetConfig \/ PostAccepted \/ PostFails \/ CacheUpdate
             \/ SetAccepted \/ SetFails \/ FabricDone
      PROVE  UNCHANGED vars
  BY <1>6 DEF LookupController, BuildNetConfig, PostAccepted, PostFails, CacheUpdate,
     SetAccepted, SetFails, FabricDone
<1>7. QED
  BY <1>1, <1>2, <1>3, <1>4, <1>5, <1>6 DEF RoundStep, Panics

LEMMA QueueView ==
  ASSUME pushFailures \in Nat, [SyncNext]_syncVars
  PROVE  [Next]_vars \/ Die
<1>1. CASE Panics \/ Crash
  BY <1>1 DEF Panics, PanicOnUnmanaged, PanicOnDial, Crash
<1>2. CASE UNCHANGED syncVars
  BY <1>2 DEF syncVars
<1>3. CASE SyncNext /\ ~Panics /\ ~Crash
  BY <1>3, StepView DEF SyncNext
<1>4. QED
  BY <1>1, <1>2, <1>3

LEMMA DieResets ==
  ASSUME TypeOK, Die
  PROVE  BusyInv'
<1>0. NoUpdate \in Update
  BY UpdateQueueAssumption DEF Update, NoUpdate
<1>1. TypeOK'
  <2>1. tree' \in Update
    BY UpdateQueueAssumption DEF TypeOK, Die, Update
  <2>2. call' \in [Callers -> CallStates] /\ arg' \in [Callers -> Update]
    BY <1>0 DEF Die, CallStates
  <2>3. channel' \in Seq(Update) /\ Len(channel') <= 1
    BY DEF Die
  <2>4. QED
    BY <1>0, <2>1, <2>2, <2>3 DEF TypeOK, Die, LoopStates
<1>2. Queueing' = {} /\ Discounting' = {}
  BY DEF Die, Queueing, Discounting
<1>3. busy' = 0 /\ Len(channel') = 0 /\ ~Servicing'
  BY DEF Die, Servicing
<1>4. BusyExact'
  BY <1>2, <1>3, FS_EmptySet DEF BusyExact
<1>5. QED
  BY <1>1, <1>4 DEF BusyInv

LEMMA QueueInvStep ==
  ASSUME BusyInv, pushFailures \in Nat, [SyncNext]_syncVars
  PROVE  BusyInv'
  BY QueueView, BusyStep, DieResets DEF BusyInv

(* The steps of the callbacks and of the loop outside a round leave the     *)
(* round and what was pushed alone.                                        *)
Aside == QueueStep \/ (\E c \in Callers : CacheInvalidate(c)) \/ UNCHANGED syncVars

LEMMA AsideLeavesRound ==
  ASSUME Aside
  PROVE  /\ UNCHANGED <<roundVars, coreVars, acked, crashes>>
         /\ cache' \in {cache, EmptyCache}
         /\ owed' \in {owed, Fabrics}
         /\ loop = "sync" => UNCHANGED loopVars
<1>1. ASSUME QueueStep PROVE loop = "sync" => UNCHANGED loopVars
  BY <1>1 DEF QueueStep, Start, StartFails, Request, ForceResync, Set, Delete, EnqueueStep,
     Invalidated, Copy, CopyFails, Count, DrainOne, Discount, DrainDone, Send,
     Dequeue, Obsoleted, WakeUp, complete, callerVars, loopVars
<1>2. ASSUME NEW c \in Callers, CacheInvalidate(c)
      PROVE  /\ UNCHANGED <<roundVars, coreVars, acked, crashes, loopVars>>
             /\ cache' = EmptyCache /\ owed' = Fabrics
  BY <1>2 DEF CacheInvalidate, Invalidated
<1>3. ASSUME QueueStep
      PROVE  UNCHANGED <<roundVars, coreVars, acked, crashes, cache, owed>>
  BY <1>3 DEF QueueStep, deviceVars, historyVars
<1>4. CASE UNCHANGED syncVars
  BY <1>4 DEF syncVars, vars, deviceVars, historyVars, loopVars
<1>5. QED
  BY <1>1, <1>2, <1>3, <1>4 DEF Aside

-----------------------------------------------------------------------------
(* The types, and where a round is *)

DeviceTypeOK ==
  /\ cache \in [Fabrics -> MaybeNetConfig]
  /\ phase \in Phases
  /\ todo \subseteq Fabrics
  /\ fabric \in Fabrics \cup {Nothing}
  /\ netConfig \in MaybeNetConfig
  /\ switchesLeft \in Seq(Switches)
  /\ pushFailures \in Nat
  /\ onos \in [Fabrics -> MaybeNetConfig]
  /\ stratum \in [Fabrics -> [Switches -> Contents \cup {Nothing}]]
  /\ acked \in [Fabrics -> MaybeNetConfig]
  /\ owed \subseteq Fabrics
  /\ crashes \in 0..MaxCrashes

NetConfigsOf(f) == NetConfigsFrom(current.config[f])

(* While a round lasts the loop keeps its update, the fabric visited is     *)
(* one of the update's, and what is POSTed for it was made from it.         *)
RoundInv ==
  /\ phase # "none" => loop = "sync" /\ todo \subseteq DOMAIN current.config
  /\ phase \in {"build", "post", "cacheUpdate", "stratum"} =>
       fabric \in DOMAIN current.config \ todo
  /\ phase \in {"post", "cacheUpdate"} => netConfig \in NetConfigsOf(fabric)
  /\ phase = "cacheUpdate" => acked[fabric] = netConfig

SyncInv == BusyInv /\ DeviceTypeOK /\ RoundInv

LEMMA SyncTypes == SyncTypeOK <=> TypeOK /\ DeviceTypeOK
  BY DEF SyncTypeOK, DeviceTypeOK

LEMMA Visited ==
  ASSUME SyncInv, phase \in {"build", "post", "cacheUpdate", "stratum"}
  PROVE  /\ fabric \in Fabrics
         /\ content \in Contents
         /\ SwitchesOf[content] \in Seq(Switches)
         /\ NetConfigsOf(fabric) \subseteq NetConfig
         /\ Devices \subseteq SUBSET Switches
<1>1. current.config \in Configs
  BY DEF SyncInv, BusyInv, TypeOK, Update
<1>2. fabric \in DOMAIN current.config
  BY DEF SyncInv, RoundInv
<1>3. fabric \in Fabrics /\ content \in Contents
  BY <1>1, <1>2, ConfigTypes DEF content
<1>4. SwitchesOf[content] \in Seq(Switches)
  BY <1>3, SynchronizerAssumption
<1>5. NetConfigsOf(fabric) \subseteq NetConfig
  BY <1>3, SynchronizerAssumption DEF NetConfigsOf, NetConfigsFrom, NetConfig, content
<1>6. {SwitchesOf[content][i] : i \in DOMAIN SwitchesOf[content]} \subseteq Switches
  BY <1>4
<1>7. Devices \subseteq SUBSET Switches
  BY <1>6 DEF Devices
<1>8. QED
  BY <1>3, <1>4, <1>5, <1>7

LEMMA EndRoundTypes ==
  ASSUME EndRound
  PROVE  /\ phase' = "none" /\ todo' = {} /\ fabric' = Nothing /\ netConfig' = Nothing
         /\ switchesLeft' \in Seq(Switches) /\ pushFailures' = 0
  BY DEF EndRound

LEMMA SyncInvInit == SyncInit => SyncInv
<1> SUFFICES ASSUME SyncInit PROVE SyncInv
  OBVIOUS
<1>1. Queueing = {} /\ Discounting = {}
  BY DEF SyncInit, Init, Queueing, Discounting
<1>2. BusyInv
  BY <1>1, TypeInit, FS_EmptySet DEF SyncInit, Init, BusyInv, BusyExact, Servicing
<1>3. DeviceTypeOK /\ RoundInv
  BY SynchronizerAssumption
  DEF SyncInit, DeviceTypeOK, RoundInv, MaybeNetConfig, EmptyCache, Phases
<1>4. QED
  BY <1>2, <1>3 DEF SyncInv

LEMMA SyncStep ==
  ASSUME SyncInv, [SyncNext]_syncVars
  PROVE  SyncInv'
<1>1. BusyInv'
  BY QueueInvStep DEF SyncInv, DeviceTypeOK
<1> DEFINE Rest == DeviceTypeOK' /\ RoundInv'
<1> USE DEF DeviceTypeOK, RoundInv, roundVars, coreVars, historyVars
<1>2. ASSUME Aside PROVE Rest
  <2>1. EmptyCache \in [Fabrics -> MaybeNetConfig]
    BY DEF EmptyCache, MaybeNetConfig
  <2>2. DeviceTypeOK'
    BY <1>2, <2>1, AsideLeavesRound DEF SyncInv
  <2>3. RoundInv'
    BY <1>2, AsideLeavesRound DEF SyncInv, loopVars, NetConfigsOf
  <2>4. QED
    BY <2>2, <2>3
<1>3. ASSUME BeginRound PROVE Rest
  <2>1. current.config \in Configs
    BY DEF SyncInv, BusyInv, TypeOK, Update
  <2>2. QED
    BY <1>3, <2>1, ConfigTypes DEF BeginRound, CallSynchronizeDevice, SyncInv, Phases
<1>4. ASSUME NEW f \in Fabrics, LookupController(f) PROVE Rest
  BY <1>4 DEF LookupController, SyncInv, Phases, vars
<1>5. ASSUME LookupFails \/ SyncDone PROVE Rest
  <2>1. EndRound /\ UNCHANGED <<cache, coreVars, historyVars, crashes>>
    BY <1>5 DEF LookupFails, SyncDone
  <2>2. QED
    BY <2>1, EndRoundTypes DEF SyncInv, Phases, MaybeNetConfig
<1>6. ASSUME BuildNetConfig PROVE Rest
  <2>1. netConfig' \in NetConfigsOf(fabric) /\ netConfig' \in NetConfig
    BY <1>6, Visited DEF BuildNetConfig, NetConfigsOf, NetConfigsFrom, content
  <2>2. switchesLeft' \in Seq(Switches) /\ phase' \in {"post", "stratum"}
    BY <1>6, Visited DEF BuildNetConfig, ToStratum, SyncInv
  <2>3. /\ phase = "build"
        /\ UNCHANGED <<loop, current, cache, todo, fabric, pushFailures, coreVars, historyVars,
                       crashes>>
    BY <1>6 DEF BuildNetConfig, vars
  <2>4. NetConfigsOf(fabric)' = NetConfigsOf(fabric)
    BY ONLY <2>3 DEF NetConfigsOf
  <2>5. DeviceTypeOK'
    BY <2>1, <2>2, <2>3 DEF SyncInv, Phases, MaybeNetConfig
  <2>6. RoundInv'
    BY <2>1, <2>2, <2>3, <2>4 DEF SyncInv
  <2>7. QED
    BY <2>5, <2>6
<1>7. ASSUME PostAccepted PROVE Rest
  <2>1. /\ phase = "post" /\ phase' = "cacheUpdate"
        /\ onos' = [onos EXCEPT ![fabric] = netConfig]
        /\ acked' = [acked EXCEPT ![fabric] = netConfig]
        /\ owed' \subseteq owed
        /\ UNCHANGED <<loop, current, cache, todo, fabric, netConfig, switchesLeft,
                       pushFailures, stratum, crashes>>
    BY <1>7 DEF PostAccepted, vars
  <2>2. fabric \in Fabrics
    BY <2>1, Visited
  <2>3. NetConfigsOf(fabric)' = NetConfigsOf(fabric)
    BY ONLY <2>1 DEF NetConfigsOf
  <2>4. DeviceTypeOK'
    BY <2>1, <2>2 DEF SyncInv, Phases
  <2>5. RoundInv'
    BY <2>1, <2>2, <2>3 DEF SyncInv
  <2>6. QED
    BY <2>4, <2>5
<1>8. ASSUME PostFails PROVE Rest
  <2>1. /\ phase = "post" /\ phase' = "stratum"
        /\ onos' = onos \/ onos' = [onos EXCEPT ![fabric] = netConfig]
        /\ owed' \subseteq owed
        /\ pushFailures' = pushFailures + 1
        /\ switchesLeft' = SwitchesOf[content]
        /\ UNCHANGED <<loop, current, cache, todo, fabric, netConfig, stratum, acked, crashes>>
    BY <1>8 DEF PostFails, CountFailure, ToStratum, vars
  <2>2. fabric \in Fabrics /\ switchesLeft' \in Seq(Switches)
    BY <2>1, Visited
  <2>3. pushFailures' \in Nat
    BY <2>1 DEF SyncInv
  <2>4. DeviceTypeOK'
    BY <2>1, <2>2, <2>3 DEF SyncInv, Phases
  <2>5. RoundInv'
    BY <2>1 DEF SyncInv
  <2>6. QED
    BY <2>4, <2>5
<1>9. ASSUME CacheUpdate PROVE Rest
  <2>1. /\ phase = "cacheUpdate" /\ phase' = "stratum"
        /\ cache' = [cache EXCEPT ![fabric] = netConfig]
        /\ switchesLeft' = SwitchesOf[content]
        /\ UNCHANGED <<loop, current, todo, fabric, netConfig, pushFailures, coreVars,
                       historyVars, crashes>>
    BY <1>9 DEF CacheUpdate, ToStratum, vars
  <2>2. fabric \in Fabrics /\ switchesLeft' \in Seq(Switches)
    BY <2>1, Visited
  <2>3. DeviceTypeOK'
    BY <2>1, <2>2 DEF SyncInv, Phases
  <2>4. RoundInv'
    BY <2>1 DEF SyncInv
  <2>5. QED
    BY <2>3, <2>4
<1>10. ASSUME SetAccepted \/ SetFails PROVE Rest
  <2>1. /\ phase = "stratum" /\ switchesLeft # <<>>
        /\ stratum' = stratum \/ ApplyChassis
        /\ switchesLeft' \in {Tail(switchesLeft), <<>>}
        /\ pushFailures' \in {pushFailures, pushFailures + 1}
        /\ UNCHANGED <<loop, current, cache, phase, todo, fabric, netConfig, onos, historyVars,
                       crashes>>
    BY <1>10 DEF SetAccepted, SetFails, VisitSwitch, CountFailure, vars
  <2>2. switchesLeft \in Seq(Switches) /\ pushFailures \in Nat
    BY DEF SyncInv
  <2>3. /\ Head(switchesLeft) \in Switches
        /\ Tail(switchesLeft) \in Seq(Switches) /\ <<>> \in Seq(Switches)
    BY ONLY <2>1, <2>2, HeadTailProperties
  <2>4. switchesLeft' \in Seq(Switches)
    BY ONLY <2>1, <2>3
  <2>5. pushFailures' \in Nat
    BY ONLY <2>1, <2>2
  <2>6. content \in Contents
    BY <2>1, Visited
  <2>7. stratum \in [Fabrics -> [Switches -> Contents \cup {Nothing}]]
    BY DEF SyncInv
  <2>8. stratum' \in [Fabrics -> [Switches -> Contents \cup {Nothing}]]
    BY ONLY <2>1, <2>3, <2>6, <2>7 DEF ApplyChassis
  <2>9. DeviceTypeOK'
    BY <2>1, <2>4, <2>5, <2>8 DEF SyncInv
  <2>10. RoundInv'
    BY <2>1 DEF SyncInv
  <2>11. QED
    BY <2>9, <2>10
<1>11. ASSUME FabricDone PROVE Rest
  BY <1>11 DEF FabricDone, SyncInv, Phases, vars
<1>12. ASSUME Panics \/ Crash PROVE Rest
  <2>1. Die /\ crashes' \in 0..MaxCrashes
    BY <1>12, SynchronizerAssumption DEF Panics, PanicOnUnmanaged, PanicOnDial, Crash, SyncInv
  <2>2. QED
    BY <2>1, EndRoundTypes DEF Die, SyncInv, Phases, MaybeNetConfig, EmptyCache
<1>13. QED
  BY <1>1, <1>2, <1>3, <1>4, <1>5, <1>6, <1>7, <1>8, <1>9, <1>10, <1>11, <1>12
  DEF SyncNext, RoundStep, Aside, Panics, SyncInv

LEMMA SyncInductive == SyncSpec => []SyncInv
  BY SyncInvInit, SyncStep, PTL DEF SyncSpec

(* The type invariant, round after round and across crashes.               *)
THEOREM SyncTypeCorrect == SyncSpec => []SyncTypeOK
<1>1. SyncInv => SyncTypeOK
  BY SyncTypes DEF SyncInv, BusyInv
<1>2. QED
  BY <1>1, SyncInductive, PTL

(* busy stays exact when the loop does what it does in production, and     *)
(* dies with the process.                                                  *)
THEOREM SyncBusyCorrect == SyncSpec => []BusyExact
<1>1. SyncInv => BusyExact
  BY DEF SyncInv, BusyInv
<1>2. QED
  BY <1>1, SyncInductive, PTL

NeverDies == MaxCrashes = 0 /\ ~DialPanics /\ \A c \in Contents : Unmanaged[c] = {}

(* As long as the process lives, the synchronizer implements UpdateQueue,   *)
(* in which the devices return any number of failures ...                  *)
THEOREM QueueImplemented ==
  ASSUME NeverDies
  PROVE  SyncSpec => Spec
<1>1. SyncInv /\ [SyncNext]_syncVars => [Next]_vars
  <2> SUFFICES ASSUME SyncInv, [SyncNext]_syncVars PROVE [Next]_vars
    OBVIOUS
  <2>1. ~Panics
    BY Visited DEF Panics, PanicOnUnmanaged, PanicOnDial, NeverDies
  <2>2. ~Crash
    BY DEF Crash, NeverDies, SyncInv, DeviceTypeOK
  <2>3. CASE SyncNext
    <3>1. QueueStep \/ (\E c \in Callers : CacheInvalidate(c)) \/ RoundStep
      BY <2>2, <2>3 DEF SyncNext
    <3>2. QED
      BY <2>1, <3>1, StepView DEF SyncInv, DeviceTypeOK
  <2>4. CASE UNCHANGED syncVars
    BY <2>4 DEF syncVars
  <2>5. QED
    BY <2>3, <2>4
<1>2. SyncInit => Init
  BY DEF SyncInit
<1>3. QED
  BY <1>1, <1>2, SyncInductive, PTL DEF SyncSpec, Spec

(* ... and the channel implements LatestWins while no two calls overlap.    *)
THEOREM SyncLatestWins ==
  ASSUME NeverDies
  PROVE  SyncSpec /\ []CallsApart => BufferSpec
  BY QueueImplemented, LatestWinsUnlessOverlapping, PTL

LEMMA DieForgetsOrder ==
  ASSUME TypeOK, Die
  PROVE  ForwardInv' /\ SentInv'
  BY DEF Die, TypeOK, Update, NoUpdate, ForwardInv, SentInv, Enqueueing

(* Across crashes too, with callbacks cut short anywhere, drain discards    *)
(* the older of two updates while no two callers enqueue at the same time. *)
THEOREM SyncDiscardsOlder == SyncSpec /\ []EnqueuesApart => DiscardsOlder
<1>1. SyncInit => ForwardInv
  BY DEF SyncInit, Init, ForwardInv, NoUpdate, Enqueueing
<1>2. EnqueuesApart /\ SyncInv /\ ForwardInv /\ [SyncNext]_syncVars => ForwardInv'
  BY QueueView, ForwardStep, DieForgetsOrder DEF SyncInv, BusyInv, DeviceTypeOK
<1>3. ForwardInv => [\A c \in Callers : DrainOne(c) => Head(channel).version <= arg[c].version]_vars
  BY DEF ForwardInv, DrainOne, Enqueueing
<1>4. QED
  BY <1>1, <1>2, <1>3, SyncInductive, PTL DEF SyncSpec, DiscardsOlder

(* isIdle hides no request, whatever fails and whenever the process dies.  *)
THEOREM SyncIdleTookAll == SyncSpec => []IdleTookAll
<1>1. SyncInit => SentInv
  BY DEF SyncInit, Init, SentInv
<1>2. SyncInv /\ SentInv /\ [SyncNext]_syncVars => SentInv'
  BY QueueView, SentStep, DieForgetsOrder DEF SyncInv, BusyInv, DeviceTypeOK
<1>3. SyncInv /\ SentInv => IdleTookAll
  BY SentIsTaken DEF SyncInv, BusyInv
<1>4. QED
  BY <1>1, <1>2, <1>3, SyncInductive, PTL DEF SyncSpec

-----------------------------------------------------------------------------
(* The cache *)

LEMMA CacheStep ==
  ASSUME SyncInv, CacheIsLastAcked, [SyncNext]_syncVars
  PROVE  CacheIsLastAcked'
<1>0. /\ cache \in [Fabrics -> MaybeNetConfig] /\ acked \in [Fabrics -> MaybeNetConfig]
  BY DEF SyncInv, DeviceTypeOK
<1> USE <1>0 DEF CacheIsLastAcked, coreVars, historyVars, EmptyCache
<1>1. ASSUME Aside PROVE CacheIsLastAcked'
  BY <1>1, AsideLeavesRound DEF roundVars
<1>2. ASSUME PostAccepted PROVE CacheIsLastAcked'
  BY <1>2 DEF PostAccepted
<1>3. ASSUME CacheUpdate PROVE CacheIsLastAcked'
  BY <1>3 DEF CacheUpdate, SyncInv, RoundInv
<1>4. ASSUME \/ BeginRound \/ LookupFails \/ SyncDone
             \/ \E f \in Fabrics : LookupController(f)
             \/ BuildNetConfig \/ PostFails
             \/ SetAccepted \/ SetFails \/ FabricDone
      PROVE  phase # "cacheUpdate" /\ UNCHANGED <<cache, acked>>
  BY <1>4 DEF BeginRound, LookupFails, SyncDone, LookupController, BuildNetConfig, PostFails,
     SetAccepted, SetFails, VisitSwitch, FabricDone, SyncInv, RoundInv, CallSynchronizeDevice
<1>5. ASSUME Panics \/ Crash PROVE CacheIsLastAcked'
  BY <1>5 DEF Panics, PanicOnUnmanaged, PanicOnDial, Crash, Die
<1>6. QED
  BY <1>1, <1>2, <1>3, <1>4, <1>5 DEF SyncNext, RoundStep, Aside, Panics

(* Whatever fails, and whenever a callback empties it, the cache only ever *)
(* vouches for the netconfig that ONOS acknowledged last.                  *)
THEOREM CacheCorrect == SyncSpec => []CacheIsLastAcked
<1>1. SyncInit => CacheIsLastAcked
  BY DEF SyncInit, EmptyCache, CacheIsLastAcked
<1>2. QED
  BY <1>1, CacheStep, SyncInductive, PTL DEF SyncSpec

-----------------------------------------------------------------------------
(* Success *)

Acknowledged(f) == acked[f] \in NetConfigsOf(f)

(* Switch s of the fabric being visited is done with, or yet to be visited. *)
SetOrLeft(s) ==
  \/ stratum[fabric][s] = content
  \/ \E j \in DOMAIN switchesLeft : switchesLeft[j] = s

Switching == \A i \in DOMAIN SwitchesOf[content] : SetOrLeft(SwitchesOf[content][i])

Pushed(f) == Acknowledged(f) /\ SwitchesSet(f, current.config[f])

(* As long as nothing failed in this round, the fabrics it is done with are *)
(* pushed, and the current one is as far as it got.                         *)
PushedInv ==
  phase # "none" /\ pushFailures = 0 =>
    /\ \A f \in DOMAIN current.config \ todo :
         \/ phase # "fabrics" /\ f = fabric
         \/ Pushed(f)
    /\ phase = "stratum" => Acknowledged(fabric) /\ Switching

(* A step on the fabric being visited owes the others nothing. *)
LEMMA PushedFrame ==
  ASSUME PushedInv,
         phase \notin {"none", "fabrics"}, phase' # "fabrics",
         UNCHANGED <<current, todo, fabric>>,
         pushFailures' = 0 => pushFailures = 0,
         \A f \in DOMAIN current.config \ {fabric} :
           acked'[f] = acked[f] /\ stratum'[f] = stratum[f],
         phase' = "stratum" /\ pushFailures' = 0 => Acknowledged(fabric)' /\ Switching'
  PROVE  PushedInv'
<1>1. ASSUME pushFailures' = 0, NEW f \in DOMAIN current.config \ todo, f # fabric
      PROVE  Pushed(f)'
  <2>1. Pushed(f)
    BY <1>1 DEF PushedInv
  <2>2. acked'[f] = acked[f] /\ stratum'[f] = stratum[f] /\ current' = current
    BY <1>1
  <2>3. QED
    BY ONLY <2>1, <2>2 DEF Pushed, Acknowledged, SwitchesSet, NetConfigsOf
<1>2. QED
  BY <1>1 DEF PushedInv

LEMMA PushedStep ==
  ASSUME SyncInv, CacheIsLastAcked, PushedInv, [SyncNext]_syncVars
  PROVE  PushedInv'
<1>0. /\ DeviceTypeOK /\ RoundInv
      /\ DOMAIN current.config \subseteq Fabrics
  BY ConfigTypes DEF SyncInv, BusyInv, TypeOK, Update
<1>1. ASSUME Aside PROVE PushedInv'
  <2>1. phase # "none" => UNCHANGED loopVars
    BY <1>0, <1>1, AsideLeavesRound DEF RoundInv
  <2>2. UNCHANGED <<roundVars, coreVars, acked>>
    BY <1>1, AsideLeavesRound
  <2>3. QED
    BY <2>1, <2>2 DEF roundVars, coreVars, loopVars, PushedInv, Pushed, Acknowledged, Switching,
       SetOrLeft, SwitchesSet, NetConfigsOf, content
<1>2. ASSUME BeginRound PROVE PushedInv'
  BY <1>2 DEF BeginRound, CallSynchronizeDevice, PushedInv
<1>3. ASSUME NEW f \in Fabrics, LookupController(f) PROVE PushedInv'
  <2>1. /\ phase = "fabrics" /\ phase' = "build" /\ fabric' = f /\ todo' = todo \ {f}
        /\ UNCHANGED <<current, pushFailures, acked, stratum>>
    BY <1>3 DEF LookupController, vars, coreVars, historyVars
  <2>2. ASSUME NEW g \in Fabrics, Pushed(g) PROVE Pushed(g)'
    BY ONLY <2>1, <2>2 DEF Pushed, Acknowledged, SwitchesSet, NetConfigsOf
  <2>3. QED
    BY <1>0, <2>1, <2>2 DEF PushedInv
<1>4. ASSUME LookupFails \/ SyncDone \/ Panics \/ Crash PROVE PushedInv'
  <2>1. EndRound
    BY <1>4 DEF LookupFails, SyncDone, Panics, PanicOnUnmanaged, PanicOnDial, Crash, Die
  <2>2. QED
    BY <2>1, EndRoundTypes DEF PushedInv
<1>5. ASSUME BuildNetConfig PROVE PushedInv'
  <2>1. /\ phase = "build" /\ phase' \in {"post", "stratum"}
        /\ UNCHANGED <<current, todo, fabric, pushFailures, acked, stratum>>
    BY <1>5 DEF BuildNetConfig, ToStratum, vars, coreVars, historyVars
  <2>2. ASSUME phase' = "stratum" PROVE Acknowledged(fabric)' /\ Switching'
    <3>1. netConfig' = cache[fabric] /\ switchesLeft' = SwitchesOf[content]
      BY <1>5, <2>1, <2>2 DEF BuildNetConfig, ToStratum, CacheCheck
    <3>2. netConfig' \in NetConfigsOf(fabric) /\ netConfig' \in NetConfig
      BY <1>5, <2>1, Visited DEF BuildNetConfig, NetConfigsOf, NetConfigsFrom, content
    <3>3. cache[fabric] # Nothing
      BY <3>1, <3>2, SynchronizerAssumption
    <3>4. fabric \in Fabrics
      BY <2>1, Visited
    <3>5. acked[fabric] = netConfig'
      BY <2>1, <3>1, <3>3, <3>4 DEF CacheIsLastAcked
    <3>6. Acknowledged(fabric)'
      BY <2>1, <3>2, <3>5 DEF Acknowledged, NetConfigsOf
    <3>7. Switching'
      BY ONLY <2>1, <3>1 DEF Switching, SetOrLeft, content
    <3>8. QED
      BY ONLY <2>1, <3>6, <3>7
  <2>3. QED
    BY <2>1, <2>2, PushedFrame
<1>6. ASSUME PostAccepted PROVE PushedInv'
  <2>1. /\ phase = "post" /\ phase' = "cacheUpdate"
        /\ acked' = [acked EXCEPT ![fabric] = netConfig]
        /\ UNCHANGED <<current, todo, fabric, pushFailures, stratum>>
    BY <1>6 DEF PostAccepted, vars
  <2>2. \A f \in Fabrics \ {fabric} : acked'[f] = acked[f]
    BY <1>0, <2>1 DEF DeviceTypeOK
  <2>3. QED
    BY <1>0, <2>1, <2>2, PushedFrame
<1>7. ASSUME PostFails PROVE PushedInv'
  <2>1. /\ phase = "post" /\ phase' = "stratum"
        /\ pushFailures' = pushFailures + 1
        /\ UNCHANGED <<current, todo, fabric, acked, stratum>>
    BY <1>7 DEF PostFails, CountFailure, ToStratum, vars
  <2>2. pushFailures' # 0
    BY <1>0, <2>1 DEF DeviceTypeOK
  <2>3. QED
    BY <2>1, <2>2, PushedFrame
<1>8. ASSUME CacheUpdate PROVE PushedInv'
  <2>1. /\ phase = "cacheUpdate" /\ phase' = "stratum"
        /\ switchesLeft' = SwitchesOf[content]
        /\ UNCHANGED <<current, todo, fabric, pushFailures, acked, stratum>>
    BY <1>8 DEF CacheUpdate, ToStratum, vars, coreVars, historyVars
  <2>2. Acknowledged(fabric)'
    BY <1>0, <2>1 DEF RoundInv, Acknowledged, NetConfigsOf
  <2>3. Switching'
    BY ONLY <2>1 DEF Switching, SetOrLeft, content
  <2>4. QED
    BY <2>1, <2>2, <2>3, PushedFrame
<1>9. ASSUME SetAccepted PROVE PushedInv'
  <2>0. /\ phase = "stratum" /\ switchesLeft # <<>> /\ switchesLeft \in Seq(Switches)
        /\ stratum' = [stratum EXCEPT ![fabric][Head(switchesLeft)] = content]
        /\ switchesLeft' = Tail(switchesLeft)
        /\ UNCHANGED <<current, phase, todo, fabric, pushFailures, acked>>
    BY <1>0, <1>9 DEF SetAccepted, VisitSwitch, ApplyChassis, DeviceTypeOK, vars, historyVars
  <2>1. Head(switchesLeft) \in Switches /\ fabric \in Fabrics
    BY <2>0, Visited, HeadTailProperties
  <2>2. /\ stratum'[fabric][Head(switchesLeft)] = content
        /\ \A s \in Switches : stratum'[fabric][s] \in {stratum[fabric][s], content}
        /\ \A f \in Fabrics \ {fabric} : stratum'[f] = stratum[f]
    BY ONLY <1>0, <2>0, <2>1 DEF DeviceTypeOK
  <2>3. \A j \in DOMAIN switchesLeft :
          \/ switchesLeft[j] = Head(switchesLeft)
          \/ \E k \in DOMAIN switchesLeft' : switchesLeft'[k] = switchesLeft[j]
    <3>1. /\ Len(switchesLeft) \in Nat /\ DOMAIN switchesLeft = 1..Len(switchesLeft)
          /\ Head(switchesLeft) = switchesLeft[1]
          /\ Len(switchesLeft') = Len(switchesLeft) - 1
          /\ DOMAIN switchesLeft' = 1..Len(switchesLeft')
          /\ \A k \in 1..Len(switchesLeft') : switchesLeft'[k] = switchesLeft[k + 1]
      BY ONLY <2>0, HeadTailProperties, LenProperties
    <3>2. TAKE j \in DOMAIN switchesLeft
    <3>3. ASSUME j # 1
          PROVE  j - 1 \in DOMAIN switchesLeft' /\ switchesLeft'[j - 1] = switchesLeft[j]
      BY ONLY <3>1, <3>2, <3>3
    <3>4. QED
      BY ONLY <3>1, <3>3
  <2>4. ASSUME Switching PROVE Switching'
    <3>1. \A i \in DOMAIN SwitchesOf[content] : SwitchesOf[content][i] \in Switches
      BY <2>0, Visited
    <3>2. UNCHANGED <<fabric, current>>
      BY ONLY <2>0
    <3>3. ASSUME NEW i \in DOMAIN SwitchesOf[content]
          PROVE  SetOrLeft(SwitchesOf[content][i])'
      <4> DEFINE s == SwitchesOf[content][i]
      <4>1. s \in Switches /\ SetOrLeft(s)
        BY <2>4, <3>1 DEF Switching
      <4>2. CASE stratum[fabric][s] = content
        BY ONLY <2>2, <3>2, <4>1, <4>2 DEF SetOrLeft, content
      <4>3. CASE s = Head(switchesLeft)
        BY ONLY <2>2, <3>2, <4>3 DEF SetOrLeft, content
      <4>4. CASE \E k \in DOMAIN switchesLeft' : switchesLeft'[k] = s
        BY ONLY <3>2, <4>4 DEF SetOrLeft, content
      <4>5. QED
        BY ONLY <2>3, <4>1, <4>2, <4>3, <4>4 DEF SetOrLeft
    <3>4. QED
      BY <3>2, <3>3 DEF Switching, content
  <2>5. ASSUME Acknowledged(fabric) PROVE Acknowledged(fabric)'
    BY ONLY <2>0, <2>5 DEF Acknowledged, NetConfigsOf
  <2>6. pushFailures = 0 => Acknowledged(fabric) /\ Switching
    BY <2>0 DEF PushedInv
  <2>7. \A f \in DOMAIN current.config \ {fabric} : acked'[f] = acked[f] /\ stratum'[f] = stratum[f]
    BY ONLY <1>0, <2>0, <2>2
  <2>8. QED
    BY <2>0, <2>4, <2>5, <2>6, <2>7, PushedFrame
<1>10. ASSUME SetFails PROVE PushedInv'
  <2>1. /\ phase = "stratum" /\ phase' = phase
        /\ pushFailures' = pushFailures + 1
        /\ UNCHANGED <<current, todo, fabric, acked>>
        /\ stratum' = stratum \/ ApplyChassis
    BY <1>10 DEF SetFails, VisitSwitch, CountFailure, vars, historyVars
  <2>2. pushFailures' # 0
    BY <1>0, <2>1 DEF DeviceTypeOK
  <2>3. \A f \in DOMAIN current.config \ {fabric} : acked'[f] = acked[f] /\ stratum'[f] = stratum[f]
    BY <1>0, <2>1 DEF ApplyChassis, DeviceTypeOK
  <2>4. QED
    BY <2>1, <2>2, <2>3, PushedFrame
<1>11. ASSUME FabricDone PROVE PushedInv'
  <2>1. /\ phase = "stratum" /\ phase' = "fabrics" /\ switchesLeft = <<>>
        /\ UNCHANGED <<current, todo, fabric, pushFailures, acked, stratum>>
    BY <1>11 DEF FabricDone, vars, coreVars, historyVars
  <2>2. ASSUME NEW f, Pushed(f) PROVE Pushed(f)'
    BY ONLY <2>1, <2>2 DEF Pushed, Acknowledged, SwitchesSet, NetConfigsOf
  <2>3. ASSUME Acknowledged(fabric), Switching PROVE Pushed(fabric)
    BY ONLY <2>1, <2>3 DEF Pushed, Switching, SetOrLeft, SwitchesSet, content
  <2>4. QED
    BY <2>1, <2>2, <2>3 DEF PushedInv
<1>12. QED
  BY <1>1, <1>2, <1>3, <1>4, <1>5, <1>6, <1>7, <1>8, <1>9, <1>10, <1>11
  DEF SyncNext, RoundStep, Aside, Panics

(* The loop never gives an update up as a success before every fabric's    *)
(* ONOS acknowledged a netconfig made from it, now or in an earlier round  *)
(* that the cache remembers, and every switch applied its configuration.   *)
THEOREM PushedCorrect == SyncSpec => SuccessMeansPushed
<1>1. SyncInit => CacheIsLastAcked /\ PushedInv
  BY DEF SyncInit, EmptyCache, CacheIsLastAcked, PushedInv
<1>2. SyncInv /\ CacheIsLastAcked /\ PushedInv /\ [SyncNext]_syncVars
        => CacheIsLastAcked' /\ PushedInv'
  BY CacheStep, PushedStep
<1>3. PushedInv =>
        (Success => \A f \in DOMAIN current.config :
           /\ acked[f] \in NetConfigsFrom(current.config[f])
           /\ SwitchesSet(f, current.config[f]))
  BY DEF PushedInv, Pushed, Success, SyncDone, Acknowledged, NetConfigsOf
<1>4. QED
  BY <1>1, <1>2, <1>3, SyncInductive, PTL DEF SyncSpec, SuccessMeansPushed

CurrentIsTaken == current = taken

LEMMA CurrentStep ==
  ASSUME SyncInv, CurrentIsTaken, [SyncNext]_syncVars
  PROVE  CurrentIsTaken'
<1>1. CASE Die
  BY <1>1 DEF Die, CurrentIsTaken
<1>2. CASE [Next]_vars
  <2>1. CASE Dequeue
    BY <2>1 DEF Dequeue, CurrentIsTaken
  <2>2. ASSUME NEW c \in Callers, Request(c) \/ EnqueueStep(c) PROVE UNCHANGED <<current, taken>>
    BY <2>2 DEF Request, ForceResync, Set, Delete, EnqueueStep, Invalidated, Copy, CopyFails,
       Count, DrainOne, Discount, DrainDone, Send, loopVars
  <2>3. CASE \/ Start \/ StartFails \/ DeviceStep
             \/ Obsoleted \/ CallSynchronizeDevice \/ WakeUp \/ complete
    BY <2>3 DEF Start, StartFails, DeviceStep, SynchronizeDeviceReturns, Obsoleted,
       CallSynchronizeDevice, WakeUp, complete, CurrentIsTaken
  <2>4. CASE UNCHANGED vars
    BY <2>4 DEF vars, loopVars, CurrentIsTaken
  <2>5. QED
    BY <1>2, <2>1, <2>2, <2>3, <2>4 DEF Next, LoopStep, CurrentIsTaken
<1>3. QED
  BY <1>1, <1>2, QueueView DEF SyncInv, DeviceTypeOK

(* From end to end: when the loop succeeds and busy counts nothing but its  *)
(* own update, it is the last update any callback sent that every ONOS has  *)
(* acknowledged and every switch has applied, whatever the callbacks did    *)
(* among themselves, and however many rounds, crashes and forced resyncs    *)
(* it took.                                                                *)
THEOREM IdleAfterSuccess ==
  SyncSpec => [][Success /\ busy = 1 =>
                   \A f \in DOMAIN offered.config :
                     /\ acked[f] \in NetConfigsFrom(offered.config[f])
                     /\ SwitchesSet(f, offered.config[f])]_syncVars
<1>1. SyncInit => CacheIsLastAcked /\ PushedInv /\ SentInv /\ CurrentIsTaken
  BY DEF SyncInit, Init, EmptyCache, CacheIsLastAcked, PushedInv, SentInv, CurrentIsTaken
<1>2. SyncInv /\ CacheIsLastAcked /\ PushedInv /\ SentInv /\ CurrentIsTaken
      /\ [SyncNext]_syncVars
        => CacheIsLastAcked' /\ PushedInv' /\ SentInv' /\ CurrentIsTaken'
  BY CacheStep, PushedStep, CurrentStep, QueueView, SentStep, DieForgetsOrder
  DEF SyncInv, BusyInv, DeviceTypeOK
<1>3. SyncInv /\ PushedInv /\ SentInv /\ CurrentIsTaken =>
        [Success /\ busy = 1 =>
           \A f \in DOMAIN offered.config :
             /\ acked[f] \in NetConfigsFrom(offered.config[f])
             /\ SwitchesSet(f, offered.config[f])]_syncVars
  <2> SUFFICES ASSUME SyncInv, PushedInv, SentInv, CurrentIsTaken, Success, busy = 1,
                      NEW f \in DOMAIN offered.config
               PROVE  /\ acked[f] \in NetConfigsFrom(offered.config[f])
                      /\ SwitchesSet(f, offered.config[f])
    OBVIOUS
  <2>1. Servicing
    BY DEF Success, SyncDone, Servicing, SyncInv, RoundInv
  <2>2. Len(channel) = 0 /\ Cardinality(Queueing) = 0
    BY <2>1, ChannelLengths, CallersFinite DEF SyncInv, BusyInv, BusyExact
  <2>3. channel = <<>> /\ Queueing = {}
    BY <2>2, ChannelLengths, CallersFinite, FS_EmptySet DEF SyncInv, BusyInv
  <2>4. current = offered
    BY <2>3 DEF SentInv, CurrentIsTaken
  <2>5. QED
    BY <2>4 DEF PushedInv, Pushed, Success, SyncDone, Acknowledged, NetConfigsOf
<1>4. QED
  BY <1>1, <1>2, <1>3, SyncInductive, PTL DEF SyncSpec

AckedIsApplied == onos = acked

(* No POST that is reported as failed has an effect. *)
FailedPostsHaveNoEffect == [][PostFails => UNCHANGED onos]_syncVars

(* If no POST is applied and yet reported as failed, the netconfig that     *)
(* success vouches for is the one ONOS has: only a lost reply comes         *)
(* between them, no crash, retry or forced resync.                         *)
THEOREM AppliedUnlessReplyLost == SyncSpec /\ FailedPostsHaveNoEffect => SuccessMeansApplied
<1>1. SyncInit => AckedIsApplied /\ CacheIsLastAcked /\ PushedInv
  BY DEF SyncInit, EmptyCache, CacheIsLastAcked, PushedInv, AckedIsApplied
<1>2. AckedIsApplied /\ [SyncNext]_syncVars /\ [PostFails => UNCHANGED onos]_syncVars
        => AckedIsApplied'
  <2> SUFFICES ASSUME AckedIsApplied, [SyncNext]_syncVars,
                      [PostFails => UNCHANGED onos]_syncVars
               PROVE  AckedIsApplied'
    OBVIOUS
  <2>1. CASE Aside
    BY <2>1, AsideLeavesRound DEF AckedIsApplied, coreVars
  <2>2. CASE PostAccepted
    BY <2>2 DEF PostAccepted, AckedIsApplied
  <2>3. CASE PostFails
    <3>1. UNCHANGED onos
      BY <2>3 DEF syncVars, deviceVars, coreVars
    <3>2. QED
      BY <2>3, <3>1 DEF PostFails, AckedIsApplied
  <2>4. CASE RoundStep /\ ~PostAccepted /\ ~PostFails
    BY <2>4 DEF RoundStep, BeginRound, LookupController, LookupFails, BuildNetConfig,
       CacheUpdate, SetAccepted, SetFails, FabricDone, SyncDone, Panics, PanicOnUnmanaged,
       PanicOnDial, Die, AckedIsApplied, coreVars, historyVars
  <2>5. CASE Crash
    BY <2>5 DEF Crash, Die, AckedIsApplied, coreVars
  <2>6. QED
    BY <2>1, <2>2, <2>3, <2>4, <2>5 DEF SyncNext, Aside
<1>3. SyncInv /\ CacheIsLastAcked /\ PushedInv /\ [SyncNext]_syncVars
        => CacheIsLastAcked' /\ PushedInv'
  BY CacheStep, PushedStep
<1>4. PushedInv /\ AckedIsApplied =>
        (Success => \A f \in DOMAIN current.config :
           onos[f] \in NetConfigsFrom(current.config[f]))
  BY DEF PushedInv, Pushed, AckedIsApplied, Success, SyncDone, Acknowledged, NetConfigsOf
<1>5. QED
  BY <1>1, <1>2, <1>3, <1>4, SyncInductive, PTL
  DEF SyncSpec, SuccessMeansApplied, FailedPostsHaveNoEffect

(* So it is if replies are never lost.                                     *)
THEOREM AppliedCorrect ==
  ASSUME ~RepliesLost
  PROVE  SyncSpec => SuccessMeansApplied
<1>1. PostFails => UNCHANGED onos
  BY DEF PostFails
<1>2. QED
  BY <1>1, AppliedUnlessReplyLost, PTL DEF FailedPostsHaveNoEffect

-----------------------------------------------------------------------------
(* What is pushed, and where *)

LEMMA PushEffect ==
  ASSUME [SyncNext]_syncVars
  PROVE  /\ \/ onos' = onos
            \/ phase = "post" /\ onos' = [onos EXCEPT ![fabric] = netConfig]
         /\ \/ stratum' = stratum
            \/ phase = "stratum" /\ ApplyChassis
<1> USE DEF coreVars, historyVars
<1>1. CASE Aside
  BY <1>1, AsideLeavesRound
<1>2. CASE PostAccepted \/ PostFails
  BY <1>2 DEF PostAccepted, PostFails
<1>3. CASE SetAccepted \/ SetFails
  BY <1>3 DEF SetAccepted, SetFails, VisitSwitch
<1>4. CASE Panics \/ Crash
  BY <1>4 DEF Panics, PanicOnUnmanaged, PanicOnDial, Crash, Die
<1>5. CASE \/ BeginRound \/ LookupFails \/ SyncDone
           \/ \E f \in Fabrics : LookupController(f)
           \/ BuildNetConfig \/ CacheUpdate \/ FabricDone
  BY <1>5 DEF BeginRound, LookupFails, SyncDone, LookupController, BuildNetConfig, CacheUpdate,
     FabricDone
<1>6. QED
  BY <1>1, <1>2, <1>3, <1>4, <1>5 DEF SyncNext, RoundStep, Aside, Panics

LEMMA OwnStep ==
  ASSUME SyncInv, [SyncNext]_syncVars, NEW f \in Fabrics
  PROVE  /\ onos'[f] # onos[f] =>
              f \in DOMAIN current.config /\ onos'[f] \in NetConfigsOf(f)
         /\ \A s \in Switches :
              stratum'[f][s] # stratum[f][s] =>
                f \in DOMAIN current.config /\ stratum'[f][s] = current.config[f]
<1>1. DeviceTypeOK /\ RoundInv
  BY DEF SyncInv
<1>2. ASSUME onos'[f] # onos[f]
      PROVE  f \in DOMAIN current.config /\ onos'[f] \in NetConfigsOf(f)
  <2>1. phase = "post" /\ onos' = [onos EXCEPT ![fabric] = netConfig]
    BY <1>2, PushEffect
  <2>2. f = fabric /\ onos'[f] = netConfig
    BY <1>1, <1>2, <2>1 DEF DeviceTypeOK
  <2>3. QED
    BY <1>1, <2>1, <2>2 DEF RoundInv
<1>3. ASSUME NEW s \in Switches, stratum'[f][s] # stratum[f][s]
      PROVE  f \in DOMAIN current.config /\ stratum'[f][s] = current.config[f]
  <2>1. phase = "stratum" /\ stratum' = [stratum EXCEPT ![fabric][Head(switchesLeft)] = content]
    BY <1>3, PushEffect DEF ApplyChassis
  <2>2. f = fabric /\ stratum'[f][s] = content
    BY <1>1, <1>3, <2>1 DEF DeviceTypeOK
  <2>3. QED
    BY <1>1, <2>1, <2>2 DEF RoundInv, content
<1>4. QED
  BY <1>2, <1>3

(* Whatever fails, dies or is retried, ONOS and the switches of a fabric    *)
(* only ever apply what the update being worked on says of that fabric.     *)
THEOREM OwnCorrect == SyncSpec => OnlyOwnApplied
<1>1. SyncInv /\ [SyncNext]_syncVars =>
        [\A f \in Fabrics :
           LET own == f \in DOMAIN current.config
           IN  /\ onos'[f] # onos[f] => own /\ onos'[f] \in NetConfigsFrom(current.config[f])
               /\ \A s \in Switches :
                    stratum'[f][s] # stratum[f][s] => own /\ stratum'[f][s] = current.config[f]
        ]_syncVars
  BY OwnStep DEF NetConfigsOf
<1>2. QED
  BY <1>1, SyncInductive, PTL DEF SyncSpec, OnlyOwnApplied

(* While the loop works on an update, through any number of failed rounds,  *)
(* what has once been applied of it is not undone: retries make progress.   *)
THEOREM RetriesUndoNothing ==
  SyncSpec => [][\A f \in DOMAIN current.config :
                   /\ onos[f] \in NetConfigsOf(f) => onos'[f] \in NetConfigsOf(f)
                   /\ \A s \in Switches :
                        stratum[f][s] = current.config[f] => stratum'[f][s] = current.config[f]
                ]_syncVars
<1>1. SyncInv => DOMAIN current.config \subseteq Fabrics
  BY ConfigTypes DEF SyncInv, BusyInv, TypeOK, Update
<1>2. SyncInv /\ [SyncNext]_syncVars =>
        [\A f \in DOMAIN current.config :
           /\ onos[f] \in NetConfigsOf(f) => onos'[f] \in NetConfigsOf(f)
           /\ \A s \in Switches :
                stratum[f][s] = current.config[f] => stratum'[f][s] = current.config[f]
        ]_syncVars
  BY <1>1, OwnStep
<1>3. QED
  BY <1>2, SyncInductive, PTL DEF SyncSpec

(* While busy is zero nothing is pushed: whoever sees the synchronizer idle *)
(* (isIdle) can trust ONOS and the switches to stay as they are until the   *)
(* next request is counted.                                                *)
THEOREM IdlePushesNothing == SyncSpec => [][busy = 0 => UNCHANGED coreVars]_syncVars
<1>1. SyncInv /\ [SyncNext]_syncVars => [busy = 0 => UNCHANGED coreVars]_syncVars
  <2> SUFFICES ASSUME SyncInv, [SyncNext]_syncVars, busy = 0
               PROVE  UNCHANGED coreVars
    OBVIOUS
  <2>1. ~Servicing
    BY IdleMeansEmpty DEF SyncInv, BusyInv
  <2>2. phase = "none"
    BY <2>1 DEF Servicing, SyncInv, RoundInv
  <2>3. QED
    BY <2>2, PushEffect DEF coreVars
<1>2. QED
  BY <1>1, SyncInductive, PTL DEF SyncSpec

-----------------------------------------------------------------------------
(* Forced resyncs *)

(* No forced resync empties the cache between a POST's answer and the       *)
(* CacheUpdate that follows it.                                             *)
InvalidationsApart == [][\A c \in Callers : CacheInvalidate(c) => phase # "cacheUpdate"]_syncVars

(* The cache vouches for no fabric that is owed a POST, nor is it about to. *)
OwedInv ==
  /\ \A f \in Fabrics : cache[f] # Nothing => f \notin owed
  /\ phase = "cacheUpdate" => fabric \notin owed

LEMMA OwedStep ==
  ASSUME SyncInv, OwedInv, [SyncNext]_syncVars,
         [\A c \in Callers : CacheInvalidate(c) => phase # "cacheUpdate"]_syncVars
  PROVE  OwedInv'
<1>0. DeviceTypeOK /\ RoundInv
  BY DEF SyncInv
<1> USE DEF OwedInv, roundVars, coreVars, historyVars, EmptyCache
<1>1. CASE UNCHANGED syncVars
  BY <1>1 DEF syncVars, deviceVars
<1>2. CASE QueueStep
  BY <1>2 DEF QueueStep, deviceVars
<1>3. ASSUME NEW c \in Callers, CacheInvalidate(c) PROVE OwedInv'
  <2>1. CASE phase # "cacheUpdate"
    BY <1>3, <2>1 DEF CacheInvalidate
  <2>2. CASE UNCHANGED syncVars
    BY <1>1, <2>2
  <2>3. QED
    BY <1>3, <2>1, <2>2
<1>4. CASE PostAccepted
  BY <1>0, <1>4 DEF PostAccepted
<1>5. CASE PostFails
  BY <1>0, <1>5 DEF PostFails, ToStratum
<1>6. CASE CacheUpdate
  BY <1>0, <1>6 DEF CacheUpdate, ToStratum, DeviceTypeOK
<1>7. CASE Panics \/ Crash
  BY <1>7 DEF Panics, PanicOnUnmanaged, PanicOnDial, Crash, Die
<1>8. CASE \/ BeginRound \/ LookupFails \/ SyncDone
           \/ \E f \in Fabrics : LookupController(f)
           \/ BuildNetConfig \/ SetAccepted \/ SetFails \/ FabricDone
  <2>1. UNCHANGED <<cache, owed>> /\ phase' # "cacheUpdate"
    BY <1>8 DEF BeginRound, LookupFails, SyncDone, EndRound, LookupController, BuildNetConfig,
       ToStratum, SetAccepted, SetFails, VisitSwitch, FabricDone
  <2>2. QED
    BY <2>1
<1>9. QED
  BY <1>1, <1>2, <1>3, <1>4, <1>5, <1>6, <1>7, <1>8 DEF SyncNext, RoundStep, Panics

LEMMA OnlyBuildSkips ==
  ASSUME SyncInv, [SyncNext]_syncVars, phase = "build", phase' = "stratum"
  PROVE  fabric \in Fabrics /\ cache[fabric] # Nothing
<1>1. BuildNetConfig
  <2>1. ~Aside
    BY AsideLeavesRound DEF roundVars
  <2>2. ~Panics /\ ~Crash
    BY DEF Panics, PanicOnUnmanaged, PanicOnDial, Crash, Die, EndRound
  <2>3. QED
    BY <2>1, <2>2 DEF SyncNext, Aside, RoundStep, Panics, BeginRound, CallSynchronizeDevice,
       LookupController, LookupFails, SyncDone, PostAccepted, PostFails, CacheUpdate,
       SetAccepted, SetFails, VisitSwitch, FabricDone, SyncInv, RoundInv
<1>2. netConfig' = cache[fabric]
  BY <1>1 DEF BuildNetConfig, CacheCheck
<1>3. netConfig' \in NetConfig
  BY <1>1, Visited DEF BuildNetConfig, NetConfigsOf, NetConfigsFrom, content
<1>4. QED
  BY <1>2, <1>3, Visited, SynchronizerAssumption

(* A forced resync POSTs every fabric anew, unless it comes in the moment   *)
(* between an earlier POST's answer and its entry in the cache: that is the *)
(* only way for one to be lost.                                            *)
THEOREM ForcedUnlessInBetween == SyncSpec /\ InvalidationsApart => ForcedTakesEffect
<1>1. SyncInit => OwedInv
  BY DEF SyncInit, OwedInv
<1>2. SyncInv /\ OwedInv /\ [SyncNext]_syncVars
      /\ [\A c \in Callers : CacheInvalidate(c) => phase # "cacheUpdate"]_syncVars => OwedInv'
  BY OwedStep
<1>3. SyncInv /\ OwedInv /\ [SyncNext]_syncVars =>
        [phase = "build" /\ phase' = "stratum" => fabric \notin owed]_syncVars
  BY OnlyBuildSkips DEF OwedInv
<1>4. QED
  BY <1>1, <1>2, <1>3, SyncInductive, PTL
  DEF SyncSpec, ForcedTakesEffect, InvalidationsApart
=============================================================================
