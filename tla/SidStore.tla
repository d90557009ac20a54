------------------------------- MODULE SidStore -------------------------------
(***************************************************************************)
(* The segment identifier (SID) store of pkg/store/store.go: adapter       *)
(* instances (pods) that share an Atomix counter and an Atomix map.        *)
(* NewAtomixStore reserves the first SIDs, Get looks a switch up and, when *)
(* it is unknown, increments the counter and records the result. Each      *)
(* remote call is a step of its own; a call may fail, with its effect      *)
(* applied or not, and a pod may crash between any two calls.              *)
(***************************************************************************)
EXTENDS Naturals

CONSTANTS
  Pods,             \* adapter instances, each with its own Atomix client
  Switches,         \* (non-empty) switch identifiers
  InitialCounter,   \* value of the Atomix counter before the first pod starts
  MaxSid,           \* bound: the counter is not incremented beyond it
  NoSwitch          \* "no Get in progress"

ASSUME SidStoreAssumption ==
  /\ InitialCounter \in Nat
  /\ MaxSid \in Nat
  /\ MaxSid \div 16777216 < 256    \* a SID is a uint32: MaxSid < 2^32
  /\ NoSwitch \notin Switches

Reserved == 100     \* SIDs 1..100 are reserved for segment routing
NoSid == 0          \* a switch the map has no entry for
Sids == (Reserved + 1) .. MaxSid

VARIABLES
  counter,   \* Atomix counter "fabric-adapter-sid-counter"
  sidMap,    \* Atomix map "fabric-adapter-sid-map": the SIDs its bytes stand for
  pc,        \* pc[p]: where pod p is in NewAtomixStore or Get
  arg,       \* arg[p]: the switchID of the Get in progress
  newSid,    \* newSid[p]: local of Get, the SID just allocated
  issued     \* history: every <<switch, sid>> Get returned without an error

persistent == <<counter, sidMap>>
local == <<pc, arg, newSid>>
vars == <<counter, sidMap, pc, arg, newSid, issued>>

PodStates ==
  {"down", "reserve", "failed", "ready", "lookup", "increment", "put"}

TypeOK ==
  /\ counter \in Nat
  /\ sidMap \in [Switches -> Nat]
  /\ pc \in [Pods -> PodStates]
  /\ arg \in [Pods -> Switches \cup {NoSwitch}]
  /\ newSid \in [Pods -> Nat]
  /\ \A p \in Pods : pc[p] \in {"lookup", "increment", "put"} => arg[p] \in Switches
  /\ issued \subseteq Switches \X Nat

Init ==
  /\ counter = InitialCounter
  /\ sidMap = [s \in Switches |-> NoSid]
  /\ pc = [p \in Pods |-> "down"]
  /\ arg = [p \in Pods |-> NoSwitch]
  /\ newSid = [p \in Pods |-> NoSid]
  /\ issued = {}

GoTo(p, state) == pc' = [pc EXCEPT ![p] = state]

-----------------------------------------------------------------------------
(* NewAtomixStore *)

(* Mutant: every start moves the counter back to the reserved range's end. *)
QueryCounterResets(p) ==
  /\ pc[p] = "down"
  /\ GoTo(p, "reserve")
  /\ UNCHANGED <<persistent, arg, newSid, issued>>

(* Mutant: the reserved SIDs are forgotten. *)
QueryCounterReady(p) ==
  /\ pc[p] = "down"
  /\ GoTo(p, "ready")
  /\ UNCHANGED <<persistent, arg, newSid, issued>>

(* Read the counter; only a fresh one has to be moved past the reserved SIDs. *)
QueryCounter(p) ==
  /\ pc[p] = "down"
  /\ GoTo(p, IF counter < Reserved THEN "reserve" ELSE "ready")
  /\ UNCHANGED <<persistent, arg, newSid, issued>>

(* nextSID.Set(ctx, 100). The pod is ready unless this call's reply, or the *)
(* GetMap that follows, fails.                                              *)
ReserveSids(p) ==
  /\ pc[p] = "reserve"
  /\ counter' = Reserved
  /\ pc' \in {[pc EXCEPT ![p] = "ready"], [pc EXCEPT ![p] = "failed"]}
  /\ UNCHANGED <<sidMap, arg, newSid, issued>>

(* GetCounter, Get, Set or GetMap fails without effect: no store. *)
StartFails(p) ==
  /\ pc[p] \in {"down", "reserve"}
  /\ GoTo(p, "failed")
  /\ UNCHANGED <<persistent, arg, newSid, issued>>

-----------------------------------------------------------------------------
(* SIDAtomixStore.Get *)

(* Mutant: the switchID does not reach the lookup. *)
CallGetNoId(p, s) ==
  /\ pc[p] = "ready"
  /\ GoTo(p, "lookup")
  /\ UNCHANGED <<persistent, arg, newSid, issued>>

CallGet(p, s) ==
  /\ pc[p] = "ready"
  /\ GoTo(p, "lookup")
  /\ arg' = [arg EXCEPT ![p] = s]
  /\ UNCHANGED <<persistent, newSid, issued>>

Return(p) ==
  /\ GoTo(p, "ready")
  /\ arg' = [arg EXCEPT ![p] = NoSwitch]
  /\ newSid' = [newSid EXCEPT ![p] = NoSid]

(* sidMap.Get finds the switch: its SID is returned. *)
LookupFound(p) ==
  /\ pc[p] = "lookup"
  /\ sidMap[arg[p]] # NoSid
  /\ issued' = issued \cup {<<arg[p], sidMap[arg[p]]>>}
  /\ Return(p)
  /\ UNCHANGED persistent

(* Mutant: any failed lookup allocates, not only NotFound. *)
LookupFailed(p) ==
  /\ pc[p] = "lookup"
  /\ GoTo(p, "increment")
  /\ UNCHANGED <<persistent, arg, newSid, issued>>

(* sidMap.Get answers NotFound: a SID has to be allocated. *)
LookupNotFound(p) ==
  /\ pc[p] = "lookup"
  /\ sidMap[arg[p]] = NoSid
  /\ GoTo(p, "increment")
  /\ UNCHANGED <<persistent, arg, newSid, issued>>

(* nextSID.Increment(ctx, 1) *)
Increment(p) ==
  /\ pc[p] = "increment"
  /\ counter < MaxSid
  /\ counter' = counter + 1
  /\ newSid' = [newSid EXCEPT ![p] = counter + 1]
  /\ GoTo(p, "put")
  /\ UNCHANGED <<sidMap, arg, issued>>

(* binary.LittleEndian.PutUint32 into four bytes *)
uint32ToBytes(n) ==
  <<n % 256, (n \div 256) % 256, (n \div 65536) % 256, (n \div 16777216) % 256>>

(* Mutant: read with the bytes in the other order. *)
bigEndianToUint32(value) ==
  16777216 * value[1] + 65536 * value[2] + 256 * value[3] + value[4]

(* binary.LittleEndian.Uint32 *)
bytesToUint32(value) ==
  value[1] + 256 * value[2] + 65536 * value[3] + 16777216 * value[4]

(* The map once the new SID is written, as it will be read. *)
Recorded(p) == [sidMap EXCEPT ![arg[p]] = bytesToUint32(uint32ToBytes(newSid[p]))]

(* Mutant: an error of the map's Put is swallowed. *)
PutIgnoresError(p) ==
  /\ pc[p] = "put"
  /\ sidMap' \in {sidMap, Recorded(p)}
  /\ issued' = issued \cup {<<arg[p], newSid[p]>>}
  /\ Return(p)
  /\ UNCHANGED counter

(* sidMap.Put(ctx, switchID, newSid), and Get returns the new SID. *)
Put(p) ==
  /\ pc[p] = "put"
  /\ sidMap' = Recorded(p)
  /\ issued' = issued \cup {<<arg[p], newSid[p]>>}
  /\ Return(p)
  /\ UNCHANGED counter

(* sidMap.Get fails with anything but NotFound. *)
LookupError(p) ==
  /\ pc[p] = "lookup"
  /\ Return(p)
  /\ UNCHANGED <<persistent, issued>>

(* Increment returns an error: the increment may have happened. *)
IncrementError(p) ==
  /\ pc[p] = "increment"
  /\ counter' \in {counter} \cup {n \in {counter + 1} : n <= MaxSid}
  /\ Return(p)
  /\ UNCHANGED <<sidMap, issued>>

(* Put returns an error: the entry may have been written. *)
PutError(p) ==
  /\ pc[p] = "put"
  /\ sidMap' \in {sidMap, Recorded(p)}
  /\ Return(p)
  /\ UNCHANGED <<counter, issued>>

-----------------------------------------------------------------------------
(* The process dies and will be started again; Atomix keeps its state. *)
Crash(p) ==
  /\ pc[p] # "down"
  /\ GoTo(p, "down")
  /\ arg' = [arg EXCEPT ![p] = NoSwitch]
  /\ newSid' = [newSid EXCEPT ![p] = NoSid]
  /\ UNCHANGED <<persistent, issued>>

Next ==
  \E p \in Pods :
    \/ QueryCounter(p) \/ ReserveSids(p) \/ StartFails(p)
    \/ \E s \in Switches : CallGet(p, s)
    \/ LookupFound(p) \/ LookupNotFound(p) \/ LookupError(p)
    \/ Increment(p) \/ IncrementError(p)
    \/ Put(p) \/ PutError(p)
    \/ Crash(p)

Spec == Init /\ [][Next]_vars

-----------------------------------------------------------------------------
(* Two switches are never given the same SID ("generating unique SIDs",    *)
(* store.go), across pods, failed calls and restarts.                      *)
SidsUnique ==
  \A a, b \in issued : a[2] = b[2] => a[1] = b[1]

(* Get never hands out one of the reserved SIDs. *)
SidsNotReserved == \A a \in issued : a[2] > Reserved

(* A switch that was once given a SID is given the same one ever after,    *)
(* and it stays on record (handleSwitch puts the SID of every switch in    *)
(* every netconfig it builds).                                             *)
SidsStable == \A a \in issued : sidMap[a[1]] = a[2]

(* The store implements the abstract registry. *)
Registry == INSTANCE SidRegistry WITH assigned <- sidMap
RegistrySpec == Registry!Spec
=============================================================================
