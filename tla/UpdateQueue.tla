------------------------------ MODULE UpdateQueue ------------------------------
(***************************************************************************)
(* The buffer between the gNMI server and the synchronizer loop            *)
(* (pkg/synchronizer/async.go), with the callbacks that fill it            *)
(* (Synchronize, HandleDelete) and the loop that empties it (Start, Loop,  *)
(* SynchronizeAndRetry).  The synchronization of the devices is a call     *)
(* that returns a number of push failures and an error: any of them here,  *)
(* as with the mock of the unit tests; Synchronizer.tla says which.        *)
(*                                                                         *)
(* Callbacks run on goroutines of the gNMI server and of the diagnostic    *)
(* API.  Every step that another goroutine can observe is an action: the   *)
(* deep copy of the configuration, the atomic additions to busy, each      *)
(* receive and send on the channel.                                        *)
(***************************************************************************)
EXTENDS Naturals, Sequences, FiniteSets

CONSTANTS
  GnmiCallers,     \* goroutines of the gNMI server (updates and deletes)
  DiagCallers,     \* goroutines of the diagnostic API (forced resyncs);
                   \* a caller in both sets is a server that serialises them
  Configs,         \* contents of the configuration
  InitialConfig,   \* the one the gNMI server starts with
  MaxVersion       \* bound on the number of requests

Callers == GnmiCallers \cup DiagCallers

ASSUME UpdateQueueAssumption ==
  /\ InitialConfig \in Configs
  /\ MaxVersion \in Nat
  /\ IsFiniteSet(GnmiCallers)
  /\ IsFiniteSet(DiagCallers)

Update == [version : Nat, config : Configs]
NoUpdate == [version |-> 0, config |-> InitialConfig]

VARIABLES
  tree,      \* the gNMI server's configuration, and the number of requests
             \* that made it what it is
  channel,   \* updateChannel, of capacity 1
  busy,      \* the atomic counter busy
  call,      \* call[c]: where caller c is in Synchronize
  arg,       \* arg[c]: the update caller c enqueues
  loop,      \* where the synchronizer goroutine is
  current,   \* the update the loop services
  offered,   \* history: the latest update sent on the channel
  taken      \* history: the latest update received by the loop

callerVars == <<call, arg>>
loopVars == <<loop, current>>
vars == <<tree, channel, busy, call, arg, loop, current, offered, taken>>

CallStates ==
  {"idle", "invalidate", "copy", "count", "drain", "discount", "send"}
LoopStates ==
  {"off", "dead", "dequeue", "check", "sync", "sleep", "complete"}

TypeOK ==
  /\ tree \in Update
  /\ channel \in Seq(Update) /\ Len(channel) <= 1
  /\ busy \in Nat
  /\ call \in [Callers -> CallStates]
  /\ arg \in [Callers -> Update]
  /\ loop \in LoopStates
  /\ current \in Update
  /\ offered \in Update
  /\ taken \in Update

Init ==
  /\ tree = NoUpdate
  /\ channel = <<>>
  /\ busy = 0
  /\ call = [c \in Callers |-> "idle"]
  /\ arg = [c \in Callers |-> NoUpdate]
  /\ loop = "off"
  /\ current = NoUpdate
  /\ offered = NoUpdate
  /\ taken = NoUpdate

-----------------------------------------------------------------------------
(* Start: the loop is launched unless the SID store cannot be created, and *)
(* main goes on to serve requests either way.                              *)
Start ==
  /\ loop = "off"
  /\ loop' = "dequeue"
  /\ UNCHANGED <<tree, channel, busy, callerVars, current, offered, taken>>

StartFails ==
  /\ loop = "off"
  /\ loop' = "dead"
  /\ UNCHANGED <<tree, channel, busy, callerVars, current, offered, taken>>

-----------------------------------------------------------------------------
(* Callbacks *)

CallFrom(c, state) == call' = [call EXCEPT ![c] = state]

MayCall(c) ==
  /\ loop # "off"
  /\ call[c] = "idle"
  /\ tree.version < MaxVersion

(* A gNMI Set changes the configuration, and the server calls Synchronize. *)
Set(c, config) ==
  /\ c \in GnmiCallers
  /\ MayCall(c)
  /\ tree' = [version |-> tree.version + 1, config |-> config]
  /\ CallFrom(c, "copy")
  /\ UNCHANGED <<channel, busy, arg, loopVars, offered, taken>>

(* A gNMI delete changes the configuration; HandleDelete does nothing. *)
Delete(c, config) ==
  /\ c \in GnmiCallers
  /\ MayCall(c)
  /\ tree' = [version |-> tree.version + 1, config |-> config]
  /\ UNCHANGED <<channel, busy, callerVars, loopVars, offered, taken>>

(* A resync forced by the diagnostic API calls Synchronize, which first    *)
(* invalidates the cache of pushed configurations.                         *)
ForceResync(c) ==
  /\ c \in DiagCallers
  /\ MayCall(c)
  /\ tree' = [tree EXCEPT !.version = @ + 1]
  /\ CallFrom(c, "invalidate")
  /\ UNCHANGED <<channel, busy, arg, loopVars, offered, taken>>

(* CacheInvalidate, as far as the caller is concerned *)
Invalidated(c) ==
  /\ call[c] = "invalidate"
  /\ CallFrom(c, "copy")
  /\ UNCHANGED <<tree, channel, busy, arg, loopVars, offered, taken>>

(* enqueue: deep copy of the configuration, target by target in the code;  *)
(* here it is taken of one moment.                                         *)
Copy(c) ==
  /\ call[c] = "copy"
  /\ arg' = [arg EXCEPT ![c] = tree]
  /\ CallFrom(c, "count")
  /\ UNCHANGED <<tree, channel, busy, loopVars, offered, taken>>

(* The deep copy fails, and enqueue with it; the wrapper in main eats the error. *)
CopyFails(c) ==
  /\ call[c] = "copy"
  /\ CallFrom(c, "idle")
  /\ UNCHANGED <<tree, channel, busy, arg, loopVars, offered, taken>>

(* Mutant: the request is not counted. *)
CountForgotten(c) ==
  /\ call[c] = "count"
  /\ CallFrom(c, "drain")
  /\ UNCHANGED <<tree, channel, busy, arg, loopVars, offered, taken>>

(* atomic.AddInt32(&s.busy, 1) *)
Count(c) ==
  /\ call[c] = "count"
  /\ busy' = busy + 1
  /\ CallFrom(c, "drain")
  /\ UNCHANGED <<tree, channel, arg, loopVars, offered, taken>>

(* drain: receive a queued update... *)
DrainOne(c) ==
  /\ call[c] = "drain"
  /\ channel # <<>>
  /\ channel' = Tail(channel)
  /\ CallFrom(c, "discount")
  /\ UNCHANGED <<tree, busy, arg, loopVars, offered, taken>>

(* Mutant: a drained update stays on the busy count. *)
DiscountForgotten(c) ==
  /\ call[c] = "discount"
  /\ CallFrom(c, "drain")
  /\ UNCHANGED <<tree, channel, busy, arg, loopVars, offered, taken>>

(* ... and take it off the busy count *)
Discount(c) ==
  /\ call[c] = "discount"
  /\ busy' = busy - 1
  /\ CallFrom(c, "drain")
  /\ UNCHANGED <<tree, channel, arg, loopVars, offered, taken>>

(* The channel is empty: the select takes its default. *)
DrainDone(c) ==
  /\ call[c] = "drain"
  /\ channel = <<>>
  /\ CallFrom(c, "send")
  /\ UNCHANGED <<tree, channel, busy, arg, loopVars, offered, taken>>

(* s.updateChannel <- &update blocks while the channel is full. *)
Send(c) ==
  /\ call[c] = "send"
  /\ channel = <<>>
  /\ channel' = <<arg[c]>>
  /\ offered' = arg[c]
  /\ CallFrom(c, "idle")
  /\ UNCHANGED <<tree, busy, arg, loopVars, taken>>

EnqueueStep(c) ==
  \/ Invalidated(c)
  \/ Copy(c) \/ CopyFails(c)
  \/ Count(c)
  \/ DrainOne(c) \/ Discount(c) \/ DrainDone(c)
  \/ Send(c)

Request(c) ==
  \/ ForceResync(c)
  \/ \E config \in Configs : Set(c, config) \/ Delete(c, config)

-----------------------------------------------------------------------------
(* The loop *)

(* Mutant: the queue holds a reference to the server's configuration. *)
DequeueReference ==
  /\ loop = "dequeue"
  /\ channel # <<>>
  /\ current' = tree
  /\ taken' = tree
  /\ channel' = Tail(channel)
  /\ loop' = "check"
  /\ UNCHANGED <<tree, busy, callerVars, offered>>

(* dequeue blocks until there is an update. *)
Dequeue ==
  /\ loop = "dequeue"
  /\ channel # <<>>
  /\ current' = Head(channel)
  /\ taken' = Head(channel)
  /\ channel' = Tail(channel)
  /\ loop' = "check"
  /\ UNCHANGED <<tree, busy, callerVars, offered>>

(* Mutant: off by one. *)
newUpdatesPendingOffByOne == Len(channel) > 1

newUpdatesPending == Len(channel) > 0

(* Mutant: an obsoleted update is never completed. *)
ObsoletedIncomplete ==
  /\ loop = "check"
  /\ newUpdatesPending
  /\ loop' = "dequeue"
  /\ UNCHANGED <<tree, channel, busy, callerVars, current, offered, taken>>

(* Mutant: SynchronizeAndRetry completes an obsoleted update, and Loop again. *)
ObsoletedCompleted ==
  /\ loop = "check"
  /\ newUpdatesPending
  /\ busy' = busy - 1
  /\ loop' = "complete"
  /\ UNCHANGED <<tree, channel, callerVars, current, offered, taken>>

(* SynchronizeAndRetry gives up an update that has been obsoleted. *)
Obsoleted ==
  /\ loop = "check"
  /\ newUpdatesPending
  /\ loop' = "complete"
  /\ UNCHANGED <<tree, channel, busy, callerVars, current, offered, taken>>

CallSynchronizeDevice ==
  /\ loop = "check"
  /\ ~newUpdatesPending
  /\ loop' = "sync"
  /\ UNCHANGED <<tree, channel, busy, callerVars, current, offered, taken>>

(* synchronizeDeviceFunc returns: push failures are retried after a sleep, *)
(* an error or success ends the work on this update.                       *)
SynchronizeDeviceReturns(pushErrors, err) ==
  /\ loop = "sync"
  /\ loop' = IF ~err /\ pushErrors > 0 THEN "sleep" ELSE "complete"
  /\ UNCHANGED <<tree, channel, busy, callerVars, current, offered, taken>>

(* Mutant: a retry does not look for newer updates. *)
WakeUpAndRetry ==
  /\ loop = "sleep"
  /\ loop' = "sync"
  /\ UNCHANGED <<tree, channel, busy, callerVars, current, offered, taken>>

(* time.Sleep(s.retryInterval) ends. *)
WakeUp ==
  /\ loop = "sleep"
  /\ loop' = "check"
  /\ UNCHANGED <<tree, channel, busy, callerVars, current, offered, taken>>

complete ==
  /\ loop = "complete"
  /\ busy' = busy - 1
  /\ loop' = "dequeue"
  /\ UNCHANGED <<tree, channel, callerVars, current, offered, taken>>

LoopStep ==
  \/ Dequeue
  \/ Obsoleted \/ CallSynchronizeDevice \/ WakeUp
  \/ complete

DeviceStep == \E n \in 0..1, err \in BOOLEAN : SynchronizeDeviceReturns(n, err)

-----------------------------------------------------------------------------
Next ==
  \/ Start \/ StartFails
  \/ \E c \in Callers : Request(c) \/ EnqueueStep(c)
  \/ LoopStep
  \/ DeviceStep

Spec == Init /\ [][Next]_vars

(* Go schedules every goroutine that can run, every call of a pusher has a *)
(* timeout, and time passes.                                               *)
Fairness ==
  /\ WF_vars(Start \/ StartFails)
  /\ \A c \in Callers : WF_vars(EnqueueStep(c))
  /\ WF_vars(LoopStep)
  /\ WF_vars(DeviceStep)

FairSpec == Spec /\ Fairness

-----------------------------------------------------------------------------
(* busy counts exactly the requests that are queued, serviced or about to  *)
(* be queued, plus those received by a drain but not yet discounted: busy  *)
(* is zero only when the synchronizer is idle (isIdle).                    *)
Queueing == {c \in Callers : call[c] \in {"drain", "discount", "send"}}
Discounting == {c \in Callers : call[c] = "discount"}
Servicing == loop \in {"check", "sync", "sleep", "complete"}

BusyExact ==
  busy = Len(channel) + (IF Servicing THEN 1 ELSE 0)
           + Cardinality(Queueing) + Cardinality(Discounting)

(* isIdle hides no request: whatever callbacks drain and send meanwhile,   *)
(* when busy is zero the loop has taken the last update that was sent.     *)
IdleTookAll == busy = 0 => taken = offered

(* If an update is pending and a new one arrives, it is the older of the   *)
(* two that drain throws away.                                             *)
DiscardsOlder ==
  [][\A c \in Callers : DrainOne(c) => Head(channel).version <= arg[c].version]_vars

(* With requests one at a time, the channel implements LatestWins.         *)
Buffer == INSTANCE LatestWins
            WITH Updates <- Update, pending <- channel # <<>>
BufferSpec == Buffer!Spec

(* The loop gets to every update that was sent, or to a newer one, even if *)
(* the devices never accept the one it works on.                           *)
LatestTaken ==
  \A v \in 1..MaxVersion :
    (offered.version = v) ~> (taken.version >= v \/ loop = "dead")

(* Every callback returns, whatever other callbacks do at the same time.   *)
CallsReturn ==
  \A c \in Callers : (call[c] # "idle") ~> (call[c] = "idle" \/ loop = "dead")

(* Unless the devices refuse an update for ever, the busy count drops back *)
(* to zero once the requests stop (their number is bounded here).          *)
BecomesIdle ==
  (<>[](loop # "sleep") /\ [](loop # "dead")) => <>[](busy = 0)
=============================================================================
