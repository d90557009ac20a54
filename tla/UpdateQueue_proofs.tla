--------------------------- MODULE UpdateQueue_proofs ---------------------------
(***************************************************************************)
(* Proofs about UpdateQueue, for any finite number of callers, any set of  *)
(* configurations and any number of requests: busy is exact; while no two  *)
(* callers are between their copy and their send, the drain discards the   *)
(* older update and the loop only goes forward; and while no two calls     *)
(* overlap at all, the channel implements LatestWins.                      *)
(***************************************************************************)
EXTENDS UpdateQueue, FiniteSetTheorems, SequenceTheorems, TLAPS

(* A queue of at most one update, as numbers *)
LEMMA ChannelLengths ==
  ASSUME TypeOK
  PROVE  /\ busy \in Nat
         /\ Len(channel) \in 0..1
         /\ channel = <<>> => Len(channel) = 0
         /\ channel # <<>> => Len(channel) = 1 /\ Len(Tail(channel)) = Len(channel) - 1
         /\ \A u \in Update : Len(<<u>>) = 1
<1>1. channel \in Seq(Update)
  BY DEF TypeOK
<1>2. busy \in Nat /\ Len(channel) <= 1
  BY DEF TypeOK
<1>3. Len(channel) \in Nat
  BY <1>1, LenProperties
<1>4. Len(channel) \in 0..1
  BY <1>2, <1>3
<1>5. channel = <<>> => Len(channel) = 0
  OBVIOUS
<1>6. ASSUME channel # <<>>
      PROVE  Len(channel) = 1 /\ Len(Tail(channel)) = Len(channel) - 1
  <2>1. Len(Tail(channel)) = Len(channel) - 1
    BY <1>1, <1>6, HeadTailProperties
  <2>2. Len(channel) # 0
    BY <1>1, <1>6, EmptySeq
  <2>3. QED
    BY <1>4, <2>1, <2>2
<1>7. QED
  BY <1>2, <1>4, <1>5, <1>6

(* ... and what can be received from it and sent on it *)
LEMMA ChannelContents ==
  ASSUME TypeOK
  PROVE  /\ channel # <<>> => Head(channel) \in Update /\ Tail(channel) = <<>>
         /\ <<>> \in Seq(Update)
         /\ \A u \in Update : <<u>> \in Seq(Update) /\ Head(<<u>>) = u
<1>1. channel \in Seq(Update)
  BY DEF TypeOK
<1>2. ASSUME channel # <<>>
      PROVE  Head(channel) \in Update /\ Tail(channel) = <<>>
  <2>1. Head(channel) \in Update /\ Tail(channel) \in Seq(Update)
    BY <1>1, <1>2, HeadTailProperties
  <2>2. Len(Tail(channel)) = 0
    BY <1>2, ChannelLengths
  <2>3. QED
    BY <2>1, <2>2, EmptySeq
<1>3. QED
  BY <1>2

LEMMA TypeInit == Init => TypeOK
  BY UpdateQueueAssumption DEF Init, TypeOK, Update, NoUpdate, CallStates, LoopStates

(* The two steps that lower busy are taken while it is positive. *)
TypeSafe ==
  /\ TypeOK
  /\ \A c \in Callers : call[c] = "discount" => busy > 0
  /\ loop = "complete" => busy > 0

LEMMA TypeStep == TypeSafe /\ [Next]_vars => TypeOK'
<1> SUFFICES ASSUME TypeSafe, [Next]_vars PROVE TypeOK'
  OBVIOUS
<1>0. TypeOK
  BY DEF TypeSafe
<1> USE <1>0, ChannelLengths, ChannelContents DEF TypeOK, CallStates, callerVars, loopVars, CallFrom
<1>1. ASSUME Start \/ StartFails PROVE TypeOK'
  BY <1>1 DEF Start, StartFails, LoopStates
<1>2. ASSUME NEW c \in Callers, Request(c) PROVE TypeOK'
  <2>1. tree' \in Update
    BY ONLY <1>2, tree \in Update DEF Request, ForceResync, Set, Delete, Update
  <2>2. QED
    BY <1>2, <2>1 DEF Request, ForceResync, Set, Delete
<1>3. ASSUME NEW c \in Callers, EnqueueStep(c) PROVE TypeOK'
  <2>1. CASE Invalidated(c) \/ Copy(c) \/ CopyFails(c)
    BY <2>1 DEF Invalidated, Copy, CopyFails
  <2>2. CASE Count(c)
    BY <2>2 DEF Count
  <2>3. CASE DrainOne(c) \/ DrainDone(c)
    BY <2>3 DEF DrainOne, DrainDone
  <2>4. CASE Discount(c)
    BY <2>4 DEF Discount, TypeSafe
  <2>5. CASE Send(c)
    BY <2>5 DEF Send
  <2>6. QED
    BY <1>3, <2>1, <2>2, <2>3, <2>4, <2>5 DEF EnqueueStep
<1>4. ASSUME LoopStep PROVE TypeOK'
  <2>1. CASE Dequeue
    BY <2>1 DEF Dequeue, LoopStates
  <2>2. CASE Obsoleted \/ CallSynchronizeDevice \/ WakeUp
    BY <2>2 DEF Obsoleted, CallSynchronizeDevice, WakeUp, LoopStates
  <2>3. CASE complete
    BY <2>3 DEF complete, LoopStates, TypeSafe
  <2>4. QED
    BY <1>4, <2>1, <2>2, <2>3 DEF LoopStep
<1>5. ASSUME DeviceStep PROVE TypeOK'
  BY <1>5 DEF DeviceStep, SynchronizeDeviceReturns, LoopStates
<1>6. CASE UNCHANGED vars
  BY <1>6 DEF vars
<1>7. QED
  BY <1>1, <1>2, <1>3, <1>4, <1>5, <1>6 DEF Next

-----------------------------------------------------------------------------
(* The busy count *)

LEMMA CallersFinite ==
  /\ IsFiniteSet(Queueing) /\ Cardinality(Queueing) \in Nat
  /\ IsFiniteSet(Discounting) /\ Cardinality(Discounting) \in Nat
<1>1. IsFiniteSet(Callers)
  BY UpdateQueueAssumption, FS_Union DEF Callers
<1>2. Queueing \in SUBSET Callers /\ Discounting \in SUBSET Callers
  BY DEF Queueing, Discounting
<1>3. QED
  BY <1>1, <1>2, FS_Subset, FS_CardinalityType

BusyInv == TypeOK /\ BusyExact

LEMMA BusyIsTypeSafe == BusyInv => TypeSafe
<1> SUFFICES ASSUME BusyInv PROVE TypeSafe
  OBVIOUS
<1> USE ChannelLengths, CallersFinite DEF BusyInv, BusyExact
<1>1. ASSUME NEW c \in Callers, call[c] = "discount" PROVE busy > 0
  <2>1. Discounting # {}
    BY <1>1 DEF Discounting
  <2>2. Cardinality(Discounting) # 0
    BY <2>1, FS_EmptySet
  <2>3. QED
    BY <2>2
<1>2. ASSUME loop = "complete" PROVE busy > 0
  BY <1>2 DEF Servicing
<1>3. QED
  BY <1>1, <1>2 DEF TypeSafe

(* Steps that leave the callers that count alone *)
LEMMA SameCallers ==
  ASSUME TypeOK, TypeOK',
         \A c \in Callers : call'[c] = call[c] \/
           {call[c], call'[c]} \subseteq {"idle", "invalidate", "copy", "count"}
  PROVE  Queueing' = Queueing /\ Discounting' = Discounting
  BY DEF TypeOK, Queueing, Discounting

LEMMA BusyStep == BusyInv /\ [Next]_vars => BusyInv'
<1> SUFFICES ASSUME BusyInv, [Next]_vars PROVE BusyInv'
  OBVIOUS
<1>0. TypeOK /\ TypeOK'
  BY TypeStep, BusyIsTypeSafe DEF BusyInv
<1>n. /\ busy \in Nat /\ Len(channel) \in Nat
      /\ Cardinality(Queueing) \in Nat /\ Cardinality(Discounting) \in Nat
      /\ BusyExact
  BY <1>0, ChannelLengths, CallersFinite DEF BusyInv
<1> DEFINE Same == Queueing' = Queueing /\ Discounting' = Discounting
           Served == IF Servicing THEN 1 ELSE 0
           Accounted == Len(channel) + Served + Cardinality(Queueing) + Cardinality(Discounting)
<1>a. Served \in Nat /\ busy = Accounted /\ (busy' = Accounted' => BusyExact')
  BY <1>n DEF BusyExact
<1>b. Servicing' = Servicing => Served' = Served
  OBVIOUS
<1> HIDE DEF Served
<1> USE <1>0, ChannelLengths, CallersFinite DEF BusyInv, BusyExact, callerVars, loopVars
<1>1. ASSUME Start \/ StartFails PROVE BusyExact'
  <2>1. Same
    BY <1>1, SameCallers DEF Start, StartFails
  <2>2. QED
    BY <1>1, <2>1 DEF Start, StartFails, Servicing
<1>2. ASSUME NEW c \in Callers, Request(c) PROVE BusyExact'
  <2>1. Same
    BY <1>2, SameCallers DEF Request, ForceResync, Set, Delete, MayCall, CallFrom, TypeOK
  <2>2. QED
    BY <1>2, <2>1 DEF Request, ForceResync, Set, Delete, Servicing
<1>3. ASSUME NEW c \in Callers, EnqueueStep(c) PROVE BusyExact'
  <2>1. CASE Invalidated(c) \/ Copy(c) \/ CopyFails(c)
    <3>1. Same
      BY <2>1, SameCallers DEF Invalidated, Copy, CopyFails, CallFrom, TypeOK
    <3>2. QED
      BY <2>1, <3>1 DEF Invalidated, Copy, CopyFails, Servicing
  <2>2. CASE Count(c)
    <3>1. Queueing' = Queueing \cup {c} /\ c \notin Queueing /\ Discounting' = Discounting
      BY <2>2 DEF Count, CallFrom, TypeOK, Queueing, Discounting
    <3>2. Cardinality(Queueing') = Cardinality(Queueing) + 1
      BY <3>1, FS_AddElement
    <3>3. busy' = busy + 1 /\ Len(channel') = Len(channel) /\ Servicing' = Servicing
      BY ONLY <2>2 DEF Count, loopVars, Servicing
    <3>4. Cardinality(Discounting') = Cardinality(Discounting)
      BY ONLY <3>1
    <3>5. Served' = Served
      BY ONLY <1>b, <3>3
    <3>6. busy' = Accounted'
      BY ONLY <1>n, <1>a, <3>2, <3>3, <3>4, <3>5
    <3>7. QED
      BY ONLY <1>a, <3>6
  <2>3. CASE DrainOne(c)
    <3>1. Discounting' = Discounting \cup {c} /\ c \notin Discounting /\ Queueing' = Queueing
      BY <2>3 DEF DrainOne, CallFrom, TypeOK, Queueing, Discounting
    <3>2. Cardinality(Discounting') = Cardinality(Discounting) + 1
      BY <3>1, FS_AddElement
    <3>3. Len(channel) \in Nat /\ Len(channel') = Len(channel) - 1
      <4>1. Len(channel) \in Nat
        OBVIOUS
      <4>2. channel # <<>> /\ channel' = Tail(channel)
        BY ONLY <2>3 DEF DrainOne
      <4>3. Len(Tail(channel)) = Len(channel) - 1
        BY <4>2
      <4>4. QED
        BY ONLY <4>1, <4>2, <4>3
    <3>4. busy' = busy /\ Servicing' = Servicing
      BY ONLY <2>3 DEF DrainOne, loopVars, Servicing
    <3>5. Cardinality(Queueing') = Cardinality(Queueing)
      BY ONLY <3>1
    <3>6. Served' = Served
      BY ONLY <1>b, <3>4
    <3>7. busy' = Accounted'
      BY ONLY <1>n, <1>a, <3>2, <3>3, <3>4, <3>5, <3>6
    <3>8. QED
      BY ONLY <1>a, <3>7
  <2>4. CASE Discount(c)
    <3>1. Discounting' = Discounting \ {c} /\ c \in Discounting /\ Queueing' = Queueing
      BY <2>4 DEF Discount, CallFrom, TypeOK, Queueing, Discounting
    <3>2. Cardinality(Discounting') = Cardinality(Discounting) - 1
      BY <3>1, FS_RemoveElement
    <3>3. busy' = busy - 1 /\ Len(channel') = Len(channel) /\ Servicing' = Servicing
      BY ONLY <2>4 DEF Discount, loopVars, Servicing
    <3>4. Cardinality(Queueing') = Cardinality(Queueing)
      BY ONLY <3>1
    <3>5. Served' = Served
      BY ONLY <1>b, <3>3
    <3>6. busy' = Accounted'
      BY ONLY <1>n, <1>a, <3>2, <3>3, <3>4, <3>5
    <3>7. QED
      BY ONLY <1>a, <3>6
  <2>5. CASE DrainDone(c)
    <3>1. Same
      BY <2>5 DEF DrainDone, CallFrom, TypeOK, Queueing, Discounting
    <3>2. QED
      BY <2>5, <3>1 DEF DrainDone, Servicing
  <2>6. CASE Send(c)
    <3>1. Queueing' = Queueing \ {c} /\ c \in Queueing /\ Discounting' = Discounting
      BY <2>6 DEF Send, CallFrom, TypeOK, Queueing, Discounting
    <3>2. Cardinality(Queueing') = Cardinality(Queueing) - 1
      BY <3>1, FS_RemoveElement
    <3>3. Len(channel) = 0 /\ Len(channel') = 1
      BY <2>6 DEF Send, TypeOK
    <3>4. busy' = busy /\ Servicing' = Servicing
      BY ONLY <2>6 DEF Send, loopVars, Servicing
    <3>5. Cardinality(Discounting') = Cardinality(Discounting)
      BY ONLY <3>1
    <3>6. Served' = Served
      BY ONLY <1>b, <3>4
    <3>7. busy' = Accounted'
      BY ONLY <1>n, <1>a, <3>2, <3>3, <3>4, <3>5, <3>6
    <3>8. QED
      BY ONLY <1>a, <3>7
  <2>7. QED
    BY <1>3, <2>1, <2>2, <2>3, <2>4, <2>5, <2>6 DEF EnqueueStep
<1>4. ASSUME LoopStep PROVE BusyExact'
  <2>0. Same
    BY <1>4, SameCallers DEF LoopStep, Dequeue, Obsoleted, CallSynchronizeDevice, WakeUp,
       complete
  <2>1. CASE Dequeue
    <3>1. Len(channel) = 1 /\ Len(channel') = 0
      BY <2>1 DEF Dequeue
    <3>2. QED
      BY <2>0, <2>1, <3>1 DEF Dequeue, Servicing, TypeOK
  <2>2. CASE Obsoleted \/ CallSynchronizeDevice \/ WakeUp
    BY <2>0, <2>2 DEF Obsoleted, CallSynchronizeDevice, WakeUp, Servicing
  <2>3. CASE complete
    BY <2>0, <2>3 DEF complete, Servicing, TypeOK
  <2>4. QED
    BY <1>4, <2>1, <2>2, <2>3 DEF LoopStep
<1>5. ASSUME DeviceStep PROVE BusyExact'
  <2>1. Same
    BY <1>5, SameCallers DEF DeviceStep, SynchronizeDeviceReturns
  <2>2. QED
    BY <1>5, <2>1 DEF DeviceStep, SynchronizeDeviceReturns, Servicing
<1>6. ASSUME UNCHANGED vars PROVE BusyExact'
  BY <1>6 DEF vars, Queueing, Discounting, Servicing
<1>7. QED
  BY <1>1, <1>2, <1>3, <1>4, <1>5, <1>6 DEF Next

LEMMA BusyInductive == Spec => []BusyInv
<1>1. Init => BusyInv
  <2> SUFFICES ASSUME Init PROVE BusyInv
    OBVIOUS
  <2>1. Queueing = {} /\ Discounting = {}
    BY DEF Init, Queueing, Discounting
  <2>2. QED
    BY <2>1, TypeInit, FS_EmptySet DEF Init, BusyInv, BusyExact, Servicing
<1>2. QED
  BY <1>1, BusyStep, PTL DEF Spec

(* The type invariant; busy is never negative.                             *)
THEOREM TypeCorrect == Spec => []TypeOK
  BY BusyInductive, PTL DEF BusyInv

(* busy counts exactly the requests queued, serviced or being queued,      *)
(* however many callbacks drain and send at once; isIdle can be trusted.   *)
THEOREM BusyCorrect == Spec => []BusyExact
  BY BusyInductive, PTL DEF BusyInv

(* The channel holds the last update sent; that one is with the loop, or in *)
(* the channel, or drained by a caller that is still to send its own.      *)
SentInv ==
  /\ channel # <<>> => Head(channel) = offered
  /\ taken # offered => channel # <<>> \/ Queueing # {}

LEMMA SentStep ==
  ASSUME TypeOK, SentInv, [Next]_vars
  PROVE  SentInv'
<1>c. call \in [Callers -> CallStates] /\ arg \in [Callers -> Update]
  BY DEF TypeOK
<1> USE DEF SentInv, Queueing, callerVars, loopVars, CallFrom
<1>1. ASSUME NEW c \in Callers, Request(c) PROVE SentInv'
  BY <1>c, <1>1 DEF Request, ForceResync, Set, Delete, MayCall
<1>2. ASSUME NEW c \in Callers, Invalidated(c) \/ Copy(c) \/ CopyFails(c) PROVE SentInv'
  BY <1>c, <1>2 DEF Invalidated, Copy, CopyFails
<1>3. ASSUME NEW c \in Callers, Count(c) \/ Discount(c) \/ DrainDone(c) PROVE SentInv'
  BY <1>c, <1>3 DEF Count, Discount, DrainDone
<1>4. ASSUME NEW c \in Callers, DrainOne(c) PROVE SentInv'
  <2>1. channel' = <<>>
    BY <1>4, ChannelContents DEF DrainOne
  <2>2. call'[c] = "discount" /\ UNCHANGED <<offered, taken>>
    BY <1>c, <1>4 DEF DrainOne
  <2>3. QED
    BY <2>1, <2>2
<1>5. ASSUME NEW c \in Callers, Send(c) PROVE SentInv'
  <2>1. Head(channel') = offered' /\ channel' # <<>>
    BY <1>c, <1>5, ChannelContents DEF Send
  <2>2. QED
    BY <2>1
<1>6. ASSUME Dequeue PROVE SentInv'
  <2>1. channel' = <<>> /\ taken' = offered'
    BY <1>6, ChannelContents DEF Dequeue
  <2>2. QED
    BY <2>1
<1>7. ASSUME \/ Start \/ StartFails \/ DeviceStep
             \/ Obsoleted \/ CallSynchronizeDevice \/ WakeUp \/ complete
      PROVE  SentInv'
  BY <1>7 DEF Start, StartFails, DeviceStep, SynchronizeDeviceReturns, Obsoleted,
     CallSynchronizeDevice, WakeUp, complete
<1>8. ASSUME UNCHANGED vars PROVE SentInv'
  BY <1>8 DEF vars
<1>9. QED
  BY <1>1, <1>2, <1>3, <1>4, <1>5, <1>6, <1>7, <1>8 DEF Next, LoopStep, EnqueueStep

LEMMA IdleMeansEmpty ==
  ASSUME TypeOK, BusyExact, busy = 0
  PROVE  channel = <<>> /\ ~Servicing /\ Queueing = {}
<1>1. Len(channel) = 0 /\ ~Servicing /\ Cardinality(Queueing) = 0
  BY ChannelLengths, CallersFinite DEF BusyExact
<1>2. channel = <<>>
  BY <1>1, ChannelLengths
<1>3. Queueing = {}
  BY <1>1, CallersFinite, FS_EmptySet
<1>4. QED
  BY <1>1, <1>2, <1>3

LEMMA SentIsTaken == TypeOK /\ BusyExact /\ SentInv => IdleTookAll
  BY IdleMeansEmpty DEF SentInv, IdleTookAll

(* isIdle hides no request, however many callbacks drain the channel, take  *)
(* their drained updates off the count and send at once.                   *)
THEOREM IdleTookAllCorrect == Spec => []IdleTookAll
<1>1. Init => SentInv
  BY DEF Init, SentInv
<1>2. TypeOK /\ SentInv /\ [Next]_vars => SentInv'
  BY SentStep
<1>3. QED
  BY <1>1, <1>2, SentIsTaken, BusyInductive, PTL DEF Spec, BusyInv

-----------------------------------------------------------------------------
(* The order of the updates *)

Enqueueing == {"count", "drain", "discount", "send"}

(* No two callers are between the copy of the configuration and the send... *)
EnqueuesApart ==
  \A c, d \in Callers : call[c] \in Enqueueing /\ call[d] \in Enqueueing => c = d

(* ... or in Synchronize at all. *)
CallsApart == \A c, d \in Callers : call[c] # "idle" /\ call[d] # "idle" => c = d

OneCaller == \A c, d \in Callers : c = d

Versions ==
  /\ tree.version \in Nat
  /\ offered.version \in Nat
  /\ taken.version \in Nat
  /\ \A c \in Callers : arg[c].version \in Nat

LEMMA VersionsTyped ==
  ASSUME BusyInv, [Next]_vars
  PROVE  TypeOK /\ TypeOK' /\ Versions /\ Versions'
<1>1. TypeOK /\ TypeOK'
  BY TypeStep, BusyIsTypeSafe DEF BusyInv
<1>2. QED
  BY <1>1 DEF TypeOK, Update, Versions

(* The steps that the order of the updates does not depend on *)
OtherCallerStep(c) ==
  Invalidated(c) \/ CopyFails(c) \/ Count(c) \/ Discount(c) \/ DrainDone(c)
OtherLoopStep ==
  \/ Start \/ StartFails \/ DeviceStep
  \/ Obsoleted \/ CallSynchronizeDevice \/ WakeUp \/ complete

LEMMA NextCases ==
  Next <=> \/ \E c \in Callers : \/ Request(c) \/ OtherCallerStep(c)
                                \/ Copy(c) \/ DrainOne(c) \/ Send(c)
           \/ Dequeue \/ OtherLoopStep
  BY DEF Next, LoopStep, EnqueueStep, OtherCallerStep, OtherLoopStep

LEMMA OtherLoopStepQuiet ==
  OtherLoopStep => UNCHANGED <<tree, channel, call, arg, offered, taken>>
  BY DEF OtherLoopStep, Start, StartFails, DeviceStep, SynchronizeDeviceReturns, Obsoleted,
     CallSynchronizeDevice, WakeUp, complete, callerVars

LEMMA RequestEffect ==
  ASSUME TypeOK, NEW c \in Callers, Request(c)
  PROVE  /\ tree'.version = tree.version + 1
         /\ UNCHANGED <<channel, arg, offered, taken>>
         /\ call[c] = "idle"
         /\ call'[c] \in {"idle", "invalidate", "copy"}
         /\ \A d \in Callers \ {c} : call'[d] = call[d]
  BY DEF Request, ForceResync, Set, Delete, MayCall, CallFrom, callerVars, TypeOK, Update

-----------------------------------------------------------------------------
(* While no two callers enqueue at the same time *)

(* The channel holds the latest update sent, and has room for the caller   *)
(* that is about to send; what that one has is no older; and what the loop *)
(* took is no newer.                                                       *)
ForwardInv ==
  /\ channel # <<>> => Head(channel) = offered
  /\ taken.version <= offered.version
  /\ offered.version <= tree.version
  /\ \A c \in Callers :
       /\ call[c] \in Enqueueing =>
            offered.version <= arg[c].version /\ arg[c].version <= tree.version
       /\ call[c] = "send" => channel = <<>>

LEMMA ForwardStep ==
  ASSUME EnqueuesApart, BusyInv, ForwardInv, [Next]_vars
  PROVE  ForwardInv'
<1>0. TypeOK /\ TypeOK' /\ Versions /\ Versions'
  BY VersionsTyped
<1>c. call \in [Callers -> CallStates] /\ arg \in [Callers -> Update]
  BY <1>0 DEF TypeOK
<1> USE DEF ForwardInv, Versions, callerVars, loopVars, CallFrom, Enqueueing
<1>1. ASSUME NEW c \in Callers, Request(c) PROVE ForwardInv'
  BY <1>0, <1>1, RequestEffect
<1>2. ASSUME NEW c \in Callers, OtherCallerStep(c) PROVE ForwardInv'
  BY <1>0, <1>c, <1>2 DEF OtherCallerStep, Invalidated, CopyFails, Count, Discount, DrainDone
<1>3. ASSUME NEW c \in Callers, Copy(c) PROVE ForwardInv'
  BY <1>0, <1>c, <1>3 DEF Copy
<1>4. ASSUME NEW c \in Callers, DrainOne(c) PROVE ForwardInv'
  <2>1. channel' = <<>>
    BY <1>0, <1>4, ChannelContents DEF DrainOne
  <2>2. QED
    BY <1>0, <1>c, <1>4, <2>1 DEF DrainOne
<1>5. ASSUME NEW c \in Callers, Send(c) PROVE ForwardInv'
  <2>1. Head(channel') = offered' /\ offered' = arg[c]
    BY <1>0, <1>c, <1>5, ChannelContents DEF Send
  <2>2. /\ UNCHANGED <<tree, arg, taken>>
        /\ call[c] = "send" /\ call'[c] = "idle"
        /\ \A d \in Callers \ {c} : call'[d] = call[d]
    BY <1>c, <1>5 DEF Send
  <2>3. \A d \in Callers : call'[d] \notin Enqueueing
    BY <2>2 DEF EnqueuesApart
  <2>4. taken.version <= arg[c].version /\ arg[c].version <= tree.version
    BY <1>0, <2>2
  <2>5. QED
    BY <2>1, <2>2, <2>3, <2>4
<1>6. ASSUME Dequeue PROVE ForwardInv'
  <2>1. channel' = <<>> /\ taken' = offered
    BY <1>0, <1>6, ChannelContents DEF Dequeue
  <2>2. QED
    BY <1>0, <1>6, <2>1 DEF Dequeue
<1>7. ASSUME OtherLoopStep PROVE ForwardInv'
  BY <1>7, OtherLoopStepQuiet
<1>8. ASSUME UNCHANGED vars PROVE ForwardInv'
  BY <1>8 DEF vars
<1>9. QED
  BY <1>1, <1>2, <1>3, <1>4, <1>5, <1>6, <1>7, <1>8, NextCases

LEMMA ForwardInductive == Spec /\ []EnqueuesApart => [](BusyInv /\ ForwardInv)
<1>1. Init => ForwardInv
  BY DEF Init, ForwardInv, NoUpdate, Enqueueing
<1>2. EnqueuesApart /\ BusyInv /\ ForwardInv /\ [Next]_vars => ForwardInv'
  BY ForwardStep
<1>3. QED
  BY <1>1, <1>2, BusyInductive, PTL DEF Spec

(* What drain throws away is the older of the two updates (its comment in  *)
(* async.go), however many goroutines call Synchronize, as long as no two  *)
(* are between their copy of the configuration and their send.             *)
THEOREM OlderIsDiscarded == Spec /\ []EnqueuesApart => DiscardsOlder
<1>1. BusyInv /\ ForwardInv /\ [Next]_vars =>
        [\A c \in Callers : DrainOne(c) => Head(channel).version <= arg[c].version]_vars
  <2> SUFFICES ASSUME ForwardInv, NEW c \in Callers, DrainOne(c)
               PROVE  Head(channel).version <= arg[c].version
    OBVIOUS
  <2>1. channel # <<>> /\ call[c] = "drain"
    BY DEF DrainOne
  <2>2. QED
    BY <2>1 DEF ForwardInv, Enqueueing
<1>2. QED
  BY <1>1, ForwardInductive, PTL DEF Spec, DiscardsOlder

(* Under the same condition the loop never goes back to an older update,   *)
(* and a send on the channel, whose reader may be busy for a long time,    *)
(* never blocks the callback.                                              *)
THEOREM LoopGoesForward ==
  Spec /\ []EnqueuesApart =>
    /\ [][taken'.version >= taken.version]_vars
    /\ [](\A c \in Callers : call[c] = "send" => channel = <<>>)
<1>1. BusyInv /\ ForwardInv /\ [Next]_vars => [taken'.version >= taken.version]_vars
  <2> SUFFICES ASSUME BusyInv, ForwardInv, Next PROVE taken'.version >= taken.version
    OBVIOUS
  <2>0. TypeOK /\ Versions /\ Versions'
    BY VersionsTyped
  <2>1. CASE Dequeue
    <3>1. taken' = offered
      BY <2>1 DEF Dequeue, ForwardInv
    <3>2. QED
      BY <2>0, <3>1 DEF ForwardInv, Versions
  <2>2. CASE taken' = taken
    BY <2>0, <2>2 DEF Versions
  <2>3. QED
    <3>1. ASSUME NEW c \in Callers,
                 Request(c) \/ OtherCallerStep(c) \/ Copy(c) \/ DrainOne(c) \/ Send(c)
          PROVE  taken' = taken
      BY <3>1 DEF Request, ForceResync, Set, Delete, OtherCallerStep, Invalidated, CopyFails,
         Count, Discount, DrainDone, Copy, DrainOne, Send
    <3>2. OtherLoopStep => taken' = taken
      BY OtherLoopStepQuiet
    <3>3. QED
      BY <2>1, <2>2, <3>1, <3>2, NextCases
<1>2. ForwardInv => \A c \in Callers : call[c] = "send" => channel = <<>>
  BY DEF ForwardInv
<1>3. QED
  BY <1>1, <1>2, ForwardInductive, PTL DEF Spec

-----------------------------------------------------------------------------
(* The refinement of LatestWins, while no two calls overlap *)

(* The channel holds the latest update sent, and the caller that is about  *)
(* to send has a newer one.                                                *)
OrderInv ==
  /\ channel # <<>> => Head(channel) = offered
  /\ offered.version <= tree.version
  /\ \A c \in Callers :
       /\ call[c] \in {"invalidate", "copy"} => offered.version < tree.version
       /\ call[c] \in Enqueueing =>
            offered.version < arg[c].version /\ arg[c].version <= tree.version

LEMMA OrderStep ==
  ASSUME CallsApart, BusyInv, OrderInv, [Next]_vars
  PROVE  OrderInv'
<1>0. TypeOK /\ TypeOK' /\ Versions /\ Versions'
  BY VersionsTyped
<1>c. call \in [Callers -> CallStates] /\ arg \in [Callers -> Update]
  BY <1>0 DEF TypeOK
<1> USE DEF OrderInv, Versions, callerVars, loopVars, CallFrom, Enqueueing
<1>1. ASSUME NEW c \in Callers, Request(c) PROVE OrderInv'
  BY <1>0, <1>1, RequestEffect
<1>2. ASSUME NEW c \in Callers, OtherCallerStep(c) PROVE OrderInv'
  BY <1>0, <1>c, <1>2 DEF OtherCallerStep, Invalidated, CopyFails, Count, Discount, DrainDone
<1>3. ASSUME NEW c \in Callers, Copy(c) PROVE OrderInv'
  BY <1>0, <1>c, <1>3 DEF Copy
<1>4. ASSUME NEW c \in Callers, DrainOne(c) PROVE OrderInv'
  <2>1. channel' = <<>>
    BY <1>0, <1>4, ChannelContents DEF DrainOne
  <2>2. QED
    BY <1>0, <1>c, <1>4, <2>1 DEF DrainOne
<1>5. ASSUME NEW c \in Callers, Send(c) PROVE OrderInv'
  <2>1. Head(channel') = offered' /\ offered' = arg[c]
    BY <1>0, <1>c, <1>5, ChannelContents DEF Send
  <2>2. /\ UNCHANGED <<tree, arg>>
        /\ call[c] = "send" /\ call'[c] = "idle"
        /\ \A d \in Callers \ {c} : call'[d] = call[d]
    BY <1>c, <1>5 DEF Send
  <2>3. \A d \in Callers : call'[d] = "idle"
    BY <2>2 DEF CallsApart
  <2>4. arg[c].version <= tree.version
    BY <2>2
  <2>5. QED
    BY <2>1, <2>2, <2>3, <2>4
<1>6. ASSUME Dequeue PROVE OrderInv'
  <2>1. channel' = <<>>
    BY <1>0, <1>6, ChannelContents DEF Dequeue
  <2>2. QED
    BY <1>0, <1>6, <2>1 DEF Dequeue
<1>7. ASSUME OtherLoopStep PROVE OrderInv'
  BY <1>7, OtherLoopStepQuiet
<1>8. ASSUME UNCHANGED vars PROVE OrderInv'
  BY <1>8 DEF vars
<1>9. QED
  BY <1>1, <1>2, <1>3, <1>4, <1>5, <1>6, <1>7, <1>8, NextCases

(* While no two calls of Synchronize overlap, whichever goroutines make    *)
(* them, the loop takes every request at most once, only the latest one,   *)
(* and never goes back: the channel implements LatestWins.                 *)
THEOREM LatestWinsUnlessOverlapping == Spec /\ []CallsApart => BufferSpec
<1>1. Init => Buffer!Init /\ OrderInv
  BY DEF Init, Buffer!Init, OrderInv, NoUpdate, Enqueueing
<1>2. CallsApart /\ BusyInv /\ OrderInv /\ [Next]_vars => OrderInv'
  BY OrderStep
<1>3. BusyInv /\ OrderInv /\ [Next]_vars => [Buffer!Next]_(Buffer!vars)
  <2> SUFFICES ASSUME BusyInv, OrderInv, [Next]_vars
               PROVE  Buffer!Next \/ UNCHANGED <<offered, channel # <<>>, taken>>
    BY DEF Buffer!vars
  <2>0. TypeOK /\ TypeOK'
    BY TypeStep, BusyIsTypeSafe DEF BusyInv
  <2>1. ASSUME NEW c \in Callers, Send(c) PROVE Buffer!Offer
    <3>1. offered' \in Update /\ offered'.version > offered.version
      BY <2>0, <2>1 DEF Send, TypeOK, OrderInv, Enqueueing
    <3>2. channel' # <<>> /\ taken' = taken
      BY <2>1 DEF Send
    <3>3. QED
      BY <3>1, <3>2 DEF Buffer!Offer
  <2>2. ASSUME NEW c \in Callers, DrainOne(c) PROVE Buffer!Withdraw
    <3>1. channel # <<>> /\ channel' = <<>>
      BY <2>0, <2>2, ChannelContents DEF DrainOne
    <3>2. QED
      BY <2>2, <3>1 DEF DrainOne, Buffer!Withdraw
  <2>3. ASSUME Dequeue PROVE Buffer!Take
    <3>1. channel # <<>> /\ channel' = <<>> /\ taken' = offered
      BY <2>0, <2>3, ChannelContents DEF Dequeue, OrderInv
    <3>2. QED
      BY <2>3, <3>1 DEF Dequeue, Buffer!Take
  <2>4. ASSUME NEW c \in Callers, Request(c) \/ OtherCallerStep(c) \/ Copy(c)
        PROVE  UNCHANGED <<offered, channel, taken>>
    BY <2>4 DEF Request, ForceResync, Set, Delete, OtherCallerStep, Invalidated, CopyFails,
       Count, Discount, DrainDone, Copy
  <2>5. OtherLoopStep => UNCHANGED <<offered, channel, taken>>
    BY OtherLoopStepQuiet
  <2>6. ASSUME UNCHANGED vars PROVE UNCHANGED <<offered, channel, taken>>
    BY <2>6 DEF vars
  <2>7. QED
    BY <2>1, <2>2, <2>3, <2>4, <2>5, <2>6, NextCases DEF Buffer!Next
<1>4. QED
  BY <1>1, <1>2, <1>3, BusyInductive, PTL DEF Spec, BufferSpec, Buffer!Spec

(* So it is with one caller, the gNMI server by itself.                    *)
THEOREM Refinement ==
  ASSUME OneCaller
  PROVE  Spec => BufferSpec
<1>1. CallsApart
  BY DEF OneCaller, CallsApart
<1>2. QED
  BY <1>1, LatestWinsUnlessOverlapping, PTL

(* What LatestWins promises its users, for any updates: an update is taken  *)
(* only if it is newer than the one taken before, so none is taken twice    *)
(* and the loop never goes back.                                           *)
THEOREM BufferGoesForward ==
  BufferSpec => [][taken' # taken => taken'.version > taken.version]_(Buffer!vars)
<1> DEFINE Ordered == /\ offered.version \in Nat /\ taken.version \in Nat
                      /\ IF channel # <<>> THEN taken.version < offered.version
                                           ELSE taken.version <= offered.version
<1>1. Buffer!Init => Ordered
  BY DEF Buffer!Init, NoUpdate
<1>2. Ordered /\ [Buffer!Next]_(Buffer!vars) => Ordered'
  <2> SUFFICES ASSUME Ordered, [Buffer!Next]_(Buffer!vars) PROVE Ordered'
    OBVIOUS
  <2>1. CASE Buffer!Offer
    <3>1. offered'.version \in Nat
      BY <2>1 DEF Buffer!Offer, Update
    <3>2. QED
      BY <2>1, <3>1 DEF Buffer!Offer
  <2>2. CASE Buffer!Withdraw \/ Buffer!Take
    BY <2>2 DEF Buffer!Withdraw, Buffer!Take
  <2>3. CASE UNCHANGED Buffer!vars
    BY <2>3 DEF Buffer!vars
  <2>4. QED
    BY <2>1, <2>2, <2>3 DEF Buffer!Next
<1>3. Ordered /\ [Buffer!Next]_(Buffer!vars) =>
        [taken' # taken => taken'.version > taken.version]_(Buffer!vars)
  BY DEF Buffer!Next, Buffer!Offer, Buffer!Withdraw, Buffer!Take
<1>4. QED
  BY <1>1, <1>2, <1>3, PTL DEF BufferSpec, Buffer!Spec
=============================================================================
