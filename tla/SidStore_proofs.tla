---------------------------- MODULE SidStore_proofs ----------------------------
(***************************************************************************)
(* Proofs about SidStore, for any pods, any set of switches and any bound  *)
(* on the SIDs.  SIDs are unique as long as no Set of a first start moves  *)
(* the counter back, which only a second pod that races for the first      *)
(* start can do; they are also stable, and the store implements            *)
(* SidRegistry, as long as no two pods allocate for one switch at a time.  *)
(***************************************************************************)
EXTENDS SidStore, TLAPS

(* The counter was initialized before, or there is one pod to do it. *)
SinglePod == \A p, q \in Pods : p = q
SafeFirstStart == InitialCounter >= Reserved \/ SinglePod

(* No Set moves the counter back. *)
CounterNeverFalls == [][counter' >= counter]_vars

(* No two pods allocate for the same switch, from the look up that does not *)
(* find it to the Put, at the same time.                                    *)
AllocationsApart ==
  \A p, q \in Pods :
    pc[p] \in {"increment", "put"} /\ pc[q] \in {"increment", "put"} /\ arg[p] = arg[q]
      => p = q

-----------------------------------------------------------------------------
(* The encoding of SIDs *)

(* What Get reads from the four bytes that an earlier Get wrote is the SID  *)
(* that one allocated, as long as the counter fits a uint32; beyond, it is  *)
(* a number all the same.                                                   *)
THEOREM BytesRoundTrip ==
  ASSUME NEW n \in Nat
  PROVE  /\ bytesToUint32(uint32ToBytes(n)) \in Nat
         /\ n <= MaxSid => bytesToUint32(uint32ToBytes(n)) = n
<1> DEFINE b1 == n % 256
           q1 == n \div 256
           b2 == q1 % 256
           q2 == n \div 65536
           b3 == q2 % 256
           q3 == n \div 16777216
           b4 == q3 % 256
<1>1. /\ b1 \in 0..255 /\ q1 \in Nat /\ n = 256 * q1 + b1
      /\ b2 \in 0..255 /\ q2 \in Nat /\ q1 = 256 * q2 + b2
      /\ b3 \in 0..255 /\ q3 \in Nat /\ q2 = 256 * q3 + b3
      /\ b4 \in 0..255
  OBVIOUS
<1>2. bytesToUint32(uint32ToBytes(n)) = b1 + 256 * b2 + 65536 * b3 + 16777216 * b4
  BY DEF bytesToUint32, uint32ToBytes
<1>3. ASSUME n <= MaxSid PROVE b4 = q3
  <2>1. q3 < 256
    BY <1>3, SidStoreAssumption
  <2>2. QED
    BY <1>1, <2>1
<1> HIDE DEF b1, q1, b2, q2, b3, q3, b4
<1>4. QED
  BY <1>1, <1>2, <1>3

LEMMA RecordedTyped ==
  ASSUME TypeOK, NEW p \in Pods, pc[p] = "put"
  PROVE  /\ Recorded(p) \in [Switches -> Nat]
         /\ newSid[p] <= MaxSid => Recorded(p) = [sidMap EXCEPT ![arg[p]] = newSid[p]]
<1>1. newSid[p] \in Nat /\ arg[p] \in Switches
  BY DEF TypeOK
<1>2. QED
  BY <1>1, BytesRoundTrip DEF Recorded, TypeOK

-----------------------------------------------------------------------------
(* Types *)

LEMMA TypeInit == Init => TypeOK
  BY SidStoreAssumption DEF Init, TypeOK, PodStates, NoSid

LEMMA TypeStep == TypeOK /\ [Next]_vars => TypeOK'
<1> SUFFICES ASSUME TypeOK, [Next]_vars PROVE TypeOK'
  OBVIOUS
<1> USE DEF TypeOK, PodStates, GoTo, persistent, NoSid
<1>1. ASSUME NEW p \in Pods, QueryCounter(p) PROVE TypeOK'
  BY <1>1 DEF QueryCounter
<1>2. ASSUME NEW p \in Pods, ReserveSids(p) PROVE TypeOK'
  BY <1>2 DEF ReserveSids, Reserved
<1>3. ASSUME NEW p \in Pods, StartFails(p) PROVE TypeOK'
  BY <1>3 DEF StartFails
<1>4. ASSUME NEW p \in Pods, NEW s \in Switches, CallGet(p, s) PROVE TypeOK'
  BY <1>4 DEF CallGet
<1>5. ASSUME NEW p \in Pods, LookupFound(p) PROVE TypeOK'
  BY <1>5 DEF LookupFound, Return
<1>6. ASSUME NEW p \in Pods, LookupNotFound(p) PROVE TypeOK'
  BY <1>6 DEF LookupNotFound
<1>7. ASSUME NEW p \in Pods, LookupError(p) PROVE TypeOK'
  BY <1>7 DEF LookupError, Return
<1>8. ASSUME NEW p \in Pods, Increment(p) PROVE TypeOK'
  BY <1>8 DEF Increment
<1>9. ASSUME NEW p \in Pods, IncrementError(p) PROVE TypeOK'
  <2>1. counter' \in Nat
    BY <1>9 DEF IncrementError
  <2>2. QED
    BY <1>9, <2>1 DEF IncrementError, Return
<1>10. ASSUME NEW p \in Pods, Put(p) PROVE TypeOK'
  BY <1>10, RecordedTyped DEF Put, Return
<1>11. ASSUME NEW p \in Pods, PutError(p) PROVE TypeOK'
  <2>1. sidMap' \in [Switches -> Nat]
    BY <1>11, RecordedTyped DEF PutError
  <2>2. QED
    BY <1>11, <2>1 DEF PutError, Return
<1>12. ASSUME NEW p \in Pods, Crash(p) PROVE TypeOK'
  BY <1>12 DEF Crash
<1>13. CASE UNCHANGED vars
  BY <1>13 DEF vars
<1>14. QED
  BY <1>1, <1>2, <1>3, <1>4, <1>5, <1>6, <1>7, <1>8, <1>9, <1>10, <1>11, <1>12,
     <1>13 DEF Next

(* The type invariant: every local variable of NewAtomixStore and Get, the *)
(* counter and the map keep their types.                                   *)
THEOREM TypeCorrect == Spec => []TypeOK
  BY TypeInit, TypeStep, PTL DEF Spec

-----------------------------------------------------------------------------
(* Uniqueness *)

(* Somebody was told, the map records, or a pod is about to record, that   *)
(* switch s has SID n.                                                     *)
Claim(s, n) ==
  \/ <<s, n>> \in issued
  \/ sidMap[s] = n /\ n # NoSid
  \/ \E p \in Pods : pc[p] = "put" /\ arg[p] = s /\ newSid[p] = n

ClaimsInRange ==
  \A s \in Switches, n \in Nat : Claim(s, n) => n > Reserved /\ n <= counter

ClaimsUnique ==
  \A s, t \in Switches, n \in Nat : Claim(s, n) /\ Claim(t, n) => s = t

(* A pod is past NewAtomixStore only once the reserved SIDs are skipped. *)
Started ==
  \A p \in Pods : pc[p] \in {"ready", "lookup", "increment", "put"} => counter >= Reserved

Bounded == \A p \in Pods : pc[p] = "put" => newSid[p] <= MaxSid

UniqueInv ==
  /\ TypeOK
  /\ ClaimsInRange
  /\ ClaimsUnique
  /\ Started
  /\ Bounded

LEMMA BoundedStep ==
  ASSUME TypeOK, Bounded, [Next]_vars
  PROVE  Bounded'
<1> USE DEF TypeOK, Bounded, GoTo, Return
<1>1. ASSUME NEW p \in Pods, Increment(p) PROVE Bounded'
  <2>1. counter + 1 <= MaxSid
    BY <1>1, SidStoreAssumption DEF Increment
  <2>2. QED
    BY <1>1, <2>1 DEF Increment
<1>2. ASSUME NEW p \in Pods,
             \/ QueryCounter(p) \/ ReserveSids(p) \/ StartFails(p)
             \/ \E s \in Switches : CallGet(p, s)
             \/ LookupNotFound(p) \/ Crash(p)
      PROVE  Bounded'
  BY <1>2 DEF QueryCounter, ReserveSids, StartFails, CallGet, LookupNotFound, Crash
<1>3. ASSUME NEW p \in Pods,
             \/ LookupFound(p) \/ LookupError(p) \/ IncrementError(p)
             \/ Put(p) \/ PutError(p)
      PROVE  Bounded'
  BY <1>3 DEF LookupFound, LookupError, IncrementError, Put, PutError
<1>4. CASE UNCHANGED vars
  BY <1>4 DEF vars
<1>5. QED
  BY <1>1, <1>2, <1>3, <1>4, Zenon DEF Next

(* A step that makes no new claim and does not lower the counter keeps the *)
(* claims in range and unique.                                             *)
LEMMA NoNewClaim ==
  ASSUME TypeOK, TypeOK', ClaimsInRange, ClaimsUnique,
         \A s \in Switches, n \in Nat : Claim(s, n)' => Claim(s, n),
         counter' >= counter
  PROVE  ClaimsInRange' /\ ClaimsUnique'
<1>1. counter \in Nat /\ counter' \in Nat
  BY DEF TypeOK
<1>2. ClaimsInRange'
  BY <1>1 DEF ClaimsInRange, Reserved
<1>3. ClaimsUnique'
  BY DEF ClaimsUnique
<1>4. QED
  BY <1>2, <1>3

LEMMA UniqueInit == Init => UniqueInv
<1> SUFFICES ASSUME Init PROVE UniqueInv
  OBVIOUS
<1>1. TypeOK
  BY TypeInit
<1>2. \A s \in Switches, n \in Nat : ~Claim(s, n)
  BY DEF Init, Claim
<1>3. Started /\ Bounded
  BY DEF Init, Started, Bounded
<1>4. QED
  BY <1>1, <1>2, <1>3 DEF UniqueInv, ClaimsInRange, ClaimsUnique

(* The steps that touch neither counter, map nor claims: at most they drop *)
(* the claim of a pod that was about to write it.                          *)
LEMMA QuietStep ==
  ASSUME UniqueInv, TypeOK',
         UNCHANGED <<persistent, issued>>,
         \A p \in Pods : pc'[p] = "put" =>
           pc[p] = "put" /\ arg'[p] = arg[p] /\ newSid'[p] = newSid[p]
  PROVE  ClaimsInRange' /\ ClaimsUnique'
<1>1. \A s \in Switches, n \in Nat : Claim(s, n)' => Claim(s, n)
  BY DEF Claim, persistent
<1>2. counter' >= counter
  BY DEF UniqueInv, TypeOK, persistent
<1>3. QED
  BY <1>1, <1>2, NoNewClaim DEF UniqueInv

LEMMA UniqueStep ==
  ASSUME UniqueInv, [Next]_vars, [counter' >= counter]_vars
  PROVE  UniqueInv'
<1>0. TypeOK /\ TypeOK'
  BY TypeStep DEF UniqueInv
<1> USE <1>0
<1>b. Bounded'
  BY BoundedStep DEF UniqueInv
<1>r. \A p \in Pods :
        pc[p] = "put" => Recorded(p) = [sidMap EXCEPT ![arg[p]] = newSid[p]]
  BY RecordedTyped DEF UniqueInv, Bounded
<1> DEFINE Rest == ClaimsInRange' /\ ClaimsUnique' /\ Started'
<1>1. ASSUME NEW p \in Pods, QueryCounter(p) PROVE Rest
  <2>1. ClaimsInRange' /\ ClaimsUnique'
    BY <1>1, QuietStep DEF QueryCounter, GoTo, TypeOK, persistent
  <2>2. Started'
    BY <1>1 DEF QueryCounter, GoTo, TypeOK, persistent, UniqueInv, Started, Reserved
  <2>3. QED
    BY <2>1, <2>2
<1>2. ASSUME NEW p \in Pods, ReserveSids(p) PROVE Rest
  <2>1. counter' = Reserved
    BY <1>2 DEF ReserveSids
  <2>2. counter <= Reserved
    BY <2>1 DEF TypeOK, vars, Reserved
  <2>3. \A s \in Switches, n \in Nat : ~Claim(s, n)
    BY <2>2 DEF UniqueInv, ClaimsInRange, TypeOK, Reserved
  <2>4. \A s \in Switches, n \in Nat : Claim(s, n)' => Claim(s, n)
    BY <1>2 DEF ReserveSids, Claim, TypeOK
  <2>5. ClaimsInRange' /\ ClaimsUnique'
    BY <2>3, <2>4 DEF ClaimsInRange, ClaimsUnique
  <2>6. Started'
    BY <2>1 DEF Started, Reserved
  <2>7. QED
    BY <2>5, <2>6
<1>3. ASSUME NEW p \in Pods, StartFails(p) PROVE Rest
  <2>1. ClaimsInRange' /\ ClaimsUnique'
    BY <1>3, QuietStep DEF StartFails, GoTo, TypeOK, persistent
  <2>2. QED
    BY <1>3, <2>1 DEF StartFails, GoTo, TypeOK, persistent, UniqueInv, Started
<1>4. ASSUME NEW p \in Pods, NEW s \in Switches, CallGet(p, s) PROVE Rest
  <2>1. ClaimsInRange' /\ ClaimsUnique'
    BY <1>4, QuietStep DEF CallGet, GoTo, TypeOK, persistent
  <2>2. QED
    BY <1>4, <2>1 DEF CallGet, GoTo, TypeOK, persistent, UniqueInv, Started
<1>5. ASSUME NEW p \in Pods, LookupFound(p) PROVE Rest
  <2>1. \A s \in Switches, n \in Nat : Claim(s, n)' => Claim(s, n)
    BY <1>5 DEF LookupFound, Return, GoTo, Claim, persistent, TypeOK
  <2>2. counter' = counter
    BY <1>5 DEF LookupFound, persistent
  <2>3. ClaimsInRange' /\ ClaimsUnique'
    BY <2>1, <2>2, NoNewClaim DEF UniqueInv, TypeOK
  <2>4. QED
    BY <1>5, <2>2, <2>3 DEF LookupFound, Return, GoTo, TypeOK, UniqueInv, Started
<1>6. ASSUME NEW p \in Pods, LookupNotFound(p) PROVE Rest
  <2>1. ClaimsInRange' /\ ClaimsUnique'
    BY <1>6, QuietStep DEF LookupNotFound, GoTo, TypeOK, persistent
  <2>2. QED
    BY <1>6, <2>1 DEF LookupNotFound, GoTo, TypeOK, persistent, UniqueInv, Started
<1>7. ASSUME NEW p \in Pods, LookupError(p) PROVE Rest
  <2>1. ClaimsInRange' /\ ClaimsUnique'
    BY <1>7, QuietStep DEF LookupError, Return, GoTo, TypeOK, persistent
  <2>2. QED
    BY <1>7, <2>1 DEF LookupError, Return, GoTo, TypeOK, persistent, UniqueInv, Started
<1>8. ASSUME NEW p \in Pods, Increment(p) PROVE Rest
  <2>1. \A s \in Switches, n \in Nat :
          Claim(s, n)' => Claim(s, n) \/ (s = arg[p] /\ n = counter + 1)
    BY <1>8 DEF Increment, GoTo, Claim, TypeOK
  <2>2. counter' = counter + 1 /\ counter >= Reserved
    BY <1>8 DEF Increment, UniqueInv, Started
  <2>3. ClaimsInRange'
    BY <2>1, <2>2 DEF UniqueInv, ClaimsInRange, TypeOK, Reserved
  <2>4. \A s \in Switches : ~Claim(s, counter + 1)
    BY DEF UniqueInv, ClaimsInRange, TypeOK
  <2>5. ClaimsUnique'
    BY <2>1, <2>4 DEF UniqueInv, ClaimsUnique, TypeOK
  <2>6. QED
    BY <1>8, <2>2, <2>3, <2>5 DEF Increment, GoTo, TypeOK, UniqueInv, Started, Reserved
<1>9. ASSUME NEW p \in Pods, IncrementError(p) PROVE Rest
  <2>1. \A s \in Switches, n \in Nat : Claim(s, n)' => Claim(s, n)
    BY <1>9 DEF IncrementError, Return, GoTo, Claim, TypeOK
  <2>2. counter' >= counter /\ counter >= Reserved
    BY <1>9 DEF IncrementError, UniqueInv, Started, TypeOK
  <2>3. ClaimsInRange' /\ ClaimsUnique'
    BY <2>1, <2>2, NoNewClaim DEF UniqueInv
  <2>4. QED
    BY <1>9, <2>2, <2>3 DEF IncrementError, Return, GoTo, TypeOK, UniqueInv, Started, Reserved
<1>10. ASSUME NEW p \in Pods, Put(p) PROVE Rest
  <2>1. \A s \in Switches, n \in Nat : Claim(s, n)' => Claim(s, n)
    BY <1>10, <1>r DEF Put, Return, GoTo, Claim, TypeOK
  <2>2. counter' = counter
    BY <1>10 DEF Put
  <2>3. ClaimsInRange' /\ ClaimsUnique'
    BY <2>1, <2>2, NoNewClaim DEF UniqueInv, TypeOK
  <2>4. QED
    BY <1>10, <2>2, <2>3 DEF Put, Return, GoTo, TypeOK, UniqueInv, Started
<1>11. ASSUME NEW p \in Pods, PutError(p) PROVE Rest
  <2>1. \A s \in Switches, n \in Nat : Claim(s, n)' => Claim(s, n)
    BY <1>11, <1>r DEF PutError, Return, GoTo, Claim, TypeOK
  <2>2. counter' = counter
    BY <1>11 DEF PutError
  <2>3. ClaimsInRange' /\ ClaimsUnique'
    BY <2>1, <2>2, NoNewClaim DEF UniqueInv, TypeOK
  <2>4. QED
    BY <1>11, <2>2, <2>3 DEF PutError, Return, GoTo, TypeOK, UniqueInv, Started
<1>12. ASSUME NEW p \in Pods, Crash(p) PROVE Rest
  <2>1. ClaimsInRange' /\ ClaimsUnique'
    BY <1>12, QuietStep DEF Crash, GoTo, TypeOK, persistent
  <2>2. QED
    BY <1>12, <2>1 DEF Crash, GoTo, TypeOK, persistent, UniqueInv, Started
<1>13. ASSUME UNCHANGED vars PROVE Rest
  BY <1>13 DEF vars, UniqueInv, ClaimsInRange, ClaimsUnique, Claim, Started
<1>14. Rest
  BY <1>1, <1>2, <1>3, <1>4, <1>5, <1>6, <1>7, <1>8, <1>9, <1>10, <1>11, <1>12, <1>13
     DEF Next
<1>15. QED
  BY <1>14, <1>b DEF UniqueInv

LEMMA UniqueInductive == Spec /\ CounterNeverFalls => []UniqueInv
<1>1. UniqueInv /\ [Next]_vars /\ [counter' >= counter]_vars => UniqueInv'
  BY UniqueStep
<1>2. QED
  BY <1>1, UniqueInit, PTL DEF Spec, CounterNeverFalls

(* Whatever fails or crashes, and however many pods there are: two         *)
(* switches are never given the same SID, and none a reserved one, unless  *)
(* a Set of NewAtomixStore has moved the counter back.                     *)
THEOREM UniqueUnlessMovedBack ==
  Spec /\ CounterNeverFalls => [](SidsUnique /\ SidsNotReserved)
<1>1. ASSUME UniqueInv, NEW a \in issued
      PROVE  a[1] \in Switches /\ a[2] \in Nat /\ Claim(a[1], a[2])
  <2>1. a[1] \in Switches /\ a[2] \in Nat /\ a = <<a[1], a[2]>>
    BY <1>1 DEF UniqueInv, TypeOK
  <2>2. QED
    BY <2>1 DEF Claim
<1>2. UniqueInv => SidsUnique
  <2> SUFFICES ASSUME UniqueInv, NEW a \in issued, NEW b \in issued, a[2] = b[2]
               PROVE  a[1] = b[1]
    BY DEF SidsUnique
  <2>1. /\ a[1] \in Switches /\ b[1] \in Switches /\ a[2] \in Nat
        /\ Claim(a[1], a[2]) /\ Claim(b[1], a[2])
    BY <1>1
  <2>2. QED
    BY <2>1 DEF UniqueInv, ClaimsUnique
<1>3. UniqueInv => SidsNotReserved
  BY <1>1 DEF UniqueInv, ClaimsInRange, SidsNotReserved
<1>4. QED
  BY <1>2, <1>3, UniqueInductive, PTL

-----------------------------------------------------------------------------
(* What moves the counter back: a race for the first start *)

(* A pod is about to skip the reserved SIDs only while they are not, and    *)
(* once skipped they stay so.                                               *)
FirstStartInv ==
  /\ TypeOK
  /\ \A p \in Pods : pc[p] = "reserve" => counter < Reserved
  /\ InitialCounter >= Reserved => counter >= Reserved

LEMMA FirstStartStep ==
  ASSUME SafeFirstStart, FirstStartInv, [Next]_vars
  PROVE  FirstStartInv' /\ counter' >= counter
<1>1. TypeOK'
  BY TypeStep DEF FirstStartInv
<1>2. counter \in Nat /\ counter' \in Nat /\ InitialCounter \in Nat
  BY <1>1, SidStoreAssumption DEF FirstStartInv, TypeOK
<1>3. ASSUME NEW p \in Pods, ReserveSids(p)
      PROVE  FirstStartInv' /\ counter' >= counter
  <2>1. counter < Reserved /\ counter' = Reserved
    BY <1>3 DEF ReserveSids, FirstStartInv
  <2>2. \A q \in Pods : q = p
    BY <1>2, <2>1 DEF SafeFirstStart, SinglePod, FirstStartInv, Reserved
  <2>3. pc'[p] # "reserve"
    BY <1>3 DEF ReserveSids, FirstStartInv, TypeOK
  <2>4. QED
    BY <1>1, <1>2, <2>1, <2>2, <2>3 DEF FirstStartInv, Reserved
<1>4. ASSUME NEW p \in Pods, Increment(p) \/ IncrementError(p)
      PROVE  FirstStartInv' /\ counter' >= counter
  <2>1. counter' \in {counter, counter + 1}
    BY <1>4 DEF Increment, IncrementError
  <2>2. \A q \in Pods : pc'[q] = "reserve" => pc[q] = "reserve" /\ q # p
    BY <1>4 DEF Increment, IncrementError, Return, GoTo, FirstStartInv, TypeOK
  <2>3. ASSUME NEW q \in Pods, pc'[q] = "reserve" PROVE FALSE
    <3>1. counter < Reserved /\ ~SinglePod
      BY <2>2, <2>3 DEF FirstStartInv, SinglePod
    <3>2. QED
      BY <1>2, <3>1 DEF SafeFirstStart, FirstStartInv, Reserved
  <2>4. QED
    BY <1>1, <1>2, <2>1, <2>3 DEF FirstStartInv, Reserved
<1>5. ASSUME NEW p \in Pods, QueryCounter(p)
      PROVE  FirstStartInv' /\ counter' >= counter
  BY <1>1, <1>2, <1>5 DEF QueryCounter, GoTo, persistent, FirstStartInv, TypeOK, Reserved
<1>6. ASSUME NEW p \in Pods,
             \/ StartFails(p) \/ \E s \in Switches : CallGet(p, s)
             \/ LookupFound(p) \/ LookupNotFound(p) \/ LookupError(p)
             \/ Put(p) \/ PutError(p) \/ Crash(p)
      PROVE  FirstStartInv' /\ counter' >= counter
  <2>1. UNCHANGED counter
    BY <1>6 DEF StartFails, CallGet, LookupFound, LookupNotFound, LookupError, Put, PutError,
       Crash, persistent
  <2>2. \A q \in Pods : pc'[q] = "reserve" => pc[q] = "reserve"
    BY <1>6 DEF StartFails, CallGet, LookupFound, LookupNotFound, LookupError, Put, PutError,
       Crash, Return, GoTo, FirstStartInv, TypeOK
  <2>3. QED
    BY <1>1, <1>2, <2>1, <2>2 DEF FirstStartInv
<1>7. CASE UNCHANGED vars
  BY <1>1, <1>2, <1>7 DEF FirstStartInv, vars
<1>8. QED
  BY <1>3, <1>4, <1>5, <1>6, <1>7, Zenon DEF Next

(* Without such a race, no Set of NewAtomixStore moves the counter back.   *)
THEOREM NeverMovedBack ==
  ASSUME SafeFirstStart
  PROVE  Spec => CounterNeverFalls
<1>1. Init => FirstStartInv
  BY TypeInit DEF Init, FirstStartInv
<1>2. FirstStartInv /\ [Next]_vars => FirstStartInv' /\ [counter' >= counter]_vars
  BY FirstStartStep
<1>3. QED
  BY <1>1, <1>2, PTL DEF Spec, CounterNeverFalls

(* Provided no two pods race for the first start, two switches are never   *)
(* given the same SID ...                                                  *)
THEOREM Unique ==
  ASSUME SafeFirstStart
  PROVE  Spec => []SidsUnique
  BY UniqueUnlessMovedBack, NeverMovedBack, PTL

(* ... and Get never hands out one of the SIDs that NewAtomixStore         *)
(* reserves.                                                               *)
THEOREM NotReserved ==
  ASSUME SafeFirstStart
  PROVE  Spec => []SidsNotReserved
  BY UniqueUnlessMovedBack, NeverMovedBack, PTL

-----------------------------------------------------------------------------
(* Stability, and the refinement of SidRegistry, while no two pods          *)
(* allocate for the same switch                                             *)

(* A SID a pod is about to allocate or to write is for a switch that is    *)
(* not on record.                                                          *)
Allocating ==
  \A p \in Pods : pc[p] \in {"increment", "put"} => sidMap[arg[p]] = NoSid

StableInv == UniqueInv /\ SidsStable /\ Allocating

(* A Put writes the entry of a switch that nobody was told a SID of, and   *)
(* writes a SID no other switch has.                                       *)
LEMMA PutIsFresh ==
  ASSUME StableInv, NEW p \in Pods, pc[p] = "put"
  PROVE  /\ arg[p] \in Switches
         /\ newSid[p] \in Sids
         /\ Recorded(p) = [sidMap EXCEPT ![arg[p]] = newSid[p]]
         /\ sidMap[arg[p]] = NoSid
         /\ \A t \in Switches : sidMap[t] # newSid[p]
         /\ \A a \in issued : a[1] # arg[p]
<1>1. arg[p] \in Switches /\ newSid[p] \in Nat /\ MaxSid \in Nat
  BY SidStoreAssumption DEF StableInv, UniqueInv, TypeOK
<1>2. sidMap[arg[p]] = NoSid /\ newSid[p] <= MaxSid
  BY DEF StableInv, UniqueInv, Allocating, Bounded
<1>3. Claim(arg[p], newSid[p])
  BY DEF Claim
<1>4. newSid[p] > Reserved
  BY <1>1, <1>3 DEF StableInv, UniqueInv, ClaimsInRange
<1>5. newSid[p] \in Sids
  BY <1>1, <1>2, <1>4 DEF Sids, Reserved
<1>6. ASSUME NEW t \in Switches, sidMap[t] = newSid[p] PROVE FALSE
  <2>1. Claim(t, newSid[p])
    BY <1>1, <1>4, <1>6 DEF Claim, NoSid, Reserved
  <2>2. t = arg[p]
    BY <1>1, <1>3, <2>1 DEF StableInv, UniqueInv, ClaimsUnique
  <2>3. QED
    BY <1>1, <1>2, <1>4, <1>6, <2>2 DEF NoSid, Reserved
<1>7. ASSUME NEW a \in issued, a[1] = arg[p] PROVE FALSE
  <2>1. a[1] \in Switches /\ a[2] \in Nat /\ a = <<a[1], a[2]>>
    BY DEF StableInv, UniqueInv, TypeOK
  <2>2. Claim(a[1], a[2])
    BY <2>1 DEF Claim
  <2>3. a[2] > Reserved
    BY <2>1, <2>2 DEF StableInv, UniqueInv, ClaimsInRange
  <2>4. sidMap[arg[p]] = a[2]
    BY <1>7 DEF StableInv, SidsStable
  <2>5. QED
    BY <1>2, <2>1, <2>3, <2>4 DEF NoSid, Reserved
<1>8. QED
  BY <1>1, <1>2, <1>5, <1>6, <1>7, RecordedTyped DEF StableInv, UniqueInv

LEMMA StableStep ==
  ASSUME AllocationsApart, StableInv, [Next]_vars
  PROVE  SidsStable' /\ Allocating'
<1>0. TypeOK /\ SidsStable /\ Allocating
  BY DEF StableInv, UniqueInv
<1> USE <1>0
<1> DEFINE Rest == SidsStable' /\ Allocating'
<1>1. ASSUME UNCHANGED <<sidMap, issued>>,
             \A p \in Pods :
               /\ pc'[p] \in {"increment", "put"} =>
                    pc[p] = pc'[p] /\ arg'[p] = arg[p] /\ newSid'[p] = newSid[p]
      PROVE  Rest
  BY <1>1 DEF SidsStable, Allocating
<1>2. ASSUME NEW p \in Pods,
             QueryCounter(p) \/ StartFails(p) \/ (\E s \in Switches : CallGet(p, s))
      PROVE  Rest
  BY <1>1, <1>2 DEF QueryCounter, StartFails, CallGet, GoTo, persistent, TypeOK
<1>3. ASSUME NEW p \in Pods, ReserveSids(p) PROVE Rest
  BY <1>1, <1>3 DEF ReserveSids, TypeOK
<1>4. ASSUME NEW p \in Pods, LookupError(p) \/ IncrementError(p) \/ Crash(p)
      PROVE  Rest
  BY <1>1, <1>4 DEF LookupError, IncrementError, Crash, Return, GoTo, persistent, TypeOK
<1>5. ASSUME NEW p \in Pods, LookupFound(p) PROVE Rest
  <2>1. UNCHANGED sidMap /\ issued' = issued \cup {<<arg[p], sidMap[arg[p]]>>}
    BY <1>5 DEF LookupFound, persistent
  <2>2. SidsStable'
    BY <2>1 DEF SidsStable
  <2>3. Allocating'
    BY <1>5, <2>1 DEF LookupFound, Return, GoTo, Allocating, TypeOK
  <2>4. QED
    BY <2>2, <2>3
<1>6. ASSUME NEW p \in Pods, LookupNotFound(p) PROVE Rest
  BY <1>6 DEF LookupNotFound, GoTo, persistent, SidsStable, Allocating, TypeOK
<1>7. ASSUME NEW p \in Pods, Increment(p) PROVE Rest
  BY <1>7 DEF Increment, GoTo, SidsStable, Allocating, TypeOK
<1>8. ASSUME NEW p \in Pods, Put(p) \/ PutError(p) PROVE Rest
  <2>1. pc[p] = "put"
    BY <1>8 DEF Put, PutError
  <2>2. \A t \in Switches : t # arg[p] => sidMap'[t] = sidMap[t]
    BY <1>8, <2>1, PutIsFresh DEF Put, PutError, TypeOK
  <2>3. \A a \in issued : a[1] \in Switches /\ a[1] # arg[p]
    BY <2>1, PutIsFresh DEF TypeOK
  <2>4. \/ issued' = issued
        \/ issued' = issued \cup {<<arg[p], newSid[p]>>} /\ sidMap'[arg[p]] = newSid[p]
    BY <1>8, <2>1, PutIsFresh DEF Put, PutError, TypeOK
  <2>5. SidsStable'
    BY <2>2, <2>3, <2>4 DEF SidsStable
  <2>6. \A q \in Pods :
          pc'[q] \in {"increment", "put"} =>
            pc[q] = pc'[q] /\ arg'[q] = arg[q] /\ newSid'[q] = newSid[q] /\ q # p
    BY <1>8 DEF Put, PutError, Return, GoTo, TypeOK
  <2>7. \A q \in Pods : pc'[q] \in {"increment", "put"} =>
          arg[q] # arg[p] /\ arg[q] \in Switches
    BY <2>1, <2>6 DEF AllocationsApart, TypeOK
  <2>8. Allocating'
    BY <2>2, <2>6, <2>7 DEF Allocating
  <2>9. QED
    BY <2>5, <2>8
<1>9. ASSUME UNCHANGED vars PROVE Rest
  BY <1>1, <1>9 DEF vars
<1>10. QED
  BY <1>2, <1>3, <1>4, <1>5, <1>6, <1>7, <1>8, <1>9 DEF Next

LEMMA StableInductive == Spec /\ CounterNeverFalls /\ []AllocationsApart => []StableInv
<1>1. Init => StableInv
  <2>1. Init => SidsStable /\ Allocating
    BY DEF Init, SidsStable, Allocating
  <2>2. QED
    BY <2>1, UniqueInit DEF StableInv
<1>2. AllocationsApart /\ StableInv /\ [Next]_vars /\ [counter' >= counter]_vars => StableInv'
  BY StableStep, UniqueStep DEF StableInv
<1>3. QED
  BY <1>1, <1>2, PTL DEF Spec, CounterNeverFalls

(* A switch that was given a SID keeps it for ever, and it stays on record, *)
(* with any number of pods and through failed calls and restarts, unless    *)
(* the counter was moved back or two pods allocated for one switch at a     *)
(* time.                                                                    *)
THEOREM StableUnlessTogether ==
  Spec /\ CounterNeverFalls /\ []AllocationsApart => []SidsStable
<1>1. StableInv => SidsStable
  BY DEF StableInv
<1>2. QED
  BY <1>1, StableInductive, PTL

(* What is on record and what callers know changes in three ways only.     *)
LEMMA RegistryView ==
  ASSUME [Next]_vars
  PROVE  \/ \E p \in Pods : LookupFound(p) \/ Put(p) \/ PutError(p)
         \/ UNCHANGED <<sidMap, issued>>
<1>1. ASSUME NEW p \in Pods,
             \/ QueryCounter(p) \/ ReserveSids(p) \/ StartFails(p)
             \/ \E s \in Switches : CallGet(p, s)
             \/ LookupNotFound(p) \/ LookupError(p)
             \/ Increment(p) \/ IncrementError(p)
             \/ Crash(p)
      PROVE  UNCHANGED <<sidMap, issued>>
  BY <1>1 DEF QueryCounter, ReserveSids, StartFails, CallGet, LookupNotFound, LookupError,
     Increment, IncrementError, Crash, persistent
<1>2. UNCHANGED vars => UNCHANGED <<sidMap, issued>>
  BY DEF vars
<1>3. QED
  BY <1>1, <1>2, Zenon DEF Next

(* Whether Put returns an error or not, it assigns or has no effect. *)
LEMMA PutAssigns ==
  ASSUME StableInv, NEW p \in Pods, Put(p) \/ PutError(p)
  PROVE  Registry!Next \/ UNCHANGED <<sidMap, issued>>
<1>1. arg[p] \in Switches /\ newSid[p] \in Sids
  BY PutIsFresh DEF Put, PutError
<1>2. Registry!Assign(arg[p], newSid[p]) \/ UNCHANGED <<sidMap, issued>>
  BY PutIsFresh DEF Put, PutError, Registry!Assign
<1>3. QED
  BY <1>1, <1>2 DEF Registry!Next

(* Under the same conditions the store implements SidRegistry: lookups     *)
(* tell what is on record, a Put assigns, everything else is invisible.    *)
THEOREM RegistryUnlessTogether ==
  Spec /\ CounterNeverFalls /\ []AllocationsApart => RegistrySpec
<1>1. Init => Registry!Init
  BY DEF Init, Registry!Init
<1>2. ASSUME StableInv, NEW p \in Pods, LookupFound(p)
      PROVE  Registry!Next
  <2>1. arg[p] \in Switches
    BY <1>2 DEF LookupFound, StableInv, UniqueInv, TypeOK
  <2>2. Registry!Tell(arg[p])
    BY <1>2 DEF LookupFound, persistent, Registry!Tell
  <2>3. QED
    BY <2>1, <2>2 DEF Registry!Next
<1>3. StableInv /\ [Next]_vars => [Registry!Next]_(Registry!vars)
  BY <1>2, RegistryView, PutAssigns DEF Registry!vars
<1>4. QED
  BY <1>1, <1>3, StableInductive, PTL DEF Spec, RegistrySpec, Registry!Spec

LEMMA OnePodApart ==
  ASSUME SinglePod
  PROVE  Spec => CounterNeverFalls /\ []AllocationsApart
<1>1. AllocationsApart
  BY DEF SinglePod, AllocationsApart
<1>2. Spec => CounterNeverFalls
  BY NeverMovedBack DEF SafeFirstStart
<1>3. QED
  BY <1>1, <1>2, PTL

(* With a single pod, a switch that was given a SID keeps it for ever ...  *)
THEOREM Stable ==
  ASSUME SinglePod
  PROVE  Spec => []SidsStable
  BY StableUnlessTogether, OnePodApart, PTL

(* ... and the store implements SidRegistry.                               *)
THEOREM Refinement ==
  ASSUME SinglePod
  PROVE  Spec => RegistrySpec
  BY RegistryUnlessTogether, OnePodApart, PTL

(* What SidRegistry promises its users, whatever implements it: one SID per *)
(* switch, for ever on record, and no SID for two switches.                *)
THEOREM RegistryPromise == RegistrySpec => [](SidsUnique /\ SidsStable)
<1> DEFINE OnRecord == /\ sidMap \in [Switches -> Sids \cup {NoSid}]
                       /\ issued \subseteq Switches \X Sids
                       /\ SidsStable
           Apart == \A s, t \in Switches : sidMap[s] = sidMap[t] => sidMap[s] = NoSid \/ s = t
<1>0. NoSid \notin Sids
  BY DEF Sids, NoSid, Reserved
<1>1. Registry!Init => OnRecord /\ Apart
  BY DEF Registry!Init, SidsStable
<1>2. OnRecord /\ Apart /\ [Registry!Next]_(Registry!vars) => OnRecord' /\ Apart'
  <2> SUFFICES ASSUME OnRecord, Apart, [Registry!Next]_(Registry!vars) PROVE OnRecord' /\ Apart'
    OBVIOUS
  <2>1. ASSUME NEW s \in Switches, Registry!Tell(s) PROVE OnRecord' /\ Apart'
    BY <2>1 DEF Registry!Tell, SidsStable
  <2>2. ASSUME NEW s \in Switches, NEW sid \in Sids, Registry!Assign(s, sid)
        PROVE  OnRecord' /\ Apart'
    <3>1. /\ sidMap[s] = NoSid /\ sidMap'[s] = sid
          /\ \A t \in Switches \ {s} : sidMap'[t] = sidMap[t] /\ sidMap[t] # sid
          /\ sidMap' \in [Switches -> Sids \cup {NoSid}]
          /\ issued' \subseteq issued \cup {<<s, sid>>}
      BY <2>2 DEF Registry!Assign
    <3>2. \A a \in issued : a[1] # s
      BY <1>0, <3>1 DEF SidsStable
    <3>3. SidsStable'
      BY <3>1, <3>2 DEF SidsStable
    <3>4. QED
      BY <3>1, <3>3
  <2>3. CASE UNCHANGED Registry!vars
    BY <2>3 DEF Registry!vars, SidsStable
  <2>4. QED
    BY <2>1, <2>2, <2>3 DEF Registry!Next
<1>3. OnRecord /\ Apart => SidsUnique
  BY <1>0 DEF SidsUnique, SidsStable
<1>4. QED
  BY <1>1, <1>2, <1>3, PTL DEF RegistrySpec, Registry!Spec
=============================================================================
