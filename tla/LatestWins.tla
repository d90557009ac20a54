------------------------------ MODULE LatestWins ------------------------------
(***************************************************************************)
(* What the buffer between the gNMI server and the synchronizer promises   *)
(* when requests come one at a time: the loop takes each request at most   *)
(* once, never one older than the latest offered, and never goes back.     *)
(***************************************************************************)
EXTENDS Naturals

CONSTANTS
  Updates,   \* the configuration updates, records with a field "version"
  NoUpdate   \* version 0: nothing offered, nothing taken

VARIABLES
  offered,   \* the latest update offered
  pending,   \* it waits to be taken
  taken      \* the latest update taken

vars == <<offered, pending, taken>>

Init == offered = NoUpdate /\ taken = NoUpdate /\ pending = FALSE

(* A newer request replaces whatever was pending. *)
Offer ==
  /\ offered' \in Updates
  /\ offered'.version > offered.version
  /\ pending' = TRUE
  /\ UNCHANGED taken

(* The pending request is withdrawn, to make room for a newer one. *)
Withdraw ==
  /\ pending
  /\ pending' = FALSE
  /\ UNCHANGED <<offered, taken>>

Take ==
  /\ pending
  /\ pending' = FALSE
  /\ taken' = offered
  /\ UNCHANGED offered

Next == Offer \/ Withdraw \/ Take

Spec == Init /\ [][Next]_vars
=============================================================================
