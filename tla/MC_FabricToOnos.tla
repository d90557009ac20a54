---------------------------- MODULE MC_FabricToOnos ----------------------------
(***************************************************************************)
(* Small instances of FabricToOnos for TLC: a fabric of switches known by  *)
(* name, one whose IP addresses clash, with each other and with a made-up  *)
(* one, one with all that may be wrong with a switch, a port or a route,   *)
(* and one of two routes.                                                  *)
(***************************************************************************)
EXTENDS FabricToOnos, TLC

CONSTANTS s0, s1, s2, named, clashing, broken, twoRoutes

MC_Rank == s0 :> 0 @@ s1 :> 1 @@ s2 :> 2

Port(cage, channel, vlans) ==
  [cage |-> cage, channel |-> channel, vlans |-> vlans, speed |-> "speed_10g"]

GoodPorts == {Port(1, 0, {10}), Port(1, 1, {}), Port(99, 0, {})}
BadPorts == {Port(7, 0, {}), Port(2, 0, {99})}

Sw(address, port, pairing) ==
  [model |-> {1, 2, 99}, vlans |-> {10}, port |-> port, pairing |-> pairing,
   startingBps |-> 100, address |-> address, known |-> TRUE, managed |-> TRUE, driver |-> TRUE,
   pipeconf |-> TRUE]

Addressed == Sw(200, GoodPorts \cup BadPorts, {Port(1, 1, {})})
Named == Sw(Hostname, {Port(1, 0, {})}, {})

Route(id, complete) == [id |-> id, complete |-> complete]

(* In broken only the last switch is good. *)
MC_SwitchIn ==
  [c \in Contents |->
     CASE c = named     -> s0 :> Named @@ s1 :> Named @@ s2 :> Named
       [] c = clashing  -> s0 :> Named @@ s1 :> [Named EXCEPT !.address = 1] @@
                           s2 :> [Named EXCEPT !.address = 1]
       [] c = broken    -> s0 :> [Addressed EXCEPT !.managed = FALSE, !.address = 201] @@
                           s1 :> [Addressed EXCEPT !.pipeconf = FALSE, !.address = 202] @@
                           s2 :> Addressed
       [] c = twoRoutes -> s1 :> Addressed]

MC_RouteIn ==
  [c \in Contents |-> {Route(1, TRUE), Route(2, c = twoRoutes)}]

(* The chassis configuration of Addressed, as handleStratumSwitchPort has   *)
(* it: the cage that is not in the model is left out, the VLANs do not      *)
(* matter, and a channelized port goes by another number than in ONOS.      *)
ASSUME ChassisOfAddressed ==
  LET port(id, cage, channel) ==
        [Id |-> id, Port |-> cage, Channel |-> channel, SpeedBps |-> 100, Autoneg |-> FALSE]
  IN  SingletonPorts(Addressed) = {port(1, 1, 0), port(100, 1, 1), port(99, 99, 0), port(2, 2, 0)}

PodSymmetry == Permutations(Pods)
=============================================================================
