------------------------------ MODULE PortNumbers ------------------------------
(***************************************************************************)
(* What the translations of pkg/synchronizer make of one switch, as        *)
(* operators: the port table and the pairing port of the ONOS netconfig,   *)
(* the singleton ports of the Stratum chassis configuration, and the two   *)
(* numbers a port goes by.                                                 *)
(*                                                                         *)
(* A switch here has model, the cages its model knows; vlans, the VLANs it *)
(* defines; port, its ports, one for each cage and channel; and pairing,   *)
(* its pairing ports, empty unless it has a paired switch.  A port has     *)
(* cage, channel, the vlans its interface refers to and a speed.           *)
(* startingBps is the attribute autoneg-starting-bandwidth of the model.   *)
(***************************************************************************)
EXTENDS Integers

Uint8 == 0..255
Uint16Values == 65536

(* Mutant: the cage's number alone. *)
cageToPort(cage, channel) == cage

(* uint16 arithmetic.  The branch for a nil cage is left out: cage and       *)
(* channel are the keys of a port or of a pairing port, and those are set.  *)
cageChannelToPort(cage, channel) == (channel * 100 + cage) % Uint16Values

(* The id of a port in the chassis configuration *)
singletonPortId(cage, channel) ==
  IF channel # 0 THEN cage * 100 + (channel - 1) ELSE cage

PortID(port) == cageChannelToPort(port.cage, port.channel)

(* The ports that end up in the netconfig: one that is not in the model, or *)
(* that refers to a VLAN the switch has not, is logged and left out.        *)
OnosPorts(sw) ==
  {port \in sw.port : port.cage \in sw.model /\ port.vlans \subseteq sw.vlans}

(* scope.NetConfig.Ports: of two ports that have the same number, the one  *)
(* that is visited last stays; a Go map is visited in any order.           *)
PortTables(sw) ==
  LET numbers == {PortID(port) : port \in OnosPorts(sw)}
  IN  {table \in [numbers -> OnosPorts(sw)] : \A n \in numbers : PortID(table[n]) = n}

(* PairLocalPort, left at 0 unless there is exactly one pairing port *)
PairLocalPorts(sw) ==
  IF \E port \in sw.pairing : sw.pairing = {port}
  THEN {PortID(port) : port \in sw.pairing}
  ELSE {0}

(* Speeds, in units of 100 Mbit/s; startingBps is 100 unless the model says *)
(* otherwise, and may say what cannot be parsed.                            *)
Unparsable == -1

SpeedBps ==
  [speed_1g |-> 10, speed_2_5g |-> 25, speed_5g |-> 50, speed_10g |-> 100,
   speed_25g |-> 250, speed_40g |-> 400, speed_100g |-> 1000, speed_400g |-> 4000]

(* The singleton ports of a switch, in any order: a port whose cage is not *)
(* in the model, or whose speed cannot be told, is logged and left out.    *)
StratumPorts(sw) ==
  {port \in sw.port :
     /\ port.cage \in sw.model
     /\ port.speed = "speed_autoneg" => sw.startingBps # Unparsable}

PortSpeed(sw, port) ==
  CASE port.speed \in DOMAIN SpeedBps -> SpeedBps[port.speed]
    [] port.speed = "speed_autoneg"   -> sw.startingBps
    [] OTHER                          -> 0

SingletonPort(sw, port) ==
  [Id       |-> singletonPortId(port.cage, port.channel),
   Port     |-> port.cage,
   Channel  |-> port.channel,
   SpeedBps |-> PortSpeed(sw, port),
   Autoneg  |-> port.speed = "speed_autoneg"]

SingletonPorts(sw) == {SingletonPort(sw, port) : port \in StratumPorts(sw)}
=============================================================================
