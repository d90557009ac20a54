--------------------------- MODULE PortNumbers_proofs ---------------------------
(***************************************************************************)
(* What the two port numbers can be relied on for, for every cage and      *)
(* channel.                                                                *)
(***************************************************************************)
EXTENDS PortNumbers, TLAPS

LowCage == 0..99
ChassisCage == 1..99
ChassisChannel == 0..100

(* A cage and a channel of 8 bits never overflow the 16 bits of the number  *)
(* ONOS knows the port by.                                                  *)
THEOREM PortFits ==
  ASSUME NEW cage \in Uint8, NEW channel \in Uint8
  PROVE  cageChannelToPort(cage, channel) = channel * 100 + cage
<1>1. cage \in 0..255 /\ channel \in 0..255
  BY DEF Uint8
<1>2. QED
  BY ONLY <1>1 DEF cageChannelToPort, Uint16Values

LEMMA HundredApart ==
  ASSUME NEW x1 \in LowCage, NEW x2 \in LowCage, NEW n1 \in Int, NEW n2 \in Int,
         n1 * 100 + x1 = n2 * 100 + x2
  PROVE  x1 = x2 /\ n1 = n2
<1>1. x1 \in Int /\ x2 \in Int /\ 0 <= x1 /\ x1 < 100 /\ 0 <= x2 /\ x2 < 100
  BY DEF LowCage
<1>2. (n1 - n2) * 100 = x2 - x1
  BY ONLY <1>1, n1 \in Int, n2 \in Int, n1 * 100 + x1 = n2 * 100 + x2
<1>3. n1 - n2 < 1 /\ n2 - n1 < 1
  BY ONLY <1>1, <1>2, n1 \in Int, n2 \in Int
<1>4. n1 = n2
  BY ONLY <1>3, n1 \in Int, n2 \in Int
<1>5. QED
  BY ONLY <1>1, <1>2, <1>4, n1 \in Int, n2 \in Int

(* Below cage 100, no two ports of a switch have the same number in ONOS,   *)
(* so none overwrites another in the netconfig.                             *)
THEOREM OnosPortsApart ==
  ASSUME NEW cage1 \in LowCage, NEW cage2 \in LowCage,
         NEW channel1 \in Uint8, NEW channel2 \in Uint8,
         cageChannelToPort(cage1, channel1) = cageChannelToPort(cage2, channel2)
  PROVE  cage1 = cage2 /\ channel1 = channel2
<1>1. cage1 \in Uint8 /\ cage2 \in Uint8
  BY ONLY cage1 \in LowCage, cage2 \in LowCage DEF Uint8, LowCage
<1>2. channel1 * 100 + cage1 = cageChannelToPort(cage1, channel1)
  BY <1>1, PortFits
<1>3. channel1 * 100 + cage1 = channel2 * 100 + cage2
  BY <1>1, <1>2, PortFits
<1>4. channel1 \in Int /\ channel2 \in Int
  BY ONLY channel1 \in Uint8, channel2 \in Uint8 DEF Uint8
<1>5. QED
  BY <1>3, <1>4, HundredApart

(* "The unique ID of the singleton port" (common.pb.go): it is, for cages   *)
(* from 1 to 99 and up to 100 channels each.                                *)
THEOREM StratumPortsApart ==
  ASSUME NEW cage1 \in ChassisCage, NEW cage2 \in ChassisCage,
         NEW channel1 \in ChassisChannel, NEW channel2 \in ChassisChannel,
         singletonPortId(cage1, channel1) = singletonPortId(cage2, channel2)
  PROVE  cage1 = cage2 /\ channel1 = channel2
<1>1. CASE channel1 # 0 /\ channel2 # 0
  BY <1>1 DEF singletonPortId, ChassisCage, ChassisChannel
<1>2. CASE channel1 = 0 /\ channel2 = 0
  BY <1>2 DEF singletonPortId, ChassisCage, ChassisChannel
<1>3. CASE channel1 # 0 /\ channel2 = 0
  BY <1>3 DEF singletonPortId, ChassisCage, ChassisChannel
<1>4. CASE channel1 = 0 /\ channel2 # 0
  BY <1>4 DEF singletonPortId, ChassisCage, ChassisChannel
<1>5. QED
  BY <1>1, <1>2, <1>3, <1>4

(* ONOS and the switch call an unchannelized port by the same number, and   *)
(* a channelized one never.                                                 *)
THEOREM NumbersAgree ==
  ASSUME NEW cage \in Uint8, NEW channel \in Uint8
  PROVE  cageChannelToPort(cage, channel) = singletonPortId(cage, channel) <=> channel = 0
<1>1. cageChannelToPort(cage, channel) = channel * 100 + cage
  BY PortFits
<1>2. CASE channel = 0
  <2>1. singletonPortId(cage, channel) = cage
    BY <1>2 DEF singletonPortId
  <2>2. channel * 100 + cage = cage
    BY <1>2 DEF Uint8
  <2>3. QED
    BY <1>1, <1>2, <2>1, <2>2
<1>3. CASE channel # 0
  <2>1. singletonPortId(cage, channel) = cage * 100 + channel - 1
    BY <1>3 DEF singletonPortId, Uint8
  <2>2. channel * 100 + cage # cage * 100 + channel - 1
    BY DEF Uint8
  <2>3. QED
    BY <1>1, <1>3, <2>1, <2>2
<1>4. QED
  BY <1>2, <1>3

-----------------------------------------------------------------------------
(* Two ports of a switch that share a cage and a channel are the same one. *)
Keyed(ports) ==
  /\ \A port \in ports : port.cage \in Uint8 /\ port.channel \in Uint8
  /\ \A port1, port2 \in ports :
       port1.cage = port2.cage /\ port1.channel = port2.channel => port1 = port2

LowCages(ports) == \A port \in ports : port.cage < 100

LEMMA PortIDApart ==
  ASSUME NEW ports, Keyed(ports), LowCages(ports),
         NEW port1 \in ports, NEW port2 \in ports, PortID(port1) = PortID(port2)
  PROVE  port1 = port2
<1>1. port1.cage \in LowCage /\ port2.cage \in LowCage
  <2>1. \A n \in Uint8 : n < 100 => n \in LowCage
    BY DEF Uint8, LowCage
  <2>2. QED
    BY <2>1 DEF Keyed, LowCages
<1>2. port1.channel \in Uint8 /\ port2.channel \in Uint8
  BY DEF Keyed
<1>3. cageChannelToPort(port1.cage, port1.channel)
        = cageChannelToPort(port2.cage, port2.channel)
  BY DEF PortID
<1>4. port1.cage = port2.cage /\ port1.channel = port2.channel
  BY <1>1, <1>2, <1>3, OnosPortsApart
<1>5. QED
  BY <1>4 DEF Keyed

(* Below cage 100 every good port of a switch is in the netconfig, under    *)
(* its own number, whatever order the ports are visited in...               *)
THEOREM NoPortLost ==
  ASSUME NEW sw, Keyed(sw.port), LowCages(sw.port),
         NEW table \in PortTables(sw), NEW port \in OnosPorts(sw)
  PROVE  PortID(port) \in DOMAIN table /\ table[PortID(port)] = port
<1> DEFINE numbers == {PortID(p) : p \in OnosPorts(sw)}
<1>1. /\ table \in [numbers -> OnosPorts(sw)]
      /\ \A n \in numbers : PortID(table[n]) = n
  BY DEF PortTables
<1>2. PortID(port) \in numbers
  OBVIOUS
<1>3. table[PortID(port)] \in OnosPorts(sw) /\ PortID(table[PortID(port)]) = PortID(port)
  BY <1>1, <1>2
<1>4. OnosPorts(sw) \subseteq sw.port
  BY DEF OnosPorts
<1>5. QED
  BY <1>1, <1>2, <1>3, <1>4, PortIDApart

(* ... so that there is no more than one port table to be had. *)
THEOREM OnePortTable ==
  ASSUME NEW sw, Keyed(sw.port), LowCages(sw.port),
         NEW table1 \in PortTables(sw), NEW table2 \in PortTables(sw)
  PROVE  table1 = table2
<1> DEFINE numbers == {PortID(p) : p \in OnosPorts(sw)}
<1>1. table1 \in [numbers -> OnosPorts(sw)] /\ table2 \in [numbers -> OnosPorts(sw)]
  BY DEF PortTables
<1>2. ASSUME NEW n \in numbers PROVE table1[n] = table2[n]
  <2>1. PICK port \in OnosPorts(sw) : n = PortID(port)
    OBVIOUS
  <2>2. QED
    BY <2>1, NoPortLost
<1>3. QED
  BY <1>1, <1>2

LEMMA OnePairLocalPort ==
  ASSUME NEW sw, NEW n1 \in PairLocalPorts(sw), NEW n2 \in PairLocalPorts(sw)
  PROVE  n1 = n2
  BY DEF PairLocalPorts

(* The singleton ports of a chassis configuration have ids of their own,    *)
(* one for each good port, as long as cages and channels are in range.      *)
THEOREM ChassisPortsDistinct ==
  ASSUME NEW sw, Keyed(sw.port),
         \A port \in sw.port : port.cage \in ChassisCage /\ port.channel \in ChassisChannel,
         NEW port1 \in StratumPorts(sw), NEW port2 \in StratumPorts(sw),
         SingletonPort(sw, port1).Id = SingletonPort(sw, port2).Id
  PROVE  port1 = port2
<1>1. port1 \in sw.port /\ port2 \in sw.port
  BY DEF StratumPorts
<1>2. singletonPortId(port1.cage, port1.channel) = singletonPortId(port2.cage, port2.channel)
  BY DEF SingletonPort
<1>3. /\ port1.cage \in ChassisCage /\ port1.channel \in ChassisChannel
      /\ port2.cage \in ChassisCage /\ port2.channel \in ChassisChannel
  BY <1>1
<1>4. port1.cage = port2.cage /\ port1.channel = port2.channel
  BY <1>2, <1>3, StratumPortsApart
<1>5. QED
  BY <1>1, <1>4 DEF Keyed
=============================================================================
