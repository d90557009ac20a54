---------------------------- MODULE MC_Synchronizer ----------------------------
(***************************************************************************)
(* Small instances of Synchronizer for TLC.  Content x has one switch, y   *)
(* two; z has a switch without management address before a sound one.      *)
(***************************************************************************)
EXTENDS Synchronizer

CONSTANTS s1, s2, x, y, z, f1, f2, r1, r2

MC_SwitchesOf ==
  [c \in Contents |-> IF c = x THEN <<s1>> ELSE <<s1, s2>>]

MC_Incomplete == [c \in Contents |-> IF c = z THEN {s1} ELSE {}]

MC_Unmanaged == MC_Incomplete

(* Content y has two routes, which may come in either order. *)
MC_RenderingsOf == [c \in Contents |-> IF c = y THEN {r1, r2} ELSE {r1}]

(* No fabric yet: what the gNMI server starts with. *)
NoFabric == [f \in {} |-> x]

(* Every combination of contents, for each of the given sets of fabrics. *)
ConfigsOver(domains) == {NoFabric} \cup UNION {[F -> Contents] : F \in domains}

OneFabric == ConfigsOver({{f1}})

(* The second fabric only ever has one switch. *)
TwoFabrics == {config \in ConfigsOver({{f1}, {f1, f2}}) : f2 \in DOMAIN config => config[f2] = x}
=============================================================================
