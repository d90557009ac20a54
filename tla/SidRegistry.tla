----------------------------- MODULE SidRegistry -----------------------------
(***************************************************************************)
(* What the SID store promises its callers, whatever fails underneath: a   *)
(* switch is given one segment identifier, once and for all, no two        *)
(* switches share one, and every answer is the identifier on record.       *)
(***************************************************************************)
EXTENDS Naturals

CONSTANTS
  Switches,   \* switch identifiers
  Sids,       \* the identifiers that may be handed out
  NoSid       \* "nothing on record"

VARIABLES
  assigned,   \* assigned[s]: the identifier on record for switch s
  issued      \* every <<switch, identifier>> a caller was ever given

vars == <<assigned, issued>>

Init ==
  /\ assigned = [s \in Switches |-> NoSid]
  /\ issued = {}

(* A switch gets an identifier nobody else has. The caller that caused it  *)
(* may or may not live to hear the answer.                                 *)
Assign(s, sid) ==
  /\ assigned[s] = NoSid
  /\ \A t \in Switches : assigned[t] # sid
  /\ assigned' = [assigned EXCEPT ![s] = sid]
  /\ issued' \in {issued, issued \cup {<<s, sid>>}}

(* A caller is told the identifier on record. *)
Tell(s) ==
  /\ assigned[s] # NoSid
  /\ issued' = issued \cup {<<s, assigned[s]>>}
  /\ UNCHANGED assigned

Next == \E s \in Switches : Tell(s) \/ \E sid \in Sids : Assign(s, sid)

Spec == Init /\ [][Next]_vars
=============================================================================
