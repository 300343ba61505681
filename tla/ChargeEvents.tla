----------------------------- MODULE ChargeEvents -----------------------------
(***************************************************************************)
(* What Home Assistant is promised about charging events: the contract of  *)
(* the "started" / "stopping" / "stopped" events that the controller puts  *)
(* on its publish queue.  The detailed session state machine implements    *)
(* this specification (see ChargingSession).                               *)
(*                                                                         *)
(*   - "started" opens a session, or re-opens one that was ending;         *)
(*   - an open session starts ending either with a "stopping" event or     *)
(*     silently (the charger stopped by itself), and the reason is fixed   *)
(*     at that moment;                                                     *)
(*   - "stopped" closes an ending session exactly once, and carries the    *)
(*     reason fixed when it started ending.                                *)
(***************************************************************************)

CONSTANT Reasons        \* the reasons a session may end for

VARIABLES phase,        \* "off", "on" or "ending"
          why,          \* the reason the session is ending for, or "none"
          event         \* the last thing said: [name, reason]

vars == <<phase, why, event>>

Silence == [name |-> "none", reason |-> "none"]

Said(n, r) == [name |-> n, reason |-> r]

Init == phase = "off" /\ why = "none" /\ event = Silence

Start ==
    /\ phase \in {"off", "ending"}
    /\ phase' = "on"
    /\ why' = "none"
    /\ event' = Said("started", "none")

\* The controller decides to end the session, and says so.
BeginStopping ==
    /\ phase = "on"
    /\ phase' = "ending"
    /\ why' \in Reasons
    /\ event' = Said("stopping", why')

\* The charger ended the session by itself: nothing is said yet.
EndedByCharger ==
    /\ phase = "on"
    /\ phase' = "ending"
    /\ why' \in Reasons
    /\ event' = Silence

Stop ==
    /\ phase = "ending"
    /\ phase' = "off"
    /\ why' = "none"
    /\ event' = Said("stopped", why)

Quiet == event' = Silence /\ UNCHANGED <<phase, why>>

Next == Start \/ BeginStopping \/ EndedByCharger \/ Stop \/ Quiet

SafetySpec == Init /\ [][Next]_vars

\* An ending session does not stay so: it is closed or re-opened.
Spec == SafetySpec /\ (phase = "ending" ~> phase # "ending")

================================================================================
