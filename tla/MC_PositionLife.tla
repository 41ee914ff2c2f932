---- MODULE MC_PositionLife ----
(* What may disturb the position of PositionLife. *)
EXTENDS PositionLife

TamerKinds == DisturbanceKinds \ {"positions", "split"}
SwitchKind == {"switch"}
ListKind == {"positions"}
====
