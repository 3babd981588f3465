-------------------------- MODULE MCConnectorLane --------------------------
(* Instances of ConnectorLane for TLC. *)
EXTENDS ConnectorLane
=============================================================================
