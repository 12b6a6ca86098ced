--------------------------- MODULE MCConnectorRuns ---------------------------
(* Instances of ConnectorRuns for TLC. *)
EXTENDS ConnectorRuns
=============================================================================
