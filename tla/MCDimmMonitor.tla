---------------------------- MODULE MCDimmMonitor ----------------------------
(* Instances of DimmMonitor for TLC. *)
EXTENDS DimmMonitor

\* Attributes of different kinds, in the order of the pass.
StatusAndSensor == <<"dieSpares", "mediaTemp">>
TwoKinds == <<"mediaTemp", "uncorrectable">>
=============================================================================
