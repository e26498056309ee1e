-------------------------- MODULE MCMonitorDarwin ---------------------------
(* MonitorDarwin on a small instance. *)
EXTENDS MonitorDarwin

=============================================================================
