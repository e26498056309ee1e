--------------------------- MODULE MCMonitorLinux ---------------------------
(* MonitorLinux on a small instance. *)
EXTENDS MonitorLinux

=============================================================================
