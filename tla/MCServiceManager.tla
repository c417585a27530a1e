--------------------------- MODULE MCServiceManager ---------------------------
(* Instances of ServiceManager for TLC. *)
EXTENDS ServiceManager
=============================================================================
