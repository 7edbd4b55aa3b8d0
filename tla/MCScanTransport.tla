-------------------------- MODULE MCScanTransport --------------------------
(* Instances of ScanTransport for TLC: the values are in the .cfg files. *)
EXTENDS ScanTransport
=============================================================================
