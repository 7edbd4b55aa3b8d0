--------------------------- MODULE MCScanDataList ---------------------------
(* Instance of ScanDataList for TLC: the values are in the .cfg file. *)
EXTENDS ScanDataList
=============================================================================
