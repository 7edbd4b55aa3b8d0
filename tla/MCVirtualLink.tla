---------------------------- MODULE MCVirtualLink ----------------------------
(***************************************************************************)
(* A node and a server that restart once each.                             *)
(***************************************************************************)
EXTENDS VirtualLink
=============================================================================
