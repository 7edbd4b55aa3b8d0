------------------------------ MODULE MCDevice ------------------------------
(* Instances of Device for TLC: all kinds of input, with and without an    *)
(* output link.                                                            *)
EXTENDS Device
=============================================================================
