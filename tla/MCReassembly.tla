---------------------------- MODULE MCReassembly ----------------------------
(* A small instance of Reassembly: every initial sequence number of a        *)
(* ten-value sequence space, so that the wrap is met at every offset.        *)
EXTENDS Reassembly
=============================================================================
