------------------------------ MODULE MCVenusIR ------------------------------
(* The infrared receiver with small instances: one reader, a fifo of a few   *)
(* words whose counters wrap.                                                *)
EXTENDS VenusIR
=============================================================================
