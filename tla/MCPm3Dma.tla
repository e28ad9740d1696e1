------------------------------ MODULE MCPm3Dma ------------------------------
(* An instance of Pm3Dma for TLC: two slots, two sources, two kinds of fault. *)
EXTENDS Pm3Dma

Failing == {"translate", "refuse"}
=============================================================================
