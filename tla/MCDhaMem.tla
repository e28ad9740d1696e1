------------------------------ MODULE MCDhaMem ------------------------------
(* An instance of DhaMem for TLC: pages of four bytes, two buffers of two     *)
(* pages each, of which one has a page that the process does not map.        *)
EXTENDS DhaMem, TLC

Aligned == {[addr |-> 0, length |-> 8], [addr |-> 8, length |-> 5]}
Partly  == {0, 1, 2}
=============================================================================
