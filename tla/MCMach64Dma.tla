---------------------------- MODULE MCMach64Dma ----------------------------
(* Instances of Mach64Dma for TLC: pages of four bytes, a source of two *)
(* pages, one of one page, and their descriptor tables.                 *)
EXTENDS Mach64Dma, TLC

Large  == [addr |-> 0, length |-> 6]
Small  == [addr |-> 8, length |-> 4]
TableL == [addr |-> 12, length |-> 1]
TableS == [addr |-> 16, length |-> 1]

AllBuffers == {Large, Small, TableL, TableS}
AllSources == {Large, Small}
Tables     == [b \in AllSources |-> IF b = Large THEN TableL ELSE TableS]

AllPages == 0 .. 4
OfLarge  == {0, 1}

FrameSymmetry == Permutations(Frames)
AnyFlags == {{}, {"sync"}, {"fixed"}}
=============================================================================
