---------------------------- MODULE MCDriverLife ----------------------------
(* An instance of DriverLife for TLC: six systems, by the calls that may     *)
(* succeed there, and the drivers a program uses on each.                    *)
EXTENDS DriverLife, TLC

Yes   == {TRUE}
No    == {FALSE}
Maybe == BOOLEAN

\* The helper is there; a card may be missing or refuse a movie.
WithHelper ==
  [c \in Calls |-> IF c \in {"card", "fits"} THEN Maybe ELSE Yes]

\* No helper: /dev/mem and iopl; and perhaps no PCI bus to scan with them.
NoHelper == [WithHelper EXCEPT !["helper"] = No, !["bus"] = Maybe]

\* Mappings may fail.
MapsFail == [WithHelper EXCEPT !["map"] = Maybe]

\* Drivers side by side, one of them with ports; the same with bus mastering;
\* drivers with ports but no helper; drivers that check their mappings, where
\* these may fail; drivers that leave mappings and blocks, or descriptors, behind.
MCWorks == "beside"   :> WithHelper @@ "dma"      :> WithHelper @@
           "bare"     :> NoHelper   @@ "unmapped" :> MapsFail   @@
           "leaky"    :> WithHelper @@ "spent"    :> WithHelper
MCUses  == "beside"   :> {"sis", "nvidia", "pm2"} @@
           "dma"      :> {"mach64", "pm2"} @@
           "bare"     :> {"cyberblade", "unichrome", "sis"} @@
           "unmapped" :> {"mach64", "radeonhd"} @@
           "leaky"    :> {"pm3", "radeon", "mga"} @@
           "spent"    :> {"ivtv", "s3", "savage"}
=============================================================================
