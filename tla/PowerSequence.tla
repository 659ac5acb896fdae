--------------------------- MODULE PowerSequence ---------------------------
(***************************************************************************)
(* What the power keys promise an operator: main power, a warm-up after     *)
(* which DC power comes on by itself, DC power off and on by hand, a blower  *)
(* that outlives main power, and a master switch that ends everything.       *)
(***************************************************************************)
VARIABLES phase, blower

svars == <<phase, blower>>

Phases == {"off", "warming", "ready", "dc_off", "dead"}
Powered == {"warming", "ready", "dc_off"}

Init == phase = "off" /\ blower = FALSE

ApplyMain == phase = "off" /\ phase' = "warming" /\ blower' = TRUE

(* DC power is on when the warm-up ends.                                     *)
WarmedUp == phase = "warming" /\ phase' = "ready" /\ UNCHANGED blower

CutDc == phase = "ready" /\ phase' = "dc_off" /\ UNCHANGED blower

RestoreDc == phase = "dc_off" /\ phase' = "ready" /\ UNCHANGED blower

CutMain == phase \in Powered /\ phase' = "off" /\ blower' = TRUE

CooledDown == phase = "off" /\ blower /\ blower' = FALSE /\ UNCHANGED phase

CutMaster == phase' = "dead" /\ blower' = FALSE

Next ==
    \/ ApplyMain \/ WarmedUp \/ CutDc \/ RestoreDc
    \/ CutMain \/ CooledDown \/ CutMaster

Spec == Init /\ [][Next]_svars
=============================================================================
