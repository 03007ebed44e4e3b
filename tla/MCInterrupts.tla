---------------------------- MODULE MCInterrupts ----------------------------
(* The interrupt controller with its handlers, and the assembly that leads *)
(* to a handler and back, side by side: they share no state, so a          *)
(* behaviour is that of one of them, chosen at the beginning.              *)
EXTENDS Interrupts, Linkage

VARIABLE part        \* which of them this behaviour is of

partVars == <<part, vars, linkageVars>>

PartInit == /\ part \in {"controller", "linkage"}
            /\ Init /\ LinkageInit

ControllerStep == part = "controller" /\ Next /\ UNCHANGED <<part, linkageVars>>
LinkageStep    == part = "linkage" /\ LinkageNext /\ UNCHANGED <<part, vars>>

PartNext == ControllerStep \/ LinkageStep

\* The fairness is that of Interrupts; of the linkage only safety is asked.
PartSpec == /\ PartInit /\ [][PartNext]_partVars
            /\ part = "controller" => Fairness
=============================================================================
