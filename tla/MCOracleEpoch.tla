---------------------------- MODULE MCOracleEpoch ----------------------------
(* The oracle over three of the ground programs of Programs side by side,  *)
(* with batches as in MCEpoch.                                             *)
EXTENDS OracleEpoch, Programs

SubmitToOne == \E fs \in FactSets : facts \subseteq fs /\ fs \subseteq Facts /\ SubmitOf(fs)
SideSpec == Init /\ [][SubmitToOne \/ Run]_vars
=============================================================================
