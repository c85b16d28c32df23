------------------------------- MODULE MCEpoch -------------------------------
(* The generated entry procedure over the ground programs of Programs.     *)
(* Where programs stand side by side, a batch concerns one of them, and    *)
(* the next one of another only when no fact is left.                      *)
EXTENDS Epoch, Programs

SubmitToOne == \E fs \in FactSets : facts \subseteq fs /\ fs \subseteq Facts /\ SubmitOf(fs)
SideSpec == Init /\ [][SubmitToOne \/ Run]_vars /\ WF_vars(Run)
=============================================================================
