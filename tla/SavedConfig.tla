---------------------------- MODULE SavedConfig -----------------------------
(***************************************************************************)
(* What saving a configuration in flash promises, whatever the flash looks *)
(* like: power-up brings back what the last complete save has kept, unless *)
(* the power was cut during a save since.  The next complete save makes    *)
(* that good.  ConfigDownload implements this.                             *)
(***************************************************************************)
CONSTANTS Fresh, Lost   \* the configuration of a new device, and none at all

VARIABLES
    ram,     \* the configuration in use
    kept,    \* what the flash is good for
    saving,  \* a save is under way
    powered

vars == <<ram, kept, saving, powered>>

Init == ram = Fresh /\ kept = Fresh /\ saving = FALSE /\ powered = TRUE

\* A download, in part or in full: the configuration in use becomes any other.
Edit ==
    /\ powered /\ ~saving
    /\ UNCHANGED <<kept, saving, powered>>

BeginSave ==
    /\ powered /\ ~saving /\ saving'
    /\ UNCHANGED <<ram, kept, powered>>

FinishSave ==
    /\ powered /\ saving /\ ~saving'
    /\ kept' = ram
    /\ UNCHANGED <<ram, powered>>

PowerCut ==
    /\ powered /\ ~powered' /\ ~saving'
    /\ kept' = IF saving THEN Lost ELSE kept

PowerUp ==
    /\ ~powered /\ powered'
    /\ kept # Lost => ram' = kept
    /\ UNCHANGED <<kept, saving>>

Next == Edit \/ BeginSave \/ FinishSave \/ PowerCut \/ PowerUp

Spec == Init /\ [][Next]_vars
=============================================================================
