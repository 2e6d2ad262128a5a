--------------------------- MODULE DesiredState ---------------------------
(***************************************************************************)
(* What the reconciler promises: a desired configuration the panel may     *)
(* change at any time, and a running one that only ever becomes the        *)
(* desired one of that moment, or is lost with the process that held it.   *)
(***************************************************************************)
CONSTANT Configs, Empty
VARIABLES desired, running

Init == desired \in Configs /\ running = Empty

Change == desired' \in Configs /\ UNCHANGED running
Push   == running' = desired /\ UNCHANGED desired
Lose   == running' = Empty /\ UNCHANGED desired

Next == Change \/ Push \/ Lose
Spec == Init /\ [][Next]_<<desired, running>>
=============================================================================
