----------------------------- MODULE MCBootstrap -----------------------------
(***************************************************************************)
(* The constants of the runs of Bootstrap.                                 *)
(***************************************************************************)
EXTENDS Bootstrap

CONSTANTS d1, d2

MCJbDirs == {d1, d2}

\* The host may ask for anything.
AllBoots == SUBSET FlagNames

AllFaults == FaultKinds

\* What can go wrong while palera1nd lives, sees the directories and removes
\* them completely.
RequestFaults == {"step", "revert", "prefs"}

=============================================================================
