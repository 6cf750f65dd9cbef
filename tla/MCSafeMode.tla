------------------------------ MODULE MCSafeMode ------------------------------
(***************************************************************************)
(* The constants of the runs of SafeMode.                                  *)
(***************************************************************************)
EXTENDS SafeMode

CONSTANTS p1, p2

MCProcs == {p1, p2}

\* The host's command line can ask for safe mode, never for "failure".
MCHostFlags == {{}, {"safemode"}}

AllFaults == {"kill", "write"}

=============================================================================
