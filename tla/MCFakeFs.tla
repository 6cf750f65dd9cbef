------------------------------- MODULE MCFakeFs -------------------------------
(***************************************************************************)
(* The constants of the runs of FakeFs.                                    *)
(***************************************************************************)
EXTENDS FakeFs, TLC

CONSTANTS d1, d2

MCDevs == {d1, d2}

MCPlatforms == {"iOS", "tvOS"}

AllFaults == {"power", "nvram", "copy"}

\* No property tells the two devices apart.
DevSymmetry == Permutations(MCDevs)

=============================================================================
