----------------------------- MODULE MCJailbreakd -----------------------------
(***************************************************************************)
(* The constants of the runs of Jailbreakd.                                *)
(***************************************************************************)
EXTENDS Jailbreakd, TLC

CONSTANTS c1, k1

MCClients    == {c1}
MCChildren   == {k1}
\* One command of each kind; the command run as root adds the contention.
MCAsks == (c1 :> {"GET_PINFO_KERNEL_INFO", "DEPLOY_BOOTSTRAP", "PERFORM_REBOOT3",
                  "EXIT_SAFE_MODE", "OVERWRITE_FILE_WITH_CONTENT", "RUN_AS_ROOT",
                  "RESUME_PAYLOAD"}) @@
          (k1 :> {"OVERWRITE_FILE_WITH_CONTENT"})
AllPlatforms == {"ios", "tvos", "bridgeos"}
AllFaults    == {"kill", "io"}

NoClients  == {}
NoChildren == {}
NoAsks     == <<>>
TvOnly     == {"tvos"}
NoFaults   == {}

===============================================================================
