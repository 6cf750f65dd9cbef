------------------------------ MODULE MCBootStages ------------------------------
(***************************************************************************)
(* The devices of the run of BootStages: ElleKit cannot be loaded on       *)
(* bridgeOS, and / is asked to be writable on a normal boot.               *)
(***************************************************************************)
EXTENDS BootStages

MCDevices ==
  {[platform |-> p, ramdisk |-> r, old |-> o, ellekit |-> p # "bridgeos",
    verbose |-> v, mode |-> m, marker |-> m = "normal"] :
     p \in {"ios", "tvos", "bridgeos"}, r, o, v \in BOOLEAN, m \in {"normal", "safe", "revert"}}

===============================================================================
