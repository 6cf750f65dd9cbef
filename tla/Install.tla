-------------------------------- MODULE Install --------------------------------
(***************************************************************************)
(* What a rootless install promises to whoever uses /var/jb, without any   *)
(* of the steps that keep the promise.  There is at most one tree.  A tree *)
(* becomes whole only in the hands of the request that began it: what a    *)
(* request abandoned is never taken up again, only removed.  A tree that   *)
(* has been acknowledged stays whole and is the one every process sees,    *)
(* through any number of restarts, until somebody asks for its removal.    *)
(* Bootstrap implements this specification.                                *)
(***************************************************************************)
CONSTANTS
  Dirs,  \* the directories an install may live in
  None,  \* stands for "no directory"
  Down   \* stands for "nobody is running who could look"

VARIABLES
  tree,      \* how much of an install every directory holds
  worker,    \* the directory of the installation in progress
  promised,  \* the directory of the acknowledged install
  used       \* the directory processes find behind /var/jb

vars == <<tree, worker, promised, used>>

Init ==
  /\ tree = [d \in Dirs |-> "none"]
  /\ worker = None
  /\ promised = None
  /\ used = Down

\* An installation begins, and may fail at once.
Begin(d) ==
  /\ \A e \in Dirs : tree[e] = "none"
  /\ tree' = [tree EXCEPT ![d] = "partial"]
  /\ worker' \in {d, None}
  /\ UNCHANGED <<promised, used>>

Complete ==
  /\ worker \in Dirs
  /\ tree[worker] = "partial"
  /\ tree' = [tree EXCEPT ![worker] = "whole"]
  /\ UNCHANGED <<worker, promised, used>>

Acknowledge ==
  /\ worker \in Dirs
  /\ tree[worker] = "whole" /\ used = worker
  /\ promised' = worker
  /\ worker' = None
  /\ UNCHANGED <<tree, used>>

Abandon ==
  /\ worker' = None
  /\ UNCHANGED <<tree, promised, used>>

\* Somebody asks for the removal of what is installed.
Withdraw ==
  /\ promised' = None
  /\ UNCHANGED <<tree, worker, used>>

\* A directory that nobody was promised, and nobody works on, loses files.
Lose(d) ==
  /\ d \notin {worker, promised}
  /\ \E left \in {"partial", "none"} : tree' = [tree EXCEPT ![d] = left]
  /\ tree[d] = "none" => UNCHANGED tree
  /\ used' \in IF used = d THEN {d, None} ELSE {used}
  /\ UNCHANGED <<worker, promised>>

\* What a process may find behind /var/jb.
Visible == IF promised \in Dirs THEN {promised}
           ELSE {None} \cup {d \in Dirs : tree[d] # "none"}

Relink ==
  /\ used' \in Visible
  /\ UNCHANGED <<tree, worker, promised>>

GoDown ==
  /\ used' = Down
  /\ worker' = None
  /\ UNCHANGED <<tree, promised>>

Next ==
  \/ Complete \/ Acknowledge \/ Abandon \/ Withdraw \/ Relink \/ GoDown
  \/ \E d \in Dirs : Begin(d) \/ Lose(d)

Spec == Init /\ [][Next]_vars

=============================================================================
