------------------------------ MODULE PrebootFs ------------------------------
(***************************************************************************)
(* The files a rootless jailbreak consists of, and the functions of        *)
(* libjailbreak, of the loader and of payload_dylib that read or repair    *)
(* them:                                                                   *)
(*                                                                         *)
(*   /private/preboot/<boot-manifest-hash>/jb-XXXXXXXX/procursus           *)
(*   /var/jb, normally a symbolic link to that procursus directory         *)
(*   JB_ROOT_PATH in launchd's environment                                 *)
(*                                                                         *)
(* The module declares no variable: every operator takes the state it      *)
(* reads as an argument, so the modules that act on those files share it.  *)
(***************************************************************************)
EXTENDS Naturals

CONSTANTS
  JbDirs,  \* the names mkdtemp may give a jb-XXXXXXXX directory
  NoDir    \* stands for "no directory"

\* What /var/jb can be other than a link to one of the procursus directories.
\*   "none"      does not exist
\*   "dir"       a directory remove_bogus_var_jb leaves alone
\*   "artifact"  a directory with var/mobile/Library or var/root/Library in it
\*   "unc0ver"   a link to /jb
VarJbKinds == {"none", "dir", "artifact", "unc0ver"}

\* The errnos of jailbreak_get_prebootPath, as far as its callers tell them
\* apart: ENXIO stands for every errno but the other two.
Errnos == {"ENOENT", "EEXIST", "ENXIO"}

\* JB_ROOT_PATH when it does not name a preboot directory.
FixedRoots == {"/", "/var/jb"}

ASSUME NamesAssumption ==
  /\ NoDir \notin JbDirs
  /\ JbDirs \cap (VarJbKinds \cup Errnos \cup FixedRoots) = {}

(***************************************************************************)
(* A jb- directory is "made" as long as it has no procursus directory in   *)
(* it; "renamed" when the extracted tree has become procursus; "installed" *)
(* once .installed_palera1n is written; "torn" while, or after, a          *)
(* recursive removal has taken some of the files of procursus.             *)
(***************************************************************************)
DirState == {"absent", "made", "renamed", "installed", "torn"}
VarJb    == JbDirs \cup VarJbKinds
RootPath == JbDirs \cup FixedRoots

Present(jb)         == {d \in JbDirs : jb[d] # "absent"}
HasProcursus(jb, d) == jb[d] \in {"renamed", "installed", "torn"}

-----------------------------------------------------------------------------

(***************************************************************************)
(* jailbreak_get_prebootPath when every call it makes works: the           *)
(* directory, or the errno the files cause.                                *)
(***************************************************************************)
PrebootPath(jb) ==
  LET the == CHOOSE d \in JbDirs : jb[d] # "absent"
  IN  IF Present(jb) = {} THEN "ENOENT"
      ELSE IF Present(jb) # {the} THEN "EEXIST"
      ELSE IF HasProcursus(jb, the) THEN the
      ELSE "ENXIO"

(***************************************************************************)
(* What it may answer when its calls may fail.  The results of             *)
(* jailbreak_get_bmhash and readdir are not looked at and every failure of *)
(* opendir is ENOENT, so it may find nothing, or the first of two          *)
(* directories; stat and uname fail with errnos of their own.              *)
(***************************************************************************)
PrebootAnswers(jb, mayFail) ==
  {PrebootPath(jb)} \cup
    (IF mayFail THEN {"ENOENT", "ENXIO"} \cup {d \in JbDirs : HasProcursus(jb, d)} ELSE {})

(***************************************************************************)
(* access("/var/jb", F_OK) == 0: access follows the link.                  *)
(***************************************************************************)
VarJbResolves(v, jb) ==
  \/ v \in {"dir", "artifact"}
  \/ v \in JbDirs /\ HasProcursus(jb, v)

(***************************************************************************)
(* remove_bogus_var_jb: deletes what other tools left at /var/jb.          *)
(***************************************************************************)
RemoveBogusVarJb(v) == IF v \in {"artifact", "unc0ver"} THEN "none" ELSE v

(***************************************************************************)
(* unlink("/var/jb"): takes a link away and refuses a directory.           *)
(***************************************************************************)
UnlinkVarJb_Skipped(v) == v
UnlinkVarJb(v) == IF v \in {"dir", "artifact"} THEN v ELSE "none"

(***************************************************************************)
(* create_var_jb: does nothing when /var/jb resolves; otherwise links it   *)
(* to the preboot path it is told, and symlink() fails, unnoticed, when    *)
(* something, a dangling link included, is in the way.                     *)
(***************************************************************************)
CreateVarJb_Never(v, jb, path) == v
CreateVarJb(v, jb, path) ==
  IF ~VarJbResolves(v, jb) /\ path \in JbDirs /\ v = "none" THEN path ELSE v

(***************************************************************************)
(* load_bootstrapped_jailbreak_env: the preboot path when there is one,    *)
(* /var/jb on ENOENT, and on any other errno what was there.               *)
(***************************************************************************)
LoadEnv(root, path) ==
  IF path \in JbDirs THEN path
  ELSE IF path = "ENOENT" THEN "/var/jb"
  ELSE root

=============================================================================
