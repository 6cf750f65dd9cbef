-------------------------------- MODULE SpawnEnv --------------------------------
(***************************************************************************)
(* How systemhook.dylib gets into every process.  spawn_hook_common stands *)
(* in for posix_spawn and the exec family in launchd and in every process  *)
(* systemhook is loaded in: it completes the environment of the new image  *)
(* with six entries, or takes them out of it again when there is a reason  *)
(* not to inject.  The constructor of systemhook in the new image takes    *)
(* its values out of the environment and hides what it can of them.        *)
(*                                                                         *)
(* A DYLD_ path variable is the set of its elements, {} when it is not     *)
(* set; a variable of its own is present or absent: which values travel is *)
(* the subject of SafeMode.  _SafeMode=1 and _MSSafeMode=1 are one flag.   *)
(***************************************************************************)
EXTENDS Naturals

CONSTANTS
  Procs,        \* process slots, launchd among them
  Launchd,      \* process 1
  Libraries,    \* libraries programs insert on their own account
  Dirs,         \* library directories of their own
  PayloadDylib, \* the library fakedyld inserts into launchd
  Attrs,        \* which of AttrKinds callers of posix_spawn use
  MaxAttempts,  \* candidates of one search of PATH
  MaxFactor     \* how often the limits of one attribute object are multiplied

Hook    == "systemhook.dylib"
Libroot == "libroot"
JbVars  == {"JB_SANDBOX_EXTENSIONS", "JB_ROOT_PATH", "JB_PINFO_FLAGS",
            "JB_TWEAKLOADER_PATH"}

\* "true" stands for the program of the binpack and for any other program,
\* "loader" for the launchers of tweak loaders in blacklistedPaths, "fragile"
\* for what configForBinary knows.
Images    == {"true", "loader", "fragile"}
AttrKinds == {"none", "limited", "driver"}

ASSUME SpawnAssumption ==
  /\ Launchd \in Procs
  /\ PayloadDylib \in Libraries
  /\ Hook \notin Libraries \cup Dirs
  /\ Libroot \notin Libraries \cup Dirs
  /\ Attrs \subseteq AttrKinds
  /\ MaxAttempts \in Nat \ {0}
  /\ MaxFactor \in Nat

VARIABLES
  status,       \* what a slot holds
  env,          \* the environment of its image
  hooked,       \* is systemhook loaded and initialised there?
  factor,       \* how often its attribute object has been multiplied
  born,         \* history: the call that started an image, until it runs
  hookPresent   \* does HOOK_DYLIB_PATH exist?

vars == <<status, env, hooked, factor, born, hookPresent>>

Statuses == {"free", "starting", "runs", "diedAtStart", "diedInSpawn"}

Envs == [inserts  : SUBSET ({Hook} \cup Libraries),
         dirs     : SUBSET ({Hook, Libroot} \cup Libraries \cup Dirs),
         vars     : SUBSET JbVars,
         safeMode : BOOLEAN]

EmptyEnv == [inserts |-> {}, dirs |-> {}, vars |-> {}, safeMode |-> FALSE]

\* What fakedyld gave launchd, less what systemhook's constructor took out.
LaunchdEnv == [EmptyEnv EXCEPT !.inserts = {PayloadDylib},
                               !.vars = JbVars \ {"JB_SANDBOX_EXTENSIONS"}]

\* A call of posix_spawn, posix_spawnp or one of the exec family; "tries" is
\* the number of candidate paths it comes to.
Calls == [image : Images, env : Envs, attr : AttrKinds, exec : BOOLEAN,
          tries : 1 .. MaxAttempts]

Births == [call : Calls, hooked : BOOLEAN, insert : BOOLEAN, factor : 0 .. MaxFactor]

NoCall  == [image |-> "true", env |-> EmptyEnv, attr |-> "none", exec |-> FALSE,
            tries |-> 1]
NoBirth == [call |-> NoCall, hooked |-> FALSE, insert |-> FALSE, factor |-> 0]

TypeOK ==
  /\ status \in [Procs -> Statuses]
  /\ env \in [Procs -> Envs]
  /\ hooked \in [Procs -> BOOLEAN]
  /\ factor \in [Procs -> 0 .. MaxFactor]
  /\ born \in [Procs -> Births]
  /\ hookPresent \in BOOLEAN

Init ==
  /\ status = [p \in Procs |-> IF p = Launchd THEN "runs" ELSE "free"]
  /\ env = [p \in Procs |-> IF p = Launchd THEN LaunchdEnv ELSE EmptyEnv]
  /\ hooked = [p \in Procs |-> p = Launchd]
  /\ factor = [p \in Procs |-> 0]
  /\ born = [p \in Procs |-> NoBirth]
  /\ hookPresent = TRUE

-----------------------------------------------------------------------------
(* spawn_hook_common: what it decides and the environment it makes.        *)

\* The entries of an environment that count as the jailbreak's.
JbEntries(e) == (e.inserts \cap {Hook}) \cup (e.dirs \cap {Libroot}) \cup e.vars

AllJbEntries == {Hook, Libroot} \cup JbVars

\* There is no reason to leave the new image alone.
ShouldInsert(c) ==
  /\ c.image # "fragile"
  /\ ~c.env.safeMode
  /\ c.attr # "driver"
  /\ hookPresent

\* _SafeMode is looked at only when configForBinary does not decide.
HasSafeModeVariable(c) == c.image # "fragile" /\ c.env.safeMode

\* The environment is as it should be and is passed on untouched.
AlreadyGood_Five(c) ==
  IF ShouldInsert(c)
  THEN AllJbEntries \ {"JB_SANDBOX_EXTENSIONS"} \subseteq JbEntries(c.env)
  ELSE JbEntries(c.env) = {} /\ ~HasSafeModeVariable(c)

AlreadyGood(c) ==
  IF ShouldInsert(c)
  THEN JbEntries(c.env) = AllJbEntries
  ELSE JbEntries(c.env) = {} /\ ~HasSafeModeVariable(c)

InsertJbEnv_Replaces(e) ==
  [e EXCEPT !.inserts = {Hook}, !.dirs = {Libroot}, !.vars = JbVars]

InsertJbEnv(e) ==
  [e EXCEPT !.inserts = @ \cup {Hook},
            !.dirs = @ \cup {Libroot},
            !.vars = JbVars]

\* When libroot's directory is not the only one searched, the new list is
\* made from the inserted libraries.
MisreadsInserts(e) == Libroot \in e.dirs /\ e.dirs # {Libroot}

StrippedDirs(e) ==
  IF MisreadsInserts(e) THEN e.inserts \ {Libroot} ELSE e.dirs \ {Libroot}

StripJbEnv_OnlySole(e) ==
  [e EXCEPT !.inserts = IF e.inserts = {Hook} THEN {} ELSE @,
            !.dirs = StrippedDirs(e),
            !.vars = @ \cap {"JB_TWEAKLOADER_PATH"},
            !.safeMode = FALSE]

StripJbEnv(e) ==
  [e EXCEPT !.inserts = @ \ {Hook},
            !.dirs = StrippedDirs(e),
            !.vars = @ \cap {"JB_TWEAKLOADER_PATH"},
            !.safeMode = FALSE]

\* The environment the kernel is given by a process systemhook is loaded in.
GivenEnv(c) ==
  IF AlreadyGood(c) THEN c.env
  ELSE IF ShouldInsert(c) THEN InsertJbEnv(c.env) ELSE StripJbEnv(c.env)

\* The search list is rebuilt from a list that is NULL or may be longer.
ReadsNull(c) ==
  ~AlreadyGood(c) /\ ~ShouldInsert(c) /\ MisreadsInserts(c.env) /\ c.env.inserts = {}
MayOverflow(c) ==
  ~AlreadyGood(c) /\ ~ShouldInsert(c) /\ MisreadsInserts(c.env)

\* The image that is started instead of a launcher of tweak loaders.
Replaced(image) == IF image = "loader" THEN "true" ELSE image

\* The memory limits in the caller's own object are multiplied once for every
\* candidate; n is how often they were before.
Multiplied(p, c, n) ==
  IF hooked[p] /\ c.attr = "limited" /\ ShouldInsert(c) THEN n + c.tries ELSE n

-----------------------------------------------------------------------------
(* Programs.                                                               *)

\* The environments a program makes from its own: none, a variable less,
\* libraries or directories of its own choice, and safe mode.
PathChoices(e) == {{}, e.inserts, e.inserts \cup Libraries}
                    \X {{}, e.dirs, e.dirs \cup Dirs}

Asked(e) ==
  {EmptyEnv}
  \cup {[e EXCEPT !.vars = @ \ {v}] : v \in JbVars}
  \cup {[e EXCEPT !.inserts = x[1], !.dirs = x[2]] : x \in PathChoices(e)}
  \cup {[e EXCEPT !.inserts = x[1], !.dirs = x[2], !.safeMode = TRUE] :
          x \in PathChoices(e)}

\* The calls a program may make; in launchd only posix_spawn is hooked.
CallsFrom(p) ==
  {c \in [image : Images, env : Asked(env[p]), attr : Attrs, exec : BOOLEAN,
          tries : 1 .. MaxAttempts] : p = Launchd => ~c.exec /\ c.tries = 1}

\* The attribute object is a new one, or the one of the call before.
Used(p, fresh) == IF fresh THEN 0 ELSE factor[p]

\* resolvePath gets through all candidates and none exists.
NotFound(p, c, fresh) ==
  /\ status[p] = "runs"
  /\ hooked[p] => ~ReadsNull(c)
  /\ Multiplied(p, c, Used(p, fresh)) <= MaxFactor
  /\ factor' = [factor EXCEPT ![p] = Multiplied(p, c, Used(p, fresh))]
  /\ UNCHANGED <<status, env, hooked, born, hookPresent>>

\* The last candidate exists: the kernel starts the image, in another slot or
\* in the caller's.
Launch(p, q, c, fresh) ==
  /\ status[p] = "runs"
  /\ IF c.exec THEN q = p ELSE status[q] = "free"
  /\ hooked[p] => ~ReadsNull(c)
  /\ Multiplied(p, c, Used(p, fresh)) <= MaxFactor
  /\ status' = [status EXCEPT ![q] = "starting"]
  /\ env' = [env EXCEPT ![q] = IF hooked[p] THEN GivenEnv(c) ELSE c.env]
  /\ born' = [born EXCEPT ![q] =
                [call |-> [c EXCEPT !.image = IF hooked[p] THEN Replaced(@) ELSE @],
                 hooked |-> hooked[p],
                 insert |-> ShouldInsert(c),
                 factor |-> Multiplied(p, c, Used(p, fresh))]]
  /\ hooked' = [hooked EXCEPT ![q] = FALSE]
  /\ factor' = [factor EXCEPT ![p] =
                  IF c.exec THEN 0 ELSE Multiplied(p, c, Used(p, fresh))]
  /\ UNCHANGED hookPresent

\* enumeratePathString reads NULL, or the rebuilt list overflows its buffer.
DieInSpawn(p, c) ==
  /\ status[p] = "runs" /\ hooked[p]
  /\ MayOverflow(c)
  /\ status' = [status EXCEPT ![p] = "diedInSpawn"]
  /\ UNCHANGED <<env, hooked, factor, born, hookPresent>>

\* The constructor hides an entry only when it is all there is.
Hidden(e) ==
  [e EXCEPT !.inserts = IF @ = {Hook} THEN {} ELSE @,
            !.dirs = IF @ = {Libroot} THEN {} ELSE @,
            !.vars = @ \ {"JB_SANDBOX_EXTENSIONS"}]

\* dyld loads what DYLD_INSERT_LIBRARIES names; the constructor of systemhook
\* copies four variables and dies when one is missing.
Initialize(q) ==
  /\ status[q] = "starting"
  /\ born' = [born EXCEPT ![q] = NoBirth]
  /\ \/ /\ Hook \notin env[q].inserts
        /\ status' = [status EXCEPT ![q] = "runs"]
        /\ UNCHANGED <<env, hooked>>
     \/ /\ Hook \in env[q].inserts /\ hookPresent /\ env[q].vars = JbVars
        /\ status' = [status EXCEPT ![q] = "runs"]
        /\ env' = [env EXCEPT ![q] = Hidden(@)]
        /\ hooked' = [hooked EXCEPT ![q] = TRUE]
     \/ /\ Hook \in env[q].inserts /\ hookPresent /\ env[q].vars # JbVars
        /\ status' = [status EXCEPT ![q] = "diedAtStart"]
        /\ UNCHANGED <<env, hooked>>
     \/ /\ Hook \in env[q].inserts /\ ~hookPresent
        /\ status' = [status EXCEPT ![q] = "free"]
        /\ UNCHANGED <<env, hooked>>
  /\ UNCHANGED <<factor, hookPresent>>

\* A process ends, or a dead one is reaped.
Exit(p) ==
  /\ p # Launchd /\ status[p] \in {"runs", "diedAtStart", "diedInSpawn"}
  /\ status' = [status EXCEPT ![p] = "free"]
  /\ env' = [env EXCEPT ![p] = EmptyEnv]
  /\ hooked' = [hooked EXCEPT ![p] = FALSE]
  /\ factor' = [factor EXCEPT ![p] = 0]
  /\ UNCHANGED <<born, hookPresent>>

\* The image the hook is in is unmounted.
UnmountBinpack ==
  /\ hookPresent /\ hookPresent' = FALSE
  /\ UNCHANGED <<status, env, hooked, factor, born>>

Spawns(p) ==
  \E c \in CallsFrom(p), fresh \in BOOLEAN :
    \/ NotFound(p, c, fresh)
    \/ \E q \in Procs : Launch(p, q, c, fresh)

ProcStep(p) ==
  \/ Spawns(p)
  \/ \E c \in CallsFrom(p) : DieInSpawn(p, c)
  \/ Initialize(p)
  \/ Exit(p)

Next == UnmountBinpack \/ \E p \in Procs : ProcStep(p)

Spec == Init /\ [][Next]_vars

-----------------------------------------------------------------------------
(* What may never go wrong.                                                *)

Started(p) == status[p] = "starting" /\ born[p].hooked

\* The constructor of systemhook never finds one of its variables missing,
\* whatever the callers along the chain of parents did to their environments
\* (strdup(getenv(..)), main.c:364-368).
ConstructorFindsItsVariables ==
  \A p \in Procs : status[p] # "diedAtStart"

\* The hook reaches exactly the images it should: every child of a process it
\* is loaded in, unless there is a reason, and then none.
HookFollowsEveryChild ==
  \A p \in Procs : Started(p) => (Hook \in env[p].inserts <=> born[p].insert)

\* Whichever way it goes, the libraries the caller asked for are inserted, and
\* an injected image searches the directories the caller asked for.
CallersPathsAreKept ==
  \A p \in Procs : Started(p) =>
    /\ env[p].inserts \ {Hook} = born[p].call.env.inserts \ {Hook}
    /\ born[p].insert =>
         env[p].dirs \ {Libroot} = born[p].call.env.dirs \ {Libroot}

\* _SafeMode=1 keeps the hook out of one image and is not seen by it, so that
\* the image's own children are not kept from it for good.
SafeModeIsForOneImage ==
  \A p \in Procs :
    Started(p) /\ born[p].call.image # "fragile" => ~env[p].safeMode

\* Injection hits the images it should, for the whole chain of their children.
\* (spawn_hook_common: the reasons not to insert, _SafeMode)
InjectionIsExact == HookFollowsEveryChild /\ SafeModeIsForOneImage

\* Without systemhook an image never hands on a request to load it.
Unhooked(p) == status[p] = "runs" /\ ~hooked[p]

ChainIsSound ==
  \A p \in Procs :
    /\ Unhooked(p) => Hook \notin env[p].inserts
    /\ status[p] = "starting" /\ Hook \in env[p].inserts => env[p].vars = JbVars

\* The inductive invariant.
IInv == TypeOK /\ ChainIsSound /\ ConstructorFindsItsVariables

\* common.c:338-339: without injection "we also need to remove pre existing
\* environment variables if they are already set".  Removing them is all that
\* happens to the caller.
CallerSurvives ==
  \A p \in Procs : status[p] # "diedInSpawn"

=============================================================================
