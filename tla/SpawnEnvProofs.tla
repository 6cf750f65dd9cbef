----------------------------- MODULE SpawnEnvProofs -----------------------------
(***************************************************************************)
(* For any number of processes, libraries, directories and callers: the    *)
(* constructor of systemhook finds its variables in every image it gets    *)
(* into.  The invariant says why: a process without systemhook cannot ask  *)
(* for it, and one with it completes the environment.                      *)
(***************************************************************************)
EXTENDS SpawnEnv, TLAPS

USE SpawnAssumption

\* What a program asks for is an environment again, and names the hook only
\* if the program's own environment does.
LEMMA AskedEnvs ==
  ASSUME NEW e \in Envs, NEW a \in Asked(e)
  PROVE  a \in Envs /\ (Hook \in a.inserts => Hook \in e.inserts)
<1> USE DEF Envs, Hook, Libroot, JbVars
<1>1. CASE a = EmptyEnv
  BY <1>1 DEF EmptyEnv
<1>2. ASSUME NEW v \in JbVars, a = [e EXCEPT !.vars = @ \ {v}]
      PROVE a \in Envs /\ (Hook \in a.inserts => Hook \in e.inserts)
  BY <1>2
<1>3. ASSUME NEW x \in PathChoices(e), NEW s \in BOOLEAN,
             a = [e EXCEPT !.inserts = x[1], !.dirs = x[2], !.safeMode = s]
      PROVE a \in Envs /\ (Hook \in a.inserts => Hook \in e.inserts)
  <2>1. /\ x[1] \in {{}, e.inserts, e.inserts \cup Libraries}
        /\ x[2] \in {{}, e.dirs, e.dirs \cup Dirs}
    BY DEF PathChoices
  <2> QED
    BY <1>3, <2>1
<1>4. ASSUME NEW x \in PathChoices(e), a = [e EXCEPT !.inserts = x[1], !.dirs = x[2]]
      PROVE a \in Envs /\ (Hook \in a.inserts => Hook \in e.inserts)
  <2>1. a = [e EXCEPT !.inserts = x[1], !.dirs = x[2], !.safeMode = e.safeMode]
    BY <1>4
  <2> QED
    BY <2>1, <1>3
<1> QED
  BY <1>1, <1>2, <1>3, <1>4 DEF Asked

\* spawn_hook_common makes an environment that is complete if it names the hook.
LEMMA GivenEnvIsSound ==
  ASSUME TypeOK, NEW c \in Calls
  PROVE  /\ GivenEnv(c) \in Envs
         /\ Hook \in GivenEnv(c).inserts => GivenEnv(c).vars = JbVars
<1> USE DEF Envs, Calls, Hook, Libroot, JbVars
<1>1. CASE AlreadyGood(c)
  <2>1. Hook \in c.env.inserts => JbEntries(c.env) = AllJbEntries
    BY <1>1 DEF AlreadyGood, JbEntries
  <2>2. JbEntries(c.env) = AllJbEntries => JbVars \subseteq c.env.vars
    BY DEF JbEntries, AllJbEntries
  <2> QED
    BY <1>1, <2>1, <2>2 DEF GivenEnv
<1>2. CASE ~AlreadyGood(c) /\ ShouldInsert(c)
  BY <1>2 DEF GivenEnv, InsertJbEnv
<1>3. CASE ~AlreadyGood(c) /\ ~ShouldInsert(c)
  <2>1. StrippedDirs(c.env) \in SUBSET ({Hook, Libroot} \cup Libraries \cup Dirs)
    BY DEF StrippedDirs
  <2> QED
    BY <1>3, <2>1 DEF GivenEnv, StripJbEnv
<1> QED
  BY <1>1, <1>2, <1>3

\* A call a program makes is a call, with an environment it may ask for.
LEMMA CallsAreCalls ==
  ASSUME TypeOK, NEW p \in Procs, NEW c \in CallsFrom(p)
  PROVE  c \in Calls /\ (Hook \in c.env.inserts => Hook \in env[p].inserts)
<1>1. env[p] \in Envs
  BY DEF TypeOK
<1>2. c \in [image : Images, env : Asked(env[p]), attr : Attrs, exec : BOOLEAN,
             tries : 1 .. MaxAttempts]
  BY DEF CallsFrom
<1>3. c.env \in Asked(env[p])
  BY <1>2
<1>4. c.env \in Envs /\ (Hook \in c.env.inserts => Hook \in env[p].inserts)
  BY <1>1, <1>3, AskedEnvs
<1> QED
  BY <1>2, <1>4 DEF Calls

\* How often the limits are multiplied stays within the bound of the model.
LEMMA MultipliedType ==
  ASSUME TypeOK, NEW p \in Procs, NEW c \in Calls, NEW fresh \in BOOLEAN,
         Multiplied(p, c, Used(p, fresh)) <= MaxFactor
  PROVE  Multiplied(p, c, Used(p, fresh)) \in 0 .. MaxFactor
<1>1. Used(p, fresh) \in 0 .. MaxFactor
  BY DEF TypeOK, Used
<1>2. c.tries \in 1 .. MaxAttempts
  BY DEF Calls
<1> QED
  BY <1>1, <1>2 DEF Multiplied

\* Only launchd runs, with systemhook loaded.
LEMMA InitEstablishes == Init => IInv
<1> SUFFICES ASSUME Init PROVE IInv
  OBVIOUS
<1>1. EmptyEnv \in Envs
  BY DEF EmptyEnv, Envs, JbVars
<1>2. LaunchdEnv \in Envs
  BY DEF LaunchdEnv, EmptyEnv, Envs, JbVars
<1>3. NoCall \in Calls
  BY <1>1 DEF NoCall, Calls, Images, AttrKinds
<1>4. NoBirth \in Births
  BY <1>3 DEF NoBirth, Births
<1>5. TypeOK
  BY <1>1, <1>2, <1>4 DEF Init, TypeOK, Statuses
<1>6. ChainIsSound
  BY DEF Init, ChainIsSound, Unhooked, EmptyEnv, Hook
<1>7. ConstructorFindsItsVariables
  BY DEF Init, ConstructorFindsItsVariables
<1> QED
  BY <1>5, <1>6, <1>7 DEF IInv

\* A new image gets what spawn_hook_common made, or what an unhooked caller asked.
LEMMA LaunchKeeps ==
  ASSUME IInv, NEW p \in Procs, NEW q \in Procs, NEW c \in CallsFrom(p),
         NEW fresh \in BOOLEAN, Launch(p, q, c, fresh)
  PROVE  IInv'
<1> DEFINE e == IF hooked[p] THEN GivenEnv(c) ELSE c.env
           n == Multiplied(p, c, Used(p, fresh))
           b == [call |-> [c EXCEPT !.image = IF hooked[p] THEN Replaced(@) ELSE @],
                 hooked |-> hooked[p], insert |-> ShouldInsert(c), factor |-> n]
<1>1. TypeOK /\ ChainIsSound /\ ConstructorFindsItsVariables
  BY DEF IInv
<1>2. c \in Calls /\ (Hook \in c.env.inserts => Hook \in env[p].inserts)
  BY <1>1, CallsAreCalls
<1>3. e \in Envs /\ (Hook \in e.inserts => e.vars = JbVars)
  <2>1. CASE hooked[p] = TRUE
    BY <2>1, <1>1, <1>2, GivenEnvIsSound
  <2>2. CASE hooked[p] = FALSE
    <3>1. Unhooked(p)
      BY <2>2 DEF Launch, Unhooked
    <3>2. Hook \notin c.env.inserts
      BY <3>1, <1>1, <1>2 DEF ChainIsSound
    <3> QED
      BY <3>2, <2>2, <1>2 DEF Calls
  <2> QED
    BY <2>1, <2>2, <1>1 DEF TypeOK
<1>4. n \in 0 .. MaxFactor
  BY <1>1, <1>2, MultipliedType DEF Launch
<1>5. b \in Births
  <2>1. Replaced(c.image) \in Images /\ c.image \in Images
    BY <1>2 DEF Calls, Images, Replaced
  <2>2. ASSUME NEW i \in Images PROVE [c EXCEPT !.image = i] \in Calls
    BY <1>2 DEF Calls
  <2>3. [c EXCEPT !.image = IF hooked[p] THEN Replaced(@) ELSE @] \in Calls
    BY <2>1, <2>2
  <2>4. hooked[p] \in BOOLEAN
    BY <1>1 DEF TypeOK
  <2>5. ShouldInsert(c) \in BOOLEAN
    BY <1>1 DEF ShouldInsert, TypeOK
  <2> QED
    BY <2>3, <2>4, <2>5, <1>4 DEF Births
<1>6. /\ status' = [status EXCEPT ![q] = "starting"]
      /\ env' = [env EXCEPT ![q] = e]
      /\ born' = [born EXCEPT ![q] = b]
      /\ hooked' = [hooked EXCEPT ![q] = FALSE]
      /\ factor' = [factor EXCEPT ![p] = IF c.exec THEN 0 ELSE n]
      /\ hookPresent' = hookPresent
  BY DEF Launch
<1>7. (IF c.exec THEN 0 ELSE n) \in 0 .. MaxFactor
  BY <1>4
<1> HIDE DEF e, n, b
<1>8. TypeOK'
  BY <1>1, <1>3, <1>5, <1>6, <1>7 DEF TypeOK, Statuses
<1>9. ChainIsSound'
  BY <1>1, <1>3, <1>6 DEF ChainIsSound, Unhooked, TypeOK
<1>10. ConstructorFindsItsVariables'
  BY <1>1, <1>6 DEF ConstructorFindsItsVariables, TypeOK
<1> QED
  BY <1>8, <1>9, <1>10 DEF IInv

\* A failed search changes nothing but the attribute object.
LEMMA NotFoundKeeps ==
  ASSUME IInv, NEW p \in Procs, NEW c \in CallsFrom(p), NEW fresh \in BOOLEAN,
         NotFound(p, c, fresh)
  PROVE  IInv'
<1>1. c \in Calls
  BY CallsAreCalls DEF IInv
<1>2. Multiplied(p, c, Used(p, fresh)) \in 0 .. MaxFactor
  BY <1>1, MultipliedType DEF IInv, NotFound
<1>3. TypeOK'
  BY <1>2 DEF IInv, TypeOK, NotFound
<1> QED
  BY <1>3 DEF IInv, NotFound, ChainIsSound, Unhooked, ConstructorFindsItsVariables

\* The constructor: the environment is complete, so the process does not die.
LEMMA InitializeKeeps ==
  ASSUME IInv, NEW q \in Procs, Initialize(q)
  PROVE  IInv'
<1>1. TypeOK /\ ChainIsSound /\ ConstructorFindsItsVariables
  BY DEF IInv
<1>2. env[q] \in Envs /\ status[q] = "starting"
  BY <1>1 DEF TypeOK, Initialize
<1>3. Hidden(env[q]) \in Envs
  BY <1>2 DEF Hidden, Envs
<1>4. NoBirth \in Births
  BY DEF NoBirth, NoCall, Births, Calls, Images, AttrKinds, EmptyEnv, Envs
<1>5. TypeOK'
  <2>1. /\ status' \in [Procs -> Statuses] /\ env' \in [Procs -> Envs]
        /\ hooked' \in [Procs -> BOOLEAN]
    BY <1>1, <1>3 DEF Initialize, TypeOK, Statuses
  <2>2. born' \in [Procs -> Births]
    BY <1>1, <1>4 DEF Initialize, TypeOK
  <2> QED
    BY <1>1, <2>1, <2>2 DEF Initialize, TypeOK
<1>6. ~(Hook \in env[q].inserts /\ env[q].vars # JbVars)
  BY <1>1, <1>2 DEF ChainIsSound
<1>7. /\ ChainIsSound'
      /\ ConstructorFindsItsVariables'
  <2>1. CASE Hook \notin env[q].inserts
    BY <2>1, <1>1, <1>2 DEF Initialize, ChainIsSound, Unhooked, TypeOK,
                            ConstructorFindsItsVariables
  <2>2. CASE Hook \in env[q].inserts
    BY <2>2, <1>1, <1>2, <1>6 DEF Initialize, ChainIsSound, Unhooked, TypeOK,
                            ConstructorFindsItsVariables
  <2> QED
    BY <2>1, <2>2
<1> QED
  BY <1>5, <1>7 DEF IInv

\* A death in the hook, an exit and an unmount start nothing.
LEMMA RestKeeps ==
  ASSUME IInv,
         \/ UnmountBinpack
         \/ \E p \in Procs : Exit(p) \/ \E c \in CallsFrom(p) : DieInSpawn(p, c)
  PROVE  IInv'
<1>1. TypeOK /\ ChainIsSound /\ ConstructorFindsItsVariables
  BY DEF IInv
<1>2. CASE UnmountBinpack
  BY <1>1, <1>2 DEF UnmountBinpack, IInv, TypeOK, ChainIsSound, Unhooked,
                    ConstructorFindsItsVariables
<1>3. ASSUME NEW p \in Procs, Exit(p) PROVE IInv'
  <2>1. EmptyEnv \in Envs
    BY DEF EmptyEnv, Envs
  <2>2. TypeOK'
    BY <1>1, <1>3, <2>1 DEF Exit, TypeOK, Statuses
  <2>3. ChainIsSound' /\ ConstructorFindsItsVariables'
    BY <1>1, <1>3 DEF Exit, TypeOK, ChainIsSound, Unhooked,
                      ConstructorFindsItsVariables
  <2> QED
    BY <2>2, <2>3 DEF IInv
<1>4. ASSUME NEW p \in Procs, NEW c \in CallsFrom(p), DieInSpawn(p, c) PROVE IInv'
  BY <1>1, <1>4 DEF DieInSpawn, IInv, TypeOK, Statuses, ChainIsSound, Unhooked,
                    ConstructorFindsItsVariables
<1> QED
  BY <1>2, <1>3, <1>4

\* The inductive invariant holds for any set of processes and any programs.
THEOREM Invariance == Spec => []IInv
<1>1. IInv /\ [Next]_vars => IInv'
  <2> SUFFICES ASSUME IInv, [Next]_vars PROVE IInv'
    OBVIOUS
  <2>1. ASSUME NEW p \in Procs, Spawns(p) PROVE IInv'
    BY <2>1, NotFoundKeeps, LaunchKeeps DEF Spawns
  <2>2. ASSUME NEW p \in Procs, Initialize(p) PROVE IInv'
    BY <2>2, InitializeKeeps
  <2>3. CASE UnmountBinpack
    BY <2>3, RestKeeps
  <2>4. ASSUME NEW p \in Procs,
               Exit(p) \/ \E c \in CallsFrom(p) : DieInSpawn(p, c)
        PROVE IInv'
    BY <2>4, RestKeeps
  <2>5. CASE UNCHANGED vars
    BY <2>5 DEF vars, IInv, TypeOK, ChainIsSound, Unhooked,
                ConstructorFindsItsVariables
  <2> QED
    BY <2>1, <2>2, <2>3, <2>4, <2>5 DEF Next, ProcStep
<1> QED
  BY <1>1, InitEstablishes, PTL DEF Spec

\* Whatever the chain of callers did to its environments, the constructor of
\* systemhook never dies of a missing variable (main.c:364-368).
THEOREM NoConstructorDies == Spec => []ConstructorFindsItsVariables
<1>1. IInv => ConstructorFindsItsVariables
  BY DEF IInv
<1> QED
  BY <1>1, Invariance, PTL

-----------------------------------------------------------------------------
(* What a new image is given, compared with what its caller asked for.     *)

\* spawn_hook_common injects when there is no reason not to and takes every
\* trace out otherwise, _SafeMode included; libraries of others stay, and in an
\* injected image so do the directories.
LEMMA GivenEnvIsExact ==
  ASSUME TypeOK, NEW c \in Calls
  PROVE  /\ Hook \in GivenEnv(c).inserts <=> ShouldInsert(c)
         /\ GivenEnv(c).inserts \ {Hook} = c.env.inserts \ {Hook}
         /\ ShouldInsert(c) => GivenEnv(c).dirs \ {Libroot} = c.env.dirs \ {Libroot}
         /\ c.image # "fragile" => ~GivenEnv(c).safeMode
<1> USE DEF Envs, Calls, Hook, Libroot, JbVars
<1>1. CASE AlreadyGood(c) /\ ShouldInsert(c)
  <2>1. GivenEnv(c) = c.env /\ JbEntries(c.env) = AllJbEntries
    BY <1>1 DEF GivenEnv, AlreadyGood
  <2>2. Hook \in c.env.inserts
    BY <2>1 DEF JbEntries, AllJbEntries
  <2>3. ~c.env.safeMode
    BY <1>1 DEF ShouldInsert
  <2> QED
    BY <1>1, <2>1, <2>2, <2>3
<1>2. CASE AlreadyGood(c) /\ ~ShouldInsert(c)
  <2>1. GivenEnv(c) = c.env /\ JbEntries(c.env) = {} /\ ~HasSafeModeVariable(c)
    BY <1>2 DEF GivenEnv, AlreadyGood
  <2>2. Hook \notin c.env.inserts
    BY <2>1 DEF JbEntries
  <2> QED
    BY <1>2, <2>1, <2>2 DEF HasSafeModeVariable
<1>3. CASE ~AlreadyGood(c) /\ ShouldInsert(c)
  <2>1. GivenEnv(c) = InsertJbEnv(c.env) /\ ~c.env.safeMode
    BY <1>3 DEF GivenEnv, ShouldInsert
  <2> QED
    BY <1>3, <2>1 DEF InsertJbEnv
<1>4. CASE ~AlreadyGood(c) /\ ~ShouldInsert(c)
  <2>1. GivenEnv(c) = StripJbEnv(c.env)
    BY <1>4 DEF GivenEnv
  <2> QED
    BY <1>4, <2>1 DEF StripJbEnv
<1> QED
  BY <1>1, <1>2, <1>3, <1>4

\* What Launch does to the slot of the new image, as its birth records it.
LEMMA LaunchIsExact ==
  ASSUME IInv, NEW p \in Procs, NEW q \in Procs, NEW c \in CallsFrom(p),
         NEW fresh \in BOOLEAN, Launch(p, q, c, fresh), Started(q)'
  PROVE  /\ Hook \in env'[q].inserts <=> born'[q].insert
         /\ env'[q].inserts \ {Hook} = born'[q].call.env.inserts \ {Hook}
         /\ born'[q].insert => env'[q].dirs \ {Libroot} = born'[q].call.env.dirs \ {Libroot}
         /\ born'[q].call.image # "fragile" => ~env'[q].safeMode
<1>1. c \in Calls
  BY CallsAreCalls DEF IInv
<1>2. /\ env' = [env EXCEPT ![q] = IF hooked[p] THEN GivenEnv(c) ELSE c.env]
      /\ born'[q].hooked = hooked[p]
      /\ born'[q].insert = ShouldInsert(c)
      /\ born'[q].call = [c EXCEPT !.image = IF hooked[p] THEN Replaced(@) ELSE @]
  BY DEF Launch, IInv, TypeOK
<1>3. hooked[p]
  BY <1>2 DEF Started
<1>4. env'[q] = GivenEnv(c)
  BY <1>2, <1>3 DEF IInv, TypeOK
<1>5. born'[q].call.env = c.env /\ born'[q].call.image = Replaced(c.image)
  BY <1>1, <1>2, <1>3 DEF Calls
<1>6. Replaced(c.image) # "fragile" => c.image # "fragile"
  BY DEF Replaced
<1> QED
  BY <1>1, <1>2, <1>4, <1>5, <1>6, GivenEnvIsExact DEF IInv

\* Every image that has been started and does not run yet is as it should be.
ImagesAreExact == InjectionIsExact /\ CallersPathsAreKept

USE DEF ImagesAreExact, InjectionIsExact, HookFollowsEveryChild, SafeModeIsForOneImage,
        CallersPathsAreKept

LEMMA ExactnessKeeps == IInv /\ ImagesAreExact /\ [Next]_vars => ImagesAreExact'
<1> SUFFICES ASSUME IInv, ImagesAreExact, [Next]_vars PROVE ImagesAreExact'
  OBVIOUS
<1>1. ASSUME NEW r \in Procs, Started(r)',
             Started(r) /\ UNCHANGED <<env[r], born[r]>>
      PROVE  /\ Hook \in env'[r].inserts <=> born'[r].insert
             /\ env'[r].inserts \ {Hook} = born'[r].call.env.inserts \ {Hook}
             /\ born'[r].insert => env'[r].dirs \ {Libroot} = born'[r].call.env.dirs \ {Libroot}
             /\ born'[r].call.image # "fragile" => ~env'[r].safeMode
  BY <1>1
<1>2. ASSUME NEW r \in Procs, Started(r)'
      PROVE  \/ Started(r) /\ UNCHANGED <<env[r], born[r]>>
             \/ \E p \in Procs : \E c \in CallsFrom(p), fresh \in BOOLEAN : Launch(p, r, c, fresh)
  <2> USE DEF IInv, TypeOK, Started
  <2>1. ASSUME NEW p \in Procs, NEW c \in CallsFrom(p), NEW fresh \in BOOLEAN, NEW q \in Procs,
               Launch(p, q, c, fresh), q # r
        PROVE  Started(r) /\ UNCHANGED <<env[r], born[r]>>
    BY <1>2, <2>1 DEF Launch
  <2>2. ASSUME NEW p \in Procs, NEW c \in CallsFrom(p), NEW fresh \in BOOLEAN,
               NotFound(p, c, fresh)
        PROVE  Started(r) /\ UNCHANGED <<env[r], born[r]>>
    BY <1>2, <2>2 DEF NotFound
  <2>3. ASSUME NEW p \in Procs, NEW c \in CallsFrom(p), DieInSpawn(p, c)
        PROVE  Started(r) /\ UNCHANGED <<env[r], born[r]>>
    BY <1>2, <2>3 DEF DieInSpawn
  <2>4. ASSUME NEW p \in Procs, Initialize(p)
        PROVE  Started(r) /\ UNCHANGED <<env[r], born[r]>>
    <3>1. status'[p] # "starting"
      BY <2>4 DEF Initialize
    <3> QED
      BY <1>2, <2>4, <3>1 DEF Initialize
  <2>5. ASSUME NEW p \in Procs, Exit(p)
        PROVE  Started(r) /\ UNCHANGED <<env[r], born[r]>>
    BY <1>2, <2>5 DEF Exit
  <2>6. CASE UnmountBinpack \/ UNCHANGED vars
    BY <1>2, <2>6 DEF UnmountBinpack, vars
  <2> QED
    BY <2>1, <2>2, <2>3, <2>4, <2>5, <2>6 DEF Next, ProcStep, Spawns
<1>3. ASSUME NEW r \in Procs, Started(r)'
      PROVE  /\ Hook \in env'[r].inserts <=> born'[r].insert
             /\ env'[r].inserts \ {Hook} = born'[r].call.env.inserts \ {Hook}
             /\ born'[r].insert => env'[r].dirs \ {Libroot} = born'[r].call.env.dirs \ {Libroot}
             /\ born'[r].call.image # "fragile" => ~env'[r].safeMode
  BY <1>1, <1>2, <1>3, LaunchIsExact
<1> QED
  BY <1>3

\* Injection hits the images it should and no others, for the whole chain of
\* children, and _SafeMode is for one image only (spawn_hook_common).
THEOREM InjectionHitsItsTargets == Spec => []InjectionIsExact
<1>1. Init => ImagesAreExact
  BY DEF Init, Started
<1>2. ImagesAreExact => InjectionIsExact
  OBVIOUS
<1> HIDE DEF ImagesAreExact, InjectionIsExact
<1> QED
  BY <1>1, <1>2, ExactnessKeeps, Invariance, PTL DEF Spec

\* The libraries a caller asked for are inserted whichever way it goes, and an
\* injected image searches the caller's directories (spawn_hook_common).
THEOREM PathsOfCallersAreKept == Spec => []CallersPathsAreKept
<1>1. Init => ImagesAreExact
  BY DEF Init, Started
<1>2. ImagesAreExact => CallersPathsAreKept
  OBVIOUS
<1> HIDE DEF ImagesAreExact, CallersPathsAreKept
<1> QED
  BY <1>1, <1>2, ExactnessKeeps, Invariance, PTL DEF Spec

=============================================================================
