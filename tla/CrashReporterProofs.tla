------------------------- MODULE CrashReporterProofs -------------------------
(***************************************************************************)
(* For any number of threads and children of launchd: a child inherits     *)
(* launchd's exception port only if it came before the hook or in a race,  *)
(* a thread that spawns alone leaves the crash reporter complete, and      *)
(* launchd does not end before the report of a caught exception is saved,  *)
(* but for the accidents that ReportBeforeAbort names.                     *)
(***************************************************************************)
EXTENDS CrashReporter, TLAPS

USE CrashReporterAssumption
USE DEF Phases, Handlers, Reports, Causes, PausePcs, ResumePcs, Pcs, reporter, hook, reports,
        Lives, Inside, Advance, At, Goto, Frame

\* The slot of no child is that of a child that neither runs nor inherits.
LEMMA NoKidIsNobody == NoKid \in KidStates /\ ~NoKid.runs /\ ~NoKid.inherits
BY DEF NoKid, KidStates

\* A new child, whatever it inherits, is a child.
LEMMA NewKidIsAKid ==
  ASSUME NEW inherits \in BOOLEAN, NEW hooked \in BOOLEAN, NEW alone \in BOOLEAN
  PROVE  [runs |-> TRUE, inherits |-> inherits, hooked |-> hooked, alone |-> alone]
           \in KidStates
BY Zenon DEF KidStates

\* A spawn adds a child, and an heir from the hook only while the port is set.
\* (the original posix_spawn)
LEMMA SpawnAddsAKid ==
  ASSUME TypeOK, HeirsAreEarlyOrRaced,
         NEW hooked \in BOOLEAN, NEW alone \in BOOLEAN,
         hooked /\ alone => ~port,
         Spawned(hooked, alone)
  PROVE  /\ kid' \in [Kids -> KidStates]
         /\ \E k \in Kids : kid'[k].runs
         /\ HeirsAreEarlyOrRaced'
<1> DEFINE new == [runs |-> TRUE, inherits |-> port, hooked |-> hooked, alone |-> alone]
<1>1. new \in KidStates
  BY NewKidIsAKid DEF TypeOK
<1>2. PICK k \in Kids : kid' = [kid EXCEPT ![k] = new]
  BY DEF Spawned
<1>3. new.runs /\ (new.inherits => ~new.hooked \/ ~new.alone)
  OBVIOUS
<1> HIDE DEF new
<1> QED
  BY <1>1, <1>2, <1>3 DEF TypeOK, HeirsAreEarlyOrRaced

\* A thread that pauses the reporter alone finds what it left.
\* (crashreporter_pause)
LEMMA PauseIsOrderly ==
  ASSUME NEW t \in Threads, pc \in [Threads -> Pcs], Orderly(t), Pause(t)
  PROVE  Orderly(t)'
<1>1. \/ pc[t] = "pause" /\ pc'[t] = "port off" /\ state' = "Active"
      \/ pc[t] # "pause" /\ pc'[t] \in {"restore", "forget", "paused"} /\ state' = "Active"
      \/ pc[t] # "pause" /\ pc'[t] = "orig" /\ state' = "Paused"
  BY DEF Pause, Orderly
<1>2. pc[t] # "pause" => ~port'
  BY Zenon DEF Pause, Orderly
<1> QED
  BY <1>1, <1>2 DEF Orderly

\* A thread that resumes the reporter alone finds what it left.
\* (crashreporter_resume)
LEMMA ResumeIsOrderly ==
  ASSUME NEW t \in Threads, pc \in [Threads -> Pcs], Orderly(t), Resume(t)
  PROVE  Orderly(t)'
BY DEF Resume, Orderly

\* Each step of the hook moves the thread that takes it, and no other.
LEMMA HookMoves ==
  ASSUME NEW t \in Threads, pc \in [Threads -> Pcs], Pause(t) \/ Resume(t) \/ Orig(t)
  PROVE  /\ phase = "up" /\ pc[t] # "out"
         /\ pc' \in [Threads -> Pcs]
         /\ \A u \in Threads \ {t} : pc'[u] = pc[u]
<1> DEFINE Moved == /\ phase = "up" /\ pc[t] # "out"
                    /\ \E to \in Pcs : pc' = [pc EXCEPT ![t] = to]
<1>1. Pause(t) => Moved
  BY DEF Pause
<1>2. Resume(t) => Moved
  BY DEF Resume
<1>3. Orig(t) => Moved
  BY DEF Orig
<1>4. Moved
  BY <1>1, <1>2, <1>3
<1>5. PICK to \in Pcs : pc' = [pc EXCEPT ![t] = to]
  BY <1>4
<1> HIDE DEF Pcs
<1> QED
  BY <1>4, <1>5

USE DEF IInv, TypeOK, Started, TwoAreShared, PausedIsResumed

\* launchd starts with nobody in the hook and no child.
LEMMA InitEstablishes == Init => IInv
<1> SUFFICES ASSUME Init PROVE IInv
  OBVIOUS
<1> USE DEF Init
<1>1. port \in BOOLEAN
  BY Zenon
<1>2. LoneIsOrderly
  BY DEF LoneIsOrderly, Orderly
<1>3. kid \in [Kids -> KidStates] /\ HeirsAreEarlyOrRaced
  BY NoKidIsNobody DEF HeirsAreEarlyOrRaced
<1>4. PortIsKept
  BY DEF PortIsKept
<1>5. TypeOK
  BY <1>1, <1>3
<1>6. ~port /\ \A k \in Kids : ~kid[k].runs
  BY NoKidIsNobody, Zenon
<1>7. Started
  BY <1>6
<1>8. TwoAreShared /\ PausedIsResumed
  OBVIOUS
<1> QED
  BY <1>2, <1>3, <1>4, <1>5, <1>7, <1>8

\* A panic keeps what there is.
LEMMA PanicKeeps == ASSUME IInv, Panic PROVE IInv'
<1> USE DEF Panic
<1>1. port' \in BOOLEAN /\ kid' \in [Kids -> KidStates]
  BY Zenon
<1>2. TypeOK' /\ Started'
  BY <1>1
<1>3. TwoAreShared' /\ PausedIsResumed'
  OBVIOUS
<1>4. LoneIsOrderly' /\ HeirsAreEarlyOrRaced' /\ PortIsKept'
  BY DEF LoneIsOrderly, Orderly, HeirsAreEarlyOrRaced, PortIsKept
<1> QED
  BY <1>2, <1>3, <1>4

\* The constructor runs before any thread can be in the hook.
LEMMA ConstructorKeeps == ASSUME IInv, Constructor PROVE IInv'
<1> USE DEF LoneIsOrderly, Orderly
<1>1. CASE Panic
  BY <1>1, PanicKeeps
<1>2. CASE Start /\ ~Panic
  <2>1. port'
    BY <1>2, Zenon DEF Start
  <2>2. PortIsKept'
    BY <2>1 DEF PortIsKept
  <2> QED
    BY <1>2, <2>1, <2>2 DEF Start, HeirsAreEarlyOrRaced
<1>3. CASE SpawnPayload
  <2>1. kid' \in [Kids -> KidStates] /\ (\E k \in Kids : kid'[k].runs) /\ HeirsAreEarlyOrRaced'
    BY <1>3, SpawnAddsAKid DEF SpawnPayload
  <2>2. PortIsKept'
    BY <1>3 DEF SpawnPayload, PortIsKept
  <2> QED
    BY <1>3, <2>1, <2>2 DEF SpawnPayload
<1>4. CASE PayloadExits /\ ~Panic
  <2>1. /\ phase = "wait" /\ phase' = "rootful" /\ kid' = [k \in Kids |-> NoKid]
        /\ UNCHANGED <<flags, reporter, hook, reports, cause>>
    BY <1>4 DEF PayloadExits
  <2>2. PortIsKept'
    BY <2>1 DEF PortIsKept
  <2> QED
    BY <2>1, <2>2, NoKidIsNobody DEF HeirsAreEarlyOrRaced
<1>5. CASE (Rootful \/ Hooks) /\ ~Panic
  <2>1. /\ phase \in {"rootful", "hooks"}
        /\ phase' \in {"ended", "screen", "up", "spins"}
        /\ cause' \in {cause, "reboot"}
        /\ UNCHANGED <<flags, reporter, hook, kid, reports>>
    BY <1>5 DEF Rootful, Hooks
  <2>2. port' \in BOOLEAN /\ kid' \in [Kids -> KidStates]
    BY <2>1, Zenon
  <2>3. PortIsKept' /\ HeirsAreEarlyOrRaced'
    BY <2>1 DEF PortIsKept, HeirsAreEarlyOrRaced
  <2>4. TypeOK'
    BY <2>1, <2>2
  <2> HIDE DEF TypeOK
  <2>5. Started'
    BY <2>1
  <2>6. TwoAreShared' /\ PausedIsResumed' /\ LoneIsOrderly'
    BY <2>1
  <2> HIDE DEF Started, TwoAreShared, PausedIsResumed, LoneIsOrderly
  <2> QED
    BY <2>3, <2>4, <2>5, <2>6
<1>6. CASE Screen
  <2>1. kid' \in [Kids -> KidStates] /\ HeirsAreEarlyOrRaced'
    BY <1>6, SpawnAddsAKid DEF Screen, HeirsAreEarlyOrRaced
  <2>2. PortIsKept'
    BY <1>6 DEF Screen, PortIsKept
  <2> QED
    BY <1>6, <2>1, <2>2 DEF Screen
<1> QED
  BY <1>1, <1>2, <1>3, <1>4, <1>5, <1>6 DEF Constructor

\* A thread that comes alone finds the reporter active; one that does not
\* takes the others' solitude away.
LEMMA EnterKeeps == ASSUME IInv, NEW t \in Threads, Enter(t) PROVE IInv'
<1> USE DEF Enter
<1>1. \A u \in Threads : pc'[u] = IF u = t THEN "pause" ELSE pc[u]
  OBVIOUS
<1>2. TypeOK' /\ Started'
  <2>1. port' \in BOOLEAN /\ kid' \in [Kids -> KidStates]
    BY Zenon
  <2>2. pc' \in [Threads -> Pcs]
    OBVIOUS
  <2>3. TypeOK'
    BY <2>1, <2>2
  <2>4. Started'
    OBVIOUS
  <2> QED
    BY <2>3, <2>4
<1>3. TwoAreShared'
  BY <1>1
<1>4. PausedIsResumed'
  BY <1>1
<1>5. LoneIsOrderly'
  BY <1>1 DEF LoneIsOrderly, Orderly
<1>6. HeirsAreEarlyOrRaced'
  BY DEF HeirsAreEarlyOrRaced
<1>7. PortIsKept'
  BY <1>1 DEF PortIsKept, SpawnUnderWay
<1> QED
  BY <1>2, <1>3, <1>4, <1>5, <1>6, <1>7

\* The steps of a thread in the hook.
LEMMA HookKeeps == ASSUME IInv, NEW t \in Threads, Hook(t) PROVE IInv'
<1>1. ASSUME Pause(t) \/ Resume(t), UNCHANGED <<shared, kid>>, Frame PROVE IInv'
  <2> USE <1>1
  <2>1. /\ phase = "up" /\ pc[t] # "out"
        /\ pc' \in [Threads -> Pcs]
        /\ \A u \in Threads \ {t} : pc'[u] = pc[u]
    BY HookMoves
  <2>2. TypeOK'
    <3>1. port' \in BOOLEAN
      BY Zenon DEF Pause, Resume
    <3>2. state' \in {"NotActive", "Paused", "Active"} /\ handler' \in Handlers /\ saved' \in Handlers
      BY DEF Pause, Resume
    <3> QED
      BY <2>1, <3>1, <3>2
  <2>3. Started'
    BY <2>1 DEF Pause, Resume
  <2>4. TwoAreShared'
    BY <2>1
  <2>5. PausedIsResumed'
    <3> HIDE DEF TypeOK, Started, TwoAreShared
    <3>1. CASE Pause(t)
      <4>1. pc' \in [Threads -> Pcs] /\ pc'[t] \in PausePcs \cup {"orig"}
        BY <2>1, <3>1 DEF Pause, TypeOK
      <4>2. pc[t] \in PausePcs
        BY <3>1 DEF Pause
      <4>3. state' = "Paused" => pc'[t] = "orig" \/ state = "Paused"
        BY <3>1 DEF Pause, TypeOK
      <4> QED
        BY <2>1, <4>1, <4>2, <4>3
    <3>2. CASE Resume(t)
      <4>1. \/ state' = state /\ (pc'[t] \in ResumePcs \/ state # "Paused")
            \/ state' = "Active"
        BY <2>1, <3>2 DEF Resume, TypeOK
      <4> QED
        BY <2>1, <4>1
    <3> QED
      BY <3>1, <3>2
  <2>6. LoneIsOrderly'
    <3>1. ASSUME NEW u \in Threads \ shared, u # t PROVE pc'[u] = "out"
      BY <2>1, <3>1
    <3>2. ASSUME t \notin shared PROVE Orderly(t)'
      BY <3>2, PauseIsOrderly, ResumeIsOrderly DEF LoneIsOrderly
    <3>3. ASSUME NEW u \in Threads \ shared PROVE Orderly(u)'
      <4>1. CASE u = t
        BY <3>2, <4>1
      <4>2. CASE u # t
        BY <3>1, <4>2 DEF Orderly
      <4> QED
        BY <4>1, <4>2
    <3> QED
      BY <3>3 DEF LoneIsOrderly
  <2>7. HeirsAreEarlyOrRaced'
    BY DEF HeirsAreEarlyOrRaced
  <2>8. PortIsKept'
    <3>1. CASE t \in shared \/ pc'[t] # "out"
      BY <3>1 DEF PortIsKept, SpawnUnderWay
    <3>2. CASE t \notin shared /\ pc'[t] = "out"
      <4>1. Orderly(t)
        BY <3>2 DEF LoneIsOrderly
      <4>2. Resume(t) /\ pc[t] = "active"
        <5> HIDE DEF Started, TwoAreShared, PausedIsResumed
        <5>1. ~Pause(t)
          BY <3>2 DEF Pause
        <5>2. pc[t] \in ResumePcs
          BY <5>1 DEF Resume
        <5>3. pc[t] = "resume" => state = "Paused"
          BY <4>1 DEF Orderly
        <5> QED
          BY <3>2, <5>1, <5>2, <5>3 DEF Resume
      <4>3. port
        BY <4>1, <4>2 DEF Orderly
      <4>4. port'
        BY <4>2, <4>3 DEF Resume
      <4> QED
        BY <4>4 DEF PortIsKept
    <3> QED
      BY <3>1, <3>2
  <2> QED
    BY <2>2, <2>3, <2>4, <2>5, <2>6, <2>7, <2>8
<1>2. CASE Orig(t)
  <2> USE <1>2 DEF Orig
  <2>1. t \notin shared => ~port
    BY DEF LoneIsOrderly, Orderly
  <2>2. kid' \in [Kids -> KidStates] /\ HeirsAreEarlyOrRaced'
    BY <2>1, SpawnAddsAKid DEF HeirsAreEarlyOrRaced
  <2>3. TypeOK' /\ Started'
    <3>1. port' \in BOOLEAN
      BY Zenon
    <3>2. TypeOK'
      BY <2>2, <3>1
    <3>3. Started'
      OBVIOUS
    <3> QED
      BY <3>2, <3>3
  <2>4. TwoAreShared'
    OBVIOUS
  <2>5. PausedIsResumed'
    OBVIOUS
  <2>6. LoneIsOrderly'
    BY DEF LoneIsOrderly, Orderly
  <2>7. PortIsKept'
    <3>1. pc'[t] = "resume"
      OBVIOUS
    <3> QED
      BY <3>1 DEF PortIsKept, SpawnUnderWay
  <2> QED
    BY <2>2, <2>3, <2>4, <2>5, <2>6, <2>7
<1> QED
  BY <1>1, <1>2 DEF Hook

\* Exceptions leave the reporter, the hook and the children as they are.
LEMMA ReporterUntouched ==
  ASSUME IInv, UNCHANGED <<flags, reporter, hook, kid>>,
         phase' \in {phase, "ended"},
         mach' \in Reports, objc' \in Reports, cause' \in Causes,
         phase = "console" => phase' = "ended" \/ UNCHANGED reports
  PROVE  IInv'
<1>1. port' \in BOOLEAN /\ kid' \in [Kids -> KidStates]
  BY Zenon
<1>2. TypeOK' /\ Started'
  BY <1>1
<1>3. TwoAreShared' /\ PausedIsResumed'
  OBVIOUS
<1>4. LoneIsOrderly'
  BY DEF LoneIsOrderly, Orderly
<1>5. HeirsAreEarlyOrRaced' /\ PortIsKept'
  BY DEF HeirsAreEarlyOrRaced, PortIsKept, SpawnUnderWay
<1> QED
  BY <1>2, <1>3, <1>4, <1>5

\* Children that end, and exceptions.
LEMMA ExceptionsKeep ==
  ASSUME IInv,
         \/ \E k \in Kids : KidExits(k) \/ KidCrashes(k)
         \/ LaunchdCrashes \/ Uncaught \/ HandlerFaults \/ SaveReport \/ Abort
  PROVE  IInv'
<1>1. ASSUME NEW k \in Kids, KidExits(k) PROVE IInv'
  <2> USE <1>1 DEF KidExits
  <2> HIDE DEF Started, TwoAreShared, PausedIsResumed
  <2>1. kid' \in [Kids -> KidStates]
    BY NoKidIsNobody
  <2>2. TypeOK'
    <3>1. port' = port
      OBVIOUS
    <3>2. port' \in BOOLEAN
      BY <3>1, Zenon
    <3>3. flags' \in Flags /\ phase' \in Phases /\ cause' \in Causes /\ mach' \in Reports
          /\ objc' \in Reports
      BY Zenon
    <3>4. /\ state' \in {"NotActive", "Paused", "Active"}
          /\ handler' \in Handlers /\ saved' \in Handlers
          /\ pc' \in [Threads -> Pcs] /\ shared' \in SUBSET Threads
      BY Zenon
    <3> QED
      BY <2>1, <3>2, <3>3, <3>4, Zenon
  <2> USE DEF Started, TwoAreShared, PausedIsResumed
  <2> HIDE DEF TypeOK
  <2>3. Started' /\ TwoAreShared' /\ PausedIsResumed'
    OBVIOUS
  <2>4. LoneIsOrderly'
    BY DEF LoneIsOrderly, Orderly
  <2>5. HeirsAreEarlyOrRaced'
    BY NoKidIsNobody DEF TypeOK, HeirsAreEarlyOrRaced
  <2>6. PortIsKept'
    BY DEF PortIsKept, SpawnUnderWay
  <2> QED
    BY <2>2, <2>3, <2>4, <2>5, <2>6
<1> HIDE DEF IInv, Started, TwoAreShared, PausedIsResumed
<1>2. ASSUME NEW k \in Kids, KidCrashes(k) PROVE IInv'
  <2>1. phase # "console"
    BY <1>2 DEF KidCrashes, IInv, Started
  <2> QED
    BY <1>2, <2>1, ReporterUntouched DEF KidCrashes, Delivered, IInv
<1>3. CASE LaunchdCrashes
  <2>1. phase = "console" => ~port
    BY DEF IInv, Started
  <2> QED
    BY <1>3, <2>1, ReporterUntouched DEF LaunchdCrashes, Delivered, Stopped, IInv
<1>4. CASE Uncaught
  <2>1. phase = "console" => handler = "default"
    BY DEF IInv, Started
  <2> QED
    BY <1>4, <2>1, ReporterUntouched DEF Uncaught, Stopped, IInv
<1>5. CASE HandlerFaults \/ SaveReport \/ Abort
  <2>1. phase = "console" => mach = "idle" /\ objc = "idle"
    BY DEF IInv, Started
  <2>2. CASE HandlerFaults
    BY <2>1, <2>2, ReporterUntouched DEF HandlerFaults, Delivered, IInv
  <2>3. CASE SaveReport
    BY <2>1, <2>3, ReporterUntouched DEF SaveReport, IInv
  <2>4. CASE Abort
    BY <2>1, <2>4, ReporterUntouched DEF Abort, IInv
  <2> QED
    BY <1>5, <2>2, <2>3, <2>4
<1> QED
  BY <1>1, <1>2, <1>3, <1>4, <1>5

\* IInv is preserved by every step of the specification.
LEMMA StepKeeps == ASSUME IInv, [Next]_vars PROVE IInv'
<1>1. CASE UNCHANGED vars
  BY <1>1, ReporterUntouched DEF vars
<1> HIDE DEF IInv
<1>2. CASE Next
  BY <1>2, ConstructorKeeps, EnterKeeps, HookKeeps, ExceptionsKeep DEF Next
<1> QED
  BY <1>1, <1>2

\* IInv holds in every reachable state.
THEOREM Invariance == Spec => []IInv
<1> HIDE DEF IInv
<1> QED
  BY StepKeeps, InitEstablishes, PTL DEF Spec

\* A thread that is alone leaves the hook at the end of crashreporter_resume.
LEMMA LeavesWhenActive ==
  ASSUME NEW t \in Threads, pc \in [Threads -> Pcs], Orderly(t), Hook(t), pc'[t] = "out"
  PROVE  pc[t] = "active" /\ state' = "Active" /\ UNCHANGED <<port, handler>>
<1>1. CASE Pause(t)
  BY <1>1 DEF Pause
<1>2. CASE Orig(t)
  BY <1>2 DEF Orig
<1>3. CASE Resume(t)
  <2>1. pc[t] # "resume"
    BY <1>3 DEF Resume, Orderly
  <2> QED
    BY <1>3, <2>1 DEF Resume
<1> QED
  BY <1>1, <1>2, <1>3 DEF Hook

\* A lone spawn leaves the reporter complete.
LEMMA LoneStepRestores ==
  ASSUME IInv, [Next]_vars, NEW t \in Threads,
         Inside(t), pc'[t] = "out", t \notin shared
  PROVE  Reporting'
<1>1. pc' # pc
  OBVIOUS
<1>2. PICK u \in Threads : Enter(u) \/ Hook(u)
  BY <1>1 DEF Next, vars, Constructor, Start, SpawnPayload, PayloadExits, Rootful, Screen, Hooks,
              Panic, KidExits, KidCrashes, LaunchdCrashes, Uncaught, HandlerFaults, SaveReport, Abort
<1>3. Hook(t)
  <2>1. CASE Enter(u)
    BY <2>1 DEF Enter
  <2>2. CASE Hook(u)
    BY <2>2, HookMoves DEF Hook
  <2> QED
    BY <1>2, <2>1, <2>2
<1>4. Orderly(t)
  BY DEF LoneIsOrderly
<1>5. pc[t] = "active" /\ state' = "Active" /\ UNCHANGED <<port, handler>>
  BY <1>3, <1>4, LeavesWhenActive
<1> QED
  BY <1>4, <1>5 DEF Orderly, Reporting

\* An heir needs a race, and the damage of a race ends with the next lone spawn.
\* (posix_spawn_orig_wrapper, crashreporter_pause, crashreporter_resume)
THEOREM RacesStayBounded == Spec => RacesAreBounded
<1>1. IInv => HeirsAreEarlyOrRaced
  OBVIOUS
<1>2. IInv /\ [Next]_vars =>
        [\A t \in Threads :
           (Inside(t) /\ pc'[t] = "out" /\ t \notin shared) => Reporting']_vars
  BY LoneStepRestores
<1> HIDE DEF IInv, Inside
<1> QED
  BY <1>1, <1>2, Invariance, PTL DEF Spec, RacesAreBounded, LoneSpawnRestores

\* What ends launchd while a report is written is its abort after the report, a
\* panic, the restart of the device, one more Objective-C exception, or a Mach
\* exception while a job is spawned or after a race of spawns: otherwise the port
\* is set and such an exception only stops its thread.
\* (crashreporter_catch_mach, crashreporter_catch_objc: save, then abort)
THEOREM ReportIsSaved == Spec => ReportBeforeAbort
<1> DEFINE Excused == \/ "saved" \in {mach, objc}
                      \/ cause' \in {"panic", "reboot", "exit", "unhandled"}
                      \/ cause' \in {"launchd", "handler"} /\ ~port
<1>1. ASSUME [Next]_vars, Lives, phase' = "ended" PROVE Excused
  <2> USE <1>1
  <2>1. CASE Constructor
    BY <2>1 DEF Constructor, Start, SpawnPayload, PayloadExits, Rootful, Screen, Hooks, Panic
  <2>2. ASSUME NEW t \in Threads, Enter(t) \/ Hook(t) PROVE Excused
    BY <2>2 DEF Enter, Hook, Pause, Resume, Orig
  <2>3. CASE LaunchdCrashes \/ Uncaught
    BY <2>3 DEF LaunchdCrashes, Uncaught
  <2>4. CASE HandlerFaults \/ SaveReport \/ Abort
    BY <2>4 DEF HandlerFaults, SaveReport, Abort
  <2>5. ASSUME NEW k \in Kids, KidExits(k) \/ KidCrashes(k) PROVE Excused
    BY <2>5 DEF KidExits, KidCrashes
  <2>6. CASE UNCHANGED vars
    BY <2>6 DEF vars
  <2> QED
    BY <2>1, <2>2, <2>3, <2>4, <2>5, <2>6 DEF Next
<1>2. ASSUME IInv, Lives, "writing" \in {mach, objc}, ~port PROVE SpawnUnderWay
  BY <1>2 DEF PortIsKept
<1>3. IInv /\ [Next]_vars =>
        [Lives /\ phase' = "ended" /\ "writing" \in {mach, objc} =>
           \/ "saved" \in {mach, objc}
           \/ cause' \in {"panic", "reboot", "exit", "unhandled"}
           \/ cause' \in {"launchd", "handler"} /\ SpawnUnderWay]_vars
  BY <1>1, <1>2
<1> HIDE DEF IInv, Lives, SpawnUnderWay
<1> QED
  BY <1>3, Invariance, PTL DEF Spec, ReportBeforeAbort

==============================================================================
