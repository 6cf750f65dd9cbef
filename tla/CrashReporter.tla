----------------------------- MODULE CrashReporter -----------------------------
(***************************************************************************)
(* payload_dylib in launchd: its constructor, the hooked posix_spawn and   *)
(* the crash reporter that both touch.  The reporter is a Mach exception   *)
(* port of the task, which a spawned process inherits, and the handler for *)
(* uncaught Objective-C exceptions.  The hook takes both away around the   *)
(* original posix_spawn and puts them back; nothing keeps two threads of   *)
(* launchd from doing so at once, so every statement is a step.            *)
(***************************************************************************)
EXTENDS Naturals, FiniteSets

CONSTANTS
  Threads,   \* the threads of launchd that spawn jobs
  Kids,      \* slots for its children
  Flags,     \* sets of the flags "verbose", "setup_rootful", "first_tvos_boot"
  Faults     \* which of FaultKinds may happen

\* "exception"  a Mach exception in a child or in launchd
\* "objc"       an uncaught Objective-C exception in launchd
\* "handler"    a fault of the code that writes a crash report
\* "step"       a call of the constructor, or payload -f, fails
\* "platform"   the platform cannot be read
FaultKinds == {"exception", "objc", "handler", "step", "platform"}

ASSUME CrashReporterAssumption ==
  /\ IsFiniteSet(Kids)
  /\ Flags \subseteq SUBSET {"verbose", "setup_rootful", "first_tvos_boot"}
  /\ Faults \subseteq FaultKinds

VARIABLES
  flags,
  phase,     \* how far launchd has come
  state,     \* gCrashReporterState
  port,      \* is gExceptionPort the exception port of the task?
  handler,   \* the uncaught exception handler
  saved,     \* defaultNSExceptionHandler
  pc,        \* where each thread is in the hook
  shared,    \* history: the threads that were not alone in the hook
  kid,       \* the children
  mach,      \* the report of the listening thread, of a Mach exception
  objc,      \* the report of a thread that threw an Objective-C exception
  cause      \* history: what stopped the constructor, or ended launchd

reporter == <<state, port, handler, saved>>
hook     == <<pc, shared>>
reports  == <<mach, objc>>
vars     == <<flags, phase, reporter, hook, kid, reports, cause>>

Phases   == {"console", "payload", "wait", "rootful", "screen", "hooks", "up",
             "spins", "ended"}
Reports  == {"idle", "writing", "saved", "stuck"}
Causes   == {"none", "panic", "reboot", "launchd", "objc", "handler", "exit",
             "unhandled"}
Handlers == {"default", "crashreporter_catch_objc", "nil"}
PausePcs  == {"pause", "port off", "restore", "forget", "paused"}
ResumePcs == {"resume", "port on", "save", "install", "active"}
Pcs       == {"out", "orig"} \cup PausePcs \cup ResumePcs
KidStates == [runs : BOOLEAN, inherits : BOOLEAN, hooked : BOOLEAN, alone : BOOLEAN]
NoKid     == [runs |-> FALSE, inherits |-> FALSE, hooked |-> FALSE, alone |-> FALSE]

TypeOK ==
  /\ flags \in Flags
  /\ phase \in Phases
  /\ state \in {"NotActive", "Paused", "Active"}
  /\ port \in BOOLEAN
  /\ handler \in Handlers
  /\ saved \in Handlers
  /\ pc \in [Threads -> Pcs]
  /\ shared \in SUBSET Threads
  /\ kid \in [Kids -> KidStates]
  /\ mach \in Reports
  /\ objc \in Reports
  /\ cause \in Causes

Init ==
  /\ flags \in Flags
  /\ phase = "console"
  /\ state = "NotActive" /\ port = FALSE /\ handler = "default" /\ saved = "nil"
  /\ pc = [t \in Threads |-> "out"] /\ shared = {}
  /\ kid = [k \in Kids |-> NoKid]
  /\ mach = "idle" /\ objc = "idle"
  /\ cause = "none"

Lives == phase # "ended"
Inside(t) == pc[t] # "out"
-------------------------------------------------------------------------------
(* launchd_hook_main.                                                      *)

Advance(from, to) == phase = from /\ phase' = to

\* _panic: abort_with_payload, after a minute when the boot is verbose.
Panic ==
  /\ "step" \in Faults
  /\ phase' = "ended"
  /\ cause' = "panic"
  /\ UNCHANGED <<flags, reporter, hook, kid, reports>>

\* The console is opened, then crashreporter_start: Paused, and a resume.
Start ==
  \/ /\ Advance("console", "payload")
     /\ state' = "Active" /\ port' = TRUE
     /\ saved' = handler
     /\ handler' = "crashreporter_catch_objc"
     /\ UNCHANGED <<flags, hook, kid, reports, cause>>
  \/ phase = "console" /\ Panic

Spawned(hooked, alone) ==
  \E k \in Kids :
    /\ ~kid[k].runs
    /\ kid' = [kid EXCEPT ![k] = [runs |-> TRUE, inherits |-> port,
                                  hooked |-> hooked, alone |-> alone]]

\* posix_spawn is not hooked yet; the constructor waits for /cores/payload -f.
SpawnPayload ==
  /\ Advance("payload", "wait")
  /\ Spawned(FALSE, TRUE)
  /\ UNCHANGED <<flags, reporter, hook, reports, cause>>

\* A status other than 0 or a signal is a panic.  A child that has raised an
\* exception does not exit: it waits for the answer of the listening thread.
PayloadExits ==
  /\ phase = "wait"
  /\ mach = "idle"
  /\ \E k \in Kids : kid[k].runs
  /\ \/ /\ phase' = "rootful"
        /\ kid' = [k \in Kids |-> NoKid]
        /\ UNCHANGED <<flags, reporter, hook, reports, cause>>
     \/ Panic

\* With setup_rootful the fakefs has just been made: the images are unmounted
\* and the device restarts.
Rootful ==
  \/ /\ phase = "rootful" /\ "setup_rootful" \in flags
     /\ \/ /\ phase' = "ended"
           /\ cause' = "reboot"
           /\ UNCHANGED <<flags, reporter, hook, kid, reports>>
        \/ Panic
  \/ /\ "setup_rootful" \notin flags
     /\ Advance("rootful", "screen")
     /\ UNCHANGED <<flags, reporter, hook, kid, reports, cause>>

\* bootscreend, not waited for and not hooked either.
Screen ==
  /\ Advance("screen", "hooks")
  /\ \/ /\ flags \cap {"verbose", "first_tvos_boot"} = {}
        /\ Spawned(FALSE, TRUE)
     \/ /\ flags \cap {"verbose", "first_tvos_boot"} # {}
        /\ UNCHANGED kid
  /\ UNCHANGED <<flags, reporter, hook, reports, cause>>

\* systemhook and ellekit are loaded and the functions hooked.  InitDaemonHooks
\* spins for ever on a device of no known platform.
Hooks ==
  \/ /\ \/ Advance("hooks", "up")
        \/ "platform" \in Faults /\ Advance("hooks", "spins")
     /\ UNCHANGED <<flags, reporter, hook, kid, reports, cause>>
  \/ phase = "hooks" /\ Panic

\* It runs on launchd's only thread: an exception there stops it.
Constructor ==
  /\ cause \notin {"launchd", "objc"}
  /\ Start \/ SpawnPayload \/ PayloadExits \/ Rootful \/ Screen \/ Hooks
-------------------------------------------------------------------------------
(* posix_spawn_orig_wrapper.                                               *)

At(t, from) == phase = "up" /\ pc[t] = from
Goto(t, to) == pc' = [pc EXCEPT ![t] = to]
Frame       == UNCHANGED <<flags, phase, reports, cause>>

Enter(t) ==
  /\ At(t, "out")
  /\ \E k \in Kids : ~kid[k].runs
  /\ Goto(t, "pause")
  /\ LET others == {u \in Threads \ {t} : Inside(u)} IN
       shared' = IF others = {} THEN shared \ {t} ELSE shared \cup others \cup {t}
  /\ UNCHANGED <<reporter, kid>> /\ Frame

\* crashreporter_pause
Pause(t) ==
  \/ /\ At(t, "pause")
     /\ Goto(t, IF state = "Active" THEN "port off" ELSE "orig")
     /\ UNCHANGED reporter
  \/ /\ At(t, "port off") /\ Goto(t, "restore")
     /\ port' = FALSE
     /\ UNCHANGED <<state, handler, saved>>
  \/ /\ At(t, "restore") /\ Goto(t, "forget")
     /\ handler' = saved
     /\ UNCHANGED <<state, port, saved>>
  \/ /\ At(t, "forget") /\ Goto(t, "paused")
     /\ saved' = "nil"
     /\ UNCHANGED <<state, port, handler>>
  \/ /\ At(t, "paused") /\ Goto(t, "orig")
     /\ state' = "Paused"
     /\ UNCHANGED <<port, handler, saved>>

\* The original posix_spawn: the child inherits the port if it is set.  It
\* fails when no slot is left.
Orig(t) ==
  /\ At(t, "orig") /\ Goto(t, "resume")
  /\ \/ Spawned(TRUE, t \notin shared)
     \/ (\A k \in Kids : kid[k].runs) /\ UNCHANGED kid
  /\ UNCHANGED <<shared, reporter>> /\ Frame

\* Mutant: only the handler is installed again.
Resume_HandlerOnly(t) ==
  \/ /\ At(t, "resume")
     /\ Goto(t, IF state = "Paused" THEN "save" ELSE "out")
     /\ UNCHANGED reporter
  \/ /\ At(t, "save") /\ Goto(t, "out")
     /\ saved' = handler /\ handler' = "crashreporter_catch_objc" /\ state' = "Active"
     /\ UNCHANGED port

\* crashreporter_resume
Resume(t) ==
  \/ /\ At(t, "resume")
     /\ Goto(t, IF state = "Paused" THEN "port on" ELSE "out")
     /\ UNCHANGED reporter
  \/ /\ At(t, "port on") /\ Goto(t, "save")
     /\ port' = TRUE
     /\ UNCHANGED <<state, handler, saved>>
  \/ /\ At(t, "save") /\ Goto(t, "install")
     /\ saved' = handler
     /\ UNCHANGED <<state, port, handler>>
  \/ /\ At(t, "install") /\ Goto(t, "active")
     /\ handler' = "crashreporter_catch_objc"
     /\ UNCHANGED <<state, port, saved>>
  \/ /\ At(t, "active") /\ Goto(t, "out")
     /\ state' = "Active"
     /\ UNCHANGED <<port, handler, saved>>

Hook(t) ==
  \/ (Pause(t) \/ Resume(t)) /\ UNCHANGED <<shared, kid>> /\ Frame
  \/ Orig(t)
-------------------------------------------------------------------------------
(* Exceptions.                                                             *)

KidExits(k) ==
  /\ Lives /\ phase # "wait"
  /\ kid[k].runs
  /\ kid' = [kid EXCEPT ![k] = NoKid]
  /\ UNCHANGED <<flags, phase, reporter, hook, reports, cause>>

\* What an exception that is sent to the port does to the listening thread: it
\* takes the first one, and never comes back for another.
Delivered == IF mach = "idle" THEN "writing" ELSE mach

\* A thread of launchd is stopped: before launchd is up, the only one.
Stopped(by) == cause' = IF phase = "up" THEN cause ELSE by

\* A crash of a child that has launchd's port is delivered to launchd.
KidCrashes(k) ==
  /\ "exception" \in Faults
  /\ Lives /\ kid[k].runs /\ kid[k].inherits
  /\ mach = "idle"
  /\ mach' = Delivered
  /\ UNCHANGED <<flags, phase, reporter, hook, kid, objc, cause>>

\* Any thread of launchd but the listening one: with the port it is stopped and
\* the listener told, without it the system ends at once, also while a report
\* is being written.
LaunchdCrashes ==
  /\ "exception" \in Faults
  /\ Lives
  /\ \/ port /\ mach' = Delivered /\ Stopped("launchd") /\ UNCHANGED phase
     \/ ~port /\ phase' = "ended" /\ cause' = "launchd" /\ UNCHANGED mach
  /\ UNCHANGED <<flags, reporter, hook, kid, objc>>

\* crashreporter_catch_objc; a second exception is exit(187), whoever throws it.
Uncaught ==
  /\ "objc" \in Faults
  /\ Lives
  /\ \/ /\ handler = "crashreporter_catch_objc" /\ objc = "idle"
        /\ objc' = "writing" /\ Stopped("objc")
        /\ UNCHANGED phase
     \/ /\ handler = "crashreporter_catch_objc" /\ objc # "idle"
        /\ phase' = "ended" /\ cause' = "exit"
        /\ UNCHANGED objc
     \/ /\ handler # "crashreporter_catch_objc"
        /\ phase' = "ended" /\ cause' = "unhandled"
        /\ UNCHANGED objc
  /\ UNCHANGED <<flags, reporter, hook, kid, mach>>

\* The code that writes a report faults: pthread_backtrace follows the frame
\* pointer of the crashed thread before it looks where it points to, and
\* crashreporter_dump_mach reads past a full backtrace.  The listening thread is
\* then stopped by an exception on the port that only it serves; a thread in
\* crashreporter_catch_objc is stopped like any other.
HandlerFaults ==
  /\ "handler" \in Faults
  /\ Lives
  /\ \/ /\ port /\ mach = "writing"
        /\ mach' = "stuck"
        /\ UNCHANGED <<phase, objc, cause>>
     \/ /\ port /\ objc = "writing"
        /\ objc' = "stuck" /\ mach' = Delivered
        /\ UNCHANGED <<phase, cause>>
     \/ /\ ~port /\ "writing" \in {mach, objc}
        /\ phase' = "ended" /\ cause' = "handler"
        /\ UNCHANGED reports
  /\ UNCHANGED <<flags, reporter, hook, kid>>

\* Mutant: the exception is answered and the thread goes on.
SaveReport_Replies ==
  /\ Lives /\ "writing" \in {mach, objc}
  /\ mach' = "idle" /\ objc' = "idle"
  /\ UNCHANGED <<flags, phase, reporter, hook, kid, cause>>

\* The file is written, if it could be opened, and flushed to the disk; only
\* then, a second later, launchd aborts.
SaveReport ==
  /\ Lives
  /\ \/ mach = "writing" /\ mach' = "saved" /\ UNCHANGED objc
     \/ objc = "writing" /\ objc' = "saved" /\ UNCHANGED mach
  /\ UNCHANGED <<flags, phase, reporter, hook, kid, cause>>

\* Mutant: launchd aborts without waiting for the report.
Abort_AtOnce ==
  /\ Lives /\ {mach, objc} # {"idle"}
  /\ phase' = "ended"
  /\ UNCHANGED <<flags, reporter, hook, kid, reports, cause>>

Abort ==
  /\ Lives /\ "saved" \in {mach, objc}
  /\ phase' = "ended"
  /\ UNCHANGED <<flags, reporter, hook, kid, reports, cause>>
-------------------------------------------------------------------------------
Next ==
  \/ Constructor
  \/ \E t \in Threads : Enter(t) \/ Hook(t)
  \/ \E k \in Kids : KidExits(k) \/ KidCrashes(k)
  \/ LaunchdCrashes \/ Uncaught \/ HandlerFaults \/ SaveReport \/ Abort

\* The constructor and the writing of a report go on.  Exceptions and new jobs
\* need not come, jobs need not exit, and a thread in the hook may be the one
\* that an exception has stopped.
Fairness ==
  /\ WF_vars(Constructor)
  /\ WF_vars(SaveReport) /\ WF_vars(Abort)

Spec == Init /\ [][Next]_vars /\ Fairness
-------------------------------------------------------------------------------
(* Properties.                                                             *)

\* The program counters and the state agree: nobody is in the hook before it
\* is installed, the reporter is started once, the constructor waits for one
\* child.  (launchd_hook_main)
Started ==
  /\ phase = "console" =>
       /\ state = "NotActive" /\ ~port /\ handler = "default"
       /\ mach = "idle" /\ objc = "idle"
       /\ \A k \in Kids : ~kid[k].runs
  /\ phase = "up" => state # "NotActive"
  /\ phase \in {"payload", "wait", "rootful", "screen", "hooks", "spins"} =>
       state = "Active" /\ port
  /\ phase \in Phases \ {"up", "ended"} => \A t \in Threads : pc[t] = "out"
  /\ phase = "wait" => \E k \in Kids : kid[k].runs

Reporting == state = "Active" /\ port /\ handler = "crashreporter_catch_objc"

\* Two threads in the hook at once can leave launchd without its exception port
\* although the state says Active; the next thread that spawns alone leaves the
\* reporter complete again, whatever the others did before.
\* (crashreporter.m: crashreporter_pause and _resume have no lock)
LoneSpawnRestores ==
  [][\A t \in Threads :
       (Inside(t) /\ pc'[t] = "out" /\ t \notin shared) => Reporting']_vars

\* A child has launchd's exception port only if it was spawned before the hook
\* was there, or while another thread was in the hook as well.
\* (posix_spawn_orig_wrapper: "otherwise the child process inherits ...")
HeirsAreEarlyOrRaced ==
  \A k \in Kids : kid[k].inherits => ~kid[k].hooked \/ ~kid[k].alone

\* Two threads in the hook know that they are not alone.
TwoAreShared ==
  \A t, u \in Threads : t # u /\ Inside(t) /\ Inside(u) => t \in shared

\* A paused reporter has a thread in the hook that has yet to resume it.
PausedIsResumed ==
  state = "Paused" =>
    \E t \in Threads : pc[t] \in {"orig"} \cup ResumePcs

\* What a thread that is alone in the hook finds at each of its steps: the
\* reporter was active when it came, and only it has changed it since.
Orderly(t) ==
  /\ pc[t] \in PausePcs => state = "Active"
  /\ pc[t] \in {"orig", "resume"} => state = "Paused"
  /\ pc[t] \in {"restore", "forget", "paused", "orig"} => ~port
  /\ pc[t] \in {"save", "install", "active"} => port
  /\ pc[t] = "active" => handler = "crashreporter_catch_objc"

LoneIsOrderly == \A t \in Threads \ shared : Orderly(t)

\* Who may be the reason that the port of a started reporter is off: a thread in
\* the hook, or one that has raced there and not spawned alone since.
SpawnUnderWay == \E t \in Threads : Inside(t) \/ t \in shared

PortIsKept == phase \notin {"console", "ended"} /\ ~port => SpawnUnderWay

\* The inductive invariant.
IInv == TypeOK /\ Started /\ TwoAreShared /\ PausedIsResumed /\ LoneIsOrderly
               /\ HeirsAreEarlyOrRaced /\ PortIsKept

\* What the threads may do to each other in the hook is bounded: an heir needs a
\* race, and the damage of a race ends with the next lone spawn.
\* (posix_spawn_orig_wrapper, crashreporter_pause, crashreporter_resume)
RacesAreBounded == []HeirsAreEarlyOrRaced /\ LoneSpawnRestores

\* launchd's last words are saved before it ends for an exception that its
\* reporter caught.  What cuts them short is a panic or the restart of the device
\* in the meantime, one more Objective-C exception, or one more Mach exception,
\* of another thread or of the reporter itself: but that only while a job is
\* being spawned, or after a race of spawns.
\* (crashreporter_catch_mach, crashreporter_catch_objc: save, then abort)
ReportBeforeAbort ==
  [][Lives /\ phase' = "ended" /\ "writing" \in {mach, objc} =>
       \/ "saved" \in {mach, objc}
       \/ cause' \in {"panic", "reboot", "exit", "unhandled"}
       \/ cause' \in {"launchd", "handler"} /\ SpawnUnderWay]_vars

\* The constructor ends, with launchd up, a panic or the restart of the device,
\* unless it spins for want of a platform or an exception that stopped it, or
\* the child it waits for, got the reporter stuck.
\* (launchd_hook_main: every failure is a _panic, payload -f is waited for)
ConstructorEnds == <>(phase \in {"up", "ended", "spins"} \/ mach = "stuck")

\* A caught exception ends launchd, unless the reporter's own fault stops it.
\* (crashreporter_catch_mach never replies: it aborts)
CaughtMeansEnd == ("writing" \in {mach, objc}) ~> (phase = "ended" \/ mach = "stuck")

\* launchd hangs, in its constructor or over an exception it caught, only in
\* spin() and in a fault of the thread that serves its exception port.
\* (launchd_hook_main, InitDaemonHooks, crashreporter_listen)
HangsAreKnown == ConstructorEnds /\ CaughtMeansEnd
===============================================================================
