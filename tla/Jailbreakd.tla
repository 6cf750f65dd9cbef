------------------------------ MODULE Jailbreakd ------------------------------
(***************************************************************************)
(* palera1nd answers all its clients on one serial queue, and some answers *)
(* take many steps: a command run as root is spawned suspended, continued  *)
(* and waited for, a file is opened and then written.  The clients send    *)
(* synchronously: they wait for the reply, or learn that palera1nd died.   *)
(* A command run as root may itself be such a client.                      *)
(*                                                                         *)
(* On tvOS the launchdaemons stage of /cores/payload registers its pid     *)
(* with palera1nd and stops itself; HeadBoard's hook asks palera1nd to     *)
(* continue it.  On iOS it waits for SpringBoard's notification instead.   *)
(***************************************************************************)
EXTENDS Naturals

CONSTANTS
  Clients,    \* p1ctl, the loader app, watchdogd and the like
  Children,   \* slots for the commands that palera1nd runs as root
  Asks,       \* the commands that each of these sends
  Platforms,  \* the platforms of the device
  Faults,     \* which of FaultKinds may happen
  NoOne       \* not a process

\* "kill"   palera1nd dies (a crash, the memory limit)
\* "io"     a write to the destination of an overwrite fails or is short
FaultKinds == {"kill", "io"}

Stages     == {"loader", "home"}   \* /cores/payload launchdaemons; HeadBoard or SpringBoard
Requesters == Clients \cup Children \cup Stages

Queries == {"GET_PINFO_FLAGS", "GET_PREBOOTPATH", "GET_PINFO_KERNEL_INFO", "GET_PINFO_ROOTDEV"}
Installs == {"DEPLOY_BOOTSTRAP", "OBLITERATE_JAILBREAK"}
Reboots  == {"PERFORM_REBOOT3", "INTERCEPT_USERSPACE_PANIC", "EXIT_SAFE_MODE"}
Cmds     == Queries \cup Installs \cup Reboots \cup
            {"OVERWRITE_FILE_WITH_CONTENT", "RUN_AS_ROOT", "REGISTER_PAYLOAD_PID",
             "RESUME_PAYLOAD", "unknown"}

ASSUME JbdAssumption ==
  /\ Clients \cap Children = {}
  /\ (Clients \cup Children) \cap Stages = {}
  /\ NoOne \notin Requesters
  /\ Asks \in [Clients \cup Children -> SUBSET (Cmds \ {"REGISTER_PAYLOAD_PID"})]
  /\ Platforms \subseteq {"ios", "tvos", "bridgeos"}
  /\ Faults \subseteq FaultKinds

VARIABLES
  platform,
  pc,           \* where the main queue of palera1nd is
  cur,          \* whose request it serves
  out,          \* the fields of the reply it has prepared
  job,          \* the command it runs as root
  payload_pid,  \* does it know the loader's pid?
  req,          \* the command for which each process awaits a reply
  child,        \* the commands run as root
  file,         \* the file the request overwrites: for whom, how much it holds
  loader,       \* the launchdaemons stage
  home,         \* HeadBoard or SpringBoard
  lost,         \* history: why the loader may not be continued any more
  rebooting     \* a userspace reboot has been requested

jbd   == <<pc, cur, out, job, payload_pid>>
world == <<child, file>>
boot  == <<loader, home>>
vars  == <<platform, jbd, req, world, boot, lost, rebooting>>

\* The fields of a reply that its readers tell apart.  "done" is not sent: it
\* records that what was asked has been carried out.
Fields == {"value", "error", "errorDescription", "message", "bytes-written", "short",
           "retval", "status", "done"}
Failed    == {"error"}
Described == {"error", "errorDescription"}
OnlyDescribed == {"errorDescription"}

Pcs       == {"off", "idle", "spawned", "wait", "opened", "reply"}
Busy      == {"spawned", "wait", "opened", "reply"}
LoaderPcs == {"start", "registering", "registered", "stopped", "checked", "observes",
              "uicache", "done"}
HomePcs   == {"down", "starts", "up"}

TypeOK ==
  /\ platform \in Platforms
  /\ pc \in Pcs
  /\ cur \in Requesters \cup {NoOne}
  /\ out \in SUBSET Fields
  /\ job \in Children \cup {NoOne}
  /\ payload_pid \in BOOLEAN
  /\ req \in [Requesters -> Cmds \cup {"none"}]
  /\ child \in [Children -> {"none", "suspended", "runs", "gone"}]
  /\ file \in [by : Clients \cup Children \cup {NoOne}, holds : {"nothing", "part", "all"}]
  /\ loader \in LoaderPcs
  /\ home \in HomePcs
  /\ lost \in SUBSET {"killed", "early"}
  /\ rebooting \in BOOLEAN

Waiting(r) == req[r] # "none"

NobodyAsks == [r \in Requesters |-> "none"]
NoChild    == [k \in Children |-> "none"]
NoFile     == [by |-> NoOne, holds |-> "all"]

Init ==
  /\ platform \in Platforms
  /\ pc = "off" /\ cur = NoOne /\ out = {} /\ job = NoOne /\ payload_pid = FALSE
  /\ req = NobodyAsks
  /\ child = NoChild
  /\ file = NoFile
  /\ loader = "start" /\ home = "down"
  /\ lost = {} /\ rebooting = FALSE
-------------------------------------------------------------------------------
(* Sending, and the reply.                                                 *)

Send(r, cmd) == req' = [req EXCEPT ![r] = cmd]

ClientAsks(c) == \E cmd \in Asks[c] :
  /\ ~Waiting(c)
  /\ Send(c, cmd)
  /\ UNCHANGED <<platform, jbd, world, boot, lost, rebooting>>

\* launchd starts palera1nd when a message arrives at its service.
Launch ==
  /\ pc = "off"
  /\ \E r \in Requesters : Waiting(r)
  /\ pc' = "idle"
  /\ UNCHANGED <<platform, cur, out, job, payload_pid, req, world, boot, lost, rebooting>>

Take(r, cmds) ==
  /\ pc = "idle"
  /\ Waiting(r)
  /\ req[r] \in cmds
  /\ cur' = r

Finish(fields) == pc' = "reply" /\ out' = fields

Reply ==
  /\ pc = "reply"
  /\ req' = [req EXCEPT ![cur] = "none"]
  /\ pc' = "idle" /\ cur' = NoOne /\ out' = {} /\ file' = NoFile
  /\ UNCHANGED <<platform, job, payload_pid, child, boot, lost, rebooting>>
-------------------------------------------------------------------------------
(* The commands of palera1nd_handler.                                      *)

\* GET_PREBOOTPATH fails on a rootful device, GET_PINFO_KERNEL_INFO without
\* the entitlement; the other two queries cannot fail.
ServeQuery(r) ==
  /\ Take(r, Queries)
  /\ \/ Finish({"value", "done"})
     \/ req[r] \in {"GET_PREBOOTPATH", "GET_PINFO_KERNEL_INFO"} /\ Finish(Failed)
  /\ UNCHANGED <<platform, job, payload_pid, req, world, boot, lost, rebooting>>

\* bootstrap() and obliterate(): many of their failures have the code -1 and
\* are only described.
ServeInstall(r) ==
  /\ Take(r, Installs)
  /\ \E fields \in {Described, OnlyDescribed, {"message", "done"}} : Finish(fields)
  /\ UNCHANGED <<platform, job, payload_pid, req, world, boot, lost, rebooting>>

\* A command nobody knows, or one whose sender lacks the entitlement.
ServeRefused(r) ==
  /\ \/ Take(r, {"unknown", "INTERCEPT_USERSPACE_PANIC", "EXIT_SAFE_MODE"}) /\ Finish(Failed)
     \/ Take(r, {"RUN_AS_ROOT", "OVERWRITE_FILE_WITH_CONTENT"}) /\ Finish(Described)
  /\ UNCHANGED <<platform, job, payload_pid, req, world, boot, lost, rebooting>>

\* perform_reboot3 and the end of the two safe mode commands.
ServeReboot(r) ==
  /\ Take(r, Reboots)
  /\ \/ /\ rebooting' = TRUE
        /\ Finish({"done"})
     \/ /\ req[r] = "PERFORM_REBOOT3"
        /\ \E fields \in {Failed, Described} : Finish(fields)
        /\ UNCHANGED rebooting
  /\ UNCHANGED <<platform, job, payload_pid, req, world, boot, lost>>

\* The destination is refused (its errno may be 0), or it is emptied by open.
ServeOverwrite(r) ==
  /\ Take(r, {"OVERWRITE_FILE_WITH_CONTENT"})
  /\ \/ /\ \E fields \in {Described, OnlyDescribed} : Finish(fields)
        /\ UNCHANGED file
     \/ /\ file' = [by |-> r, holds |-> "nothing"]
        /\ pc' = "opened"
        /\ UNCHANGED out
  /\ UNCHANGED <<platform, job, payload_pid, req, child, boot, lost, rebooting>>

\* Mutant: the reply has the length of the content, not what write returned.
WriteFile_Length ==
  /\ pc = "opened"
  /\ \E holds \in {"all"} \cup (IF "io" \in Faults THEN {"part"} ELSE {}) :
       file' = [file EXCEPT !.holds = holds]
  /\ Finish({"message", "bytes-written", "done"})
  /\ UNCHANGED <<platform, cur, job, payload_pid, req, child, boot, lost, rebooting>>

\* One write; a short one is a success with a smaller "bytes-written".
WriteFile ==
  /\ pc = "opened"
  /\ \/ /\ file' = [file EXCEPT !.holds = "all"]
        /\ Finish({"message", "bytes-written", "done"})
     \/ /\ "io" \in Faults
        /\ file' = [file EXCEPT !.holds = "part"]
        /\ Finish({"message", "bytes-written", "short"})
     \/ /\ "io" \in Faults
        /\ Finish(Described)
        /\ UNCHANGED file
  /\ UNCHANGED <<platform, cur, job, payload_pid, req, child, boot, lost, rebooting>>

\* runcmd(): no path, posix_spawn fails (also when no process is left), or the
\* command is there, suspended.
ServeRun(r) ==
  /\ Take(r, {"RUN_AS_ROOT"})
  /\ \/ /\ \E fields \in {Failed, {"retval"}} : Finish(fields)
        /\ UNCHANGED <<job, child>>
     \/ /\ \E k \in Children :
             /\ child[k] = "none"
             /\ child' = [child EXCEPT ![k] = "suspended"]
             /\ job' = k
        /\ pc' = "spawned"
        /\ UNCHANGED out
  /\ UNCHANGED <<platform, payload_pid, req, file, boot, lost, rebooting>>

\* Mutant: no SIGCONT.
Continue_Forgotten ==
  /\ pc = "spawned"
  /\ pc' = "wait"
  /\ UNCHANGED <<platform, cur, out, job, payload_pid, req, world, boot, lost, rebooting>>

Continue ==
  /\ pc = "spawned"
  /\ child' = [child EXCEPT ![job] = "runs"]
  /\ pc' = "wait"
  /\ UNCHANGED <<platform, cur, out, job, payload_pid, req, file, boot, lost, rebooting>>

Waitpid ==
  /\ pc = "wait"
  /\ child[job] = "gone"
  /\ child' = [child EXCEPT ![job] = "none"]
  /\ job' = NoOne
  /\ Finish({"retval", "status", "done"})
  /\ UNCHANGED <<platform, cur, payload_pid, req, file, boot, lost, rebooting>>

\* Mutant: the pid is not stored.
ServeRegister_Unstored ==
  /\ Take("loader", {"REGISTER_PAYLOAD_PID"})
  /\ Finish({"done"})
  /\ UNCHANGED <<platform, job, payload_pid, req, world, boot, lost, rebooting>>

ServeRegister ==
  /\ Take("loader", {"REGISTER_PAYLOAD_PID"})
  /\ payload_pid' = TRUE
  /\ Finish({"done"})
  /\ UNCHANGED <<platform, job, req, world, boot, lost, rebooting>>

\* HeadBoard has started: the registered loader is continued and forgotten.
ServeResume ==
  /\ Take("home", {"RESUME_PAYLOAD"})
  /\ payload_pid' = FALSE
  /\ loader' = IF payload_pid /\ loader = "stopped" THEN "uicache" ELSE loader
  /\ lost' = IF payload_pid /\ loader \in {"registering", "registered"}
               THEN lost \cup {"early"} ELSE lost
  /\ Finish({"done"})
  /\ UNCHANGED <<platform, job, req, world, home, rebooting>>

PcOff ==
  /\ pc' = "off" /\ cur' = NoOne /\ out' = {} /\ job' = NoOne /\ payload_pid' = FALSE
  /\ file' = NoFile

\* palera1nd dies with everything it knows.  The sender it serves sees its
\* connection end, and so does any sender whose connection was accepted; the
\* messages still at the service port wait for the next palera1nd.  A command
\* it has reaped or not yet continued is left as it is.
Die ==
  /\ PcOff
  /\ \E broken \in SUBSET {r \in Requesters : Waiting(r)} :
       /\ cur # NoOne => cur \in broken
       /\ req' = [r \in Requesters |-> IF r \in broken THEN "none" ELSE req[r]]
  /\ child' = [k \in Children |-> IF child[k] = "gone" THEN "none" ELSE child[k]]
  /\ lost' = lost \cup {"killed"}

Kill ==
  /\ "kill" \in Faults
  /\ pc # "off"
  /\ Die
  /\ UNCHANGED <<platform, boot, rebooting>>

\* RESUME_PAYLOAD from a process that is not HeadBoard: refused.  From one
\* without an application-identifier, an uninitialized pointer is compared and
\* NULL is released.
ServeForeignResume(r) ==
  /\ pc = "idle" /\ Waiting(r) /\ r # "home" /\ req[r] = "RESUME_PAYLOAD"
  /\ \/ /\ cur' = r
        /\ Finish(Failed)
        /\ UNCHANGED <<job, payload_pid, req, world, lost>>
     \/ /\ Die
        /\ req'[r] = "none"
  /\ UNCHANGED <<platform, boot, rebooting>>

Serve(r) ==
  \/ ServeQuery(r) \/ ServeInstall(r) \/ ServeRefused(r) \/ ServeReboot(r)
  \/ ServeOverwrite(r) \/ ServeRun(r) \/ ServeForeignResume(r)
  \/ r = "loader" /\ ServeRegister
  \/ r = "home" /\ ServeResume

Work == WriteFile \/ Continue \/ Waitpid \/ Reply
-------------------------------------------------------------------------------
(* The command run as root.                                                *)

\* It may talk to palera1nd itself, and then waits.
ChildAsks(k) == \E cmd \in Asks[k] :
  /\ child[k] = "runs"
  /\ ~Waiting(k)
  /\ Send(k, cmd)
  /\ UNCHANGED <<platform, jbd, world, boot, lost, rebooting>>

\* Nobody but palera1nd waits for it.
ChildExits(k) ==
  /\ child[k] = "runs"
  /\ ~Waiting(k)
  /\ child' = [child EXCEPT ![k] = IF job = k THEN "gone" ELSE "none"]
  /\ UNCHANGED <<platform, jbd, req, file, boot, lost, rebooting>>
-------------------------------------------------------------------------------
(* The launchdaemons stage, and HeadBoard or SpringBoard.                  *)

LoaderMoves(from, to) == loader = from /\ loader' = to

\* What the stage does first depends on the platform.
LoaderStarts ==
  /\ loader = "start"
  /\ \/ platform = "tvos" /\ loader' = "registering" /\ Send("loader", "REGISTER_PAYLOAD_PID")
     \/ platform = "ios" /\ loader' = (IF home = "down" THEN "checked" ELSE "uicache")
                         /\ UNCHANGED req
     \/ platform = "bridgeos" /\ loader' = "uicache" /\ UNCHANGED req
  /\ UNCHANGED <<platform, jbd, world, home, lost, rebooting>>

\* The reply, even an error, is released unread.
LoaderRegistered ==
  /\ LoaderMoves("registering", "registered")
  /\ ~Waiting("loader")
  /\ UNCHANGED <<platform, jbd, req, world, home, lost, rebooting>>

\* kill(getpid(), SIGSTOP)
LoaderStops ==
  /\ LoaderMoves("registered", "stopped")
  /\ UNCHANGED <<platform, jbd, req, world, home, lost, rebooting>>

\* The observer is added after the port was looked up.
LoaderObserves ==
  /\ LoaderMoves("checked", "observes")
  /\ lost' = IF home = "up" THEN lost \cup {"early"} ELSE lost
  /\ UNCHANGED <<platform, jbd, req, world, home, rebooting>>

\* The alert, uicache, and last the loader app.
LoaderFinishes ==
  /\ LoaderMoves("uicache", "done")
  /\ UNCHANGED <<platform, jbd, req, world, home, lost, rebooting>>

\* HeadBoard's constructor asks before HeadBoard runs; SpringBoard's service
\* port exists before it posts SBSpringBoardDidLaunchNotification.
HomeStarts ==
  /\ platform # "bridgeos"
  /\ home = "down"
  /\ home' = "starts"
  /\ IF platform = "tvos" THEN Send("home", "RESUME_PAYLOAD") ELSE UNCHANGED req
  /\ UNCHANGED <<platform, jbd, world, loader, lost, rebooting>>

HomeIsUp ==
  /\ home = "starts" /\ ~Waiting("home")
  /\ home' = "up"
  /\ loader' = IF platform = "ios" /\ loader = "observes" THEN "uicache" ELSE loader
  /\ UNCHANGED <<platform, jbd, req, world, lost, rebooting>>

\* A respring.
HomeExits ==
  /\ home = "up"
  /\ home' = "down"
  /\ UNCHANGED <<platform, jbd, req, world, loader, lost, rebooting>>

\* launchd ends every process and starts the next session.
UserspaceReboot ==
  /\ rebooting
  /\ PcOff
  /\ req' = NobodyAsks
  /\ child' = NoChild
  /\ loader' = "start" /\ home' = "down"
  /\ lost' = {} /\ rebooting' = FALSE
  /\ UNCHANGED platform
-------------------------------------------------------------------------------
Loader == LoaderStarts \/ LoaderRegistered \/ LoaderStops \/ LoaderObserves \/ LoaderFinishes
Home   == HomeStarts \/ HomeIsUp

Next ==
  \/ Launch \/ Work \/ Kill
  \/ \E r \in Requesters : Serve(r)
  \/ \E c \in Clients : ClientAsks(c)
  \/ \E k \in Children : ChildAsks(k) \/ ChildExits(k)
  \/ Loader \/ Home \/ HomeExits \/ UserspaceReboot

\* The processes run; the main queue is first in, first out, so no sender is
\* passed over for ever.  A respring, a kill, a request need not happen.
Fairness ==
  /\ WF_vars(Launch) /\ WF_vars(Work)
  /\ \A r \in Requesters : SF_vars(Serve(r))
  /\ \A k \in Children : WF_vars(ChildExits(k))
  /\ WF_vars(Loader) /\ WF_vars(Home)

Spec == Init /\ [][Next]_vars /\ Fairness
-------------------------------------------------------------------------------
(* What p1ctl makes of a reply: its exit status is 0 or not.               *)

\* print_jailbreakd_reply looks at both ways to fail.
ReplyFailed(fields) == fields \cap {"error", "errorDescription"} # {}

P1ctlSucceeds(cmd, fields) ==
  CASE cmd \in Installs \cup {"EXIT_SAFE_MODE"} -> ~ReplyFailed(fields)
    [] cmd \in Queries                          -> "value" \in fields
    [] OTHER                                    -> TRUE   \* reboot-userspace, overwrite
-------------------------------------------------------------------------------
(* Properties.                                                             *)

\* The queue serves one request at a time: palera1nd is busy exactly with the
\* request of a process that still waits, the command it runs is not reaped
\* before that, and only a live process waits for it.
\* (palera1nd_handler and runcmd: waitpid before the reply, the reply last.)
OneAtATime ==
  /\ (cur # NoOne) = (pc \in Busy)
  /\ cur # NoOne => Waiting(cur)
  /\ (job # NoOne) = (pc \in {"spawned", "wait"})
  /\ pc = "spawned" => child[job] = "suspended"
  /\ pc = "wait" => child[job] \in {"runs", "gone"}
  /\ pc = "opened" => file = [by |-> cur, holds |-> "nothing"]
  /\ \A k \in Children : child[k] = "gone" => k = job
  /\ \A k \in Children : Waiting(k) => child[k] = "runs"
  /\ out # {} => pc = "reply"
  /\ Waiting("loader") => loader = "registering" /\ req["loader"] = "REGISTER_PAYLOAD_PID"
  /\ Waiting("home") => home = "starts" /\ req["home"] = "RESUME_PAYLOAD"

\* Overwriting truncates before it writes: a client is told that its file was
\* written, without a smaller count of bytes, only when the file then holds all
\* of its content.  (overwrite_file.c: open with O_TRUNC, one write)
OverwriteIsWhole ==
  pc = "reply" /\ req[cur] = "OVERWRITE_FILE_WITH_CONTENT" =>
    \/ out \cap {"error", "errorDescription", "short"} # {}
    \/ file = [by |-> cur, holds |-> "all"]

\* p1ctl's bootstrap, revert-install and exitsafe, and its queries, exit with 0
\* exactly when palera1nd did what they asked, though bootstrap() reports some
\* failures without a code.  (print_jailbreakd_reply, bootstrap.c, obliterate.c)
ExitStatusIsTrue ==
  pc = "reply" /\ req[cur] \in Installs \cup Queries \cup {"EXIT_SAFE_MODE"} =>
    P1ctlSucceeds(req[cur], out) = ("done" \in out)

\* No client takes for done what palera1nd failed to do, nor the reverse.
\* (the replies of handler.c, print_jailbreakd_reply)
RepliesAreTrue == OverwriteIsWhole /\ ExitStatusIsTrue

\* A command run as root stays suspended only because palera1nd died between
\* posix_spawn and SIGCONT; and while it runs, its client has no reply.
\* (runcmd.c: START_SUSPENDED, SIGCONT, waitpid)
SuspendedIsContinued ==
  \A k \in Children : child[k] = "suspended" => job = k \/ "killed" \in lost

\* The stopped loader can still be continued by HeadBoard's next start, or
\* HeadBoard asked before the stop, or palera1nd died and forgot the pid.
\* (launchdaemons.c: REGISTER_PAYLOAD_PID, then SIGSTOP; handler.c: payload_pid)
StoppedLoaderIsKnown == loader = "stopped" => payload_pid \/ lost # {}

\* Whatever is suspended or stopped has somebody who will continue it, except
\* for what launchdaemons.c:74 and a kill of palera1nd can lose.
\* (runcmd.c, launchdaemons.c, handler.c: payload_pid)
StoppedAreContinued == SuspendedIsContinued /\ StoppedLoaderIsKnown

\* The steps that follow a spawn or an open belong to the request they began
\* for, which cannot change while its sender waits.
RequestInHand ==
  /\ pc = "opened" => req[cur] = "OVERWRITE_FILE_WITH_CONTENT"
  /\ pc \in {"spawned", "wait"} => req[cur] = "RUN_AS_ROOT"

\* Once the registration of the loader is answered, palera1nd has the pid until
\* it continues the loader; whatever else takes it away is recorded.
RegisteredIsKnown ==
  /\ loader = "registered" => payload_pid \/ lost # {}
  /\ loader = "registering" /\ (~Waiting("loader") \/ (pc = "reply" /\ cur = "loader"))
       => payload_pid \/ lost # {}

\* The inductive invariant behind RepliesAreTrue and StoppedAreContinued.
IInv ==
  /\ TypeOK
  /\ OneAtATime
  /\ RequestInHand
  /\ RegisteredIsKnown
  /\ RepliesAreTrue
  /\ StoppedAreContinued

\* palera1nd waits for a command that waits for palera1nd.
SelfWait == pc = "wait" /\ Waiting(job)

\* Every sender gets an answer or a broken connection, unless the command that
\* palera1nd runs as root is itself a client: waitpid is called on the queue
\* that would have to answer it.  (runcmd.c: waitpid on the main queue)
EverySenderIsAnswered ==
  \A r \in Requesters : Waiting(r) ~> (~Waiting(r) \/ SelfWait)

\* launchdaemons.c runs uicache for the loader app last "so the user can still
\* get the loader": the stage does not stay stopped or in its run loop for ever.
LoaderContinues == (loader \in {"stopped", "observes"}) ~> (loader \notin {"stopped", "observes"})

===============================================================================
