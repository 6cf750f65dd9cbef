--------------------------- MODULE JailbreakdProofs ---------------------------
(***************************************************************************)
(* For any clients, any commands run as root and whatever fails: no client *)
(* takes for done what palera1nd failed to do, nor the reverse, and what   *)
(* is suspended or stopped has somebody who will continue it.              *)
(***************************************************************************)
EXTENDS Jailbreakd, TLAPS

USE JbdAssumption
USE DEF Stages, Requesters, Pcs, Busy, LoaderPcs, HomePcs, Waiting, Send, Take, Finish,
        jbd, world, boot

\* What is not a command, and two commands that are.  (palera1nd_handler)
LEMMA CommandNames ==
  /\ "none" \notin Cmds
  /\ "REGISTER_PAYLOAD_PID" \in Cmds
  /\ "RESUME_PAYLOAD" \in Cmds
BY DEF Cmds, Queries, Installs, Reboots

\* The commands with a family of their own are none of those whose replies
\* palera1nd_handler prepares at once.
LEMMA CommandKinds ==
  /\ \A cmd \in Queries \cup Installs \cup Reboots :
       cmd \notin {"OVERWRITE_FILE_WITH_CONTENT", "RUN_AS_ROOT", "REGISTER_PAYLOAD_PID",
                   "RESUME_PAYLOAD", "unknown", "none"}
  /\ (Queries \cup Installs) \cap Reboots = {}
BY DEF Queries, Installs, Reboots

\* Every reply that palera1nd sends consists of known fields.
LEMMA ReplyFields ==
  /\ Failed \subseteq Fields
  /\ Described \subseteq Fields
  /\ OnlyDescribed \subseteq Fields
  /\ {"done"} \subseteq Fields
  /\ {"retval"} \subseteq Fields
  /\ {"value", "done"} \subseteq Fields
  /\ {"message", "done"} \subseteq Fields
  /\ {"message", "bytes-written", "done"} \subseteq Fields
  /\ {"message", "bytes-written", "short"} \subseteq Fields
  /\ {"retval", "status", "done"} \subseteq Fields
BY DEF Fields, Failed, Described, OnlyDescribed

\* No request leaves a file behind.
LEMMA NoFileIsAFile ==
  NoFile \in [by : Clients \cup Children \cup {NoOne}, holds : {"nothing", "part", "all"}]
BY DEF NoFile

\* What p1ctl makes of each reply is what was done: a failure with a code or
\* only with a description, and a success.  (print_jailbreakd_reply)
LEMMA StatusOfReplies ==
  ASSUME NEW cmd, NEW fields,
         \/ /\ cmd \in Installs \cup Queries \cup {"EXIT_SAFE_MODE"}
            /\ fields \in {Failed, Described, OnlyDescribed}
         \/ cmd \in Queries /\ fields = {"value", "done"}
         \/ cmd \in Installs /\ fields = {"message", "done"}
         \/ cmd = "EXIT_SAFE_MODE" /\ fields = {"done"}
  PROVE  P1ctlSucceeds(cmd, fields) = ("done" \in fields)
<1>1. cmd \in Queries => P1ctlSucceeds(cmd, fields) = ("value" \in fields)
  BY DEF P1ctlSucceeds, Queries, Installs
<1>2. cmd \in Installs \cup {"EXIT_SAFE_MODE"}
        => P1ctlSucceeds(cmd, fields) = ~ReplyFailed(fields)
  BY DEF P1ctlSucceeds, ReplyFailed, Queries, Installs
<1>3. cmd \in Queries => cmd \notin Installs \cup {"EXIT_SAFE_MODE"}
  BY DEF Queries, Installs
<1>4. CASE cmd \in Queries
  BY <1>1, <1>3, <1>4 DEF Failed, Described, OnlyDescribed
<1>5. CASE cmd \notin Queries
  BY <1>2, <1>5 DEF ReplyFailed, Failed, Described, OnlyDescribed
<1> QED
  BY <1>4, <1>5

USE CommandNames, NoFileIsAFile
USE DEF IInv, TypeOK, OneAtATime, RequestInHand, RegisteredIsKnown, RepliesAreTrue,
        OverwriteIsWhole, ExitStatusIsTrue, StoppedAreContinued, SuspendedIsContinued,
        StoppedLoaderIsKnown

\* Before the first boot nobody asks and nothing runs.
LEMMA InitEstablishes == Init => IInv
<1> SUFFICES ASSUME Init PROVE IInv
  OBVIOUS
<1> USE DEF Init, NobodyAsks, NoChild
<1>1. payload_pid \in BOOLEAN /\ rebooting \in BOOLEAN
  BY Zenon
<1> QED
  BY <1>1

\* A process sends a request, or palera1nd is started for one.
LEMMA AskingKeeps ==
  ASSUME IInv,
         \/ Launch
         \/ \E c \in Clients : ClientAsks(c)
         \/ \E k \in Children : ChildAsks(k)
  PROVE  IInv'
<1>1. CASE Launch
  BY <1>1 DEF Launch
<1>2. ASSUME NEW c \in Clients, ClientAsks(c) PROVE IInv'
  BY <1>2 DEF ClientAsks
<1>3. ASSUME NEW k \in Children, ChildAsks(k) PROVE IInv'
  BY <1>3 DEF ChildAsks
<1> QED
  BY <1>1, <1>2, <1>3

\* palera1nd_handler takes a request of a waiting process from its queue.
LEMMA ServeKeeps == ASSUME IInv, NEW r \in Requesters, Serve(r) PROVE IInv'
<1> USE CommandKinds, ReplyFields
<1>1. CASE ServeQuery(r)
  BY <1>1, StatusOfReplies DEF ServeQuery
<1>2. CASE ServeInstall(r)
  BY <1>2, StatusOfReplies DEF ServeInstall
<1>3. CASE ServeRefused(r)
  BY <1>3, StatusOfReplies DEF ServeRefused, Failed, Described, OnlyDescribed
<1>4. CASE ServeReboot(r)
  <2> USE <1>4 DEF ServeReboot
  <2>1. (payload_pid \in BOOLEAN /\ rebooting \in BOOLEAN)'
    BY Zenon
  <2>2. TypeOK'
    BY <2>1
  <2>3. (OneAtATime /\ RequestInHand /\ RegisteredIsKnown)'
    OBVIOUS
  <2>4. (RepliesAreTrue /\ StoppedAreContinued)'
    BY StatusOfReplies
  <2> QED
    BY <2>2, <2>3, <2>4
<1>5. CASE ServeOverwrite(r)
  BY <1>5 DEF ServeOverwrite, Failed, Described, OnlyDescribed
<1>6. CASE ServeRun(r)
  BY <1>6 DEF ServeRun
<1>7. CASE ServeForeignResume(r)
  <2> USE <1>7 DEF ServeForeignResume, Die, PcOff
  <2>1. (payload_pid \in BOOLEAN /\ rebooting \in BOOLEAN)'
    BY Zenon
  <2>2. TypeOK'
    <3>1. CASE Die
      BY <2>1, <3>1
    <3>2. CASE cur' = r /\ UNCHANGED <<job, payload_pid, req, world, lost>>
      BY <2>1, <3>2
    <3> QED
      BY <3>1, <3>2
  <2>3. (OneAtATime /\ RequestInHand /\ RegisteredIsKnown)'
    OBVIOUS
  <2>4. (RepliesAreTrue /\ StoppedAreContinued)'
    OBVIOUS
  <2> QED
    BY <2>2, <2>3, <2>4
<1>8. CASE r = "loader" /\ ServeRegister
  BY <1>8 DEF ServeRegister
<1>9. CASE r = "home" /\ ServeResume
  <2> USE <1>9 DEF ServeResume
  <2>1. (payload_pid \in BOOLEAN /\ rebooting \in BOOLEAN)'
    BY Zenon
  <2>2. TypeOK'
    BY <2>1
  <2>3. (OneAtATime /\ RequestInHand /\ RegisteredIsKnown)'
    OBVIOUS
  <2>4. (RepliesAreTrue /\ StoppedAreContinued)'
    OBVIOUS
  <2> QED
    BY <2>2, <2>3, <2>4
<1> QED
  BY <1>1, <1>2, <1>3, <1>4, <1>5, <1>6, <1>7, <1>8, <1>9 DEF Serve

\* The later steps of a command, and the reply.
LEMMA WorkKeeps == ASSUME IInv, Work PROVE IInv'
<1> USE CommandKinds, ReplyFields
<1>1. CASE WriteFile
  BY <1>1 DEF WriteFile, Failed, Described, OnlyDescribed
<1>2. CASE Continue
  BY <1>2 DEF Continue
<1>3. CASE Waitpid
  BY <1>3 DEF Waitpid
<1>4. CASE Reply
  BY <1>4 DEF Reply
<1> QED
  BY <1>1, <1>2, <1>3, <1>4 DEF Work

\* palera1nd dies, a command ends, or launchd ends the session.
LEMMA EndingKeeps ==
  ASSUME IInv, Kill \/ UserspaceReboot \/ \E k \in Children : ChildExits(k)
  PROVE  IInv'
<1>1. CASE Kill
  <2> USE <1>1 DEF Kill, Die, PcOff
  <2>1. (payload_pid \in BOOLEAN /\ rebooting \in BOOLEAN)'
    BY Zenon
  <2>2. TypeOK'
    BY <2>1
  <2>3. (OneAtATime /\ RequestInHand /\ RegisteredIsKnown)'
    OBVIOUS
  <2>4. (RepliesAreTrue /\ StoppedAreContinued)'
    OBVIOUS
  <2> QED
    BY <2>2, <2>3, <2>4
<1>2. CASE UserspaceReboot
  <2> USE <1>2 DEF UserspaceReboot, PcOff, NobodyAsks, NoChild
  <2>1. (payload_pid \in BOOLEAN /\ rebooting \in BOOLEAN)'
    BY Zenon
  <2>2. TypeOK'
    BY <2>1
  <2>3. (OneAtATime /\ RequestInHand /\ RegisteredIsKnown)'
    OBVIOUS
  <2>4. (RepliesAreTrue /\ StoppedAreContinued)'
    OBVIOUS
  <2> QED
    BY <2>2, <2>3, <2>4
<1>3. ASSUME NEW k \in Children, ChildExits(k) PROVE IInv'
  BY <1>3 DEF ChildExits
<1> QED
  BY <1>1, <1>2, <1>3

\* The launchdaemons stage, and HeadBoard or SpringBoard.
LEMMA BootKeeps == ASSUME IInv, Loader \/ Home \/ HomeExits PROVE IInv'
<1>1. CASE LoaderStarts
  BY <1>1 DEF LoaderStarts
<1>2. CASE LoaderRegistered
  BY <1>2 DEF LoaderRegistered, LoaderMoves
<1>3. CASE LoaderStops
  BY <1>3 DEF LoaderStops, LoaderMoves
<1>4. CASE LoaderObserves
  BY <1>4 DEF LoaderObserves, LoaderMoves
<1>5. CASE LoaderFinishes
  BY <1>5 DEF LoaderFinishes, LoaderMoves
<1>6. CASE HomeStarts
  BY <1>6 DEF HomeStarts
<1>7. CASE HomeIsUp
  BY <1>7 DEF HomeIsUp
<1>8. CASE HomeExits
  BY <1>8 DEF HomeExits
<1> QED
  BY <1>1, <1>2, <1>3, <1>4, <1>5, <1>6, <1>7, <1>8 DEF Loader, Home

\* IInv holds in every reachable state.
THEOREM Invariance == Spec => []IInv
<1>1. IInv /\ [Next]_vars => IInv'
  <2> SUFFICES ASSUME IInv, [Next]_vars PROVE IInv'
    OBVIOUS
  <2>1. CASE UNCHANGED vars
    BY <2>1 DEF vars
  <2> HIDE DEF IInv
  <2>2. CASE Next
    BY <2>2, AskingKeeps, ServeKeeps, WorkKeeps, EndingKeeps, BootKeeps DEF Next
  <2> QED
    BY <2>1, <2>2
<1> HIDE DEF IInv
<1> QED
  BY <1>1, InitEstablishes, PTL DEF Spec

\* No client takes for done what palera1nd failed to do, nor the reverse: its
\* file is whole, and p1ctl's exit status is what was done.
\* (overwrite_file.c, the replies of handler.c, print_jailbreakd_reply)
THEOREM NoReplyMisleads == Spec => []RepliesAreTrue
<1>1. IInv => RepliesAreTrue
  OBVIOUS
<1> HIDE DEF IInv, RepliesAreTrue
<1> QED
  BY <1>1, Invariance, PTL

\* A suspended command and the stopped loader have somebody who will continue
\* them, unless palera1nd died or HeadBoard asked too early.
\* (runcmd.c; launchdaemons.c: SIGSTOP; handler.c: payload_pid)
THEOREM NobodyStaysStopped == Spec => []StoppedAreContinued
<1>1. IInv => StoppedAreContinued
  OBVIOUS
<1> HIDE DEF IInv, StoppedAreContinued
<1> QED
  BY <1>1, Invariance, PTL

===============================================================================
