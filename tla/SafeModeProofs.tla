----------------------------- MODULE SafeModeProofs -----------------------------
(***************************************************************************)
(* For any number of processes, any flags the host may use and whatever    *)
(* fails: safe mode asked for by the host holds until somebody leaves it,  *)
(* launchd has taken over what palera1nd sent when it answers; and as long *)
(* as nothing fails it runs by the host's flags at every other time, while *)
(* ramdisk and palera1nd hold what was asked for.                          *)
(***************************************************************************)
EXTENDS SafeMode, TLAPS

USE FlagsAssumption
USE DEF Bits, Running, MaybeFlags, NoProcs, Stages, Pcs, Alerts, RunsTweaks,
        launchd, jbd, session, history
USE DEF IInv, TypeOK, Sessions, Messages, LaunchdFollows, LaunchdFollowsTheHost,
        EveryCopyIsSafe, WrittenBeforeSent, DaemonHoldsFlags

\* Before the first boot nothing runs.
LEMMA InitEstablishes == Init => IInv
BY DEF Init

\* The start of launchd, the boot task and the loader.
LEMMA LaunchdStepKeeps == IInv /\ LaunchdStep => IInv'
<1> SUFFICES ASSUME IInv, LaunchdStep PROVE IInv'
  OBVIOUS
<1>1. CASE LoadHooks
  BY <1>1 DEF LoadHooks
<1>2. CASE RunBootTask
  BY <1>2 DEF RunBootTask
<1>3. CASE LoadDaemons
  BY <1>3 DEF LoadDaemons
<1>4. CASE StartLoader
  BY <1>4 DEF StartLoader
<1>5. CASE ShowAlert
  BY <1>5 DEF ShowAlert
<1> QED
  BY <1>1, <1>2, <1>3, <1>4, <1>5 DEF LaunchdStep

\* The steps of a request, launchd's part included.
LEMMA RequestStepKeeps == IInv /\ RequestStep => IInv'
<1> SUFFICES ASSUME IInv, RequestStep PROVE IInv'
  OBVIOUS
<1>1. CASE SetPinfo
  BY <1>1 DEF SetPinfo
<1>2. CASE SendToLaunchd
  BY <1>2 DEF SendToLaunchd
<1>3. CASE SetPinfoFlags
  BY <1>3 DEF SetPinfoFlags
<1>4. CASE RequestReboot
  BY <1>4 DEF RequestReboot, EndSession
<1> QED
  BY <1>1, <1>2, <1>3, <1>4 DEF RequestStep

\* The arrival of a request.
LEMMA RequestsKeep == IInv /\ Requests => IInv'
<1> SUFFICES ASSUME IInv, Requests PROVE IInv'
  OBVIOUS
<1>1. CASE StartDaemon
  BY <1>1 DEF StartDaemon
<1>2. CASE InterceptUserspacePanic
  BY <1>2 DEF InterceptUserspacePanic, Intercepted
<1>3. CASE ExitSafeMode
  BY <1>3 DEF ExitSafeMode, Exited
<1> QED
  BY <1>1, <1>2, <1>3 DEF Requests

\* Spawning hands on a copy that is safe already.
LEMMA ProcessStepKeeps == IInv /\ ProcessStep => IInv'
<1> SUFFICES ASSUME IInv, ProcessStep PROVE IInv'
  OBVIOUS
<1>1. ASSUME NEW p \in Procs, SpawnFromLaunchd(p) PROVE IInv'
  BY <1>1 DEF SpawnFromLaunchd
<1>2. ASSUME NEW p \in Procs, Exit(p) PROVE IInv'
  BY <1>2 DEF Exit
<1>3. ASSUME NEW p \in Procs, NEW q \in Procs, SpawnFromProcess(p, q) PROVE IInv'
  BY <1>3 DEF SpawnFromProcess
<1> QED
  BY <1>1, <1>2, <1>3 DEF ProcessStep

\* The end of a session, or of palera1nd, leaves fewer copies behind.
LEMMA OtherStepsKeep ==
  IInv /\ ((\E f \in HostFlags : Boot(f)) \/ RebootUserspace \/ PowerOff \/ Kill) => IInv'
<1>1. ASSUME IInv, NEW f \in HostFlags, Boot(f) PROVE IInv'
  BY <1>1 DEF Boot
<1>2. ASSUME IInv, EndSession, CutShort, stage' \in {"off", "exec"},
             UNCHANGED <<rmd, launchd, wanted, left>>
      PROVE  IInv'
  <2>1. TypeOK'
    BY <1>2 DEF EndSession, CutShort
  <2>2. Sessions' /\ Messages' /\ LaunchdFollows' /\ LaunchdFollowsTheHost'
    BY <1>2 DEF EndSession
  <2>3. EveryCopyIsSafe'
    BY <1>2 DEF EndSession
  <2>4. WrittenBeforeSent' /\ DaemonHoldsFlags'
    BY <1>2 DEF EndSession, CutShort
  <2> HIDE DEF TypeOK, Sessions, Messages, LaunchdFollows, LaunchdFollowsTheHost,
               EveryCopyIsSafe, WrittenBeforeSent, DaemonHoldsFlags
  <2> QED
    BY <2>1, <2>2, <2>3, <2>4
<1>3. IInv /\ (RebootUserspace \/ PowerOff) => IInv'
  BY <1>2, Zenon DEF RebootUserspace, PowerOff
<1>4. ASSUME IInv, Kill PROVE IInv'
  <2>1. TypeOK' /\ Sessions' /\ Messages' /\ LaunchdFollows' /\ LaunchdFollowsTheHost'
    BY <1>4 DEF Kill, CutShort
  <2>2. EveryCopyIsSafe'
    BY <1>4 DEF Kill
  <2>3. WrittenBeforeSent' /\ DaemonHoldsFlags'
    BY <1>4 DEF Kill, CutShort
  <2> HIDE DEF TypeOK, Sessions, Messages, LaunchdFollows, LaunchdFollowsTheHost,
               EveryCopyIsSafe, WrittenBeforeSent, DaemonHoldsFlags
  <2> QED
    BY <2>1, <2>2, <2>3
<1> QED
  BY <1>1, <1>2, <1>3, <1>4

\* IInv holds in every reachable state.
THEOREM Invariance == Spec => []IInv
<1>1. IInv /\ [Next]_vars => IInv'
  <2> SUFFICES ASSUME IInv, [Next]_vars PROVE IInv'
    OBVIOUS
  <2>1. CASE UNCHANGED vars
    BY <2>1 DEF vars
  <2> HIDE DEF IInv
  <2>2. CASE Next
    BY <2>2, LaunchdStepKeeps, RequestStepKeeps, RequestsKeep, ProcessStepKeeps, OtherStepsKeep
       DEF Next
  <2> QED
    BY <2>1, <2>2
<1> HIDE DEF IInv
<1> QED
  BY <1>1, InitEstablishes, PTL DEF Spec

\* A device booted into safe mode by the host runs no /etc/rc.d script, no
\* jailbreak LaunchDaemon and no tweak until somebody asks to leave safe mode.
THEOREM SafeModeFromTheHostHolds == Spec => []HostSafeModeHolds
<1>1. IInv => HostSafeModeHolds
  BY DEF HostSafeModeHolds, JailbreakCodeRuns
<1> HIDE DEF IInv
<1> QED
  BY <1>1, Invariance, PTL

\* When the SET_PINFO_FLAGS message has been answered, both copies in launchd
\* are palera1nd's; and as long as no write is lost and no request cut short,
\* ramdisk and palera1nd hold between requests what the host and the requests
\* since have asked for, while launchd runs by the flags of the host, which its
\* environment keeps, at every time but between that answer and the reboot.
THEOREM RequestsAreHandedOver == Spec => []HandoverIsExact
<1>1. IInv => HandoverIsExact
  BY DEF HandoverIsExact
<1> HIDE DEF IInv, HandoverIsExact
<1> QED
  BY <1>1, Invariance, PTL

=============================================================================
