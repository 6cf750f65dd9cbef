------------------------------ MODULE FakeFsProofs ------------------------------
(***************************************************************************)
(* For any devices and whatever fails between two steps: there is at most  *)
(* one fakefs, one with a snapshot orig-fs lacks, together with what is     *)
(* bound over it, only what copyfile could not copy, and a force revert    *)
(* that comes up has deleted it.                                           *)
(***************************************************************************)
EXTENDS FakeFs, TLAPS

USE FakeFsAssumption
USE DEF Flags, Stages, PlatformNames, volumes, boot

\* What a partial copy leaves out is bound again, where the two lists agree.
LEMMA SkippedIsBound ==
  ASSUME TypeOK, NEW d \in Devs,
         content[d] \subseteq Dirs \ Skipped,
         Dirs \ Skipped \subseteq content[d] \cup missed[d]
  PROVE  Whole(d)
<1>1. d # RealFs
  OBVIOUS
<1>2. CASE Skipped = {}
  BY <1>2 DEF Whole, Lacking
<1>3. CASE Skipped # {}
  <2>1. "frameworks" \in Skipped
    BY <1>3 DEF Skipped
  <2>2. "frameworks" \notin content[d]
    BY <2>1
  <2>3. ListsAgree => Skipped \subseteq Bound(d)
    BY <2>2, <1>1 DEF Skipped, Bound, ListsAgree, TypeOK
  <2> QED
    BY <2>3 DEF Whole, Lacking
<1> QED
  BY <1>2, <1>3

\* The parts of the invariant that a loss of power cannot touch.
LEMMA GoDownKeeps ==
  ASSUME IInv, GoDown, UNCHANGED <<device, fakefs, content, missed, orig, dirty>>,
         other' \subseteq Devs, fakefs \cap other' = {},
         nvram' \in Devs \cup {RealFs, NoDev}
  PROVE  IInv'
<1>1. TypeOK'
  BY DEF IInv, TypeOK, GoDown
<1>2. AtMostOneFakefs'
  BY DEF IInv, AtMostOneFakefs
<1>3. VolumesAreSound' /\ SetupProgress'
  BY DEF IInv, VolumesAreSound, SetupProgress, GoDown, Whole, Lacking, ListsAgree, Bound
<1>4. ~Reverts'
  BY DEF GoDown, Reverts
<1> QED
  BY <1>1, <1>2, <1>3, <1>4 DEF IInv

\* A panic, in which other volumes stay as they are, is one of those cases.
LEMMA PanicsKeeps == IInv /\ Panics => IInv'
<1> SUFFICES ASSUME IInv, Panics PROVE IInv'
  OBVIOUS
<1>1. /\ other' \subseteq Devs /\ fakefs \cap other' = {}
      /\ nvram' \in Devs \cup {RealFs, NoDev}
  BY DEF IInv, TypeOK, AtMostOneFakefs, Panics
<1> QED
  BY <1>1, GoDownKeeps DEF Panics

\* Nothing exists before the first boot.
LEMMA InitEstablishes == Init => IInv
<1> SUFFICES ASSUME Init PROVE IInv
  OBVIOUS
<1>1. device \in [platform : PlatformNames, darwin : {21, 22},
               prefix : {"disk0s1s", "disk1s"}]
  BY DEF Init
<1>2. TypeOK
  BY <1>1 DEF Init, TypeOK
<1>3. AtMostOneFakefs /\ SetupProgress /\ VolumesAreSound
  BY DEF Init, AtMostOneFakefs, SetupProgress, VolumesAreSound
<1> QED
  BY <1>2, <1>3 DEF Init, IInv

\* Steps that only move on in a boot, without touching a volume: the progress
\* of a setup is all that has to be looked at.
LEMMA SameVolumes ==
  ASSUME IInv, UNCHANGED <<device, volumes>>
  PROVE  /\ AtMostOneFakefs'
         /\ stage' \notin {"name", "copy", "snapshot"} => VolumesAreSound'
         /\ stage' \notin {"create", "name", "copy", "snapshot", "finish"} => SetupProgress'
<1>1. AtMostOneFakefs'
  BY DEF IInv, AtMostOneFakefs
<1>2. \A d \in Devs : Whole(d)' = Whole(d)
  BY DEF Whole, Lacking, ListsAgree, Bound
<1> QED
  BY <1>1, <1>2 DEF IInv, TypeOK, VolumesAreSound, SetupProgress

\* fakedyld's checks, its clean-up and its choice of the root.
LEMMA FakedyldStepKeeps == IInv /\ FakedyldStep => IInv'
<1> SUFFICES ASSUME IInv, FakedyldStep PROVE IInv'
  OBVIOUS
<1>1. CASE Panics
  BY <1>1, PanicsKeeps
<1>2. CASE CheckAndClean /\ ~Panics
  <2>1. stage' = "mountroot" /\ dirty' \subseteq dirty
        /\ UNCHANGED <<device, fakefs, other, content, missed, orig, nvram, boot>>
    BY <1>2 DEF CheckAndClean, Cleaned
  <2>2. TypeOK' /\ AtMostOneFakefs'
    BY <2>1 DEF IInv, TypeOK, AtMostOneFakefs
  <2>3. VolumesAreSound' /\ SetupProgress'
    BY <2>1 DEF IInv, VolumesAreSound, SetupProgress, Whole, Lacking, ListsAgree, Bound
  <2> QED
    BY <2>1, <2>2, <2>3 DEF IInv
<1>3. CASE MountRoot /\ ~Panics
  <2>1. stage' = "delete" /\ root' \in Devs \cup {RealFs}
        /\ UNCHANGED <<device, volumes, nvram, flags, rootdev, ramdisk>>
    BY <1>3 DEF MountRoot, Target, IInv, TypeOK
  <2>2. TypeOK'
    BY <2>1 DEF IInv, TypeOK
  <2> QED
    BY <2>1, <2>2, SameVolumes DEF IInv
<1> QED
  BY <1>1, <1>2, <1>3 DEF FakedyldStep

\* The force revert.
LEMMA DeleteFakefsKeeps == IInv /\ DeleteFakefs => IInv'
<1> SUFFICES ASSUME IInv, DeleteFakefs PROVE IInv'
  OBVIOUS
<1>1. CASE Panics
  BY <1>1, PanicsKeeps
<1>2. CASE /\ ~Reverts \/ fakefs = {}
           /\ stage' = "set"
           /\ UNCHANGED <<device, volumes, nvram, boot>>
  <2>1. TypeOK'
    BY <1>2 DEF IInv, TypeOK
  <2>2. Reverts' => fakefs' = {}
    BY <1>2 DEF Reverts
  <2> QED
    BY <1>2, <2>1, <2>2, SameVolumes DEF IInv
<1>3. ASSUME NEW d \in fakefs,
             fakefs' = fakefs \ {d},
             orig' = orig \ {d}, dirty' = dirty \ {d},
             content' = [content EXCEPT ![d] = {}],
             missed' = [missed EXCEPT ![d] = {}],
             stage' = IF fakefs = {d} THEN "unset" ELSE "delete",
             UNCHANGED <<device, other, nvram, boot>>
      PROVE  IInv'
  <2>1. TypeOK' /\ AtMostOneFakefs'
    BY <1>3 DEF IInv, TypeOK, AtMostOneFakefs
  <2>2. \A e \in orig' : Whole(e)'
    BY <1>3 DEF IInv, TypeOK, VolumesAreSound, Whole, Lacking, ListsAgree, Bound
  <2>3. VolumesAreSound' /\ SetupProgress'
    BY <1>3, <2>2 DEF IInv, TypeOK, VolumesAreSound, SetupProgress
  <2>4. stage' = "unset" => fakefs' = {}
    BY <1>3
  <2> QED
    BY <1>3, <2>1, <2>3, <2>4 DEF IInv
<1> QED
  BY <1>1, <1>2, <1>3 DEF DeleteFakefs, FoundVolumes

\* The variable is deleted, written or left as it is.
LEMMA VariableStepKeeps == IInv /\ (DeleteVariable \/ SetVariable) => IInv'
<1> SUFFICES ASSUME IInv, DeleteVariable \/ SetVariable PROVE IInv'
  OBVIOUS
<1>1. UNCHANGED <<device, volumes, boot>>
  BY DEF DeleteVariable, SetVariable
<1>2. stage \in {"unset", "set"} /\ stage' \in {"set", "find", "up"}
  BY DEF DeleteVariable, SetVariable
<1>3. nvram' \in Devs \cup {RealFs, NoDev}
  BY DEF DeleteVariable, SetVariable, WriteNvram, IInv, TypeOK
<1>4. TypeOK'
  BY <1>1, <1>2, <1>3 DEF IInv, TypeOK
<1>5. Reverts' => fakefs' = {}
  BY <1>1, <1>2 DEF IInv, Reverts
<1> QED
  BY <1>1, <1>2, <1>4, <1>5, SameVolumes DEF IInv

\* The beginning of a setup, up to the empty volume that has a name.
LEMMA CreateStepKeeps == IInv /\ (FindFakefs \/ CreateVolume \/ NameVolume) => IInv'
<1> SUFFICES ASSUME IInv, FindFakefs \/ CreateVolume \/ NameVolume PROVE IInv'
  OBVIOUS
<1>1. CASE Panics
  BY <1>1, PanicsKeeps
<1>2. CASE FindFakefs /\ ~Panics
  <2>1. PICK new \in SUBSET (Devs \ (fakefs \cup other)) :
          /\ other' = other \cup new
          /\ \/ MaySetUp /\ stage' = "create" /\ UNCHANGED boot
             \/ ~MaySetUp /\ GoDown
          /\ UNCHANGED <<device, fakefs, content, missed, orig, dirty, nvram>>
    BY <1>2 DEF FindFakefs
  <2>2. /\ other' \subseteq Devs /\ fakefs \cap other' = {}
        /\ nvram' \in Devs \cup {RealFs, NoDev}
    BY <2>1 DEF IInv, TypeOK, AtMostOneFakefs
  <2>3. CASE GoDown
    BY <2>1, <2>2, <2>3, GoDownKeeps
  <2>4. CASE MaySetUp /\ stage' = "create" /\ UNCHANGED boot
    <3>1. TypeOK' /\ AtMostOneFakefs'
      BY <2>1, <2>2, <2>4 DEF IInv, TypeOK, AtMostOneFakefs
    <3>2. VolumesAreSound' /\ SetupProgress'
      BY <2>1, <2>4 DEF IInv, VolumesAreSound, SetupProgress, Whole, Lacking, ListsAgree, Bound,
                        MaySetUp, FoundVolumes
    <3> QED
      BY <2>4, <3>1, <3>2 DEF IInv
  <2> QED
    BY <2>1, <2>3, <2>4
<1>3. CASE CreateVolume /\ ~Panics
  <2>1. PICK d \in Devs \ (fakefs \cup other) :
          /\ fakefs' = fakefs \cup {d}
          /\ stage' = "name"
          /\ UNCHANGED <<device, other, content, missed, orig, dirty, nvram, boot>>
    BY <1>3 DEF CreateVolume
  <2>2. fakefs = {}
    BY <1>3 DEF IInv, SetupProgress, CreateVolume
  <2>3. TypeOK' /\ AtMostOneFakefs'
    BY <2>1, <2>2 DEF IInv, TypeOK, AtMostOneFakefs
  <2>4. orig' = {} /\ content'[d] = {}
    BY <2>1, <2>2 DEF IInv, VolumesAreSound
  <2>5. VolumesAreSound' /\ SetupProgress'
    BY <2>1, <2>2, <2>4 DEF IInv, VolumesAreSound, SetupProgress
  <2> QED
    BY <2>1, <2>3, <2>5 DEF IInv
<1>4. CASE NameVolume
  <2>1. nvram' \in Devs \cup {RealFs, NoDev}
    BY <1>4 DEF NameVolume, WriteNvram, IInv, TypeOK
  <2>2. CASE GoDown
    BY <1>4, <2>1, <2>2, GoDownKeeps DEF NameVolume, IInv, TypeOK, AtMostOneFakefs
  <2>3. CASE stage' = "copy" /\ UNCHANGED boot
    <3>1. UNCHANGED <<device, volumes>> /\ stage = "name"
      BY <1>4 DEF NameVolume
    <3>2. TypeOK'
      BY <2>1, <2>3, <3>1 DEF IInv, TypeOK
    <3>3. VolumesAreSound'
      BY <2>3, <3>1 DEF IInv, VolumesAreSound, Whole, Lacking, ListsAgree, Bound
    <3>4. SetupProgress'
      BY <2>3, <3>1 DEF IInv, SetupProgress
    <3> QED
      BY <2>3, <3>1, <3>2, <3>3, <3>4, SameVolumes DEF IInv
  <2> QED
    BY <1>4, <2>2, <2>3 DEF NameVolume
<1> QED
  BY <1>1, <1>2, <1>3, <1>4

\* The copy and its snapshot.
LEMMA CopyStepKeeps == IInv /\ (CopyFiles \/ CreateSnapshot \/ FinishSetup) => IInv'
<1> SUFFICES ASSUME IInv, CopyFiles \/ CreateSnapshot \/ FinishSetup PROVE IInv'
  OBVIOUS
<1>1. CASE Panics
  BY <1>1, PanicsKeeps
<1>2. ASSUME stage = "copy", NEW d \in fakefs, NEW x \in ToCopy(d),
             content' \in {content, [content EXCEPT ![d] = @ \cup {x}]},
             missed' \in {missed, [missed EXCEPT ![d] = @ \cup {x}]},
             UNCHANGED <<device, fakefs, other, orig, dirty, nvram, boot, stage>>
      PROVE  IInv'
  <2>1. x \in Dirs \ Skipped /\ d \in Devs
    BY <1>2 DEF ToCopy, IInv, TypeOK
  <2>2. content' \in [Devs -> SUBSET Dirs] /\ missed' \in [Devs -> SUBSET Dirs]
    BY <1>2, <2>1 DEF IInv, TypeOK
  <2>3. TypeOK' /\ AtMostOneFakefs'
    BY <1>2, <2>2 DEF IInv, TypeOK, AtMostOneFakefs
  <2>4. Skipped' = Skipped
    BY <1>2 DEF Skipped
  <2>5. \A e \in fakefs : content'[e] \cup missed'[e] \subseteq Dirs \ Skipped
    BY <1>2, <2>1 DEF IInv, TypeOK, SetupProgress
  <2>6. SetupProgress'
    BY <1>2, <2>4, <2>5 DEF SetupProgress
  <2>7. VolumesAreSound'
    BY <1>2 DEF IInv, TypeOK, VolumesAreSound
  <2> QED
    BY <1>2, <2>3, <2>6, <2>7 DEF IInv
<1>3. CASE /\ stage = "copy" /\ \A d \in fakefs : ToCopy(d) = {}
           /\ stage' = "snapshot"
           /\ UNCHANGED <<device, volumes, nvram, boot>>
  <2>1. \A d \in fakefs : Whole(d)
    BY <1>3, SkippedIsBound DEF ToCopy, IInv, TypeOK, SetupProgress
  <2>2. \A d \in fakefs' : Whole(d)'
    BY <1>3, <2>1 DEF Whole, Lacking, ListsAgree, Bound
  <2>3. SetupProgress' /\ VolumesAreSound'
    BY <1>3, <2>2 DEF SetupProgress, IInv, VolumesAreSound
  <2>4. TypeOK'
    BY <1>3 DEF IInv, TypeOK
  <2> QED
    BY <1>3, <2>3, <2>4, SameVolumes DEF IInv
<1>4. CASE CreateSnapshot /\ ~Panics
  <2>1. /\ stage = "snapshot" /\ stage' = "finish" /\ orig' = orig \cup fakefs
        /\ UNCHANGED <<device, fakefs, other, content, missed, dirty, nvram, boot>>
    BY <1>4 DEF CreateSnapshot
  <2>2. \A d \in fakefs' : Whole(d)'
    BY <2>1 DEF IInv, SetupProgress, Whole, Lacking, ListsAgree, Bound
  <2>3. TypeOK' /\ AtMostOneFakefs'
    BY <2>1 DEF IInv, TypeOK, AtMostOneFakefs
  <2>4. SetupProgress' /\ VolumesAreSound'
    BY <2>1, <2>2 DEF SetupProgress, IInv, VolumesAreSound
  <2> QED
    BY <2>1, <2>3, <2>4 DEF IInv
<1> QED
  BY <1>1, <1>2, <1>3, <1>4 DEF CopyFiles, CreateSnapshot, FinishSetup

\* The boot itself, the running system and its end.
LEMMA RestKeeps ==
  ASSUME IInv,
         \/ \E f \in SUBSET Flags, d \in Devs \cup {RealFs}, r \in BOOLEAN : Boot(f, d, r)
         \/ ChangeRoot \/ UserspaceReboot \/ Shutdown \/ PowerLoss
  PROVE  IInv'
<1>1. ASSUME NEW f \in SUBSET Flags, NEW d \in Devs \cup {RealFs}, NEW r \in BOOLEAN,
             Boot(f, d, r)
      PROVE  IInv'
  <2>1. TypeOK' /\ stage' = "fakedyld" /\ UNCHANGED <<device, volumes>>
    BY <1>1 DEF Boot, IInv, TypeOK
  <2> QED
    BY <2>1, SameVolumes DEF IInv
<1>2. CASE ChangeRoot
  <2>1. TypeOK' /\ AtMostOneFakefs'
    BY <1>2 DEF ChangeRoot, IInv, TypeOK, AtMostOneFakefs
  <2>2. VolumesAreSound' /\ SetupProgress'
    BY <1>2 DEF ChangeRoot, IInv, VolumesAreSound, SetupProgress, Whole, Lacking, ListsAgree, Bound
  <2> QED
    BY <1>2, <2>1, <2>2 DEF ChangeRoot, IInv, Reverts
<1>3. CASE UserspaceReboot
  <2>1. TypeOK' /\ stage' = "delete" /\ UNCHANGED <<device, volumes>>
    BY <1>3 DEF UserspaceReboot, IInv, TypeOK
  <2> QED
    BY <2>1, SameVolumes DEF IInv
<1>4. CASE Panics
  BY <1>4, PanicsKeeps
<1> QED
  BY <1>1, <1>2, <1>3, <1>4 DEF Shutdown, PowerLoss

\* The invariant holds in every sequence of setups, boots, reverts and crashes.
THEOREM Invariance == Spec => []IInv
<1>1. IInv /\ [Next]_vars => IInv'
  <2> SUFFICES ASSUME IInv, [Next]_vars PROVE IInv'
    OBVIOUS
  <2>1. CASE FakedyldStep
    BY <2>1, FakedyldStepKeeps
  <2>2. CASE LoaderStep
    BY <2>2, DeleteFakefsKeeps, VariableStepKeeps, CreateStepKeeps, CopyStepKeeps
       DEF LoaderStep
  <2>3. CASE \/ \E f \in SUBSET Flags, d \in Devs \cup {RealFs}, r \in BOOLEAN :
                  Boot(f, d, r)
             \/ ChangeRoot \/ UserspaceReboot \/ Shutdown \/ PowerLoss
    BY <2>3, RestKeeps
  <2>4. CASE UNCHANGED vars
    <3>1. UNCHANGED <<device, volumes, nvram, flags, rootdev, ramdisk, root, stage>>
      BY <2>4 DEF vars
    <3>2. TypeOK' /\ AtMostOneFakefs'
      BY <3>1 DEF IInv, TypeOK, AtMostOneFakefs
    <3>3. VolumesAreSound'
      BY <3>1 DEF IInv, VolumesAreSound, Whole, Lacking, ListsAgree, Bound
    <3>4. SetupProgress'
      BY <3>1 DEF IInv, SetupProgress, Whole, Lacking, ListsAgree, Bound, Skipped
    <3> QED
      BY <3>1, <3>2, <3>3, <3>4 DEF IInv, Reverts
  <2> QED
    BY <2>1, <2>2, <2>3, <2>4 DEF Next
<1> QED
  BY <1>1, InitEstablishes, PTL DEF Spec

\* There is never a second fakefs: APFSVolumeCreate runs only after the search
\* for one found none (setup_fakefs.c:183-196).
THEOREM OneFakefs == Spec => []AtMostOneFakefs
<1>1. IInv => AtMostOneFakefs
  BY DEF IInv
<1> QED
  BY <1>1, Invariance, PTL

\* A finished fakefs that is booted shows the whole system, but for what
\* copyfile could not copy (setup_fakefs.c:107-160, prepare_root.c:54-74), on a
\* device whose volume names go with its version.
THEOREM FinishedRootsAreWhole == Spec => []FinishedRootIsWhole
<1>1. IInv => FinishedRootIsWhole
  BY DEF IInv, VolumesAreSound, Whole, FinishedRootIsWhole
<1> QED
  BY <1>1, Invariance, PTL

\* A force revert that comes up has deleted every fakefs.
THEOREM RevertsDelete == Spec => []RevertDeletesFakefs
<1>1. IInv => RevertDeletesFakefs
  BY DEF IInv, RevertDeletesFakefs
<1> QED
  BY <1>1, Invariance, PTL

\* What fakedyld has done before it mounts the root of a boot with clean_fakefs:
\* only CheckAndClean leads there, and the setup flag is not allowed with it.
CleanedBeforeMount ==
  stage = "mountroot" /\ ramdisk /\ "clean_fakefs" \in flags =>
    rootdev \in orig /\ rootdev \notin dirty /\ "setup_rootful" \notin flags

LEMMA CleanedBeforeMountKeeps == IInv /\ CleanedBeforeMount /\ [Next]_vars => CleanedBeforeMount'
<1> SUFFICES ASSUME IInv, CleanedBeforeMount, [Next]_vars PROVE CleanedBeforeMount'
  OBVIOUS
<1>1. CASE Panics
  BY <1>1 DEF Panics, GoDown, CleanedBeforeMount
<1>2. CASE CheckAndClean /\ ~Panics
  <2>1. UNCHANGED <<flags, ramdisk, rootdev, orig>> /\ ~Disallowed(flags)
    BY <1>2 DEF CheckAndClean
  <2>2. ramdisk /\ "clean_fakefs" \in flags => rootdev \in orig /\ dirty' = Cleaned(rootdev)
    BY <1>2, Zenon DEF CheckAndClean
  <2>3. "clean_fakefs" \in flags => "setup_rootful" \notin flags
    BY <2>1 DEF Disallowed
  <2> QED
    BY <2>1, <2>2, <2>3 DEF Cleaned, CleanedBeforeMount
<1>3. CASE MountRoot /\ ~Panics
  BY <1>3 DEF MountRoot, CleanedBeforeMount
<1>4. CASE LoaderStep /\ ~Panics
  <2>1. stage' # "mountroot"
    BY <1>4 DEF LoaderStep, DeleteFakefs, DeleteVariable, SetVariable, FindFakefs, CreateVolume,
                NameVolume, CopyFiles, CreateSnapshot, FinishSetup, GoDown
  <2> QED
    BY <2>1 DEF CleanedBeforeMount
<1>5. CASE \E f \in SUBSET Flags, d \in Devs \cup {RealFs}, r \in BOOLEAN : Boot(f, d, r)
  BY <1>5 DEF Boot, CleanedBeforeMount
<1>6. CASE ChangeRoot \/ UserspaceReboot
  BY <1>6 DEF ChangeRoot, UserspaceReboot, CleanedBeforeMount
<1>7. CASE UNCHANGED vars
  BY <1>7 DEF vars, CleanedBeforeMount
<1> QED
  BY <1>1, <1>2, <1>3, <1>4, <1>5, <1>6, <1>7 DEF Next, FakedyldStep, Shutdown, PowerLoss

\* A boot from a ramdisk with clean_fakefs mounts a root that has been reverted
\* to orig-fs and not changed since (fakedyld: clean_fakefs, mountroot).
THEOREM CleanBootsStartPristine == Spec => CleanBootStartsPristine
<1>1. Init => CleanedBeforeMount
  BY DEF Init, CleanedBeforeMount
<1>2. IInv /\ CleanedBeforeMount /\ [Next]_vars =>
        (stage = "mountroot" /\ stage' = "delete" /\ ramdisk /\ "clean_fakefs" \in flags
           => root' \in orig /\ root' \notin dirty)
  <2> SUFFICES ASSUME IInv, CleanedBeforeMount, [Next]_vars,
                      stage = "mountroot", stage' = "delete", ramdisk, "clean_fakefs" \in flags
               PROVE  root' \in orig /\ root' \notin dirty
    OBVIOUS
  <2>1. MountRoot /\ ~Panics
    BY DEF Next, FakedyldStep, CheckAndClean, LoaderStep, DeleteFakefs, DeleteVariable,
           SetVariable, FindFakefs, CreateVolume, NameVolume, CopyFiles, CreateSnapshot,
           FinishSetup, Boot, ChangeRoot, UserspaceReboot, Shutdown, PowerLoss, Panics, GoDown,
           vars
  <2> QED
    BY <2>1 DEF MountRoot, Target, CleanedBeforeMount
<1> QED
  BY <1>1, <1>2, CleanedBeforeMountKeeps, Invariance, PTL DEF Spec, CleanBootStartsPristine

=============================================================================
