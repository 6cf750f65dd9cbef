--------------------------------- MODULE FakeFs ---------------------------------
(***************************************************************************)
(* The writable copy of the system on devices with a signed system volume: *)
(* a volume of the Recovery role that the prelaunchd stage of the loader   *)
(* creates and fills (setup_fakefs), that fakedyld mounts as the root      *)
(* (mountroot), rolls back (clean_fakefs) and completes with directories   *)
(* of the real system (prepare_rootfs), and that prelaunchd deletes on a   *)
(* force revert.  The nvram variable p1-fakefs-rootdev tells PongoOS which *)
(* device to boot.  Volumes and nvram outlive a crash between any two      *)
(* steps.  Every boot modelled here is a rootful one.                      *)
(***************************************************************************)
EXTENDS Naturals, FiniteSets

CONSTANTS
  Devs,       \* devices a volume of the container may get
  RealFs,     \* the device of the signed system volume
  NoDev,      \* p1-fakefs-rootdev is not set
  Platforms,  \* which of PlatformNames the device may be
  Faults,     \* which of FaultKinds may happen
  MaxMissed   \* bound: how many directories of one copy may fail

\* What is in a system volume, as far as a partial copy or a bind mount treats
\* it differently: "frameworks" is /System/Library/Frameworks, "assets" the ten
\* other directories of /System/Library in both lists and /usr/standalone/update,
\* "caches" is PrivateFrameworks and Caches, "system" the rest of /System, and
\* "private" stands for everything else.
Dirs == {"private", "frameworks", "assets", "caches", "system"}

PlatformNames == {"iOS", "tvOS", "bridgeOS"}

\* "power"  the device goes down between two steps
\* "nvram"  a write to nvram fails, which nobody notices
\* "copy"   copyfile cannot copy a file or a directory, and goes on
FaultKinds == {"power", "nvram", "copy"}

Flags == {"setup_rootful", "setup_partial_root", "force_revert", "clean_fakefs"}

ASSUME FakeFsAssumption ==
  /\ RealFs \notin Devs
  /\ NoDev \notin Devs \cup {RealFs}
  /\ Platforms \subseteq PlatformNames
  /\ Faults \subseteq FaultKinds
  /\ MaxMissed \in Nat

VARIABLES
  device,   \* platform, Darwin version and what volume names begin with
  fakefs,   \* the devices that hold a volume of the Recovery role
  other,    \* those that hold a volume of another role
  content,  \* the directories that have been copied to a device
  missed,   \* those of which copyfile left something out, or everything
  orig,     \* the devices whose volume has a snapshot orig-fs
  dirty,    \* those changed since that snapshot
  nvram,    \* p1-fakefs-rootdev
  flags,    \* the flags of this boot
  rootdev,  \* the device PongoOS put into the paleinfo
  ramdisk,  \* is the ramdisk the root when fakedyld starts?
  root,     \* the device mounted at /
  stage     \* what runs next

volumes == <<fakefs, other, content, missed, orig, dirty>>
boot    == <<flags, rootdev, ramdisk, root>>
vars    == <<device, volumes, nvram, boot, stage>>

Stages == {"off", "fakedyld", "mountroot", "delete", "unset", "set", "find", "create",
           "name", "copy", "snapshot", "finish", "up"}

TypeOK ==
  /\ device \in [platform : PlatformNames, darwin : {21, 22}, prefix : {"disk0s1s", "disk1s"}]
  /\ fakefs \subseteq Devs
  /\ other \subseteq Devs
  /\ content \in [Devs -> SUBSET Dirs]
  /\ missed \in [Devs -> SUBSET Dirs]
  /\ orig \subseteq Devs
  /\ dirty \subseteq Devs
  /\ nvram \in Devs \cup {RealFs, NoDev}
  /\ flags \subseteq Flags
  /\ rootdev \in Devs \cup {RealFs}
  /\ ramdisk \in BOOLEAN
  /\ root \in Devs \cup {RealFs}
  /\ stage \in Stages

Init ==
  /\ device \in [platform : Platforms, darwin : {21, 22}, prefix : {"disk0s1s", "disk1s"}]
  /\ fakefs = {} /\ other = {} /\ orig = {} /\ dirty = {}
  /\ content = [d \in Devs |-> {}]
  /\ missed = [d \in Devs |-> {}]
  /\ nvram = NoDev
  /\ flags = {} /\ rootdev = RealFs /\ ramdisk = FALSE /\ root = RealFs
  /\ stage = "off"

-----------------------------------------------------------------------------
(* fakedyld.                                                               *)

\* PongoOS boots what the variable names, or guesses; a setup or a revert is
\* made from the real system, if the host knows better.
Boot(f, d, r) ==
  /\ stage = "off"
  /\ \/ nvram = NoDev /\ d \in Devs
     \/ nvram # NoDev /\ d = nvram
     \/ {"setup_rootful", "force_revert"} \cap f # {} /\ d = RealFs
  /\ flags' = f /\ rootdev' = d /\ ramdisk' = r
  /\ stage' = "fakedyld"
  /\ UNCHANGED <<device, volumes, nvram, root>>

\* A panic, a reboot or a loss of power: volumes and nvram stay.
GoDown ==
  /\ stage' = "off"
  /\ flags' = {} /\ rootdev' = RealFs /\ ramdisk' = FALSE /\ root' = RealFs

Panics == GoDown /\ UNCHANGED <<device, volumes, nvram>>

Disallowed(f) ==
  \/ {"clean_fakefs", "force_revert"} \subseteq f
  \/ {"clean_fakefs", "setup_rootful"} \subseteq f

\* A volume that is there and holds /private; anything else is mounted or
\* looked for again and again.
Mountable(d) == d = RealFs \/ (d \in fakefs /\ "private" \in content[d])

Cleaned_OnlyUnmounted(d) == dirty

\* What is still changed when device d has been reverted to orig-fs.
Cleaned(d) == dirty \ {d}

\* pinfo_check, and clean_fakefs on a ramdisk root.
CheckAndClean ==
  /\ stage = "fakedyld"
  /\ \/ Disallowed(flags) /\ Panics
     \/ /\ ~Disallowed(flags)
        /\ ~(ramdisk /\ "clean_fakefs" \in flags)
        /\ stage' = "mountroot"
        /\ UNCHANGED <<device, volumes, nvram, boot>>
     \/ /\ ~Disallowed(flags)
        /\ ramdisk /\ "clean_fakefs" \in flags
        /\ Mountable(rootdev)
        /\ \/ rootdev \notin orig /\ Panics
           \/ /\ rootdev \in orig
              /\ dirty' = Cleaned(rootdev)
              /\ stage' = "mountroot"
              /\ UNCHANGED <<device, fakefs, other, content, missed, orig, nvram, boot>>

\* The target of mountroot, which the kernel mounts when md0 is on /cores.
Target == IF "setup_rootful" \in flags THEN RealFs ELSE rootdev

MountRoot ==
  /\ stage = "mountroot"
  /\ \/ ramdisk /\ Target \notin fakefs \cup other \cup {RealFs} /\ Panics
     \/ /\ Mountable(Target)
        /\ root' = Target
        /\ stage' = "delete"
        /\ UNCHANGED <<device, volumes, nvram, flags, rootdev, ramdisk>>

\* What prepare_rootfs binds over the root from the real system.
Bound_IgnoresCaches(d) ==
  IF d = RealFs \/ "frameworks" \in content[d] THEN {}
  ELSE {"frameworks", "assets"}
         \cup (IF device.platform = "iOS" THEN {} ELSE {"caches", "system"})

Bound(d) ==
  IF d = RealFs \/ "frameworks" \in content[d] THEN {}
  ELSE {"frameworks", "assets"}
         \cup (IF device.platform # "iOS" THEN {"caches", "system"}
               ELSE IF device.darwin < 22 THEN {"caches"} ELSE {})

-----------------------------------------------------------------------------
(* The prelaunchd stage.                                                   *)

Reverts == "force_revert" \in flags

\* A write to nvram, whose result is printed and forgotten.
WriteNvram(value) ==
  \/ nvram' = value
  \/ "nvram" \in Faults /\ UNCHANGED nvram

FoundVolumes_Named == fakefs \cap {nvram}

\* APFSVolumeRoleFind of the Recovery role.
FoundVolumes == fakefs

\* A force revert deletes every volume found; the one that is mounted cannot
\* be deleted.
DeleteFakefs ==
  /\ stage = "delete"
  /\ \/ /\ ~Reverts \/ FoundVolumes = {}
        /\ stage' = "set"
        /\ UNCHANGED <<device, volumes, nvram, boot>>
     \/ /\ Reverts
        /\ \E d \in FoundVolumes :
             \/ Panics
             \/ /\ d # root
                /\ fakefs' = fakefs \ {d}
                /\ orig' = orig \ {d} /\ dirty' = dirty \ {d}
                /\ content' = [content EXCEPT ![d] = {}]
                /\ missed' = [missed EXCEPT ![d] = {}]
                /\ stage' = IF FoundVolumes = {d} THEN "unset" ELSE "delete"
                /\ UNCHANGED <<device, other, nvram, boot>>

\* The variable is deleted only when there were volumes to delete.
DeleteVariable ==
  /\ stage = "unset"
  /\ WriteNvram(NoDev)
  /\ stage' = "set"
  /\ UNCHANGED <<device, volumes, boot>>

\* A boot that neither reverts nor sets up remembers the device it came from;
\* a setup goes on to setup_fakefs.
SetVariable ==
  /\ stage = "set"
  /\ IF ~Reverts /\ "setup_rootful" \notin flags /\ nvram = NoDev
     THEN WriteNvram(rootdev) ELSE UNCHANGED nvram
  /\ stage' = IF "setup_rootful" \in flags THEN "find" ELSE "up"
  /\ UNCHANGED <<device, volumes, boot>>

-----------------------------------------------------------------------------
(* setup_fakefs.                                                           *)

MaySetUp_OverPartial == fakefs \cap orig = {}

\* "fakefs already exists" is the end of a setup.
MaySetUp == FoundVolumes = {}

\* fsck, the mount phases and init_data_protection, during which the system
\* may create volumes of its own, then the search for a fakefs.
FindFakefs ==
  /\ stage = "find"
  /\ \/ Panics
     \/ \E new \in SUBSET (Devs \ (fakefs \cup other)) :
          /\ other' = other \cup new
          /\ \/ MaySetUp /\ stage' = "create" /\ UNCHANGED boot
             \/ ~MaySetUp /\ GoDown
          /\ UNCHANGED <<device, fakefs, content, missed, orig, dirty, nvram>>

\* The check for space, the bind mount and APFSVolumeCreate.
CreateVolume ==
  /\ stage = "create"
  /\ \/ Panics
     \/ \E d \in Devs \ (fakefs \cup other) :
          /\ fakefs' = fakefs \cup {d}
          /\ stage' = "name"
          /\ UNCHANGED <<device, other, content, missed, orig, dirty, nvram, boot>>

\* p1-fakefs-rootdev names the new volume, which is then mounted.
NameVolume ==
  /\ stage = "name"
  /\ \E d \in fakefs : WriteNvram(d)
  /\ \/ stage' = "copy" /\ UNCHANGED boot
     \/ GoDown
  /\ UNCHANGED <<device, volumes>>

\* The directories copyfile's callback leaves out of a partial copy; it goes by
\* the names of the volumes where prepare_rootfs goes by the Darwin version.
Skipped ==
  IF "setup_partial_root" \notin flags THEN {}
  ELSE {"frameworks", "assets"}
         \cup (IF device.platform # "iOS" THEN {"caches", "system"}
               ELSE IF device.prefix = "disk0s1s" THEN {"caches"} ELSE {})

ToCopy(d) == (Dirs \ Skipped) \ (content[d] \cup missed[d])

\* copyfile, one directory after the other, in any order.  The callback answers
\* COPYFILE_CONTINUE to an error too, so that what could not be copied is left
\* out, a file of a directory or all of it, and copyfile succeeds.
CopyFiles ==
  /\ stage = "copy"
  /\ \/ Panics
     \/ \E d \in fakefs, x \in Dirs :
          /\ x \in ToCopy(d)
          /\ \/ /\ content' = [content EXCEPT ![d] = @ \cup {x}]
                /\ UNCHANGED missed
             \/ /\ "copy" \in Faults /\ Cardinality(missed[d]) < MaxMissed
                /\ missed' = [missed EXCEPT ![d] = @ \cup {x}]
                /\ \/ content' = [content EXCEPT ![d] = @ \cup {x}]
                   \/ UNCHANGED content
          /\ UNCHANGED <<device, fakefs, other, orig, dirty, nvram, boot, stage>>
     \/ /\ \A d \in fakefs : ToCopy(d) = {}
        /\ stage' = "snapshot"
        /\ UNCHANGED <<device, volumes, nvram, boot>>

CreateSnapshot ==
  /\ stage = "snapshot"
  /\ \/ Panics
     \/ /\ orig' = orig \cup fakefs
        /\ stage' = "finish"
        /\ UNCHANGED <<device, fakefs, other, content, missed, dirty, nvram, boot>>

\* Unmount, auto-boot=false, and payload_dylib reboots the device.
FinishSetup ==
  /\ stage = "finish"
  /\ Panics

-----------------------------------------------------------------------------
(* The running system and the end of a boot.                               *)

\* Something is installed on the fakefs.
ChangeRoot ==
  /\ stage = "up" /\ root \in Devs
  /\ dirty' = dirty \cup {root}
  /\ UNCHANGED <<device, fakefs, other, content, missed, orig, nvram, boot, stage>>

\* launchd starts again and with it the prelaunchd stage.
UserspaceReboot ==
  /\ stage = "up"
  /\ stage' = "delete"
  /\ UNCHANGED <<device, volumes, nvram, boot>>

\* Reboot by the user, who also ends a boot that waits for its root forever.
Shutdown ==
  /\ stage \in {"up", "mountroot", "fakedyld"}
  /\ Panics

PowerLoss ==
  /\ "power" \in Faults
  /\ stage # "off"
  /\ Panics

FakedyldStep == CheckAndClean \/ MountRoot
LoaderStep == \/ DeleteFakefs \/ DeleteVariable \/ SetVariable
              \/ FindFakefs \/ CreateVolume \/ NameVolume \/ CopyFiles
              \/ CreateSnapshot \/ FinishSetup

Next ==
  \/ \E f \in SUBSET Flags, d \in Devs \cup {RealFs}, r \in BOOLEAN : Boot(f, d, r)
  \/ FakedyldStep
  \/ LoaderStep
  \/ ChangeRoot
  \/ UserspaceReboot
  \/ Shutdown
  \/ PowerLoss

Spec == Init /\ [][Next]_vars

-----------------------------------------------------------------------------
(* What may never go wrong.                                                *)

\* However setups, reverts and crashes follow each other, there is never a
\* second fakefs, and none on a device of another volume.
AtMostOneFakefs ==
  /\ \A d, e \in fakefs : d = e
  /\ fakefs \cap other = {}

\* Where the caches are left out by the name of the volume, they are bound by
\* the version: no iOS 16 names its volumes disk0s1s.
ListsAgree ==
  device.platform = "iOS" /\ device.prefix = "disk0s1s" => device.darwin < 22

\* What a finished fakefs lacks, whatever is bound over it.
Lacking(d) == Dirs \ (content[d] \cup Bound(d))

\* Whoever boots a fakefs that was finished sees the whole system, but for what
\* copyfile could not copy and the callback let pass (l.160), before the setup
\* says "FakeFS is finished!" (l.282): what the copy left out on purpose
\* (setup_fakefs.c:118-156) is bound (prepare_root.c:54-74).
FinishedRootIsWhole ==
  stage = "up" /\ root \in orig /\ ListsAgree => Lacking(root) \subseteq missed[root]

\* A force revert that comes up has deleted the fakefs, however much of it a
\* setup that failed had made.
RevertDeletesFakefs ==
  stage = "up" /\ Reverts => fakefs = {}

\* With clean_fakefs on a ramdisk root the system starts as it was copied.
CleanBootStartsPristine ==
  [][stage = "mountroot" /\ stage' = "delete" /\ ramdisk /\ "clean_fakefs" \in flags
       => root' \in orig /\ root' \notin dirty]_vars

\* The inductive invariant, which says of every step of a setup what it has
\* done so far.
Whole(d) == ListsAgree => Lacking(d) \subseteq missed[d]

SetupProgress ==
  /\ stage = "create" => fakefs = {}
  /\ stage = "name" => \A d \in fakefs : content[d] = {} /\ missed[d] = {}
  /\ stage = "copy" => \A d \in fakefs : content[d] \cup missed[d] \subseteq Dirs \ Skipped
  /\ stage \in {"snapshot", "finish"} => \A d \in fakefs : Whole(d)

VolumesAreSound ==
  /\ orig \subseteq fakefs
  /\ \A d \in Devs \ fakefs : content[d] = {} /\ missed[d] = {}
  /\ \A d \in orig : Whole(d)
  /\ stage \in {"name", "copy", "snapshot"} => orig = {}

IInv ==
  /\ TypeOK
  /\ AtMostOneFakefs
  /\ SetupProgress
  /\ VolumesAreSound
  /\ stage \in {"unset", "set", "up"} /\ Reverts => fakefs = {}

=============================================================================
