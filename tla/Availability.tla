------------------------------ MODULE Availability ------------------------------
(***************************************************************************)
(* systemhook's hook of _availability_version_check: __builtin_available   *)
(* of a binary made for another platform asks about versions of that       *)
(* platform; the hook rewrites every entry, in place, to a version of the  *)
(* platform of the device and lets the system's check decide.              *)
(***************************************************************************)
EXTENDS Integers, Sequences

CONSTANTS
  Hosts,  \* the devices: the platform, and the version it runs
  Asked   \* the lists of entries that programs ask about

VARIABLES
  host,      \* this device
  asked,     \* the entries as the program wrote them
  versions,  \* the entries as the hook has rewritten them so far
  i,         \* the loop's counter
  answer

vars == <<host, asked, versions, i, answer>>

\* A version is <<major, minor, subminor>>, an entry [platform, version].
Catalysts == {"ios", "tvos", "iossimulator", "tvossimulator", "maccatalyst"}
Watches   == {"watchos", "watchossimulator"}
Visions   == {"visionos", "visionossimulator"}

VersionLeq(v, w) ==
  \/ v[1] < w[1]
  \/ v[1] = w[1] /\ v[2] < w[2]
  \/ v[1] = w[1] /\ v[2] = w[2] /\ v[3] <= w[3]

\* CONSTRUCT_V keeps 16, 8 and 8 bits.
Construct(major, minor, subminor) == <<major % 65536, minor % 256, subminor % 256>>

PlatformMin(current) ==
  CASE current \in {"ios", "bridgeos"} -> 2
    [] current = "tvos"                -> 9
    [] OTHER                           -> 1

\* At most this version; the first beta of 2025 still counted on by one.
UpTo(v, major) == v[1] < major \/ (v[1] = major /\ v[2] = 0)

AtLeast(x, least) == IF x > least THEN x ELSE least

\* The major version on iOS and tvOS of a platform's version.
ForPhone(current, platform, v) ==
  LET min == PlatformMin(current) IN
  CASE platform = "macos" /\ v[1] < 10                    -> min
    [] platform = "macos" /\ v[1] = 10                    -> AtLeast(v[2] - 2, min)
    [] platform = "macos" /\ v[1] > 10 /\ UpTo(v, 16)     -> v[1] + 3
    [] platform = "bridgeos" /\ UpTo(v, 10)               -> v[1] + 9
    [] platform = "bridgeos" /\ ~UpTo(v, 10)              -> v[1] + 16
    [] platform \in Watches /\ UpTo(v, 12)                -> v[1] + 7
    [] platform \in Visions /\ UpTo(v, 3)                 -> v[1] + 16
    [] OTHER                                              -> v[1]

\* From 2025 on every platform but bridgeOS has the same numbers.
UnifiedForBridge(v) == IF v[1] = 26 THEN 10 ELSE 99

\* The major version on bridgeOS.
ForBridge(platform, v) ==
  LET min == PlatformMin("bridgeos") IN
  CASE platform = "macos" /\ v[1] < 10                    -> min
    [] platform = "macos" /\ v[1] = 10                    -> AtLeast(v[2] - 11, min)
    [] platform = "macos" /\ v[1] > 10 /\ UpTo(v, 16)     -> AtLeast(v[1] - 6, min)
    [] platform = "macos" /\ v[1] = 26                    -> v[1] - 10
    [] platform = "macos" /\ v[1] > 26                    -> 99
    [] platform \in Catalysts /\ v[1] < 26                -> AtLeast(v[1] - 9, min)
    [] platform \in Watches /\ v[1] < 26                  -> AtLeast(v[1] - 2, min)
    [] platform \in Visions /\ v[1] < 26                  -> v[1] + 7
    [] platform \in Catalysts \cup Watches \cup Visions /\ v[1] >= 26
                                                          -> UnifiedForBridge(v)
    [] OTHER                                              -> v[1]

\* Mac OS X 10.x.y: x stands for the major version, y for the minor.
Convert(current, platform, v) ==
  LET major == CASE current \in {"ios", "tvos"} -> ForPhone(current, platform, v)
                 [] current = "bridgeos"        -> ForBridge(platform, v)
                 [] OTHER                       -> v[1]
      isX   == platform = "macos" /\ v[1] = 10 /\ current \in {"ios", "tvos", "bridgeos"}
  IN IF isX THEN Construct(major, v[3], 0) ELSE Construct(major, v[2], v[3])

-------------------------------------------------------------------------------
Init ==
  /\ host \in Hosts
  /\ asked \in Asked
  /\ versions = [k \in DOMAIN asked |-> [platform |-> asked[k].platform,
                                        version  |-> asked[k].version]]
  /\ i = 1
  /\ answer = "none"

\* Mutant: only the version is rewritten.
ConvertEntry_Version ==
  /\ i <= Len(versions)
  /\ LET e == versions[i] IN
       versions' = [versions EXCEPT ![i].version = Convert(host.platform, e.platform, e.version)]
  /\ i' = i + 1
  /\ UNCHANGED <<host, asked, answer>>

ConvertEntry ==
  /\ i <= Len(versions)
  /\ LET e == versions[i] IN
       versions' = IF e.platform = host.platform THEN versions
                   ELSE [versions EXCEPT ![i] =
                          [platform |-> host.platform,
                           version  |-> Convert(host.platform, e.platform, e.version)]]
  /\ i' = i + 1
  /\ UNCHANGED <<host, asked, answer>>

\* The system's check: the first entry for its platform decides.
SystemCheck(entries) ==
  LET own == {k \in 1..Len(entries) : entries[k].platform = host.platform} IN
  \E k \in own : (\A l \in own : k <= l) /\ VersionLeq(entries[k].version, host.version)

\* It may be missing.
Check ==
  /\ i > Len(versions) /\ answer = "none"
  /\ \/ answer' = (IF SystemCheck(versions) THEN "available" ELSE "unavailable")
     \/ answer' = "missing"
  /\ UNCHANGED <<host, asked, versions, i>>

Next == ConvertEntry \/ Check
-------------------------------------------------------------------------------
(* The years of the platforms' versions, to compare the answers with.      *)

\* The version that a platform got in a year's autumn.
VersionOf(platform, year) ==
  CASE platform = "macos" /\ year < 2005               -> <<9, 0, 0>>
    [] platform = "macos" /\ year \in 2005..2019       -> <<10, year - 2004, 0>>
    [] platform = "macos" /\ year \in 2020..2024       -> <<year - 2009, 0, 0>>
    [] platform \in Catalysts /\ year <= 2024          -> <<year - 2006, 0, 0>>
    [] platform \in Watches /\ year <= 2024            -> <<year - 2013, 0, 0>>
    [] platform \in Visions /\ year <= 2024            -> <<year - 2022, 0, 0>>
    [] platform = "bridgeos"                           -> <<year - 2015, 0, 0>>
    [] OTHER                                           -> <<year - 1999, 0, 0>>

\* The names that early betas used.
BetaOf(platform, year) ==
  CASE platform = "macos" /\ year = 2020               -> <<10, 16, 0>>
    [] platform = "macos" /\ year = 2025               -> <<16, 0, 0>>
    [] platform \in Catalysts /\ year = 2025           -> <<19, 0, 0>>
    [] platform \in Watches /\ year = 2025             -> <<12, 0, 0>>
    [] platform \in Visions /\ year = 2025             -> <<3, 0, 0>>
    [] OTHER                                           -> VersionOf(platform, year)

Exists(platform, year) ==
  CASE platform = "macos"       -> TRUE
    [] platform = "bridgeos"    -> year >= 2017
    [] platform = "maccatalyst" -> year >= 2019
    [] platform \in Visions     -> year >= 2023
    [] OTHER                    -> year >= 2015

\* The n-th update of a version.
Update(v, n) == IF v[1] = 10 /\ v[2] > 9 THEN <<v[1], v[2], n>> ELSE <<v[1], n, 0>>
-------------------------------------------------------------------------------
(* Properties.                                                             *)

Answered == answer \in {"available", "unavailable"}

\* Entries converted to bridgeOS, of a year for which the comments promise
\* nothing better than "no".
NewOnBridge(e) == host.platform = "bridgeos" /\ e.platform # "bridgeos" /\ e.year > 2025

\* The year of the device's version that an entry becomes.  The code takes 10
\* from macOS 26 on bridgeOS, which gives bridgeOS 16 of 2031; the comment above
\* it (systemhook/main.c:629) has "macOS 26 -> bridgeOS 10", of 2025.
YearMeant(e) ==
  IF host.platform = "bridgeos" /\ e.platform = "macos" /\ e.version[1] = 26
  THEN 2031 ELSE e.year

\* A check for a version of another platform answers as one for the same
\* year's version of this platform would: yes on a device of a later year, no
\* on one of an earlier year, and yes for the first version of the same year;
\* bridgeOS 11 and later say no to what came with them.  macOS 26 alone counts
\* as a version of another year on bridgeOS, six years late.
\* (_availability_version_check_hook)
AnswerFollowsYear ==
  Answered =>
    LET e == asked[1] IN
    /\ host.year < YearMeant(e) \/ NewOnBridge(e) => answer = "unavailable"
    /\ host.year > YearMeant(e) /\ ~NewOnBridge(e) => answer = "available"
    /\ host.year = YearMeant(e) /\ e.update = 0 /\ ~NewOnBridge(e) => answer = "available"

\* What needs the newer of two versions of a platform needs the newer one
\* afterwards too, updates and betas included, unless the older was before the
\* device's platform existed.  (_availability_version_check_hook)
OrderIsKept ==
  i > 2 /\ asked[1].platform = asked[2].platform
        /\ VersionLeq(asked[1].version, asked[2].version) =>
    \/ VersionLeq(versions[1].version, versions[2].version)
    \/ versions[1].version[1] = PlatformMin(host.platform)

\* A converted version means what it meant: the answer follows the year that
\* the program asked about, and later versions stay later.
\* (_availability_version_check_hook)
VersionsKeepTheirMeaning == AnswerFollowsYear /\ OrderIsKept

===============================================================================
