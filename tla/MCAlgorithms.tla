------------------------------ MODULE MCAlgorithms ------------------------------
(***************************************************************************)
(* The parts that no other process or thread takes part in, over small     *)
(* inputs.  They share no state: a behaviour is one of one of them, and    *)
(* the same variables hold the state of whichever it is.  input is what    *)
(* the part starts from, at how far it is where it counts steps; those it  *)
(* does not need are Idle.  The inputs of the last ten parts are in      *)
(* MCPrograms.                                                             *)
(***************************************************************************)
EXTENDS MCPrograms

CONSTANTS Idle,
          Hosts, Asked,                             \* see Availability
          Images, Page, AdrpBits, BranchBits,       \* see MachO
          Dylds,                                    \* see DyldPatch
          Crashes, Max,                             \* see Backtrace
          Calls,                                    \* see Launchctl
          Procs, Queries,                           \* see ProcessStart
          Texts, Pattern, Back,                     \* see LsdSearch
          Processes, Classes, Super, Nil, Hooks,    \* see Bridgehook
          Commands, Bits, ModeBits, NameOf,         \* see P1ctl
          Boots, Lookups,                           \* see DaemonList
          KernelStrings, ValueOf,                   \* see KernelVersion
          Bytes, LibraryCalls, LongNeedle, LongHaystack,   \* see CLibrary
          Numerals, ULONG_MAX                       \* see Strtoul

VARIABLES part, input, at, v1, v2, v3, v4, v5, v6, v7

Versions  == INSTANCE Availability WITH host <- input, asked <- v1, versions <- v2, i <- v3, answer <- v4
Addresses == INSTANCE MachO WITH image <- input, query <- v1, result <- v2
Patches   == INSTANCE DyldPatch WITH dyld <- input, text <- v1, shc_loc <- v2, found <- v3, phase <- at
Stack     == INSTANCE Backtrace WITH crash <- input, frame <- v1, stacktop <- v2, bt <- v3, report <- v4
Messages  == INSTANCE Launchctl WITH call <- input, msg <- v1, result <- v2
Start     == INSTANCE ProcessStart WITH proc <- input, hooks <- v1, tweaks <- v2, query <- v3, answer <- v4,
                                         extended <- v5, extensions <- v6
Search    == INSTANCE LsdSearch WITH text <- input, mid <- v1, found <- v2
Methods   == INSTANCE Bridgehook WITH process <- input, image <- v1, symbol <- v2, method <- v3,
                                      orig <- v4, placed <- v5
Shell     == INSTANCE P1ctl WITH cmd <- input, options <- v1, typed <- v2, buffer <- v3, bit <- v4,
                                 printed <- v5, sent <- v6, status <- v7
List      == INSTANCE DaemonList WITH boot <- input, flags <- v1, daemons <- v2, paths <- v3, task <- v4,
                                      read <- v5
Kernel    == INSTANCE KernelVersion WITH Strings <- KernelStrings, string <- input, p <- v1, version <- v2
Library   == INSTANCE CLibrary WITH Calls <- LibraryCalls, call <- input, i <- v1, j <- v2, skip <- v3,
                                    mem <- v4, result <- v5
Numbers   == INSTANCE Strtoul WITH call <- input, s <- v1, base <- v2, neg <- v3, acc <- v4, any <- v5,
                                   result <- v6

\* The variables from v_n on.
from2 == <<v2, v3, v4, v5, v6, v7>>
from3 == <<v3, v4, v5, v6, v7>>
from5 == <<v5, v6, v7>>
From5 == v5 = Idle /\ v6 = Idle /\ v7 = Idle
From4 == v4 = Idle /\ From5
From3 == v3 = Idle /\ From4

Init ==
  \/ part = "versions"  /\ Versions!Init  /\ From5 /\ at = Idle
  \/ part = "addresses" /\ Addresses!Init /\ From3 /\ at = Idle
  \/ part = "patches"   /\ Patches!Init   /\ From4
  \/ part = "stack"     /\ Stack!Init     /\ From5
  \/ part = "messages"  /\ Messages!Init  /\ From3 /\ at = Idle
  \/ part = "start"     /\ Start!Init     /\ v7 = Idle
  \/ part = "search"    /\ Search!Init    /\ From3
  \/ part = "methods"   /\ Methods!Init   /\ v6 = Idle /\ v7 = Idle /\ at = Idle
  \/ part = "shell"     /\ Shell!Init
  \/ part = "list"      /\ List!Init      /\ v6 = Idle /\ v7 = Idle
  \/ part = "kernel"    /\ Kernel!Init    /\ From3
  \/ part = "library"   /\ Library!Init   /\ v6 = Idle /\ v7 = Idle
  \/ part = "numbers"   /\ Numbers!Init   /\ v7 = Idle

Next ==
  /\ UNCHANGED part
  /\ \/ part = "versions"  /\ Versions!Next  /\ UNCHANGED <<at, from5>>
     \/ part = "addresses" /\ Addresses!Next /\ UNCHANGED <<at, from3>>
     \/ part = "patches"   /\ Patches!Next   /\ UNCHANGED <<v4, from5>>
     \/ part = "stack"     /\ Stack!Next     /\ UNCHANGED from5
     \/ part = "messages"  /\ Messages!Next  /\ UNCHANGED <<at, from3>>
     \/ part = "start"     /\ Start!Next     /\ UNCHANGED v7
     \/ part = "search"    /\ Search!Next    /\ UNCHANGED from3
     \/ part = "methods"   /\ Methods!Next   /\ UNCHANGED <<at, v6, v7>>
     \/ part = "shell"     /\ Shell!Next
     \/ part = "list"      /\ List!Next      /\ UNCHANGED <<v6, v7>>
     \/ part = "kernel"    /\ Kernel!Next    /\ UNCHANGED from3
     \/ part = "library"   /\ Library!Next   /\ UNCHANGED <<v6, v7>>
     \/ part = "numbers"   /\ Numbers!Next   /\ UNCHANGED v7

Spec == Init /\ [][Next]_<<part, input, at, v1, from2>>
-------------------------------------------------------------------------------
(* The properties of the parts, in their own words.                        *)

\* A converted check answers as one for the same year would, in the same order.
VersionsKeepTheirMeaning == part = "versions" => Versions!VersionsKeepTheirMeaning

\* Branches, pairs of adrp and add, and sizes lead where the code leads.
AddressesAreFound == part = "addresses" => Addresses!AddressesAreFound

\* Every caller is told the platform, by changes to nothing else.
PatchedDyldIsRight == part = "patches" => Patches!PatchedDyldIsRight

\* The walk over a crashed stack stays in it and reports its chain.
BacktraceIsTrue == part = "stack" => Stack!BacktraceIsTrue

\* launchd loads the daemons that were named, or says that it does not.
DaemonsAreLoaded == part = "messages" => Messages!DaemonsAreLoaded

\* Programs get their hooks, and others' calls pass.
HooksFitTheProcess == part = "start" => Start!HooksFitTheProcess

\* A process that sandboxed itself reaches palera1nd as before.
SandboxedReachPalera1nd == part = "start" => Start!SandboxedReachPalera1nd

\* lsd's function is hooked at its first instruction or not at all.
LsdIsHookedRight == part = "search" => Search!LsdIsHookedRight

\* Hooks of one method lead to each other and to the original.
HooksFormAChain == part = "methods" => Methods!HooksFormAChain

\* p1ctl describes, asks for and sends what there is.
P1ctlInventsNothing == part = "shell" => Shell!P1ctlInventsNothing

\* Lookups in launchd's list find what belongs to this boot.
LaunchdGetsItsDaemons == part = "list" => List!LaunchdGetsItsDaemons

\* fakedyld reads the kernel's own version or stops.
SystemIsKnown == part = "kernel" => Kernel!SystemIsKnown

\* fakedyld's own searches, comparisons and copies do what their names promise.
LibraryIsExact == part = "library" => Library!LibraryIsExact

\* The theorems about CLibrary hold for calls of these forms.
ASSUME Library!CallsAreWellformed

\* fakedyld reads decimal and octal numbers, or says that it read none.
NumberIsRead == part = "numbers" => Numbers!NumberIsRead
-------------------------------------------------------------------------------
(* Devices, and what programs ask them about.                              *)

\* Availability's table of releases, which depends on no input.
Table == INSTANCE Availability WITH Hosts <- {}, Asked <- {}, host <- 0, asked <- 0,
                                    versions <- 0, i <- 0, answer <- 0

Phones     == {"ios", "tvos"}
Platforms  == {"macos", "ios", "tvos", "bridgeos", "maccatalyst", "watchos", "visionos"}
HostYears  == {2019, 2023, 2024, 2025, 2026, 2030, 2031}
Years      == {2001, 2015, 2017, 2018, 2019, 2020, 2023, 2024, 2025, 2026}
YearsOf(p) == {y \in Years : Table!Exists(p, y)}

MCHosts ==
  {[platform |-> p, year |-> y, version |-> Table!VersionOf(p, y)] :
     p \in Phones \cup {"bridgeos"}, y \in HostYears}

Entry(p, y, v, n) == [platform |-> p, year |-> y, version |-> v, update |-> n]

EntriesOf(p) ==
  {Entry(p, y, Table!Update(Table!VersionOf(p, y), n), n) : y \in YearsOf(p), n \in 0..1}
    \cup {Entry(p, y, Table!BetaOf(p, y), 0) : y \in YearsOf(p)}

\* A zippered program asks about macOS and Mac Catalyst of one year.
Zippered ==
  {<<Entry("macos", y, Table!VersionOf("macos", y), 0),
     Entry("maccatalyst", y, Table!VersionOf("maccatalyst", y), 0)>> : y \in YearsOf("maccatalyst")}

MCAsked == Zippered \cup UNION {{<<d, e>> : d, e \in EntriesOf(p)} : p \in Platforms}
-------------------------------------------------------------------------------
(* Files with two segments, whose addresses may run ahead of the file, and *)
(* symbol tables in several orders.                                        *)

Section(a, n, o) == [addr |-> a, size |-> n, offset |-> o]
Segment(a, vn, o, fn, sections) ==
  [vmaddr |-> a, vmsize |-> vn, fileoff |-> o, filesize |-> fn, sections |-> sections]

Layout(gap, base) ==
  <<Segment(base, 12, 0, 12, <<Section(base + 2, 6, 2), Section(base + 8, 4, 8)>>),
    Segment(base + 12 + gap, 8, 12, 6, <<Section(base + 12 + gap, 6, 12)>>)>>

Orders == {<<2, 5, 8>>, <<5, 2, 8>>, <<8, 5, 2>>, <<2, 8, 5>>, <<2, 2, 5>>}

MCImages == {[segments |-> Layout(gap, base), length |-> 18, symbols |-> o] :
               gap \in {0, 4}, base \in {0, 16}, o \in Orders}
-------------------------------------------------------------------------------
(* dylds: the sites of the block, the two forms of start, and what is      *)
(* found or missing around them.                                           *)

Word(op, reg, arg, to) == [op |-> op, reg |-> reg, arg |-> arg, to |-> to]
Op(op)   == Word(op, "", "", 0)
Zeros(n) == [x \in 1..n |-> Op("zero")]

Call(op, reg) == Word(op, reg, "", 0)

\* dyld's reading of DYLD_IN_CACHE, placed from a word on: before iOS 16 ...
OldStart(p) ==
  <<Op("mov x0, x19"), Word("bl", "", "findEnvp", 0),
    Word("adrp", "x1", "DYLD_IN_CACHE", 0), Word("add", "x1", "", 0), Word("bl", "", "getenv", 0),
    Word("cbz", "x0", "", p + 10),
    Word("adrp", "x1", "0", 0), Word("add", "x1", "", 0), Word("bl", "", "strcmp", 0),
    Word("cbz", "w0", "", p + 11), Op("cache"), Op("disk")>>

\* ... and after; internalInstall is word 2.
NewStart(p) ==
  <<Word("bl", "", "internal", 2), Word("cbz", "w0", "", p + 15), Op("mov x0, x19"),
    Word("adrp", "x1", "DYLD_IN_CACHE", 0), Word("add", "x1", "", 0), Word("bl", "", "getenv", 0),
    Word("cbz", "x0", "", p + 15), Word("ldrb", "w8", "", 1),
    Word("cmp", "w8", "1", 0), Word("b.eq", "", "", p + 15),
    Word("cmp", "w8", "0", 0), Word("b.ne", "", "", p + 15), Word("ldrb", "w8", "", 2),
    Word("cbz", "w8", "", p + 16), Op("nop"), Op("cache"), Op("disk")>>

StartOf(kind, p) ==
  CASE kind = "old" -> OldStart(p) [] kind = "new" -> NewStart(p) [] OTHER -> <<Op("cache"), Op("ret")>>

\* The functions one after the other, then the zeros at the end of __text and
\* those after it.
File(sites, kind, zeros, beyond, names, cstring, magic, arm64, platform) ==
  LET block == sites \o <<Op("ret")>>
      head  == <<Op("ret"), Op("ret")>> \o block \o <<Op("nop"), Op("ret")>> \o [x \in 1..4 |-> Op("nop")]
      start == StartOf(kind, Len(head) + 1)
      sizes == [internal |-> [at |-> 2, size |-> 1],
                block    |-> [at |-> 3, size |-> Len(block)],
                loadable |-> [at |-> 3 + Len(block), size |-> 2],
                amfi     |-> [at |-> 5 + Len(block), size |-> 4],
                start    |-> [at |-> Len(head) + 1, size |-> Len(start)]]
  IN [magic |-> magic, arm64 |-> arm64, platform |-> platform, cstring |-> cstring,
      symbols |-> [f \in names |-> sizes[f]],
      text |-> head \o start \o Zeros(zeros + beyond) \o <<Op("ret")>>,
      size |-> Len(head) + Len(start) + zeros]

Branches == {Call("br", "r1"), Call("br", "r2"), Call("blr", "r1"), Op("nop")}
Full  == {"internal", "block", "loadable", "amfi", "start"}
Strings == {"AMFI", "DYLD_IN_CACHE"}

ManySites ==
  {File(sites, kind, zeros, beyond, Full, Strings, "macho", TRUE, 2) :
     sites \in UNION {[1..n -> Branches] : n \in 0..3}, kind \in {"old", "new"},
     zeros \in {0, 3, 4, 7, 8, 12, 16, 24}, beyond \in {0, 2}}

ManyFiles ==
  {File(<<Call("blr", "r1")>>, kind, 8, 0, names, cstring, file[1], file[2], platform) :
     kind \in {"old", "new", "other"},
     names \in {Full, Full \ {"block"}, Full \ {"block", "loadable"}, Full \ {"amfi", "internal"}},
     cstring \in {Strings, {"AMFI"}, {"DYLD_IN_CACHE"}, {"no section"}},
     file \in {<<"macho", TRUE>>, <<"fat", TRUE>>, <<"fat", FALSE>>, <<"other", FALSE>>},
     platform \in {0, 2, 11}}

MCDylds == ManySites \cup ManyFiles
===============================================================================
