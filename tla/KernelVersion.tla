------------------------------ MODULE KernelVersion ------------------------------
(***************************************************************************)
(* How fakedyld learns which kernel it runs on: it reads numbers out of    *)
(* the kernel's version string and prepares the root file system for that  *)
(* system.  The string is a sequence of pieces; it can be cut short or be  *)
(* that of another build.                                                  *)
(***************************************************************************)
EXTENDS Integers, Sequences

CONSTANTS
  Strings,  \* version strings
  ValueOf   \* the pieces that are numbers, with their values

VARIABLES
  string,   \* this string
  at,       \* the number read next, "parsed" or "panic"
  p,        \* the piece from which the rest of the string is searched
  version   \* the numbers read

vars == <<string, at, p, version>>

Darwin == "Darwin Kernel Version "
Dot    == "."
Roots  == <<"root:xnu-", "root:xnu_development-", "root:xnu_debug-", "root:xnu_kasan-">>

IsNumber(k) == k <= Len(string) /\ string[k] \in DOMAIN ValueOf
Atoi(k)     == IF IsNumber(k) THEN ValueOf[string[k]] ELSE 0

\* strstr and strchr: the first such piece from p on.
Places(piece) == {k \in p..Len(string) : string[k] = piece}
First(set)    == CHOOSE k \in set : \A m \in set : k <= m

Init ==
  /\ string \in Strings
  /\ at = "darwin" /\ p = 1 /\ version = [major |-> 0, minor |-> 0, revision |-> 0, xnu |-> 0]

Read(field, n, k, next) ==
  /\ version' = [version EXCEPT ![field] = n]
  /\ p' = k /\ at' = next
  /\ UNCHANGED string

\* kver_fail.
Fail == at' = "panic" /\ UNCHANGED <<string, p, version>>

Major ==
  /\ at = "darwin"
  /\ IF Places(Darwin) = {} THEN Fail
     ELSE LET k == First(Places(Darwin)) + 1 IN
          IF Atoi(k) = 0 THEN Fail ELSE Read("major", Atoi(k), k, "minor")

Minor ==
  /\ at = "minor"
  /\ IF Places(Dot) = {} THEN Fail
     ELSE LET k == First(Places(Dot)) + 1 IN Read("minor", Atoi(k), k, "revision")

\* Mutant: the search starts at the dot that was found.
Revision_SameDot ==
  /\ at = "revision"
  /\ LET k == p IN Read("revision", Atoi(k), k, "xnu")
Revision ==
  /\ at = "revision"
  /\ IF Places(Dot) = {} THEN Fail
     ELSE LET k == First(Places(Dot)) + 1 IN Read("revision", Atoi(k), k, "xnu")

Unknown(n) == n = 0

\* The kinds of builds are tried in order.
Xnu ==
  /\ at = "xnu"
  /\ LET kinds == {n \in DOMAIN Roots : Places(Roots[n]) # {}} IN
     IF kinds = {} THEN Fail
     ELSE LET k == First(Places(Roots[First(kinds)])) + 1 IN
          IF Unknown(Atoi(k)) THEN Fail ELSE Read("xnu", Atoi(k), k, "parsed")

Next == Major \/ Minor \/ Revision \/ Xnu

Spec == Init /\ [][Next]_vars
-------------------------------------------------------------------------------
(* Properties.                                                             *)

\* Strings in the form that kernels give: three numbers with dots between them,
\* and the number of the build after its kind.
Wellformed ==
  /\ Len(string) = 9 /\ string[1] = Darwin /\ string[3] = Dot /\ string[5] = Dot
  /\ \A k \in {2, 4, 6, 9} : IsNumber(k)
  /\ \E n \in DOMAIN Roots : string[8] = Roots[n]
  /\ \A k \in 1..Len(string) : string[k] = Dot => k \in {3, 5}

\* Of such a string every number is read, each from its place.
VersionIsTheKernels ==
  at = "parsed" /\ Wellformed =>
    version = [major |-> Atoi(2), minor |-> Atoi(4), revision |-> Atoi(6), xnu |-> Atoi(9)]

\* fakedyld prepares nothing for a system it does not know: from whatever string
\* a version was read, the two numbers it decides by are in it, after what names
\* them.
NoUnknownSystem ==
  at = "parsed" =>
    /\ \E k \in 1..Len(string) : string[k] = Darwin /\ version.major = Atoi(k + 1) /\ Atoi(k + 1) # 0
    /\ \E k \in 1..Len(string), n \in DOMAIN Roots :
         string[k] = Roots[n] /\ version.xnu = Atoi(k + 1) /\ Atoi(k + 1) # 0

\* The root file system is prepared for the kernel that runs, or not at all.
\* (systeminfo)
SystemIsKnown == VersionIsTheKernels /\ NoUnknownSystem
===============================================================================
