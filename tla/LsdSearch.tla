-------------------------------- MODULE LsdSearch --------------------------------
(***************************************************************************)
(* Where lsd's hook goes.  The function is looked up as a symbol; hooking  *)
(* libraries that do not find private symbols make lsdUniversalInit search *)
(* the text of CoreServices for a row of instructions in the middle of the *)
(* function, and from there backwards for its prologue.                    *)
(***************************************************************************)
EXTENDS Integers, Sequences

CONSTANTS
  Texts,    \* what is in memory: instructions from the start of __TEXT, and more
  Pattern,  \* the row of instructions, seven in the code
  Back      \* how far the prologue is looked for, 25 in the code

VARIABLES
  text,     \* this memory
  at,       \* what the search does
  mid,      \* the place of the row
  found     \* the address that will be hooked

vars == <<text, at, mid, found>>

\* Words are numbered from 0.  text has words, size (the length of __TEXT),
\* loaded (is CoreServices in the process?), symbol (where the hooking library
\* finds the function, or Null) and entry (the function, for the properties).
Null == -1

Word(n) == text.words[n + 1]
Count   == Len(Pattern)

Init == text \in Texts /\ at = "symbol" /\ mid = Null /\ found = Null

\* lsdUniversalInit: the symbol decides when it is found.
FindSymbol ==
  /\ at = "symbol"
  /\ found' = text.symbol
  /\ at' = IF text.symbol # Null THEN "hook" ELSE "match"
  /\ UNCHANGED <<text, mid>>

\* Without CoreServices the first image is searched, which has no such row; an
\* image without __TEXT is not searched.
Searchable == text.loaded /\ text.size > 0

MatchesAt(n) == \A k \in 0..(Count - 1) : Word(n + k) = Pattern[k + 1]

\* The scan advances before it compares, and ends Count + 1 words early.
Scanned == 1..(text.size - 1 - Count)

\* find_insn_maskmatch_match: two places are as good as none.
Match ==
  /\ at = "match"
  /\ LET matches == {n \in Scanned : Searchable /\ MatchesAt(n)} IN
     /\ \/ \E n \in matches : matches = {n} /\ mid' = n
        \/ (\A n \in matches : matches # {n}) /\ mid' = Null
     /\ at' = IF mid' = Null THEN "none" ELSE "prologue"
  /\ UNCHANGED <<text, found>>

Near(n) == n \in (mid - Back + 1)..mid

Prologues == {n \in 0..(text.size - 1) : Near(n) /\ Word(n) = "sub sp"}

\* Mutant: pacibsp is not looked for.
Entry_NoPac(n) == n
\* The instruction that signs the return address comes before the prologue.
Entry(n) == IF n > 0 /\ Word(n - 1) = "pacibsp" THEN n - 1 ELSE n

\* find_prev_insn; without a prologue its null pointer is dereferenced.
Prologue ==
  /\ at = "prologue"
  /\ \/ \E n \in Prologues : /\ \A m \in Prologues : m <= n
                             /\ found' = Entry(n) /\ at' = "hook"
     \/ Prologues = {} /\ at' = "fault" /\ UNCHANGED found
  /\ UNCHANGED <<text, mid>>

Next == FindSymbol \/ Match \/ Prologue

Spec == Init /\ [][Next]_vars
-------------------------------------------------------------------------------
(* Properties.                                                             *)

Occurrences == {n \in 0..(text.size - Count) : MatchesAt(n)}
InBody(n)   == n > text.entry /\ n < text.entry + text.length

\* The address that is hooked is the first instruction of the function, with or
\* without a signed return address, when the function lowers the stack pointer
\* once and the row of instructions occurs in no other.
HookIsAtTheEntry ==
  at = "hook" /\ text.lowers = 1 /\ (\A n \in Occurrences : InBody(n)) => found = text.entry

\* Code that merely looks alike leaves lsd as it is: a row that occurs in
\* several places hooks nothing.
TwiceIsNever ==
  at = "hook" /\ text.symbol = Null =>
    \A m, n \in Occurrences \cap Scanned : m = n

\* lsd survives the search when the prologue is near enough to the row.
NearPrologueIsFound ==
  at = "fault" => \A n \in 0..mid : Word(n) = "sub sp" => mid - n >= Back

\* lsd's hook is put in place where it belongs or not at all.
\* (lsdUniversalInit, find__LSServer_RebuildApplicationDatabases)
LsdIsHookedRight == HookIsAtTheEntry /\ TwiceIsNever /\ NearPrologueIsFound
===============================================================================
