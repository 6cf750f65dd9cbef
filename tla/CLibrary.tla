-------------------------------- MODULE CLibrary --------------------------------
(***************************************************************************)
(* Loops of the C library that fakedyld brings along: it runs in place of  *)
(* dyld and has no other.  A call looks for bytes in bytes (memmem) or a   *)
(* string in a string (strstr), compares strings (strcmp, strncmp) or      *)
(* copies bytes whose places may overlap (memcpy, memmove).                *)
(***************************************************************************)
EXTENDS Integers, Sequences

CONSTANTS
  Bytes,        \* the values of a byte
  Calls,        \* the calls that are made
  LongNeedle,   \* memmem builds a table for needles of this length (4 in the code)
  LongHaystack  \* in haystacks of this one (256 in the code)

VARIABLES
  call,     \* this call
  at,       \* the loop it is in
  i, j,     \* counters and offsets of that loop
  skip,     \* bad_char_skip: how far a window moves, by its last byte
  mem,      \* what is in memory where the call began with call.one
  result    \* what is returned: an offset, Null or a difference

vars == <<call, at, i, j, skip, mem, result>>

Null == -1
Nul  == 0

\* Strings end before their first Nul, bytes to search are counted.
Strings == Seq(Bytes \ {Nul})

Inside(c) == c.dst + c.n <= Len(c.one) /\ c.src + c.n <= Len(c.one)

Searches == [fn : {"memmem"}, one : Seq(Bytes), two : Seq(Bytes)]
            \cup [fn : {"strstr"}, one : Strings, two : Strings]
Compares == [fn : {"strcmp", "strncmp"}, one : Strings, two : Strings, n : Nat]
Copies   == {c \in [fn : {"memcpy"}, one : Seq(Bytes), dst : Nat, src : Nat, n : Nat] : Inside(c)}

\* What callers keep to.
CallsAreWellformed ==
  /\ Bytes \subseteq Int /\ Nul \in Bytes
  /\ LongNeedle \in Nat /\ LongHaystack \in Nat
  /\ Calls \subseteq Searches \cup Compares \cup Copies

\* Offsets count from 0; the byte after a string's last is its Nul.
Byte(s, k) == s[k + 1]
Char(s, k) == IF k < Len(s) THEN Byte(s, k) ELSE Nul

Hlen == Len(call.one)
Nlen == Len(call.two)
Last == Nlen - 1

Init ==
  /\ call \in Calls
  /\ at = "called" /\ i = 0 /\ j = 0
  /\ skip = [b \in Bytes |-> 0] /\ mem = call.one /\ result = Null

Goto(loop, m, n) == at' = loop /\ i' = m /\ j' = n /\ UNCHANGED <<call, result>>
Return(r)        == at' = "returned" /\ result' = r /\ UNCHANGED <<call, i, j, skip, mem>>

Tabled == Nlen >= LongNeedle /\ Hlen >= LongHaystack

\* memmem, and the first loop of boyermoore_horspool_memmem
Memmem ==
  /\ at = "called" /\ call.fn = "memmem"
  /\ \/ Nlen = 0 /\ Return(0)
     \/ Nlen > 0 /\ Nlen > Hlen /\ Return(Null)
     \/ /\ Nlen \in 1..Hlen /\ Tabled
        /\ skip' = [b \in Bytes |-> Nlen] /\ Goto("table", 0, 0) /\ UNCHANGED mem
     \/ Nlen \in 1..Hlen /\ ~Tabled /\ Goto("naive", 0, 0) /\ UNCHANGED <<skip, mem>>

\* Mutant: the distance is taken from the length.
Distance_FromEnd(k) == Nlen - k
Distance(k) == Last - k

\* A byte that is in the needle twice is as far as its last place.
Table ==
  /\ at = "table" /\ UNCHANGED mem
  /\ \/ /\ j < Last
        /\ skip' = [skip EXCEPT ![Byte(call.two, j)] = Distance(j)] /\ Goto("table", i, j + 1)
     \/ j >= Last /\ Goto("window", 0, j) /\ UNCHANGED skip

Window ==
  /\ at = "window"
  /\ \/ Hlen - i >= Nlen /\ Goto("scan", i, Last) /\ UNCHANGED <<skip, mem>>
     \/ Hlen - i < Nlen /\ Return(Null)

\* From the last byte of the window to its first.
Scan ==
  /\ at = "scan"
  /\ LET same == Byte(call.one, i + j) = Byte(call.two, j) IN
     \/ same /\ j = 0 /\ Return(i)
     \/ same /\ j > 0 /\ Goto("scan", i, j - 1) /\ UNCHANGED <<skip, mem>>
     \/ ~same /\ Goto("window", i + skip[Byte(call.one, i + Last)], j) /\ UNCHANGED <<skip, mem>>

\* i is the byte compared, j how many before it matched; a mismatch returns to
\* the byte after the first of them.
Naive ==
  /\ at = "naive"
  /\ \/ i >= Hlen /\ Return(Null)
     \/ /\ i < Hlen /\ Byte(call.one, i) = Byte(call.two, j)
        /\ \/ j + 1 = Nlen /\ Return(i - Nlen + 1)
           \/ j + 1 # Nlen /\ Goto("naive", i + 1, j + 1) /\ UNCHANGED <<skip, mem>>
     \/ /\ i < Hlen /\ Byte(call.one, i) # Byte(call.two, j)
        /\ Goto("naive", i - j + 1, 0) /\ UNCHANGED <<skip, mem>>

Strstr ==
  /\ at = "called" /\ call.fn = "strstr"
  /\ \/ Char(call.two, 0) = Nul /\ Return(0)
     \/ Char(call.two, 0) # Nul /\ Goto("string", 0, 0) /\ UNCHANGED <<skip, mem>>

\* The outer loop, over the places where the first characters are the same.
String ==
  /\ at = "string"
  /\ LET c == Char(call.one, i) IN
     \/ c = Nul /\ Return(Null)
     \/ /\ c # Nul /\ UNCHANGED <<skip, mem>>
        /\ \/ c # Char(call.two, 0) /\ Goto("string", i + 1, 0)
           \/ c = Char(call.two, 0) /\ Goto("substring", i, 0)

\* The inner loop.
Substring ==
  /\ at = "substring"
  /\ LET b == Char(call.two, j)
         same == Char(call.one, i + j) = b IN
     \/ b = Nul /\ Return(i)
     \/ /\ b # Nul /\ UNCHANGED <<skip, mem>>
        /\ \/ same /\ Goto("substring", i, j + 1)
           \/ ~same /\ Goto("string", i + 1, 0)

\* strncmp counts; strcmp does not.
Counted(k) == call.fn = "strcmp" \/ k < call.n

\* The pointers of a comparison are neither NULL nor the same.
Compare ==
  /\ at = "called" /\ call.fn \in {"strcmp", "strncmp"}
  /\ Goto("compare", 0, 0) /\ UNCHANGED <<skip, mem>>

CompareChar ==
  /\ at = "compare"
  /\ LET c == Char(call.one, j)
         same == c = Char(call.two, j) IN
     \/ ~Counted(j) /\ Return(0)
     \/ Counted(j) /\ same /\ c = Nul /\ Return(0)
     \/ Counted(j) /\ same /\ c # Nul /\ Goto("compare", 0, j + 1) /\ UNCHANGED <<skip, mem>>
     \/ Counted(j) /\ ~same /\ Return(c - Char(call.two, j))

\* Forwards, or backwards to a later place; i bytes are left.
Backwards == call.dst > call.src

Memcpy ==
  /\ at = "called" /\ call.fn = "memcpy"
  /\ Goto("copy", call.n, IF Backwards THEN call.n - 1 ELSE 0) /\ UNCHANGED <<skip, mem>>

CopyByte ==
  /\ at = "copy"
  /\ \/ i = 0 /\ Return(call.dst)
     \/ /\ i > 0 /\ UNCHANGED skip
        /\ mem' = [mem EXCEPT ![call.dst + j + 1] = Byte(mem, call.src + j)]
        /\ Goto("copy", i - 1, IF Backwards THEN j - 1 ELSE j + 1)

Next ==
  \/ Memmem \/ Table \/ Window \/ Scan \/ Naive
  \/ Strstr \/ String \/ Substring
  \/ Compare \/ CompareChar
  \/ Memcpy \/ CopyByte

Spec == Init /\ [][Next]_vars
-------------------------------------------------------------------------------
(* Properties.                                                             *)

Occurs(k) == k + Nlen <= Hlen /\ \A m \in 0..Last : Byte(call.one, k + m) = Byte(call.two, m)

NoneBefore(place) == \A k \in 0..(place - 1) : ~Occurs(k)

First(place) ==
  \/ place \in Nat /\ Occurs(place) /\ NoneBefore(place)
  \/ place = Null /\ \A k \in 0..Hlen : ~Occurs(k)

\* The place that memmem and strstr return is the first, and without one they
\* return Null, whichever loop they take and however far its windows move.
FirstIsFound == at = "returned" /\ call.fn \in {"memmem", "strstr"} => First(result)

Alike(k) == Char(call.one, k) = Char(call.two, k)

Parting(k) == Counted(k) /\ ~Alike(k) /\ \A m \in 0..(k - 1) : Alike(m)

Difference(d) ==
  \/ d = 0 /\ \A k \in 0..Hlen : Counted(k) => Alike(k)
  \/ \E k \in 0..Hlen : Parting(k) /\ d = Char(call.one, k) - Char(call.two, k)

\* strcmp and strncmp answer 0 for strings that agree as far as they are
\* counted, and otherwise the difference where they first part.
StringsAreCompared == at = "returned" /\ call.fn \in {"strcmp", "strncmp"} => Difference(result)

Original(k) == Byte(call.one, k)
Moved(k)    == IF k \in call.dst..(call.dst + call.n - 1) THEN Original(k - call.dst + call.src)
               ELSE Original(k)

Arrived     == \A k \in 0..(Hlen - 1) : Byte(mem, k) = Moved(k)

\* A copy ends with the bytes that were there when it began, though their places
\* overlap, and nothing else is changed, nor by any other call.
BytesAreMoved ==
  /\ call.fn # "memcpy" => mem = call.one
  /\ at = "returned" /\ call.fn = "memcpy" => result = call.dst /\ Arrived

\* No loop reads or writes outside of what it was given, a string's Nul included.
NothingOutside ==
  /\ at = "scan" => i + Last < Hlen /\ j \in 0..Last
  /\ at = "naive" => j \in 0..Last
  /\ at \in {"string", "substring"} => i + j <= Hlen /\ j <= Nlen
  /\ at = "compare" => j <= Hlen /\ j <= Nlen
  /\ at = "copy" /\ i > 0 => j \in 0..(call.n - 1)

\* fakedyld finds, compares and copies what it means to.
\* (memmem, boyermoore_horspool_memmem, strstr, strcmp, strncmp, memcpy)
LibraryIsExact == FirstIsFound /\ StringsAreCompared /\ BytesAreMoved /\ NothingOutside
-------------------------------------------------------------------------------
(* The inductive invariant: what each loop has established so far.         *)

SearchLoops  == {"table", "window", "scan", "naive"}
StringLoops  == {"string", "substring"}

TypeOK ==
  /\ call \in Searches \cup Compares \cup Copies
  /\ at \in {"called", "returned", "compare", "copy"} \cup SearchLoops \cup StringLoops
  /\ i \in Nat /\ j \in Int /\ result \in Int
  /\ skip \in [Bytes -> Nat]
  /\ mem \in Seq(Bytes) /\ Len(mem) = Hlen

\* A loop belongs to its function.
LoopsOfFunctions ==
  /\ at \in SearchLoops => call.fn = "memmem" /\ Nlen \in 1..Hlen
  /\ at \in StringLoops => call.fn = "strstr" /\ Nlen > 0
  /\ at = "compare" => call.fn \in {"strcmp", "strncmp"}
  /\ at = "copy" => call.fn = "memcpy"

Matches(place, first, last) ==
  \A m \in first..last : Byte(call.one, place + m) = Byte(call.two, m)

\* The table never moves a window past the next place of its last byte.
SkipsAreShort(n) ==
  /\ \A b \in Bytes : skip[b] \in 1..Nlen
  /\ \A m \in 0..(n - 1) : skip[Byte(call.two, m)] <= Last - m

Searched ==
  /\ at = "table" => i = 0 /\ j \in 0..Last /\ SkipsAreShort(j)
  /\ at \in {"window", "scan"} => SkipsAreShort(Last) /\ NoneBefore(i)
  /\ at = "scan" => i + Nlen <= Hlen /\ j \in 0..Last /\ Matches(i, j + 1, Last)
  /\ at = "naive" => /\ j \in 0..Last /\ j <= i /\ i <= Hlen
                     /\ Matches(i - j, 0, j - 1) /\ NoneBefore(i - j)
  /\ at \in StringLoops => NoneBefore(i) /\ i <= Hlen
  /\ at = "string" => j = 0
  /\ at = "substring" => i < Hlen /\ j \in 0..Nlen /\ i + j <= Hlen /\ Matches(i, 0, j - 1)

Compared ==
  at = "compare" => /\ j \in 0..Hlen /\ j <= Nlen
                    /\ \A m \in 0..(j - 1) : Counted(m) /\ Alike(m)

\* Of n bytes, left are still to be copied: the last left of them, or the first.
Done(k, left) ==
  IF Backwards THEN k \in (call.dst + left)..(call.dst + call.n - 1)
  ELSE k \in call.dst..(call.dst + call.n - left - 1)

Copied ==
  at = "copy" => /\ i <= call.n
                 /\ j = IF Backwards THEN i - 1 ELSE call.n - i
                 /\ \A k \in 0..(Hlen - 1) :
                      Byte(mem, k) = IF Done(k, i) THEN Moved(k) ELSE Original(k)

IInv ==
  /\ TypeOK
  /\ LoopsOfFunctions
  /\ Searched
  /\ Compared
  /\ Copied
  /\ at = "called" => mem = call.one
  /\ LibraryIsExact
===============================================================================
