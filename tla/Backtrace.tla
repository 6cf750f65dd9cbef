-------------------------------- MODULE Backtrace --------------------------------
(***************************************************************************)
(* The crash reporter's walk over the stack of the thread of launchd that  *)
(* crashed, and the printing of what it found.  The records of a stack     *)
(* hold the address of the next record and a return address; a crash may   *)
(* have left anything in them.  Addresses are counted so that a word takes *)
(* two of them and an odd one is misaligned.                               *)
(***************************************************************************)
EXTENDS Integers, Sequences, FiniteSets

CONSTANTS
  Crashes,  \* stacks: the bounds bot and top, the words, the frame pointer fp
  Max       \* entries in the buffer, 100 in the code

VARIABLES
  crash,    \* this one
  at,       \* what the reporter does
  frame,    \* the record that comes next
  stacktop, \* the limit for records
  bt,       \* the return addresses taken
  report    \* those printed

vars == <<crash, at, frame, stacktop, bt, report>>

Word   == 2
Record == 2 * Word
None   == -1

\* The words of the stack; a record outside them cannot be read.
Words(c) == {a \in c.bot..(c.top - Word) : a % Word = c.bot % Word}
Readable(c, a) == a \in Words(c) /\ a + Word \in Words(c)

NextOf(c, a) == c.mem[a]
Ret(c, a)   == c.mem[a + Word]

INSTACK(a)   == crash.bot <= a /\ a <= stacktop
ISALIGNED(a) == a % Word = 0

\* Mutant: the limit is the top of the stack.
Usable_NoRoom(next) == crash.bot <= next /\ next <= crash.top /\ ISALIGNED(next) /\ next > frame
\* A record after frame is taken when it lies above it in the stack.
Usable(next) == INSTACK(next) /\ ISALIGNED(next) /\ next > frame

Init ==
  /\ crash \in Crashes
  /\ at = "start" /\ frame = crash.fp /\ stacktop = crash.top
  /\ bt = <<>> /\ report = <<>>
-------------------------------------------------------------------------------
(* pthread_backtrace.                                                      *)

\* The first record is read before anything is known about the pointer.
Unreadable ==
  /\ at = "start" /\ ~Readable(crash, frame)
  /\ at' = "fault"
  /\ UNCHANGED <<crash, frame, stacktop, bt, report>>

\* The size of the first frame is kept free at the top, for the return address.
Bound ==
  /\ at = "start" /\ Readable(crash, frame)
  /\ stacktop' = stacktop - (NextOf(crash, frame) - frame)
  /\ at' = "bounded"
  /\ UNCHANGED <<crash, frame, bt, report>>

First ==
  /\ at = "bounded"
  /\ at' = IF INSTACK(frame) /\ ISALIGNED(frame) /\ frame < NextOf(crash, frame)
           THEN "walk" ELSE "dump"
  /\ UNCHANGED <<crash, frame, stacktop, bt, report>>

Take ==
  /\ at = "walk" /\ Len(bt) < Max
  /\ Readable(crash, frame)
  /\ LET next == NextOf(crash, frame) IN
     /\ bt' = Append(bt, Ret(crash, frame))
     /\ IF Usable(next) THEN frame' = next /\ UNCHANGED at ELSE at' = "dump" /\ UNCHANGED frame
  /\ UNCHANGED <<crash, stacktop, report>>

\* A record that reaches beyond the stack: the reporter's thread would fault.
Beyond ==
  /\ at = "walk" /\ Len(bt) < Max /\ ~Readable(crash, frame)
  /\ at' = "fault"
  /\ UNCHANGED <<crash, frame, stacktop, bt, report>>

Full ==
  /\ at = "walk" /\ Len(bt) = Max
  /\ at' = "dump"
  /\ UNCHANGED <<crash, frame, stacktop, bt, report>>
-------------------------------------------------------------------------------
(* crashreporter_dump_mach: the entries up to the first zero.  The buffer  *)
(* is cleared, so that an entry not written ends the report.               *)

Entry(n) == IF n <= Len(bt) THEN bt[n] ELSE 0

Dump ==
  /\ at = "dump" /\ Len(report) < Max /\ Entry(Len(report) + 1) # 0
  /\ report' = Append(report, Entry(Len(report) + 1))
  /\ UNCHANGED <<crash, at, frame, stacktop, bt>>

End ==
  /\ at = "dump" /\ Len(report) < Max /\ Entry(Len(report) + 1) = 0
  /\ at' = "done"
  /\ UNCHANGED <<crash, frame, stacktop, bt, report>>

\* A full buffer has no zero; what follows it in memory may be one or not.
Overread ==
  /\ at = "dump" /\ Len(report) = Max
  /\ at' \in {"done", "overread"}
  /\ UNCHANGED <<crash, frame, stacktop, bt, report>>

Next == Unreadable \/ Bound \/ First \/ Take \/ Beyond \/ Full \/ Dump \/ End \/ Overread

Spec == Init /\ [][Next]_vars
-------------------------------------------------------------------------------
(* Properties.                                                             *)

\* The records in the order of the chain: the first, and the next as long as it
\* lies above its predecessor, is aligned and leaves the size of the first free.
Room(c) == c.top - (NextOf(c, c.fp) - c.fp)

Follows(c, a, b) == b = NextOf(c, a) /\ a < b /\ b % Word = 0 /\ b \in c.bot..Room(c)

Chained(c, s) ==
  \A b \in s : b = c.fp \/ \E a \in s : Follows(c, a, b)

Chain(c) == UNION {s \in SUBSET {a \in Words(c) : Readable(c, a)} : Chained(c, s)}

\* The n-th record of the chain, which ascends.
Nth(s, n) == CHOOSE a \in s : Cardinality({b \in s : b <= a}) = n

\* The walk reads no word outside the stack, whatever a crash left in it: the
\* room kept at the top is enough for the last record.  Only the frame pointer
\* itself is not checked, and a first frame too short for a record.
WalkStaysInStack ==
  at = "fault" =>
    \/ ~Readable(crash, crash.fp)
    \/ NextOf(crash, crash.fp) - crash.fp < Record

\* The report is the chain of return addresses from the frame that crashed, up
\* to the first zero and to the size of the buffer: a damaged stack ends it and
\* never adds anything to it or leaves a frame out in the middle.
ReportIsTheChain ==
  at = "done" /\ crash.bot <= crash.fp /\ crash.fp <= Room(crash) /\ crash.fp < NextOf(crash, crash.fp) =>
    LET chain == Chain(crash)
        Rets(n) == Ret(crash, Nth(chain, n))
        whole == {n \in 1..Cardinality(chain) : n <= Max /\ \A k \in 1..n : Rets(k) # 0}
    IN report = [n \in 1..Cardinality(whole) |-> Rets(n)]

\* The printing leaves the buffer only when as many frames as it has entries
\* were found, which takes a recursion that deep.
OnlyAFullBufferIsOverread ==
  at = "overread" => Cardinality(Chain(crash)) >= Max

\* The report of a crash is about the stack of the thread that crashed.
\* (pthread_backtrace, crashreporter_dump_mach)
BacktraceIsTrue == WalkStaysInStack /\ ReportIsTheChain /\ OnlyAFullBufferIsOverread
===============================================================================
