---------------------------- MODULE CLibraryProofs ----------------------------
(***************************************************************************)
(* For any bytes, lengths and limits of memmem: what is found is the first *)
(* occurrence, what is compared is compared as far as it goes, and what is *)
(* copied arrives.                                                         *)
(***************************************************************************)
EXTENDS CLibrary, TLAPS

USE DEF SearchLoops, StringLoops, Null, Nul

\* A sequence's length, and its elements counted from 0.
LEMMA Elements ==
  ASSUME NEW S, NEW s \in Seq(S)
  PROVE  Len(s) \in Nat /\ \A k \in 0..(Len(s) - 1) : Byte(s, k) \in S
BY DEF Byte

\* What is known of a call and of the bytes in it.
LEMMA CallFacts ==
  ASSUME CallsAreWellformed, TypeOK
  PROVE  /\ call.one \in Seq(Bytes) /\ Hlen \in Nat
         /\ \A k \in 0..(Hlen - 1) : Byte(call.one, k) \in Bytes /\ Byte(call.one, k) \in Int
         /\ call.fn \in {"memmem", "strstr", "strcmp", "strncmp", "memcpy"}
         /\ call.fn # "memcpy" =>
              /\ call.two \in Seq(Bytes) /\ Nlen \in Nat
              /\ \A k \in 0..Last : Byte(call.two, k) \in Bytes /\ Byte(call.two, k) \in Int
         /\ call.fn \in {"strstr", "strcmp", "strncmp"} =>
              /\ \A k \in 0..(Hlen - 1) : Byte(call.one, k) # Nul
              /\ \A k \in 0..Last : Byte(call.two, k) # Nul
         /\ call.fn \in {"strcmp", "strncmp"} => call.n \in Nat
         /\ call.fn = "memcpy" => call.dst \in Nat /\ call.src \in Nat /\ call.n \in Nat /\ Inside(call)
<1>1. /\ call.one \in Seq(Bytes) /\ call.fn \in {"memmem", "strstr", "strcmp", "strncmp", "memcpy"}
      /\ call.fn # "memcpy" => call.two \in Seq(Bytes)
      /\ call.fn \in {"strstr", "strcmp", "strncmp"} => call.one \in Strings /\ call.two \in Strings
      /\ call.fn \in {"strcmp", "strncmp"} => call.n \in Nat
      /\ call.fn = "memcpy" => call.dst \in Nat /\ call.src \in Nat /\ call.n \in Nat /\ Inside(call)
  <2>1. \A s \in Strings : s \in Seq(Bytes)
    BY DEF Strings
  <2>2. CASE call \in [fn : {"memmem"}, one : Seq(Bytes), two : Seq(Bytes)]
    BY <2>2
  <2>3. CASE call \in [fn : {"strstr"}, one : Strings, two : Strings]
    BY <2>1, <2>3
  <2>4. CASE call \in Compares
    BY <2>1, <2>4 DEF Compares
  <2>5. CASE call \in Copies
    BY <2>5 DEF Copies
  <2>. QED BY <2>2, <2>3, <2>4, <2>5 DEF TypeOK, Searches
<1>2. Hlen \in Nat /\ \A k \in 0..(Hlen - 1) : Byte(call.one, k) \in Bytes
  BY <1>1, Elements DEF Hlen
<1>3. call.fn # "memcpy" => Nlen \in Nat /\ \A k \in 0..Last : Byte(call.two, k) \in Bytes
  BY <1>1, Elements DEF Nlen, Last
<1>4. call.one \in Strings => \A k \in 0..(Hlen - 1) : Byte(call.one, k) # Nul
  BY Elements DEF Hlen, Strings
<1>5. call.two \in Strings => \A k \in 0..Last : Byte(call.two, k) # Nul
  BY Elements DEF Nlen, Last, Strings
<1>6. Bytes \subseteq Int
  BY DEF CallsAreWellformed
<1>. QED BY <1>1, <1>2, <1>3, <1>4, <1>5, <1>6

\* A call that goes on is the same call: what its texts hold stays as it is.
LEMMA SameCall ==
  ASSUME call' = call
  PROVE  /\ Hlen' = Hlen /\ Nlen' = Nlen /\ Last' = Last
         /\ \A k : Occurs(k)' = Occurs(k)
         /\ \A k : Counted(k)' = Counted(k) /\ Alike(k)' = Alike(k)
         /\ \A k : Moved(k)' = Moved(k) /\ Original(k)' = Original(k)
         /\ \A p, m, n : Matches(p, m, n)' = Matches(p, m, n)
         /\ \A p : NoneBefore(p)' = NoneBefore(p) /\ First(p)' = First(p)
         /\ \A d : Difference(d)' = Difference(d)
         /\ Backwards' = Backwards
         /\ \A k, n : Done(k, n)' = Done(k, n)
<1>1. Hlen' = Hlen /\ Nlen' = Nlen /\ Last' = Last /\ Backwards' = Backwards
  BY DEF Hlen, Nlen, Last, Backwards
<1>2. \A k : Occurs(k)' = Occurs(k)
  BY <1>1 DEF Occurs
<1>3. \A k : Counted(k)' = Counted(k) /\ Alike(k)' = Alike(k)
  BY DEF Counted, Alike
<1>4. \A k : Original(k)' = Original(k)
  BY DEF Original
<1>5. \A k : Moved(k)' = Moved(k)
  BY DEF Moved, Original
<1>6. \A p, m, n : Matches(p, m, n)' = Matches(p, m, n)
  BY DEF Matches
<1>7. \A p : NoneBefore(p)' = NoneBefore(p)
  BY <1>2 DEF NoneBefore
<1>8. \A p : First(p)' = First(p)
  BY <1>1, <1>2, <1>7 DEF First
<1>9. \A d : Difference(d)' = Difference(d)
  BY <1>1, <1>3 DEF Difference, Parting
<1>10. \A k, n : Done(k, n)' = Done(k, n)
  BY <1>1 DEF Done
<1>. QED BY <1>1, <1>2, <1>3, <1>4, <1>5, <1>6, <1>7, <1>8, <1>9, <1>10

\* Every function ends with the answer it owes.
LEMMA Returns ==
  ASSUME IInv, NEW r \in Int, Return(r),
         call.fn \in {"memmem", "strstr"} => First(r),
         call.fn \in {"strcmp", "strncmp"} => Difference(r),
         call.fn = "memcpy" => r = call.dst /\ Arrived
  PROVE  IInv'
<1>1. /\ at' = "returned" /\ result' = r /\ call' = call /\ i' = i /\ j' = j
      /\ skip' = skip /\ mem' = mem
  BY DEF Return
<1>2. TypeOK'
  BY <1>1 DEF IInv, TypeOK, Hlen
<1>3. Arrived' = Arrived
  BY <1>1, SameCall DEF Arrived
<1>4. FirstIsFound' /\ StringsAreCompared'
  BY <1>1, SameCall DEF FirstIsFound, StringsAreCompared
<1>5. BytesAreMoved'
  BY <1>1, <1>3 DEF BytesAreMoved, IInv, LibraryIsExact
<1>6. NothingOutside' /\ LoopsOfFunctions' /\ Searched' /\ Compared' /\ Copied'
  BY <1>1 DEF NothingOutside, LoopsOfFunctions, Searched, Compared, Copied
<1>. QED BY <1>1, <1>2, <1>4, <1>5, <1>6 DEF IInv, LibraryIsExact

\* A loop that goes on owes no answer yet.
LEMMA Continues ==
  ASSUME IInv, NEW loop \in {"compare", "copy"} \cup SearchLoops \cup StringLoops,
         NEW m \in Nat, NEW n \in Int, Goto(loop, m, n),
         skip' \in [Bytes -> Nat],
         mem' \in Seq(Bytes), Len(mem') = Hlen, call.fn = "memcpy" \/ mem' = mem
  PROVE  /\ TypeOK' /\ FirstIsFound' /\ StringsAreCompared' /\ BytesAreMoved'
         /\ at' = loop /\ i' = m /\ j' = n /\ call' = call
<1>1. at' = loop /\ i' = m /\ j' = n /\ call' = call /\ result' = result
  BY DEF Goto
<1>2. at' # "returned"
  BY <1>1
<1>3. TypeOK'
  BY <1>1 DEF IInv, TypeOK, Hlen
<1>4. FirstIsFound' /\ StringsAreCompared' /\ BytesAreMoved'
  BY <1>1, <1>2 DEF FirstIsFound, StringsAreCompared, BytesAreMoved, IInv, LibraryIsExact
<1>. QED BY <1>1, <1>3, <1>4

-------------------------------------------------------------------------------
(* The searches.                                                           *)

\* Before memmem chooses a loop nothing has been searched, and its early answers
\* are those of the empty and of the too long needle.  (memmem)
LEMMA MemmemKeeps ==
  ASSUME CallsAreWellformed, IInv, Memmem
  PROVE  IInv'
<1>1. call.fn = "memmem" /\ Hlen \in Nat /\ Nlen \in Nat /\ Last = Nlen - 1 /\ at = "called"
  BY CallFacts DEF Memmem, Last, IInv
<1>2. CASE Nlen = 0 /\ Return(0)
  <2>1. First(0)
    BY <1>1, <1>2 DEF First, Occurs, NoneBefore
  <2>. QED BY <1>1, <1>2, <2>1, Returns
<1>3. CASE Nlen > 0 /\ Nlen > Hlen /\ Return(Null)
  <2>1. First(Null)
    BY <1>1, <1>3 DEF First, Occurs
  <2>. QED BY <1>1, <1>3, <2>1, Returns
<1>4. CASE /\ Nlen \in 1..Hlen /\ Tabled
           /\ skip' = [b \in Bytes |-> Nlen] /\ Goto("table", 0, 0) /\ UNCHANGED mem
  <2>1. skip' \in [Bytes -> Nat] /\ mem' \in Seq(Bytes) /\ Len(mem') = Hlen
    BY <1>1, <1>4, CallFacts DEF TypeOK, IInv
  <2>2. /\ TypeOK' /\ FirstIsFound' /\ StringsAreCompared' /\ BytesAreMoved'
        /\ at' = "table" /\ i' = 0 /\ j' = 0 /\ call' = call
    BY <1>4, <2>1, Continues
  <2>3. LoopsOfFunctions' /\ Compared' /\ Copied' /\ NothingOutside'
    BY <1>1, <1>4, <2>2, SameCall DEF LoopsOfFunctions, Compared, Copied, NothingOutside
  <2>4. Searched'
    BY <1>1, <1>4, <2>2, SameCall DEF Searched, SkipsAreShort
  <2>. QED BY <2>2, <2>3, <2>4 DEF LibraryIsExact, IInv
<1>5. CASE Nlen \in 1..Hlen /\ ~Tabled /\ Goto("naive", 0, 0) /\ UNCHANGED <<skip, mem>>
  <2>1. skip' \in [Bytes -> Nat] /\ mem' \in Seq(Bytes) /\ Len(mem') = Hlen
    BY <1>1, <1>5, CallFacts DEF TypeOK, IInv
  <2>2. /\ TypeOK' /\ FirstIsFound' /\ StringsAreCompared' /\ BytesAreMoved'
        /\ at' = "naive" /\ i' = 0 /\ j' = 0 /\ call' = call
    BY <1>5, <2>1, Continues
  <2>3. LoopsOfFunctions' /\ Compared' /\ Copied' /\ NothingOutside'
    BY <1>1, <1>5, <2>2, SameCall DEF LoopsOfFunctions, Compared, Copied, NothingOutside
  <2>4. Searched'
    BY <1>1, <1>5, <2>2, SameCall DEF Searched, Matches, NoneBefore
  <2>. QED BY <2>2, <2>3, <2>4 DEF LibraryIsExact, IInv
<1>. QED BY <1>2, <1>3, <1>4, <1>5 DEF Memmem

\* The table holds for each byte of the needle at most the distance of its last
\* place from the end.  (boyermoore_horspool_memmem)
LEMMA TableKeeps ==
  ASSUME CallsAreWellformed, IInv, Table
  PROVE  IInv'
<1>1. /\ call.fn = "memmem" /\ Hlen \in Nat /\ Nlen \in 1..Hlen /\ Last = Nlen - 1 /\ at = "table"
      /\ i = 0 /\ j \in 0..Last /\ SkipsAreShort(j) /\ mem' = mem
      /\ skip \in [Bytes -> Nat] /\ mem \in Seq(Bytes) /\ Len(mem) = Hlen
      /\ \A k \in 0..Last : Byte(call.two, k) \in Bytes
  BY CallFacts DEF Table, Last, LoopsOfFunctions, Searched, TypeOK, IInv
<1>2. CASE /\ j < Last
           /\ skip' = [skip EXCEPT ![Byte(call.two, j)] = Distance(j)] /\ Goto("table", i, j + 1)
  <2>1. /\ Distance(j) \in 1..Nlen /\ skip' \in [Bytes -> Nat]
        /\ \A b \in Bytes : skip'[b] = IF b = Byte(call.two, j) THEN Last - j ELSE skip[b]
    BY <1>1, <1>2 DEF Distance
  <2>2. /\ TypeOK' /\ FirstIsFound' /\ StringsAreCompared' /\ BytesAreMoved'
        /\ at' = "table" /\ i' = 0 /\ j' = j + 1 /\ call' = call
    BY <1>1, <1>2, <2>1, Continues
  <2>3. LoopsOfFunctions' /\ Compared' /\ Copied' /\ NothingOutside'
    BY <1>1, <2>2, SameCall DEF LoopsOfFunctions, Compared, Copied, NothingOutside
  <2>4. \A b \in Bytes : skip'[b] \in 1..Nlen
    BY <1>1, <1>2, <2>1 DEF SkipsAreShort
  <2>5. \A m \in 0..j : skip'[Byte(call.two, m)] <= Last - m
    <3>. TAKE m \in 0..j
    <3>1. CASE Byte(call.two, m) = Byte(call.two, j)
      BY <1>1, <1>2, <2>1, <3>1
    <3>2. CASE Byte(call.two, m) # Byte(call.two, j)
      <4>1. m \in 0..(j - 1) /\ Byte(call.two, m) \in Bytes
        BY <1>1, <3>2
      <4>. QED BY <1>1, <2>1, <3>2, <4>1 DEF SkipsAreShort
    <3>. QED BY <3>1, <3>2
  <2>6. SkipsAreShort(j)'
    BY <1>1, <2>2, <2>4, <2>5, SameCall DEF SkipsAreShort
  <2>7. Searched'
    BY <1>1, <1>2, <2>2, <2>6, SameCall DEF Searched
  <2>. QED BY <2>2, <2>3, <2>7 DEF LibraryIsExact, IInv
<1>3. CASE j >= Last /\ Goto("window", 0, j) /\ UNCHANGED skip
  <2>1. /\ TypeOK' /\ FirstIsFound' /\ StringsAreCompared' /\ BytesAreMoved'
        /\ at' = "window" /\ i' = 0 /\ j' = j /\ call' = call
    BY <1>1, <1>3, Continues
  <2>2. LoopsOfFunctions' /\ Compared' /\ Copied' /\ NothingOutside'
    BY <1>1, <2>1, SameCall DEF LoopsOfFunctions, Compared, Copied, NothingOutside
  <2>3. Searched'
    BY <1>1, <1>3, <2>1, SameCall DEF Searched, SkipsAreShort, NoneBefore
  <2>. QED BY <2>1, <2>2, <2>3 DEF LibraryIsExact, IInv
<1>. QED BY <1>2, <1>3 DEF Table

\* Where no window fits any more the needle does not occur.
\* (boyermoore_horspool_memmem)
LEMMA WindowKeeps ==
  ASSUME CallsAreWellformed, IInv, Window
  PROVE  IInv'
<1>1. /\ call.fn = "memmem" /\ Hlen \in Nat /\ Nlen \in 1..Hlen /\ Last = Nlen - 1 /\ at = "window"
      /\ i \in Nat /\ SkipsAreShort(Last) /\ NoneBefore(i)
      /\ skip \in [Bytes -> Nat] /\ mem \in Seq(Bytes) /\ Len(mem) = Hlen
  BY CallFacts DEF Window, Last, LoopsOfFunctions, Searched, TypeOK, IInv
<1>2. CASE Hlen - i >= Nlen /\ Goto("scan", i, Last) /\ UNCHANGED <<skip, mem>>
  <2>1. /\ TypeOK' /\ FirstIsFound' /\ StringsAreCompared' /\ BytesAreMoved'
        /\ at' = "scan" /\ i' = i /\ j' = Last /\ call' = call
    BY <1>1, <1>2, Continues
  <2>2. LoopsOfFunctions' /\ Compared' /\ Copied' /\ NothingOutside'
    BY <1>1, <1>2, <2>1, SameCall DEF LoopsOfFunctions, Compared, Copied, NothingOutside
  <2>3. Searched'
    BY <1>1, <1>2, <2>1, SameCall DEF Searched, SkipsAreShort, NoneBefore, Matches
  <2>. QED BY <2>1, <2>2, <2>3 DEF LibraryIsExact, IInv
<1>3. CASE Hlen - i < Nlen /\ Return(Null)
  <2>1. First(Null)
    <3>1. \A k \in 0..(i - 1) : ~Occurs(k)
      BY <1>1 DEF NoneBefore
    <3>2. \A k \in 0..Hlen : k >= i => ~Occurs(k)
      BY <1>1, <1>3 DEF Occurs
    <3>. QED BY <1>1, <3>1, <3>2 DEF First
  <2>. QED BY <1>1, <1>3, <2>1, Returns
<1>. QED BY <1>2, <1>3 DEF Window

\* A window in which a byte differs is left for one that ends where its last
\* byte next occurs in the needle; those in between cannot match.
\* (boyermoore_horspool_memmem)
LEMMA ScanKeeps ==
  ASSUME CallsAreWellformed, IInv, Scan
  PROVE  IInv'
<1>1. /\ call.fn = "memmem" /\ Hlen \in Nat /\ Nlen \in 1..Hlen /\ Last = Nlen - 1 /\ at = "scan"
      /\ i \in Nat /\ SkipsAreShort(Last) /\ NoneBefore(i)
      /\ i + Nlen <= Hlen /\ j \in 0..Last /\ Matches(i, j + 1, Last)
      /\ skip \in [Bytes -> Nat] /\ mem \in Seq(Bytes) /\ Len(mem) = Hlen
      /\ \A k \in 0..(Hlen - 1) : Byte(call.one, k) \in Bytes
  BY CallFacts DEF Scan, Last, LoopsOfFunctions, Searched, TypeOK, IInv
<1>2. CASE Byte(call.one, i + j) = Byte(call.two, j) /\ j = 0 /\ Return(i)
  <2>1. Occurs(i)
    <3>1. Byte(call.one, i + 0) = Byte(call.two, 0)
      BY <1>2
    <3>2. \A m \in 1..Last : Byte(call.one, i + m) = Byte(call.two, m)
      BY <1>1, <1>2 DEF Matches
    <3>3. \A m \in 0..Last : m = 0 \/ m \in 1..Last
      BY <1>1
    <3>. QED BY <1>1, <3>1, <3>2, <3>3 DEF Occurs
  <2>2. First(i)
    BY <1>1, <2>1 DEF First
  <2>. QED BY <1>1, <1>2, <2>2, Returns
<1>3. CASE /\ Byte(call.one, i + j) = Byte(call.two, j)
           /\ j > 0 /\ Goto("scan", i, j - 1) /\ UNCHANGED <<skip, mem>>
  <2>1. /\ TypeOK' /\ FirstIsFound' /\ StringsAreCompared' /\ BytesAreMoved'
        /\ at' = "scan" /\ i' = i /\ j' = j - 1 /\ call' = call
    BY <1>1, <1>3, Continues
  <2>2. LoopsOfFunctions' /\ Compared' /\ Copied' /\ NothingOutside'
    BY <1>1, <1>3, <2>1, SameCall DEF LoopsOfFunctions, Compared, Copied, NothingOutside
  <2>3. Matches(i, j, Last)
    BY <1>1, <1>3 DEF Matches
  <2>4. Matches(i, j + 1, Last)'
    BY <1>1, <2>1, <2>3 DEF Matches, Last, Nlen
  <2>5. Searched'
    BY <1>1, <1>3, <2>1, <2>4, SameCall DEF Searched, SkipsAreShort, NoneBefore
  <2>. QED BY <2>1, <2>2, <2>5 DEF LibraryIsExact, IInv
<1>4. CASE /\ Byte(call.one, i + j) # Byte(call.two, j)
           /\ Goto("window", i + skip[Byte(call.one, i + Last)], j) /\ UNCHANGED <<skip, mem>>
  <2> DEFINE b == Byte(call.one, i + Last)
             n == i + skip[b]
  <2>1. b \in Bytes /\ skip[b] \in 1..Nlen
    BY <1>1 DEF SkipsAreShort
  <2>2. \A k \in 0..(n - 1) : ~Occurs(k)
    <3>. TAKE k \in 0..(n - 1)
    <3>1. CASE k < i
      BY <1>1, <3>1 DEF NoneBefore
    <3>2. CASE k = i
      BY <1>1, <1>4, <3>2 DEF Occurs
    <3>3. CASE k > i
      <4>1. PICK m \in 0..(Last - 1) : k + m = i + Last
        <5>1. Last - (k - i) \in 0..(Last - 1) /\ k + (Last - (k - i)) = i + Last
          BY <1>1, <2>1, <3>3
        <5>. QED BY <5>1
      <4>2. SUFFICES ASSUME Occurs(k) PROVE FALSE
        OBVIOUS
      <4>3. Byte(call.two, m) = b
        <5>1. Byte(call.one, k + m) = Byte(call.two, m)
          BY <1>1, <4>1, <4>2 DEF Occurs
        <5>. QED BY <4>1, <5>1
      <4>4. skip[b] <= Last - m
        BY <1>1, <4>1, <4>3 DEF SkipsAreShort
      <4>. QED BY <1>1, <2>1, <3>3, <4>1, <4>4
    <3>. QED BY <1>1, <2>1, <3>1, <3>2, <3>3
  <2>3. /\ TypeOK' /\ FirstIsFound' /\ StringsAreCompared' /\ BytesAreMoved'
        /\ at' = "window" /\ i' = n /\ j' = j /\ call' = call
    <3>1. n \in Nat /\ j \in Int
      BY <1>1, <2>1
    <3>2. Goto("window", n, j)
      BY <1>4
    <3> HIDE DEF n
    <3>. QED BY <1>1, <1>4, <3>1, <3>2, Continues
  <2>4. LoopsOfFunctions' /\ Compared' /\ Copied' /\ NothingOutside'
    BY <1>1, <2>3, SameCall DEF LoopsOfFunctions, Compared, Copied, NothingOutside
  <2> HIDE DEF n
  <2>5. NoneBefore(i)'
    BY <2>2, <2>3, SameCall DEF NoneBefore
  <2>6. SkipsAreShort(Last)'
    BY <1>1, <1>4, <2>3, SameCall DEF SkipsAreShort
  <2>7. Searched'
    BY <2>3, <2>5, <2>6, SameCall DEF Searched
  <2>. QED BY <2>3, <2>4, <2>7 DEF LibraryIsExact, IInv
<1>. QED BY <1>1, <1>2, <1>3, <1>4 DEF Scan

\* The bytes that matched begin at i - j, and no earlier place has the needle; a
\* mismatch rules out that one and goes on with the next.  (memmem)
LEMMA NaiveKeeps ==
  ASSUME CallsAreWellformed, IInv, Naive
  PROVE  IInv'
<1>1. /\ call.fn = "memmem" /\ Hlen \in Nat /\ Nlen \in 1..Hlen /\ Last = Nlen - 1 /\ at = "naive"
      /\ i \in Nat /\ j \in 0..Last /\ j <= i /\ i <= Hlen
      /\ Matches(i - j, 0, j - 1) /\ NoneBefore(i - j)
      /\ skip \in [Bytes -> Nat] /\ mem \in Seq(Bytes) /\ Len(mem) = Hlen
  BY CallFacts DEF Naive, Last, LoopsOfFunctions, Searched, TypeOK, IInv
<1>2. CASE i >= Hlen /\ Return(Null)
  <2>1. \A k \in 0..(i - j - 1) : ~Occurs(k)
    BY <1>1 DEF NoneBefore
  <2>2. \A k \in 0..Hlen : k >= i - j => ~Occurs(k)
    BY <1>1, <1>2 DEF Occurs
  <2>3. First(Null)
    BY <1>1, <2>1, <2>2 DEF First
  <2>. QED BY <1>1, <1>2, <2>3, Returns
<1>3. CASE /\ i < Hlen /\ Byte(call.one, i) = Byte(call.two, j)
           /\ j + 1 = Nlen /\ Return(i - Nlen + 1)
  <2>1. i - Nlen + 1 = i - j /\ i - j \in Nat
    BY <1>1, <1>3
  <2>2. Occurs(i - j)
    <3>1. Byte(call.one, (i - j) + j) = Byte(call.two, j)
      BY <1>1, <1>3
    <3>2. \A m \in 0..(j - 1) : Byte(call.one, (i - j) + m) = Byte(call.two, m)
      BY <1>1 DEF Matches
    <3>3. \A m \in 0..Last : m = j \/ m \in 0..(j - 1)
      BY <1>1, <1>3
    <3>4. (i - j) + Nlen <= Hlen
      BY <1>1, <1>3
    <3>. QED BY <3>1, <3>2, <3>3, <3>4 DEF Occurs
  <2>3. First(i - Nlen + 1)
    BY <1>1, <2>1, <2>2 DEF First
  <2>. QED BY <1>1, <1>3, <2>3, Returns
<1>4. CASE /\ i < Hlen /\ Byte(call.one, i) = Byte(call.two, j)
           /\ j + 1 # Nlen /\ Goto("naive", i + 1, j + 1) /\ UNCHANGED <<skip, mem>>
  <2>1. /\ TypeOK' /\ FirstIsFound' /\ StringsAreCompared' /\ BytesAreMoved'
        /\ at' = "naive" /\ i' = i + 1 /\ j' = j + 1 /\ call' = call
    BY <1>1, <1>4, Continues
  <2>2. LoopsOfFunctions' /\ Compared' /\ Copied' /\ NothingOutside'
    BY <1>1, <1>4, <2>1, SameCall DEF LoopsOfFunctions, Compared, Copied, NothingOutside
  <2>3. i' - j' = i - j /\ j' - 1 = j
    BY <1>1, <2>1
  <2>4. Matches(i - j, 0, j)
    <3>1. \A m \in 0..(j - 1) : Byte(call.one, (i - j) + m) = Byte(call.two, m)
      BY <1>1 DEF Matches
    <3>2. Byte(call.one, (i - j) + j) = Byte(call.two, j)
      BY <1>1, <1>4
    <3>3. \A m \in 0..j : m = j \/ m \in 0..(j - 1)
      BY <1>1
    <3>. QED BY <3>1, <3>2, <3>3 DEF Matches
  <2>5. Matches(i - j, 0, j - 1)' /\ NoneBefore(i - j)'
    BY <1>1, <2>1, <2>3, <2>4, SameCall DEF NoneBefore, Matches
  <2>6. Searched'
    BY <1>1, <1>4, <2>1, <2>5, SameCall DEF Searched
  <2>. QED BY <2>1, <2>2, <2>6 DEF LibraryIsExact, IInv
<1>5. CASE /\ i < Hlen /\ Byte(call.one, i) # Byte(call.two, j)
           /\ Goto("naive", i - j + 1, 0) /\ UNCHANGED <<skip, mem>>
  <2>1. /\ TypeOK' /\ FirstIsFound' /\ StringsAreCompared' /\ BytesAreMoved'
        /\ at' = "naive" /\ i' = i - j + 1 /\ j' = 0 /\ call' = call
    BY <1>1, <1>5, Continues
  <2>2. LoopsOfFunctions' /\ Compared' /\ Copied' /\ NothingOutside'
    BY <1>1, <1>5, <2>1, SameCall DEF LoopsOfFunctions, Compared, Copied, NothingOutside
  <2>3. ~Occurs(i - j)
    BY <1>1, <1>5 DEF Occurs
  <2>4. \A k \in 0..(i - j) : ~Occurs(k)
    BY <1>1, <2>3 DEF NoneBefore
  <2>5. Matches(i - j, 0, j - 1)' /\ NoneBefore(i - j)'
    BY <1>1, <2>1, <2>4, SameCall DEF NoneBefore, Matches
  <2>6. Searched'
    BY <1>1, <1>5, <2>1, <2>5, SameCall DEF Searched
  <2>. QED BY <2>1, <2>2, <2>6 DEF LibraryIsExact, IInv
<1>. QED BY <1>1, <1>2, <1>3, <1>4, <1>5 DEF Naive

\* The empty string is found at once, and nothing is searched yet.  (strstr)
LEMMA StrstrKeeps ==
  ASSUME CallsAreWellformed, IInv, Strstr
  PROVE  IInv'
<1>1. /\ call.fn = "strstr" /\ Hlen \in Nat /\ Nlen \in Nat /\ Last = Nlen - 1 /\ at = "called"
      /\ \A k \in 0..Last : Byte(call.two, k) # Nul
      /\ skip \in [Bytes -> Nat] /\ mem \in Seq(Bytes) /\ Len(mem) = Hlen
  BY CallFacts DEF Strstr, Last, TypeOK, IInv
<1>2. Char(call.two, 0) = Nul <=> Nlen = 0
  BY <1>1 DEF Char, Nlen
<1>3. CASE Char(call.two, 0) = Nul /\ Return(0)
  <2>1. First(0)
    BY <1>1, <1>2, <1>3 DEF First, Occurs, NoneBefore
  <2>. QED BY <1>1, <1>3, <2>1, Returns
<1>4. CASE Char(call.two, 0) # Nul /\ Goto("string", 0, 0) /\ UNCHANGED <<skip, mem>>
  <2>1. /\ TypeOK' /\ FirstIsFound' /\ StringsAreCompared' /\ BytesAreMoved'
        /\ at' = "string" /\ i' = 0 /\ j' = 0 /\ call' = call
    BY <1>1, <1>4, Continues
  <2>2. LoopsOfFunctions' /\ Compared' /\ Copied' /\ NothingOutside'
    BY <1>1, <1>2, <1>4, <2>1, SameCall DEF LoopsOfFunctions, Compared, Copied, NothingOutside
  <2>3. Searched'
    BY <1>1, <1>4, <2>1, SameCall DEF Searched, NoneBefore
  <2>. QED BY <2>1, <2>2, <2>3 DEF LibraryIsExact, IInv
<1>. QED BY <1>3, <1>4 DEF Strstr

\* A place whose first character differs is none, and at the end of the string
\* there is no room for another.  (strstr)
LEMMA StringKeeps ==
  ASSUME CallsAreWellformed, IInv, String
  PROVE  IInv'
<1>1. /\ call.fn = "strstr" /\ Hlen \in Nat /\ Nlen \in Nat /\ Nlen > 0 /\ Last = Nlen - 1
      /\ at = "string" /\ i \in Nat /\ i <= Hlen /\ j = 0 /\ NoneBefore(i)
      /\ \A k \in 0..(Hlen - 1) : Byte(call.one, k) # Nul
      /\ skip \in [Bytes -> Nat] /\ mem \in Seq(Bytes) /\ Len(mem) = Hlen
  BY CallFacts DEF String, Last, LoopsOfFunctions, Searched, TypeOK, IInv
<1>2. Char(call.one, i) = IF i < Hlen THEN Byte(call.one, i) ELSE Nul
  BY DEF Char, Hlen
<1>3. Char(call.two, 0) = Byte(call.two, 0)
  BY <1>1 DEF Char, Nlen
<1>4. \A k \in 0..(i - 1) : ~Occurs(k)
  BY <1>1 DEF NoneBefore
<1>5. CASE Char(call.one, i) = Nul /\ Return(Null)
  <2>1. i = Hlen
    BY <1>1, <1>2, <1>5
  <2>2. \A k \in 0..Hlen : k >= i => ~Occurs(k)
    BY <1>1, <2>1 DEF Occurs
  <2>3. First(Null)
    BY <1>1, <1>4, <2>2 DEF First
  <2>. QED BY <1>1, <1>5, <2>3, Returns
<1>6. CASE /\ Char(call.one, i) # Nul /\ Char(call.one, i) # Char(call.two, 0)
           /\ Goto("string", i + 1, 0) /\ UNCHANGED <<skip, mem>>
  <2>1. /\ TypeOK' /\ FirstIsFound' /\ StringsAreCompared' /\ BytesAreMoved'
        /\ at' = "string" /\ i' = i + 1 /\ j' = 0 /\ call' = call
    BY <1>1, <1>6, Continues
  <2>2. i < Hlen /\ Byte(call.one, i + 0) # Byte(call.two, 0)
    BY <1>1, <1>2, <1>3, <1>6
  <2>3. LoopsOfFunctions' /\ Compared' /\ Copied' /\ NothingOutside'
    BY <1>1, <2>1, <2>2, SameCall DEF LoopsOfFunctions, Compared, Copied, NothingOutside
  <2>4. ~Occurs(i)
    BY <1>1, <2>2 DEF Occurs
  <2>5. \A k \in 0..i : ~Occurs(k)
    BY <1>1, <1>4, <2>4
  <2>6. NoneBefore(i)'
    BY <1>1, <2>1, <2>5, SameCall DEF NoneBefore
  <2>7. Searched'
    BY <1>1, <2>1, <2>2, <2>6, SameCall DEF Searched
  <2>. QED BY <2>1, <2>3, <2>7 DEF LibraryIsExact, IInv
<1>7. CASE /\ Char(call.one, i) # Nul /\ Char(call.one, i) = Char(call.two, 0)
           /\ Goto("substring", i, 0) /\ UNCHANGED <<skip, mem>>
  <2>1. /\ TypeOK' /\ FirstIsFound' /\ StringsAreCompared' /\ BytesAreMoved'
        /\ at' = "substring" /\ i' = i /\ j' = 0 /\ call' = call
    BY <1>1, <1>7, Continues
  <2>2. i < Hlen
    BY <1>1, <1>2, <1>7
  <2>3. LoopsOfFunctions' /\ Compared' /\ Copied' /\ NothingOutside'
    BY <1>1, <2>1, <2>2, SameCall DEF LoopsOfFunctions, Compared, Copied, NothingOutside
  <2>4. NoneBefore(i)'
    BY <1>1, <1>4, <2>1, SameCall DEF NoneBefore
  <2>5. Searched'
    BY <1>1, <2>1, <2>2, <2>4, SameCall DEF Searched, Matches
  <2>. QED BY <2>1, <2>3, <2>5 DEF LibraryIsExact, IInv
<1>. QED BY <1>5, <1>6, <1>7 DEF String

\* The end of the substring is reached where all of it matched; the end of the
\* string before that is a mismatch.  (strstr)
LEMMA SubstringKeeps ==
  ASSUME CallsAreWellformed, IInv, Substring
  PROVE  IInv'
<1>1. /\ call.fn = "strstr" /\ Hlen \in Nat /\ Nlen \in Nat /\ Nlen > 0 /\ Last = Nlen - 1
      /\ at = "substring" /\ i \in Nat /\ i < Hlen /\ j \in 0..Nlen /\ i + j <= Hlen
      /\ NoneBefore(i) /\ Matches(i, 0, j - 1)
      /\ \A k \in 0..(Hlen - 1) : Byte(call.one, k) # Nul
      /\ \A k \in 0..Last : Byte(call.two, k) # Nul
      /\ skip \in [Bytes -> Nat] /\ mem \in Seq(Bytes) /\ Len(mem) = Hlen
  BY CallFacts DEF Substring, Last, LoopsOfFunctions, Searched, TypeOK, IInv
<1>2. Char(call.one, i + j) = IF i + j < Hlen THEN Byte(call.one, i + j) ELSE Nul
  BY DEF Char, Hlen
<1>3. Char(call.two, j) = IF j < Nlen THEN Byte(call.two, j) ELSE Nul
  BY DEF Char, Nlen
<1>4. \A k \in 0..(i - 1) : ~Occurs(k)
  BY <1>1 DEF NoneBefore
<1>5. CASE Char(call.two, j) = Nul /\ Return(i)
  <2>1. j = Nlen
    BY <1>1, <1>3, <1>5
  <2>2. Occurs(i)
    BY <1>1, <2>1 DEF Occurs, Matches
  <2>3. First(i)
    BY <1>1, <2>2 DEF First
  <2>. QED BY <1>1, <1>5, <2>3, Returns
<1>6. CASE /\ Char(call.two, j) # Nul /\ Char(call.one, i + j) = Char(call.two, j)
           /\ Goto("substring", i, j + 1) /\ UNCHANGED <<skip, mem>>
  <2>1. /\ TypeOK' /\ FirstIsFound' /\ StringsAreCompared' /\ BytesAreMoved'
        /\ at' = "substring" /\ i' = i /\ j' = j + 1 /\ call' = call
    BY <1>1, <1>6, Continues
  <2>2. j < Nlen /\ i + j < Hlen /\ Byte(call.one, i + j) = Byte(call.two, j)
    BY <1>1, <1>2, <1>3, <1>6
  <2>3. LoopsOfFunctions' /\ Compared' /\ Copied' /\ NothingOutside'
    BY <1>1, <2>1, <2>2, SameCall DEF LoopsOfFunctions, Compared, Copied, NothingOutside
  <2>4. \A m \in 0..j : Byte(call.one, i + m) = Byte(call.two, m)
    <3>1. \A m \in 0..(j - 1) : Byte(call.one, i + m) = Byte(call.two, m)
      BY <1>1 DEF Matches
    <3>2. \A m \in 0..j : m = j \/ m \in 0..(j - 1)
      BY <1>1
    <3>. QED BY <2>2, <3>1, <3>2
  <2>5. Matches(i, 0, j - 1)' /\ NoneBefore(i)'
    BY <1>1, <1>4, <2>1, <2>4, SameCall DEF NoneBefore, Matches
  <2>6. Searched'
    BY <1>1, <2>1, <2>2, <2>5, SameCall DEF Searched
  <2>. QED BY <2>1, <2>3, <2>6 DEF LibraryIsExact, IInv
<1>7. CASE /\ Char(call.two, j) # Nul /\ Char(call.one, i + j) # Char(call.two, j)
           /\ Goto("string", i + 1, 0) /\ UNCHANGED <<skip, mem>>
  <2>1. /\ TypeOK' /\ FirstIsFound' /\ StringsAreCompared' /\ BytesAreMoved'
        /\ at' = "string" /\ i' = i + 1 /\ j' = 0 /\ call' = call
    BY <1>1, <1>7, Continues
  <2>2. j \in 0..Last /\ (i + j >= Hlen \/ Byte(call.one, i + j) # Byte(call.two, j))
    BY <1>1, <1>2, <1>3, <1>7
  <2>3. LoopsOfFunctions' /\ Compared' /\ Copied' /\ NothingOutside'
    BY <1>1, <2>1, SameCall DEF LoopsOfFunctions, Compared, Copied, NothingOutside
  <2>4. ~Occurs(i)
    BY <1>1, <2>2 DEF Occurs
  <2>5. \A k \in 0..i : ~Occurs(k)
    BY <1>1, <1>4, <2>4
  <2>6. NoneBefore(i)'
    BY <1>1, <2>1, <2>5, SameCall DEF NoneBefore
  <2>7. Searched'
    BY <1>1, <2>1, <2>6, SameCall DEF Searched
  <2>. QED BY <2>1, <2>3, <2>7 DEF LibraryIsExact, IInv
<1>. QED BY <1>5, <1>6, <1>7 DEF Substring
-------------------------------------------------------------------------------
(* Comparisons and copies.                                                 *)

\* A comparison begins at the first characters.  (strcmp, strncmp)
LEMMA CompareKeeps ==
  ASSUME CallsAreWellformed, IInv, Compare
  PROVE  IInv'
<1>1. /\ call.fn \in {"strcmp", "strncmp"} /\ Hlen \in Nat /\ Nlen \in Nat /\ at = "called"
      /\ skip \in [Bytes -> Nat] /\ mem \in Seq(Bytes) /\ Len(mem) = Hlen
      /\ Goto("compare", 0, 0) /\ skip' = skip /\ mem' = mem
  BY CallFacts DEF Compare, TypeOK, IInv
<1>2. /\ TypeOK' /\ FirstIsFound' /\ StringsAreCompared' /\ BytesAreMoved'
      /\ at' = "compare" /\ i' = 0 /\ j' = 0 /\ call' = call
  BY <1>1, Continues
<1>3. LoopsOfFunctions' /\ Searched' /\ Copied' /\ NothingOutside'
  BY <1>1, <1>2, SameCall DEF LoopsOfFunctions, Searched, Copied, NothingOutside
<1>4. Compared'
  BY <1>1, <1>2, SameCall DEF Compared
<1>. QED BY <1>2, <1>3, <1>4 DEF LibraryIsExact, IInv

\* The characters before the one compared are counted, alike and no Nul, so it
\* is within both strings.  (strcmp, strncmp)
LEMMA CompareCharKeeps ==
  ASSUME CallsAreWellformed, IInv, CompareChar
  PROVE  IInv'
<1>1. /\ call.fn \in {"strcmp", "strncmp"} /\ Hlen \in Nat /\ Nlen \in Nat /\ Last = Nlen - 1
      /\ at = "compare" /\ j \in 0..Hlen /\ j <= Nlen /\ call.n \in Nat
      /\ \A k \in 0..(Hlen - 1) : Byte(call.one, k) # Nul /\ Byte(call.one, k) \in Int
      /\ \A k \in 0..Last : Byte(call.two, k) # Nul /\ Byte(call.two, k) \in Int
      /\ skip \in [Bytes -> Nat] /\ mem \in Seq(Bytes) /\ Len(mem) = Hlen
  BY CallFacts DEF CompareChar, Last, LoopsOfFunctions, Compared, TypeOK, IInv
<1>2. \A m \in 0..(j - 1) : Counted(m) /\ Alike(m)
  BY <1>1 DEF Compared, IInv
<1>3. Char(call.one, j) = IF j < Hlen THEN Byte(call.one, j) ELSE Nul
  BY DEF Char, Hlen
<1>4. Char(call.two, j) = IF j < Nlen THEN Byte(call.two, j) ELSE Nul
  BY DEF Char, Nlen
<1>5. \A m \in 0..Hlen : m \in 0..(j - 1) \/ m >= j
  BY <1>1
<1>6. CASE ~Counted(j) /\ Return(0)
  <2>1. \A m \in 0..Hlen : m >= j => ~Counted(m)
    BY <1>1, <1>6 DEF Counted
  <2>2. Difference(0)
    BY <1>2, <1>5, <2>1 DEF Difference
  <2>. QED BY <1>1, <1>6, <2>2, Returns
<1>7. CASE Counted(j) /\ Alike(j) /\ Char(call.one, j) = Nul /\ Return(0)
  <2>1. j = Hlen
    BY <1>1, <1>3, <1>7
  <2>2. \A m \in 0..Hlen : Alike(m)
    BY <1>1, <1>2, <1>5, <1>7, <2>1
  <2>3. Difference(0)
    BY <2>2 DEF Difference
  <2>4. Return(0) /\ call.fn \notin {"memmem", "strstr", "memcpy"}
    BY <1>1, <1>7
  <2>. QED BY <2>3, <2>4, Returns
<1>8. CASE /\ Counted(j) /\ Alike(j) /\ Char(call.one, j) # Nul
           /\ Goto("compare", 0, j + 1) /\ UNCHANGED <<skip, mem>>
  <2>1. /\ TypeOK' /\ FirstIsFound' /\ StringsAreCompared' /\ BytesAreMoved'
        /\ at' = "compare" /\ i' = 0 /\ j' = j + 1 /\ call' = call
    BY <1>1, <1>8, Continues
  <2>2. j < Hlen /\ j < Nlen
    BY <1>1, <1>3, <1>4, <1>8 DEF Alike
  <2>3. LoopsOfFunctions' /\ Searched' /\ Copied' /\ NothingOutside'
    BY <1>1, <2>1, <2>2, SameCall DEF LoopsOfFunctions, Searched, Copied, NothingOutside
  <2>4. \A m \in 0..j : Counted(m) /\ Alike(m)
    BY <1>1, <1>2, <1>8
  <2>5. Compared'
    BY <1>1, <2>1, <2>2, <2>4, SameCall DEF Compared
  <2>. QED BY <2>1, <2>3, <2>5 DEF LibraryIsExact, IInv
<1>9. CASE Counted(j) /\ ~Alike(j) /\ Return(Char(call.one, j) - Char(call.two, j))
  <2>1. Parting(j)
    BY <1>2, <1>9 DEF Parting
  <2>2. Difference(Char(call.one, j) - Char(call.two, j))
    BY <1>1, <2>1 DEF Difference
  <2>3. Char(call.one, j) - Char(call.two, j) \in Int
    BY <1>1, <1>3, <1>4
  <2>. QED BY <1>1, <1>9, <2>2, <2>3, Returns
<1>. QED BY <1>6, <1>7, <1>8, <1>9 DEF CompareChar, Alike

\* Nothing is copied yet, and memory is as it was.  (memcpy)
LEMMA MemcpyKeeps ==
  ASSUME CallsAreWellformed, IInv, Memcpy
  PROVE  IInv'
<1>1. /\ call.fn = "memcpy" /\ Hlen \in Nat /\ at = "called"
      /\ call.n \in Nat /\ call.dst \in Nat /\ call.src \in Nat /\ Inside(call)
      /\ skip \in [Bytes -> Nat] /\ mem \in Seq(Bytes) /\ Len(mem) = Hlen /\ mem = call.one
      /\ Goto("copy", call.n, IF Backwards THEN call.n - 1 ELSE 0) /\ skip' = skip /\ mem' = mem
  BY CallFacts DEF Memcpy, TypeOK, IInv
<1>2. /\ TypeOK' /\ FirstIsFound' /\ StringsAreCompared' /\ BytesAreMoved'
      /\ at' = "copy" /\ i' = call.n /\ j' = (IF Backwards THEN call.n - 1 ELSE 0) /\ call' = call
  <2>1. (IF Backwards THEN call.n - 1 ELSE 0) \in Int
    BY <1>1
  <2>. QED BY <1>1, <2>1, Continues
<1>3. LoopsOfFunctions' /\ Searched' /\ Compared' /\ NothingOutside'
  BY <1>1, <1>2, SameCall DEF LoopsOfFunctions, Searched, Compared, NothingOutside
<1>4. \A k : ~Done(k, call.n)
  BY <1>1 DEF Done
<1>5. \A k : Byte(mem', k) = Original(k)
  BY <1>1 DEF Original
<1>6. Copied'
  BY <1>1, <1>2, <1>4, <1>5, SameCall DEF Copied
<1>. QED BY <1>2, <1>3, <1>6 DEF LibraryIsExact, IInv

\* The byte that is read was not yet written: a copy to a later place goes
\* backwards.  (memcpy)
LEMMA CopyByteKeeps ==
  ASSUME CallsAreWellformed, IInv, CopyByte
  PROVE  IInv'
<1>1. /\ call.fn = "memcpy" /\ Hlen \in Nat /\ at = "copy" /\ i \in Nat /\ i <= call.n
      /\ call.n \in Nat /\ call.dst \in Nat /\ call.src \in Nat
      /\ call.dst + call.n <= Hlen /\ call.src + call.n <= Hlen
      /\ j = (IF Backwards THEN i - 1 ELSE call.n - i)
      /\ skip \in [Bytes -> Nat] /\ mem \in Seq(Bytes) /\ Len(mem) = Hlen
      /\ \A k \in 0..(Hlen - 1) : Byte(call.one, k) \in Bytes
  BY CallFacts DEF CopyByte, LoopsOfFunctions, Copied, TypeOK, IInv, Inside, Hlen
<1>. DEFINE n == call.n
            d == call.dst
            s == call.src
<1>a. /\ i \in Nat /\ i <= n /\ n \in Nat /\ d \in Nat /\ s \in Nat /\ Hlen \in Nat
      /\ d + n <= Hlen /\ s + n <= Hlen
      /\ Backwards => d > s /\ j = i - 1
      /\ ~Backwards => d <= s /\ j = n - i
  BY <1>1 DEF Backwards
<1>2. \A k \in 0..(Hlen - 1) : Byte(mem, k) = IF Done(k, i) THEN Moved(k) ELSE Original(k)
  BY <1>1 DEF Copied, IInv
<1>3. CASE i = 0 /\ Return(call.dst)
  <2>1. \A k \in 0..(Hlen - 1) : Done(k, 0) = (k \in call.dst..(call.dst + call.n - 1))
    BY <1>1 DEF Done
  <2>2. Arrived
    BY <1>2, <1>3, <2>1 DEF Arrived, Moved
  <2>. QED BY <1>1, <1>3, <2>2, Returns
<1>4. CASE /\ i > 0 /\ UNCHANGED skip
           /\ mem' = [mem EXCEPT ![call.dst + j + 1] = Byte(mem, call.src + j)]
           /\ Goto("copy", i - 1, IF Backwards THEN j - 1 ELSE j + 1)
  <2>0. i > 0
    BY <1>4
  <2>1. j \in 0..(n - 1) /\ s + j \in 0..(Hlen - 1) /\ d + j \in 0..(Hlen - 1)
    <3> HIDE DEF n, d, s
    <3>. QED BY <1>a, <2>0
  <2>2. ~Done(s + j, i)
    <3>1. Backwards => ~(s + j \in (d + i)..(d + n - 1))
      <4> HIDE DEF n, d, s
      <4>. QED BY <1>a, <2>0
    <3>2. ~Backwards => ~(s + j \in d..(d + n - i - 1))
      <4> HIDE DEF n, d, s
      <4>. QED BY <1>a, <2>0
    <3>. QED BY <3>1, <3>2 DEF Done
  <2>3. Byte(mem, call.src + j) = Original(call.src + j) /\ Original(call.src + j) \in Bytes
    BY <1>1, <1>2, <2>1, <2>2 DEF Original
  <2>4. Moved(d + j) = Original(s + j)
    <3>1. d + j \in d..(d + n - 1) /\ (d + j) - d + s = s + j
      <4> HIDE DEF n, d, s
      <4>. QED BY <1>a, <2>1
    <3>. QED BY <3>1 DEF Moved
  <2>5. /\ mem' \in Seq(Bytes) /\ Len(mem') = Hlen
        /\ \A k \in 0..(Hlen - 1) :
             Byte(mem', k) = IF k = call.dst + j THEN Moved(k) ELSE Byte(mem, k)
    <3>1. mem' = [mem EXCEPT ![call.dst + j + 1] = Original(call.src + j)]
      BY <1>4, <2>3
    <3>2. d + j + 1 \in 1..Hlen /\ d + j \in Int
      <4> HIDE DEF n, d, s
      <4>. QED BY <1>a, <2>1
    <3>3. mem' \in Seq(Bytes) /\ Len(mem') = Hlen
      BY <1>1, <2>3, <3>1, <3>2
    <3>4. \A m \in 1..Hlen : mem'[m] = IF m = call.dst + j + 1 THEN Original(call.src + j) ELSE mem[m]
      BY <1>1, <3>1, <3>2
    <3>5. \A k \in 0..(Hlen - 1) :
            Byte(mem', k) = IF k = call.dst + j THEN Original(call.src + j) ELSE Byte(mem, k)
      <4>. TAKE k \in 0..(Hlen - 1)
      <4>1. k + 1 \in 1..Hlen /\ (k + 1 = d + j + 1 <=> k = d + j)
        <5> HIDE DEF n, d, s
        <5>. QED BY <1>a, <2>1, <3>2
      <4>. QED BY <3>4, <4>1 DEF Byte
    <3>. QED BY <2>4, <3>3, <3>5
  <2>6. /\ TypeOK' /\ FirstIsFound' /\ StringsAreCompared' /\ BytesAreMoved' /\ call' = call
        /\ at' = "copy" /\ i' = i - 1 /\ j' = (IF Backwards THEN j - 1 ELSE j + 1)
    <3>1. i - 1 \in Nat /\ (IF Backwards THEN j - 1 ELSE j + 1) \in Int /\ skip' \in [Bytes -> Nat]
      BY <1>1, <1>4, <2>1
    <3>. QED BY <1>1, <1>4, <2>5, <3>1, Continues
  <2>7. \A k \in 0..(Hlen - 1) : Done(k, i - 1) <=> k = d + j \/ Done(k, i)
    <3>. TAKE k \in 0..(Hlen - 1)
    <3>1. Backwards => (k \in (d + (i - 1))..(d + n - 1) <=> k = d + j \/ k \in (d + i)..(d + n - 1))
      <4> HIDE DEF n, d, s
      <4>. QED BY <1>a, <2>0
    <3>2. ~Backwards => (k \in d..(d + n - (i - 1) - 1) <=> k = d + j \/ k \in d..(d + n - i - 1))
      <4> HIDE DEF n, d, s
      <4>. QED BY <1>a, <2>0
    <3>. QED BY <3>1, <3>2 DEF Done
  <2>8. \A k \in 0..(Hlen - 1) : Byte(mem', k) = IF Done(k, i - 1) THEN Moved(k) ELSE Original(k)
    BY <1>2, <2>5, <2>7
  <2>9. LoopsOfFunctions' /\ Searched' /\ Compared'
    BY <1>1, <2>6, SameCall DEF LoopsOfFunctions, Searched, Compared
  <2>10. NothingOutside'
    <3>1. i' > 0 => j' \in 0..(n - 1)
      <4> HIDE DEF n, d, s
      <4>. QED BY <1>a, <2>0, <2>6
    <3>. QED BY <2>6, <3>1 DEF NothingOutside
  <2>11. Copied'
    <3>1. i' <= n /\ j' = (IF Backwards THEN i' - 1 ELSE n - i')
      <4> HIDE DEF n, d, s
      <4>. QED BY <1>a, <2>0, <2>6
    <3>. QED BY <2>6, <2>8, <3>1, SameCall DEF Copied
  <2>. QED BY <2>6, <2>9, <2>10, <2>11 DEF LibraryIsExact, IInv
<1>. QED BY <1>3, <1>4 DEF CopyByte
-------------------------------------------------------------------------------
(* The theorems.                                                           *)

\* A call begins with nothing done and memory as it is.
LEMMA Initially ==
  ASSUME CallsAreWellformed, Init
  PROVE  IInv
<1>1. /\ call \in Searches \cup Compares \cup Copies
      /\ at = "called" /\ i = 0 /\ j = 0 /\ result = -1 /\ mem = call.one
      /\ skip \in [Bytes -> Nat]
  BY DEF Init, CallsAreWellformed
<1>2. call.one \in Seq(Bytes)
  <2>1. \A s \in Strings : s \in Seq(Bytes)
    BY DEF Strings
  <2>. QED BY <1>1, <2>1 DEF Searches, Compares, Copies
<1>3. TypeOK
  BY <1>1, <1>2 DEF TypeOK, Hlen
<1>4. LoopsOfFunctions /\ Searched /\ Compared /\ Copied
  BY <1>1 DEF LoopsOfFunctions, Searched, Compared, Copied
<1>5. LibraryIsExact
  BY <1>1 DEF LibraryIsExact, FirstIsFound, StringsAreCompared, BytesAreMoved, NothingOutside
<1>. QED BY <1>1, <1>3, <1>4, <1>5 DEF IInv

\* The inductive invariant of the loops: what each has established of the texts,
\* the strings or the memory so far, for calls of any length over any bytes and
\* any limits of memmem.  (memmem, strstr, strncmp, memcpy)
THEOREM Invariance ==
  ASSUME CallsAreWellformed
  PROVE  Spec => []IInv
<1>1. Init => IInv
  BY Initially
<1>2. IInv /\ [Next]_vars => IInv'
  <2>. SUFFICES ASSUME IInv, [Next]_vars
                PROVE  IInv'
    OBVIOUS
  <2>1. CASE Next
    BY <2>1, MemmemKeeps, TableKeeps, WindowKeeps, ScanKeeps, NaiveKeeps, StrstrKeeps,
       StringKeeps, SubstringKeeps, CompareKeeps, CompareCharKeeps, MemcpyKeeps, CopyByteKeeps
       DEF Next
  <2>2. CASE UNCHANGED vars
    <3>1. /\ call' = call /\ at' = at /\ i' = i /\ j' = j
          /\ skip' = skip /\ mem' = mem /\ result' = result
      BY <2>2 DEF vars
    <3>2. TypeOK' /\ LoopsOfFunctions' /\ Compared' /\ BytesAreMoved'
      BY <3>1, SameCall DEF IInv, LibraryIsExact, TypeOK, LoopsOfFunctions, Compared, BytesAreMoved, Arrived
    <3>3. Searched'
      BY <3>1, SameCall DEF IInv, Searched, SkipsAreShort, NoneBefore, Matches
    <3>4. Copied'
      BY <3>1, SameCall DEF IInv, Copied
    <3>5. FirstIsFound' /\ StringsAreCompared' /\ NothingOutside'
      BY <3>1, SameCall DEF IInv, LibraryIsExact, FirstIsFound, StringsAreCompared, NothingOutside
    <3>. QED BY <3>1, <3>2, <3>3, <3>4, <3>5 DEF IInv, LibraryIsExact
  <2>. QED BY <2>1, <2>2
<1>. HIDE DEF IInv
<1>. QED BY <1>1, <1>2, PTL DEF Spec

\* memmem and strstr return the first occurrence and Null only where there is
\* none, by whichever loop; comparisons stop at the first difference; copies
\* arrive whole though they overlap; and no loop leaves what it was given.
\* (memmem, boyermoore_horspool_memmem, strstr, strcmp, strncmp, memcpy)
THEOREM LibraryKeepsItsPromises ==
  ASSUME CallsAreWellformed
  PROVE  Spec => []LibraryIsExact
<1>1. IInv => LibraryIsExact
  BY DEF IInv
<1>. QED BY <1>1, Invariance, PTL
===============================================================================
