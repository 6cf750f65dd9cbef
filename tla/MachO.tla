---------------------------------- MODULE MachO ----------------------------------
(***************************************************************************)
(* The pointer arithmetic with which fakedyld finds its way in dyld's file *)
(* (plooshfinder): an address is resolved through the segments and their   *)
(* sections, a branch or an adrp/add pair is followed to what it refers    *)
(* to, and the length of a function is guessed from the symbol table.      *)
(* Positions are counted in words from the start of the file, addresses in *)
(* words as well; the widths of the immediates are constants.              *)
(***************************************************************************)
EXTENDS Integers, Sequences

CONSTANTS
  Images,      \* the files
  Page,        \* words in a page
  AdrpBits,    \* the width of adrp's immediate, 21 on the hardware
  BranchBits   \* the width of the immediate of b and bl, 26

VARIABLES
  image,       \* this file
  query,       \* what is asked
  result       \* the answer

vars == <<image, query, result>>

\* segments: a sequence of [vmaddr, vmsize, fileoff, filesize, sections], the
\* sections [addr, size, offset]; symbols: a sequence of positions.
Null  == -1      \* the null pointer
Fault == -2      \* a null pointer was dereferenced

\* The number that the low bits of an immediate stand for.
SignExtend(n, bits) ==
  LET low == n % 2^bits IN IF low >= 2^(bits - 1) THEN low - 2^bits ELSE low
-------------------------------------------------------------------------------
(* Segments, sections and addresses.                                       *)

Covers(from, length, x) == from <= x /\ x < from + length

\* The first of a sequence's elements with a property, as a set.
FirstOf(seq, P(_)) ==
  {seq[k] : k \in {n \in DOMAIN seq : P(seq[n]) /\ \A l \in 1..(n - 1) : ~P(seq[l])}}

The(set) == CHOOSE e \in set : TRUE

VaToPtr(img, addr) ==
  LET InVm(g)  == Covers(g.vmaddr, g.vmsize, addr)
      InVm2(s) == Covers(s.addr, s.size, addr)
      segment  == FirstOf(img.segments, InVm)
      section  == FirstOf(The(segment).sections, InVm2)
  IN CASE segment = {}                     -> Null
       [] The(segment).vmaddr = addr       -> The(segment).fileoff
       [] section = {}                     -> Fault
       [] OTHER                            -> The(section).offset + addr - The(section).addr

PtrToVa(img, ptr) ==
  LET InFile(g)  == Covers(g.fileoff, g.filesize, ptr)
      InFile2(s) == Covers(s.offset, s.size, ptr)
      segment    == FirstOf(img.segments, InFile)
      section    == FirstOf(The(segment).sections, InFile2)
  IN IF segment = {} \/ section = {} THEN Fault
     ELSE The(section).addr + ptr - The(section).offset
-------------------------------------------------------------------------------
(* Instructions.                                                           *)

\* arm64_branch: the distance, cut to the immediate.
Branch(caller, target) == (target - caller) % 2^BranchBits

FollowBranch(at, imm) == at + SignExtend(imm, BranchBits)

\* adrp and add: the page of the instruction's address, the pages of adrp, the
\* rest from add.
FollowXref(img, at, imm, low) ==
  LET va == PtrToVa(img, at) IN
  IF va = Fault THEN Fault
  ELSE VaToPtr(img, va - (va % Page) + SignExtend(imm, AdrpBits) * Page + low)
-------------------------------------------------------------------------------
(* Symbols.                                                                *)

\* Mutant: a symbol table in another order is not noticed.
SymbolSize_Unordered(img, k, beyond) ==
  LET next == IF k = Len(img.symbols) THEN beyond ELSE img.symbols[k + 1]
  IN IF next < img.symbols[k] THEN img.symbols[k] - next ELSE next - img.symbols[k]

\* The distance to the next symbol of the table, 0 if that one is before it.
\* What follows the last symbol in memory is read as a symbol, too.
SymbolSize(img, k, beyond) ==
  LET next == IF k = Len(img.symbols) THEN beyond ELSE img.symbols[k + 1]
  IN IF next < img.symbols[k] THEN 0 ELSE next - img.symbols[k]
-------------------------------------------------------------------------------
Positions(img) == 0..(img.length - 1)

Init ==
  /\ image \in Images
  /\ query = [kind |-> "none"]
  /\ result = Null

Ask(q, answer) ==
  /\ query.kind = "none"
  /\ query' = q
  /\ result' = answer
  /\ UNCHANGED image

\* pf_follow_branch after arm64_branch.
AskBranch == \E at, to \in Positions(image) :
  Ask([kind |-> "branch", at |-> at, to |-> to], FollowBranch(at, Branch(at, to)))

\* pf_follow_xref on the pair that an assembler makes for an address.
AskXref == \E at, to \in Positions(image) :
  LET from == PtrToVa(image, at)
      addr == PtrToVa(image, to)
  IN /\ from # Fault /\ addr # Fault
     /\ Ask([kind |-> "xref", at |-> at, to |-> to],
            FollowXref(image, at, (addr \div Page - from \div Page) % 2^AdrpBits, addr % Page))

\* macho_get_symbol_size
AskSize == \E k \in DOMAIN image.symbols, beyond \in 0..image.length :
  Ask([kind |-> "size", symbol |-> k], SymbolSize(image, k, beyond))

Next == AskBranch \/ AskXref \/ AskSize
-------------------------------------------------------------------------------
(* Properties.                                                             *)

\* A reference between two places of the file is followed to where it leads,
\* forwards and backwards, within the reach of its immediate.
\* (pf_follow_branch, pf_follow_xref, macho_ptr_to_va, macho_va_to_ptr)
ReferencesAreFollowed ==
  /\ query.kind = "branch" =>
       (query.to - query.at \in -(2^(BranchBits - 1))..(2^(BranchBits - 1) - 1) => result = query.to)
  /\ query.kind = "xref" =>
       LET pages == PtrToVa(image, query.to) \div Page - PtrToVa(image, query.at) \div Page IN
       pages \in -(2^(AdrpBits - 1))..(2^(AdrpBits - 1) - 1) => result = query.to

\* The size of a function is never cut short: it is 0, so that nothing is
\* patched, or reaches at least to the next symbol of the file, whatever the
\* order of the table; the table's last symbol is the exception.
\* (macho_get_symbol_size: "symtab is in a weird order")
SizeCoversFunction ==
  query.kind = "size" /\ query.symbol < Len(image.symbols) =>
    LET here   == image.symbols[query.symbol]
        higher == {image.symbols[k] : k \in DOMAIN image.symbols} \cap (here + 1)..image.length
    IN result = 0 \/ \E next \in higher : /\ \A other \in higher : next <= other
                                          /\ result >= next - here

\* What fakedyld finds in dyld's file is what the code there refers to.
\* (macho_va_to_ptr, pf_follow_branch, pf_follow_xref, macho_get_symbol_size)
AddressesAreFound == ReferencesAreFollowed /\ SizeCoversFunction

===============================================================================
