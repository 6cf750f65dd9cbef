-------------------------------- MODULE DyldPatch --------------------------------
(***************************************************************************)
(* fakedyld's patches of dyld, before the kernel is given that dyld: every *)
(* call of the block in forEachSupportedPlatform passes the platform of    *)
(* the device (or, in a newer dyld, loadableIntoProcess is always true),   *)
(* AMFI's policy allows everything, and DYLD_IN_CACHE counts as "0".       *)
(*                                                                         *)
(* dyld's code is a sequence of words [op, reg, arg, to]: an operation, a  *)
(* register, a string or function, and the word or number it refers to.    *)
(***************************************************************************)
EXTENDS Integers, Sequences, SequencesExt

CONSTANT Dylds   \* the files in which /usr/lib/dyld may be found

VARIABLES
  dyld,    \* [magic, arm64, platform, cstring, symbols, text, size] as read
  text,    \* the words now; those after the first dyld.size are not in __text
  shc_loc, \* the last shellcode, 0 if there is none
  found,   \* has_found_platform_patch, has_found_dyld_in_cache
  phase

vars == <<dyld, text, shc_loc, found, phase>>

Word(op, reg, arg, to) == [op |-> op, reg |-> reg, arg |-> arg, to |-> to]
Op(op)                 == Word(op, "", "", 0)

DriverKit   == 10
CurrentPlatform == dyld.platform

\* A pattern's word leaves open what it has as Open; -1 leaves a number open.
Open == "any"
Matches(w, p) == /\ w.op = p.op
                 /\ p.reg \in {Open, w.reg}
                 /\ p.arg \in {Open, w.arg}
                 /\ p.to \in {-1, w.to}

\* pf_find_maskmatch32 at one place; it may read past the function's end.
MatchesAt(code, at, pattern) ==
  /\ at + Len(pattern) - 1 <= Len(code)
  /\ \A x \in DOMAIN pattern : Matches(code[at + x - 1], pattern[x])

\* pf_find_next, pf_find_prev: the nearest of n words, 0 if there is none.
FindNext(code, at, n, p) ==
  LET hits == {k \in at..(at + n - 1) : k \in DOMAIN code /\ Matches(code[k], p)}
  IN IF hits = {} THEN 0 ELSE CHOOSE k \in hits : \A l \in hits : k <= l
FindPrev(code, at, n, p) ==
  LET hits == {k \in (at - n + 1)..at : k \in DOMAIN code /\ Matches(code[k], p)}
  IN IF hits = {} THEN 0 ELSE CHOOSE k \in hits : \A l \in hits : l <= k

\* The code with some words written over it from a place on.
Write(code, at, words) ==
  [k \in DOMAIN code |-> IF k \in at..(at + Len(words) - 1) THEN words[k - at + 1] ELSE code[k]]
-------------------------------------------------------------------------------
(* The platform check: patches/platform.                                   *)

IsSite(w) == w.op \in {"br", "blr"}

\* shellcode_br, shellcode_blr: a driver's platform is left alone.
Shellcode(jmp) ==
  LET ask == <<Word("cmp x1", "", "", DriverKit), Word("b.eq", "", "", 2),
               Word("mov x1", "", "", CurrentPlatform), jmp>>
  IN IF jmp.op = "br" THEN ask
     ELSE <<Op("stp fp, lr"), Op("mov fp, sp")>> \o ask \o <<Op("ldp fp, lr"), Op("ret")>>

\* pf_find_zero_buf: the first run of zero words that begins in __text.
ZeroRuns(code, n) ==
  {k \in 1..dyld.size : MatchesAt(code, k, [x \in 1..n |-> Op("zero")])}
FindZeroBuf(code, n) ==
  LET runs == ZeroRuns(code, n)
  IN IF runs = {} THEN 0 ELSE CHOOSE k \in runs : \A l \in runs : k <= l

\* Mutant: every br and every blr gets the last shellcode.
CopyShc_Shared(s, jmp) ==
  IF s.loc # 0 THEN s
  ELSE LET shellcode == Shellcode(jmp)
           loc       == FindZeroBuf(s.code, Len(shellcode))
       IN [s EXCEPT !.loc = loc,
                    !.code = IF loc = 0 THEN @ ELSE Write(@, loc, shellcode)]

\* copy_shc: a br shares the last shellcode, whatever that one is for.
CopyShc(s, jmp) ==
  IF jmp.op = "br" /\ s.loc # 0 THEN s
  ELSE LET shellcode == Shellcode(jmp)
           loc       == FindZeroBuf(s.code, Len(shellcode))
       IN [s EXCEPT !.loc = loc,
                    !.code = IF loc = 0 THEN @ ELSE Write(@, loc, shellcode)]

\* inject_shc: the site branches to the shellcode, with a link if it is a blr.
Inject(s, at) ==
  LET jmp == s.code[at]
      t   == CopyShc(s, jmp)
  IN IF t.loc = 0 THEN t
     ELSE [t EXCEPT !.code[at] = Word(IF jmp.op = "br" THEN "b" ELSE "bl", "", "", t.loc),
                    !.hit = TRUE]

\* patch_platform_check: pf_find_maskmatch32 over the block's function.
PatchSites(code, from, n) ==
  FoldLeft(LAMBDA s, k : IF IsSite(s.code[from + k - 1]) THEN Inject(s, from + k - 1) ELSE s,
           [code |-> code, loc |-> shc_loc, hit |-> FALSE],
           [k \in 1..n |-> k])
-------------------------------------------------------------------------------
(* DYLD_IN_CACHE.                                                          *)

InCache == <<Word("mov x0, x19", Open, Open, -1), Word("bl", Open, Open, -1),
             Word("adrp", "x1", Open, -1), Word("add", "x1", Open, -1), Word("bl", Open, Open, -1),
             Word("cbz", "x0", Open, -1),
             Word("adrp", "x1", Open, -1), Word("add", "x1", Open, -1), Word("bl", Open, Open, -1),
             Word("cbz", "w0", Open, -1)>>

InCacheNew == <<Word("cmp", "w8", "1", -1), Word("b.eq", Open, Open, -1),
                Word("cmp", "w8", "0", -1), Word("b.ne", Open, Open, -1)>>

\* patch_dyld_in_cache: the variable counts as set, and as equal to "0".
PatchInCache(s, at) ==
  IF s.code[at + 2].arg = "DYLD_IN_CACHE" /\ s.code[at + 6].arg = "0"
    THEN [code |-> Write(Write(s.code, at + 5, <<Op("nop")>>), at + 8, <<Word("mov", "w0", "", 0)>>),
          hit |-> TRUE]
    ELSE s

\* patch_dyld_in_cache_new: the call of internalInstall before the variable is
\* read becomes a branch to where a "0" leads.  Twelve bits of cbz's distance
\* are taken.
PatchInCacheNew(s, at) ==
  LET cbz      == FindNext(s.code, at + 3, 5, Word("cbz", "w8", Open, -1))
      no_cache == cbz + ((s.code[cbz].to - cbz) % 4096)
      adrp     == FindPrev(s.code, at, 10, Word("adrp", "x1", Open, -1))
      callsite == FindPrev(s.code, adrp - 2, 5, Word("bl", Open, Open, -1))
  IN IF /\ "internal" \in DOMAIN dyld.symbols
        /\ cbz # 0
        /\ adrp # 0 /\ s.code[adrp].arg = "DYLD_IN_CACHE"
        /\ callsite # 0 /\ s.code[callsite].to = dyld.symbols["internal"].at
       THEN [code |-> Write(s.code, callsite, <<Word("b", "", "", no_cache)>>), hit |-> TRUE]
       ELSE s

PatchCacheAt(s, at) ==
  LET t == IF MatchesAt(s.code, at, InCache) THEN PatchInCache(s, at) ELSE s
  IN IF MatchesAt(t.code, at, InCacheNew) THEN PatchInCacheNew(t, at) ELSE t
-------------------------------------------------------------------------------
Init ==
  /\ dyld \in Dylds
  /\ text = dyld.text
  /\ shc_loc = 0
  /\ found = {}
  /\ phase = "check"

Goto(p)  == phase' = p
Continue(from, ok, next) == phase = from /\ Goto(IF ok THEN next ELSE "panic")

Has(symbol)    == symbol \in DOMAIN dyld.symbols
Symbol(symbol) == dyld.symbols[symbol]

\* check_dyld: of a universal file without a slice for arm64, macho_find_arch
\* returns the file itself.
CheckDyld ==
  /\ Continue("check", dyld.magic \in {"macho", "fat"}, "get")
  /\ UNCHANGED <<dyld, text, shc_loc, found>>

\* get_platform: no platform is found in the header of a universal file.
GetPlatform ==
  /\ Continue("get", (dyld.magic = "fat" => dyld.arm64) /\ dyld.platform \in 1..5, "sites")
  /\ UNCHANGED <<dyld, text, shc_loc, found>>

\* platform_check_patch
PlatformCheckPatch ==
  /\ phase = "sites"
  /\ \/ /\ Has("block")
        /\ LET s == PatchSites(text, Symbol("block").at, Symbol("block").size) IN
             /\ text' = s.code
             /\ shc_loc' = s.loc
             /\ found' = IF s.hit THEN {"platform"} ELSE {}
             /\ Continue("sites", s.hit, "config")
     \/ /\ ~Has("block") /\ Has("loadable")
        /\ text' = Write(text, Symbol("loadable").at, <<Word("mov", "w0", "", 1), Op("ret")>>)
        /\ found' = {"platform"}
        /\ Goto("config")
        /\ UNCHANGED shc_loc
     \/ /\ ~Has("block") /\ ~Has("loadable")
        /\ Goto("panic")
        /\ UNCHANGED <<text, shc_loc, found>>
  /\ UNCHANGED dyld

\* dyld_proces_config_patch; without AMFI's function dyld is left as it is.
ProcessConfigPatch ==
  /\ Continue("config", dyld.cstring # {"no section"}, "cache")
  /\ text' = IF "AMFI" \in dyld.cstring /\ Has("amfi") /\ Symbol("amfi").size >= 4
               THEN Write(text, Symbol("amfi").at,
                          <<Word("mov", "x8", "", 223), Op("str x8, [x1]"),
                            Word("mov", "x0", "", 0), Op("ret")>>)
               ELSE text
  /\ UNCHANGED <<dyld, shc_loc, found>>

\* dyld_in_cache_patch; start is not looked for in vain.
DyldInCachePatch ==
  /\ phase = "cache"
  /\ IF "DYLD_IN_CACHE" \in dyld.cstring
       THEN LET f == Symbol("start")
                s == FoldLeft(LAMBDA t, k : PatchCacheAt(t, f.at + k - 1),
                              [code |-> text, hit |-> FALSE], [k \in 1..f.size |-> k])
            IN /\ text' = s.code
               /\ found' = IF s.hit THEN found \cup {"cache"} ELSE found
               /\ Goto(IF s.hit THEN "done" ELSE "panic")
       ELSE Goto("done") /\ UNCHANGED <<text, found>>
  /\ UNCHANGED <<dyld, shc_loc>>

Next == CheckDyld \/ GetPlatform \/ PlatformCheckPatch \/ ProcessConfigPatch \/ DyldInCachePatch
-------------------------------------------------------------------------------
(* What code does: which function a site calls, with which platform; and   *)
(* whether start, with DYLD_IN_CACHE set to env, goes on with this dyld or *)
(* with the one in the shared cache.                                       *)

RECURSIVE CallFrom(_, _, _, _)
CallFrom(code, pc, x1, eq) ==
  LET w == code[pc] IN
  CASE w.op \in {"br", "blr"} -> [reg |-> w.reg, platform |-> x1]
    [] w.op \in {"b", "bl"}   -> CallFrom(code, w.to, x1, eq)
    [] w.op = "cmp x1"        -> CallFrom(code, pc + 1, x1, x1 = w.to)
    [] w.op = "b.eq"          -> CallFrom(code, IF eq THEN pc + w.to ELSE pc + 1, x1, eq)
    [] w.op = "mov x1"        -> CallFrom(code, pc + 1, w.to, eq)
    [] OTHER                  -> CallFrom(code, pc + 1, x1, eq)

Envs == {"unset", "", "0", "1", "00", "x"}
Char(env, n) ==
  CASE env = "x" /\ n = 1 -> "x" [] env \in {"0", "00"} /\ n = 1 -> "0"
    [] env = "1" /\ n = 1 -> "1" [] env = "00" /\ n = 2 -> "0" [] OTHER -> "end"

\* The truth value in x0 after a call; a character is in w8.
Called(function, env, internal) ==
  CASE function = "internal" -> internal
    [] function = "getenv"   -> env # "unset"
    [] function = "strcmp"   -> env # "0"
    [] OTHER                 -> TRUE

RECURSIVE StartFrom(_, _, _, _, _)
StartFrom(code, pc, x0, w8, env) ==
  LET w        == code[pc]
      compared == code[pc - 1].arg = w8
  IN CASE w.op \in {"disk", "cache"} -> w.op
       [] w.op = "bl"    -> StartFrom(code, pc + 1, Called(w.arg, env.text, env.internal), w8, env)
       [] w.op = "b"     -> StartFrom(code, w.to, x0, w8, env)
       [] w.op = "mov"   -> StartFrom(code, pc + 1, w.to # 0, w8, env)
       [] w.op = "ldrb"  -> StartFrom(code, pc + 1, x0, Char(env.text, w.to), env)
       [] w.op = "cbz" /\ w.reg \in {"x0", "w0"}
                         -> StartFrom(code, IF x0 THEN pc + 1 ELSE w.to, x0, w8, env)
       [] w.op = "cbz" /\ w.reg = "w8"
                         -> StartFrom(code, IF w8 = "end" THEN w.to ELSE pc + 1, x0, w8, env)
       [] w.op = "b.eq"  -> StartFrom(code, IF compared THEN w.to ELSE pc + 1, x0, w8, env)
       [] w.op = "b.ne"  -> StartFrom(code, IF compared THEN pc + 1 ELSE w.to, x0, w8, env)
       [] OTHER          -> StartFrom(code, pc + 1, x0, w8, env)
-------------------------------------------------------------------------------
(* Properties.                                                             *)

Sites == IF Has("block")
           THEN {k \in Symbol("block").at..(Symbol("block").at + Symbol("block").size - 1) :
                   IsSite(dyld.text[k])}
           ELSE {}

\* A site that comes after one with another register is a br that shares the
\* shellcode; a site that is left as it was had no room for its shellcode.
Shares(k)  == dyld.text[k].op = "br" /\ \E l \in Sites : l < k /\ dyld.text[l].reg # dyld.text[k].reg
NoRoom(k)  == text[k] = dyld.text[k]
                /\ ZeroRuns(text, IF dyld.text[k].op = "br" THEN 4 ELSE 8) = {}

\* In a patched dyld every call of the block is told the platform of the
\* device, unless it was told DriverKit, and goes where it went before and comes
\* back as before; where it does not, the code's two shortcuts are to blame:
\* one shellcode for all br, and one patched site being enough.
\* (inject_shc, copy_shc, platform_check_patch)
EverySiteTellsPlatform ==
  phase \in {"config", "cache", "done"} =>
    \A k \in Sites :
      \/ NoRoom(k)
      \/ \A p \in {1, CurrentPlatform, DriverKit} :
           LET call == CallFrom(text, k, p, FALSE) IN
           /\ call.platform = (IF p = DriverKit THEN p ELSE CurrentPlatform)
           /\ call.reg = dyld.text[k].reg \/ Shares(k)
           /\ (text[k].op = "bl") = (dyld.text[k].op = "blr")

\* A dyld that knows DYLD_IN_CACHE and is patched never goes on with the dyld in
\* the shared cache, whatever the variable says and whether this is an internal
\* install or not.  (dyld_in_cache_patch)
PatchedDyldStaysOnDisk ==
  phase = "done" /\ "DYLD_IN_CACHE" \in dyld.cstring =>
    \A env \in Envs, internal \in BOOLEAN :
      StartFrom(text, Symbol("start").at, TRUE, "end", [text |-> env, internal |-> internal]) = "disk"

Within(f, k) == Has(f) /\ k \in Symbol(f).at..(Symbol(f).at + Symbol(f).size - 1)

\* Only the functions that are meant to be patched change, and words that were
\* zero; and nothing at all in a dyld for another processor or a platform that
\* fakedyld does not know, although check_dyld lets it pass.
\* (macho_find_arch, macho_get_platform, pf_find_zero_buf)
OnlyOwnWordsChange ==
  /\ \A k \in DOMAIN text : text[k] # dyld.text[k] =>
       \/ dyld.text[k].op = "zero"
       \/ \E f \in {"block", "loadable", "amfi", "start"} : Within(f, k)
  /\ text # dyld.text => dyld.platform \in 1..5 /\ (dyld.magic = "fat" => dyld.arm64)

\* A patched dyld tells every caller the platform of the device, stays out of
\* the shared cache and is otherwise the one it was.
\* (patch_platform_check, patch_dyld_in_cache, copy_shc)
PatchedDyldIsRight == EverySiteTellsPlatform /\ PatchedDyldStaysOnDisk /\ OnlyOwnWordsChange

===============================================================================
