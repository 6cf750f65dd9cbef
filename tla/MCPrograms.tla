------------------------------- MODULE MCPrograms -------------------------------
(***************************************************************************)
(* Inputs for MCAlgorithms: the stacks, calls, processes, texts, classes,  *)
(* command lines and boots of its last eight parts.                        *)
(***************************************************************************)
EXTENDS Integers, Sequences, TLC

UpTo(S, n) == UNION {[1..k -> S] : k \in 0..n}
-------------------------------------------------------------------------------
(* Stacks of six words whose contents are any records of the stack, an     *)
(* address beyond it, null or a misaligned one.                            *)

MCCrashes ==
  {[bot |-> 0, top |-> 10, fp |-> fp, mem |-> m] :
     fp \in {0, 2, -4}, m \in [{0, 2, 4, 6, 8} -> {0, 4, 6, 8, 10, 3}]}
-------------------------------------------------------------------------------
(* launchctl: paths and targets, on systems of three ages, with the answers*)
(* of launchd.                                                             *)

Systems == {"old", "2021", "2022"}
Plists  == {[absolute |-> a, path |-> <<"var">>, holds |-> h] :
              a \in BOOLEAN, h \in {"limited", "plain", "directory"}}

Reply(pipe, error, errors, bootstrap, has) ==
  [pipe |-> pipe, error |-> error, errors |-> errors, bootstrap |-> bootstrap, has |-> [n \in {"svc"} |-> has]]

Replies ==
  {Reply(0, 0, errors, b, has) : errors \in {{}, {"svc"}}, b \in {0, 5}, has \in SUBSET {1, 2}}
    \cup {Reply(0, 3, {}, 0, has) : has \in SUBSET {1, 2}}
    \cup {Reply(9, 0, {}, 0, has) : has \in SUBSET {1, 2}}

\* The foreground user's domain has the service and the system's has not.
Usual == Reply(0, 0, {}, 0, {2})

Invocation(c, o, t, a, os, s, l) ==
  [cmd |-> c, options |-> o, target |-> t, args |-> a, os |-> os, sessions |-> s, launchd |-> l]

Targets ==
  {<<>>, <<"">>, <<"system">>, <<"system", "svc">>, <<"user">>, <<"user", "501">>,
   <<"user", "foreground">>, <<"user", "foreground", "svc">>, <<"session", "501", "">>,
   <<"pid", "x">>, <<"user", "-1">>, <<"gui", "501">>}

Directory(a) == [absolute |-> a, path |-> <<"var">>, holds |-> "directory"]

MCCalls ==
  {Invocation("bootstrap", o, t, a, os, s, Usual) :
     o \in {{}, {"--angel"}}, t \in Targets, a \in UpTo(Plists, 2), os \in Systems, s \in BOOLEAN}
  \cup {Invocation("bootstrap", {}, t, <<Directory(TRUE)>>, os, s, l) :
     t \in Targets, os \in Systems, s \in BOOLEAN, l \in Replies}
  \cup {Invocation(c, o, <<>>, a, os, FALSE, l) :
     c \in {"load", "unload"}, a \in UpTo({Directory(TRUE), Directory(FALSE)}, 2), os \in Systems, l \in Replies,
     o \in {{}, {"-w"}, {"-F", "-Dall"}, {"-w", "-Duser"}, {"-Dother"}, {"-?"}}}
-------------------------------------------------------------------------------
(* Processes as systemhook starts in them, and calls of hooked functions.  *)

Programs ==
  {"securityd", "trustd", "watchdogd", "lsd", "SpringBoard", "cfprefsd", "PineBoard", "HeadBoard",
   "BlueTool", "trollstorehelper", "xpcproxy", "other"}
Loaders == {"/usr/lib", "/var/jb/usr/lib"} \X {"TweakLoader", "TweakInject"}
Chosen  == <<"@default", "">>

Program(path, started) ==
  [path |-> path, started |-> started, release |-> 24, root |-> FALSE, rootful |-> FALSE,
   flags |-> {}, env |-> {}, loader |-> Chosen, exists |-> Loaders, device |-> "iPhone",
   platform |-> "ios", symbols |-> FALSE, vulnerable |-> FALSE, in_jailbreakd |-> FALSE]

MCProcs ==
  {[Program(p, s) EXCEPT !.release = r, !.root = u, !.rootful = f, !.device = d, !.symbols = y, !.vulnerable = v] :
     p \in Programs, s \in {"link"}, r \in {19, 20, 24}, u \in BOOLEAN, f \in BOOLEAN,
     d \in {"iPad7,5", "iPhone"}, y \in BOOLEAN, v \in BOOLEAN}
  \cup {[Program(p, p) EXCEPT !.release = r, !.root = u, !.rootful = f, !.device = d, !.symbols = y,
                              !.vulnerable = v] :
     p \in Programs, r \in {19, 20, 24}, u \in BOOLEAN, f \in BOOLEAN,
     d \in {"iPad7,5", "iPhone"}, y \in BOOLEAN, v \in BOOLEAN}
  \cup {[Program("other", "other") EXCEPT !.rootful = f, !.flags = g, !.env = e, !.loader = l, !.exists = x] :
     f \in BOOLEAN, g \in SUBSET {"safemode", "force_revert"}, e \in {{}, {"DISABLE_TWEAKS=1"}},
     l \in {Chosen, <<"/usr/local", "Mine">>}, x \in SUBSET Loaders}
  \cup {[Program("lsd", "lsd") EXCEPT !.rootful = f, !.platform = p, !.exists = {}] :
     f \in BOOLEAN, p \in {"ios", "tvos", "bridgeos"}}
  \cup {[Program("other", "other") EXCEPT !.in_jailbreakd = TRUE]}

Outcomes == {"done", "error", "none"}

Question(of, hook) ==
  [of |-> of, hook |-> hook, apple |-> FALSE, inside |-> FALSE, connection |-> "", selector |-> 0,
   opened |-> FALSE, key |-> "", user |-> FALSE, reply |-> "done"]

MCQueries ==
  {[Question(o[1], o[2]) EXCEPT !.apple = a, !.inside = i] :
     o \in {<<"lsd", "inbox">>, <<"SpringBoard", "snapshots">>}, a \in BOOLEAN, i \in BOOLEAN}
  \cup {[Question("watchdogd", "iokit") EXCEPT !.connection = c, !.selector = s, !.opened = o, !.reply = r] :
     c \in {"watchdog", "other", "null"}, s \in {1, 2}, o \in BOOLEAN, r \in Outcomes}
  \cup {[Question("other", "reboot3") EXCEPT !.user = u, !.reply = r] : u \in BOOLEAN, r \in Outcomes}
  \cup {[Question("BlueTool", "product") EXCEPT !.key = k] : k \in {"ProductHash", "ProductType"}}
  \cup {[Question("other", "sandbox") EXCEPT !.reply = r] : r \in {"done", "error"}}
  \cup {Question("other", "jbroot"), Question("lsd", "rebuild"), Question("PineBoard", "enabled")}
-------------------------------------------------------------------------------
(* Texts with a function that signs its return address or not, lowers the  *)
(* stack pointer up to seven words before the row, perhaps twice, between  *)
(* functions that may have the row as well; __TEXT may end early.          *)

MCPattern == <<"a", "b", "c">>

Function(signed, gap, again, row) ==
  (IF signed THEN <<"pacibsp">> ELSE <<>>) \o <<"sub sp">> \o [k \in 1..gap |-> "nop"]
    \o (IF again THEN <<"sub sp">> ELSE <<>>) \o row

TextOf(before, f, after, short, again, loaded, known) ==
  LET head  == <<"header", "header", "header">>
               \o (IF before THEN <<"pacibsp", "sub sp", "a", "b", "nop">> ELSE <<"sub sp", "ret">>)
      words == head \o f \o (IF after THEN <<"ret", "sub sp", "a", "b", "c", "nop">>
                             ELSE <<"ret", "a", "b", "nop", "nop">>)
  IN [words |-> words, size |-> Len(words) - short, loaded |-> loaded,
      symbol |-> IF known THEN Len(head) ELSE -1,
      entry |-> Len(head), length |-> Len(f), lowers |-> IF again THEN 2 ELSE 1]

MCTexts ==
  {TextOf(before, Function(signed, gap, again, row), after, short, again, loaded, known) :
     signed \in BOOLEAN, gap \in 0..6, row \in {MCPattern, <<"a", "b", "nop">>}, again \in BOOLEAN,
     before \in BOOLEAN, after \in BOOLEAN, short \in 0..3, loaded \in BOOLEAN, known \in BOOLEAN}
-------------------------------------------------------------------------------
(* Three classes in a line, and three hooks on any of them.                *)

MCClasses == {"base", "mid", "leaf"}
MCSuper   == [base |-> "nil", mid |-> "base", leaf |-> "mid"]
MCHooks   == {"h1", "h2", "h3"}

Loads == UNION {[1..n -> {[name |-> a, symbols |-> s] : a \in {"prog", "lib"}, s \in SUBSET {"sym"}}] : n \in 1..3}

Hooking(images, static, ask, method, of) ==
  [images |-> images, static |-> static, ask |-> ask, symbol |-> "sym", method |-> method, of |-> of]

MCProcesses ==
  {Hooking(images, {}, "lib", [c \in MCClasses |-> "nil"], [h \in MCHooks |-> "mid"]) : images \in Loads}
  \cup {Hooking(<<[name |-> "prog", symbols |-> {}]>>, static, "prog", method, of) :
     static \in {{}, {"mid", "leaf"}}, of \in [MCHooks -> MCClasses],
     method \in [MCClasses -> {"nil", "i1"}] \cup [MCClasses -> {"i2"}]}
-------------------------------------------------------------------------------
(* Command lines of p1ctl, with up to two options and four passwords.      *)

Option(o, arg, number) == [o |-> o, arg |-> arg, number |-> number]

CommandLine(name, args, paths, typed, disk, palera1nd, answers) ==
  [name |-> name, args |-> args, paths |-> paths, typed |-> typed,
   flags |-> [disk |-> disk, palera1nd |-> palera1nd], answers |-> answers]

Switches(os) == {Option(o, "", FALSE) : o \in os}

MCCommands ==
  {CommandLine("palera1n_flags", a, 0, <<>>, d, k, w) :
     a \in UpTo(Switches({"s", "d", "x"}), 2), d \in SUBSET (0..3), k \in {{0}, {1, 3}},
     w \in SUBSET {"disk", "palera1nd"}}
  \cup {CommandLine("bootstrap", a, p, t, {}, {}, w) :
     a \in UpTo(Switches({"s", "x"}) \cup {Option("S", "alpine", FALSE), Option("S", "other", FALSE)}, 2),
     p \in 0..1, t \in UpTo({"", "one", "two"}, 4), w \in SUBSET {"path"}}
  \cup {CommandLine("overwrite", a, p, <<>>, {}, {}, w) :
     a \in UpTo({Option("m", m, n) : m \in {0, 420, 70000}, n \in BOOLEAN}, 2), p \in 0..2,
     w \in SUBSET {"source"}}
  \cup {CommandLine("unknown", <<>>, 0, <<>>, {}, {}, {})}

MCNameOf == (0 :> "rootful") @@ (1 :> "rootless") @@ (3 :> "test2")
-------------------------------------------------------------------------------
(* Boots of launchd; a plist may be unreadable now and then.               *)

Apple == [name \in {"backboardd"} |-> [dir |-> "/System", args |-> <<"backboardd">>]]

Everything == {"payload", "palera1nd", "dropbear-2", "telnetd", "sshd"}

MCBoots ==
  {[flags |-> f, rebooted |-> r, platform |-> p, apple |-> Apple, paths |-> <<"/System/Library">>,
    readable |-> {Everything, Everything \ {"payload"}, {"payload"}}] :
     f \in SUBSET {"safemode", "rootful", "telnetd"}, r \in BOOLEAN, p \in {"2", "unknown"}}
-------------------------------------------------------------------------------
(* Version strings in the kernels' form, and all that are left of them when*)
(* a piece is missing or another stands in its place.                      *)

MCValueOf == ("0" :> 0) @@ ("6" :> 6) @@ ("20" :> 20) @@ ("7195" :> 7195)

Kernels ==
  {<<"Darwin Kernel Version ", a, ".", b, ".", c, ": ", r, x>> :
     a \in {"0", "20"}, b \in {"0", "6"}, c \in {"0", "6"}, x \in {"0", "7195"},
     r \in {"root:xnu-", "root:xnu_development-", "root:xnu_kasan-", "root:other-"}}

Cut(s, k)      == SubSeq(s, 1, k - 1) \o SubSeq(s, k + 1, Len(s))
Other(s, k, x) == [s EXCEPT ![k] = x]

MCStrings ==
  Kernels \cup {Cut(s, k) : s \in Kernels, k \in 1..9} \cup {<<>>}
    \cup {Other(s, k, x) : s \in Kernels, k \in 1..9, x \in {".", ": ", "6", "root:xnu-"}}
-------------------------------------------------------------------------------
(* Calls of fakedyld's library: texts of two letters, among them every one *)
(* that repeats itself, and copies to all places in five bytes.            *)

MCBytes == 0..4

Letters(n) == UpTo({1, 2}, n)
WithZeros  == {<<0>>, <<0, 1>>, <<1, 0>>, <<1, 0, 1>>}

SearchFor(fn, one, two)     == [fn |-> fn, one |-> one, two |-> two]
Comparison(fn, a, b, n)  == [fn |-> fn, one |-> a, two |-> b, n |-> n]
Copy(dst, src, n)        == [fn |-> "memcpy", one |-> <<0, 1, 2, 3, 4>>, dst |-> dst, src |-> src, n |-> n]

MCLibraryCalls ==
  {SearchFor("memmem", s, t) : s \in Letters(6) \cup WithZeros, t \in Letters(3) \cup WithZeros}
  \cup {SearchFor("strstr", s, t) : s \in Letters(5), t \in Letters(3)}
  \cup {Comparison(fn, s, t, n) :
          fn \in {"strcmp", "strncmp"}, s \in Letters(3), t \in Letters(3), n \in {0, 1, 3}}
  \cup {c \in {Copy(dst, src, n) : dst \in 0..5, src \in 0..5, n \in 0..5} :
          c.dst + c.n <= 5 /\ c.src + c.n <= 5}

\* Numerals of up to four of these characters: a blank, both signs, 0, 6, 9, x
\* and capital A.
MCNumerals ==
  {[text |-> t, base |-> n] : t \in UpTo({32, 45, 43, 48, 54, 57, 120, 65}, 4), n \in {0, 10, 16}}
===============================================================================
