------------------------------ MODULE ProcessStart ------------------------------
(***************************************************************************)
(* What systemhook's constructor loads into a process, once it has its     *)
(* variables (SpawnEnv): universalhooks for a few system programs, which   *)
(* chooses its hooks from a table of its own, and the library that loads   *)
(* tweaks.  Then the answers of the hooked functions: where files of other *)
(* vendors' programs go, what lsd starts after a rebuild of its database,  *)
(* which IOKit call of watchdogd is palera1nd's business.                  *)
(***************************************************************************)
EXTENDS Naturals, SequencesExt

CONSTANTS
  Procs,    \* processes: path, started, release, root, rootful, flags, env, ...
  Queries   \* calls of hooked functions

VARIABLES
  proc,      \* this process
  at,        \* how far the constructor is
  hooks,     \* the hooks in place
  tweaks,    \* the library that loads tweaks
  query,     \* a call
  answer,    \* its answer
  extended,  \* the sandbox extensions that the process has
  extensions \* JB_SandboxExtensions

vars == <<proc, at, hooks, tweaks, query, answer, extended, extensions>>

None    == <<"none", "none">>      \* no library
Default == <<"@default", "">>
NoQuery == [hook |-> "none"]

\* The tokens launchd issues, both for palera1nd's name: which of them lets a
\* process talk to it depends on its sandbox.
Issued == <<"global-name", "app-sandbox">>

\* path is the executable with links resolved, started the one dyld was given;
\* exists holds the tweak loaders on the device.
Init ==
  /\ proc \in Procs
  /\ at = "constructor" /\ hooks = {} /\ tweaks = None /\ query = NoQuery /\ answer = {}
  /\ extended = {} /\ extensions = Issued
-------------------------------------------------------------------------------
(* universalhooks.                                                         *)

\* The programs that systemhook loads it into, from Darwin 20 on ...
Hooked == {"securityd", "trustd", "watchdogd", "lsd", "SpringBoard", "cfprefsd", "PineBoard",
           "HeadBoard"}

\* ... and from Darwin 24 on, TrollStore's helper only when root runs it.
LoadsUniversalHooks ==
  \/ proc.release >= 20 /\ proc.path \in Hooked
  \/ proc.release >= 24 /\ \/ proc.path = "trollstorehelper" /\ proc.root
                           \/ proc.path = "BlueTool"

\* The table in universalhooks; no row has a function for rootful boots.
RootlessInit == [SpringBoard |-> {"snapshots"}, lsd |-> {"inbox"}, cfprefsd |-> {"preferences"}]

\* Mutant: the row of HeadBoard is missing.
UniversalInit_NoHeadBoard ==
  [securityd |-> {}, trustd |-> {}, watchdogd |-> {"iokit"}, lsd |-> {"rebuild"},
   PineBoard |-> {"enabled"}, BlueTool |-> {"product"}]
\* securitydInit is empty in this build; headboardInit sends a message (Jailbreakd).
UniversalInit ==
  [securityd |-> {}, trustd |-> {}, watchdogd |-> {"iokit"}, lsd |-> {"rebuild"},
   PineBoard |-> {"enabled"}, HeadBoard |-> {"resume"}, BlueTool |-> {"product"}]

\* Hooks that look further before they are put in place.
Applies(hook) ==
  CASE hook = "product"  -> proc.device \in {"iPad7,5", "iPad7,6"}
    [] hook = "coretrust" -> proc.symbols /\ ~proc.vulnerable
    [] OTHER              -> TRUE

InitHooks ==
  LET table == (IF proc.started \in DOMAIN RootlessInit /\ ~proc.rootful
                THEN RootlessInit[proc.started] ELSE {})
               \cup (IF proc.started \in DOMAIN UniversalInit THEN UniversalInit[proc.started] ELSE {})
      troll == IF proc.started = "trollstorehelper" THEN {"coretrust"} ELSE {}
  IN {h \in table \cup troll : Applies(h)}

\* strtok writes into what it cuts, so unsandbox cuts a copy.
\* Mutant: it cuts JB_SandboxExtensions itself, which then ends after a token.
Left_Uncopied(tokens) == SubSeq(tokens, 1, 1)
Left(tokens) == tokens

\* unsandbox, in the constructor and after a sandbox was entered: every token is
\* consumed.
Unsandbox ==
  /\ at \in {"constructor", "sandboxed"}
  /\ extended' = extended \cup ToSet(extensions)
  /\ extensions' = Left(extensions)
  /\ IF at = "constructor" THEN at' = "extended" /\ answer' = answer
     ELSE at' = "main" /\ answer' = {"kernel"}
  /\ UNCHANGED <<proc, hooks, tweaks, query>>

LoadHooks ==
  /\ at = "extended"
  /\ hooks' = IF LoadsUniversalHooks THEN InitHooks ELSE {}
  /\ at' = "hooked"
  /\ UNCHANGED <<proc, tweaks, query, answer, extended, extensions>>
-------------------------------------------------------------------------------
(* Tweaks.                                                                 *)

ShouldEnableTweaks ==
  /\ proc.flags \cap {"safemode", "force_revert", "setup_rootful"} = {}
  /\ proc.env \cap {"launchd", "/cores/.safe_mode", "DISABLE_TWEAKS=1", "XPC_NULL_BOOTSTRAP",
                    "XPC_SERVICES_UNAVAILABLE"} = {}
  /\ proc.path \notin {"xpcproxy", "Dopamine"}

Fallback == IF proc.rootful THEN <<"/usr/lib", "TweakInject">> ELSE <<"/var/jb/usr/lib", "TweakInject">>

Preferred == IF proc.rootful THEN <<"/usr/lib", "TweakLoader">> ELSE <<"/var/jb/usr/lib", "TweakLoader">>

\* "@default" unless launchd was told another library.
Chosen ==
  IF proc.loader # Default THEN proc.loader
  ELSE IF Preferred \in proc.exists THEN Preferred ELSE Fallback

LoadTweaks ==
  /\ at = "hooked"
  /\ tweaks' = IF ShouldEnableTweaks /\ Chosen \in proc.exists THEN Chosen ELSE None
  /\ at' = "main"
  /\ UNCHANGED <<proc, hooks, query, answer, extended, extensions>>
-------------------------------------------------------------------------------
(* The hooked functions.                                                   *)

Ask ==
  /\ at = "main" /\ query = NoQuery /\ \E q \in Queries : q.of = proc.path /\ query' = q
  /\ UNCHANGED <<proc, at, hooks, tweaks, answer, extended, extensions>>

Asks(hook) == at = "main" /\ query # NoQuery /\ answer = {} /\ query.hook = hook

Reply(set) == answer' = set /\ UNCHANGED <<proc, at, hooks, tweaks, query, extended, extensions>>

\* A file that belongs to a program of another vendor, in the directory in question.
Foreign == query.inside /\ ~query.apple

Moved(hook) == IF hook \in hooks /\ Foreign THEN "/var/jb" ELSE "original"

\* The inbox of a program, in lsd.
Inbox == Asks("inbox") /\ Reply({Moved("inbox")})

\* The directory of its snapshots, in SpringBoard.
SnapshotContainer == Asks("snapshots") /\ Reply({Moved("snapshots")})

\* PineBoard takes every program for an enabled one.
IsEnabled == Asks("enabled") /\ Reply({IF "enabled" \in hooks THEN "enabled" ELSE "original"})

\* The icon caches started after a rebuild.
Rebuild ==
  /\ Asks("rebuild")
  /\ Reply({"rebuilt"} \cup
       (IF "rebuild" \notin hooks THEN {}
        ELSE (IF proc.platform = "bridgeos" THEN {}
              ELSE {IF proc.rootful THEN "/usr/bin/uicache" ELSE "/var/jb/usr/bin/uicache"})
             \cup (IF proc.platform = "ios" THEN {"palera1nLoader.app"} ELSE {})
             \cup (IF proc.platform = "tvos" THEN {"palera1nLoaderTV.app"} ELSE {})))

\* watchdogd's panic request: selector 2 on the connection that it opened to
\* IOWatchdog; the connection that is remembered is null before.
Remembered == IF query.opened THEN "watchdog" ELSE "null"

\* jbdswInterceptUserspacePanic and reboot3_hook pass the request on to palera1nd
\* and return its error, or EAGAIN without an answer.
Forwarded == {"palera1nd", CASE query.reply = "none" -> "EAGAIN" [] query.reply = "error" -> "error" [] OTHER -> "done"}

Intercepted == query.connection = Remembered /\ query.selector = 2

IOConnectCall ==
  /\ Asks("iokit")
  /\ Reply(IF "iokit" \in hooks /\ Intercepted THEN Forwarded ELSE {"kernel"})

\* Of all reboots a program may ask for, a userspace reboot is palera1nd's
\* business, which asks the kernel itself.
Reboot3 ==
  /\ Asks("reboot3")
  /\ Reply(IF proc.in_jailbreakd \/ ~query.user THEN {"kernel"} ELSE Forwarded)

\* sandbox_init and its variants, before they return: entering a sandbox takes the
\* extensions away.
SandboxInit ==
  /\ Asks("sandbox")
  /\ IF query.reply = "done" THEN at' = "sandboxed" /\ extended' = {} /\ answer' = answer
     ELSE at' = at /\ extended' = extended /\ answer' = {"kernel"}
  /\ UNCHANGED <<proc, hooks, tweaks, query, extensions>>

\* libroot_get_jbroot_prefix.
JbrootPrefix == Asks("jbroot") /\ Reply({IF proc.rootful THEN "" ELSE "/var/jb"})

ProductHash ==
  /\ Asks("product")
  /\ Reply({IF "product" \in hooks /\ query.key = "ProductHash" THEN "other product" ELSE "original"})

Next == Unsandbox \/ LoadHooks \/ LoadTweaks \/ Ask \/ Inbox \/ SnapshotContainer \/ IsEnabled
        \/ Rebuild \/ IOConnectCall \/ Reboot3 \/ ProductHash
        \/ SandboxInit \/ JbrootPrefix

Spec == Init /\ [][Next]_vars
-------------------------------------------------------------------------------
(* Properties.                                                             *)

Has(hook) == hook \in hooks

\* The list in systemhook and the table in universalhooks agree: what is loaded
\* has something to do there, and every row of the table is reached.  securityd
\* and trustd have nothing left to do, and the rows for rootless boots are of
\* no use on others.
ListsAgree ==
  at = "main" /\ proc.started = proc.path /\ proc.release >= 24 /\ proc.root =>
    /\ LoadsUniversalHooks <=>
         proc.path \in DOMAIN RootlessInit \cup DOMAIN UniversalInit \cup {"trollstorehelper"}
    /\ LoadsUniversalHooks /\ hooks = {} =>
         \/ proc.path \in {"securityd", "trustd"}
         \/ proc.rootful /\ proc.path \in {"SpringBoard", "cfprefsd"}
         \/ proc.path = "BlueTool" /\ proc.device \notin {"iPad7,5", "iPad7,6"}
         \/ proc.path = "trollstorehelper"

\* Only the files of other vendors' programs move, only those that belong to
\* the directories in question, and only into an install that is rootless.
OnlyForeignFilesMove ==
  query # NoQuery /\ query.hook \in {"inbox", "snapshots"} /\ "/var/jb" \in answer =>
    ~proc.rootful /\ ~query.apple /\ query.inside

\* On a rootless device SpringBoard and lsd agree to move them.
ForeignFilesMove ==
  /\ answer # {} /\ query.hook \in {"inbox", "snapshots"} /\ query.inside /\ ~query.apple
  /\ ~proc.rootful /\ proc.release >= 20 /\ proc.started = proc.path
  => answer = {"/var/jb"}

\* A process that entered a sandbox by one of the hooked calls has all the
\* extensions again when the call returns, so that it reaches palera1nd whatever
\* the profile; one that did not has them from the constructor on.
\* (systemhook: unsandbox, sandbox_init_hook and its variants)
SandboxedReachPalera1nd == at = "main" => extended = ToSet(Issued)

\* TrollStore's helper is changed for root alone; no call of watchdogd but the
\* panic request on its own connection leaves the kernel out; palera1nd is never
\* asked by itself, which would wait for its own queue; and what it failed at is
\* not taken for done.
OthersAreLeftAlone ==
  /\ Has("coretrust") => proc.root /\ ~proc.vulnerable
  /\ "palera1nd" \in answer =>
       /\ query.hook = "iokit" => query.selector = 2 /\ (query.opened => query.connection = "watchdog")
       /\ ~proc.in_jailbreakd
  /\ "done" \in answer => query.reply = "done"

\* Unless launchd was told otherwise, tweaks are loaded by whichever loader the
\* install of this boot has, and never by what one of the other kind left.
InstalledLoaderIsFound ==
  at = "main" /\ proc.loader = Default =>
    LET own == {l \in proc.exists : l[1] = IF proc.rootful THEN "/usr/lib" ELSE "/var/jb/usr/lib"} IN
    IF ShouldEnableTweaks /\ own # {} THEN tweaks \in own ELSE tweaks = None

\* Every process gets the hooks and the tweak loader that are meant for it, and
\* the hooks change the calls that they are meant for.
\* (initializer; universalhooks: main.c and the hooks)
HooksFitTheProcess ==
  InstalledLoaderIsFound /\ ListsAgree /\ OnlyForeignFilesMove /\ ForeignFilesMove /\ OthersAreLeftAlone
===============================================================================
