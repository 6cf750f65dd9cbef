-------------------------------- MODULE Launchctl --------------------------------
(***************************************************************************)
(* The part of launchctl that palera1nd contains: it tells launchd to load *)
(* the daemons of a new bootstrap (bootstrap_cmd) and to unload those of   *)
(* one that is to be removed (load_cmd as "unload").  A call is turned     *)
(* into one message, launchd answers it or the pipe fails, and the answer  *)
(* is turned into the result that palera1nd reports or ignores.            *)
(***************************************************************************)
EXTENDS Integers, Sequences, SequencesExt

CONSTANT Calls  \* arguments, the system they meet and launchd's answer

VARIABLES
  call,    \* this call
  msg,     \* the message under construction
  result   \* what the call returned

vars == <<call, msg, result>>

\* A call has cmd, the arguments options, target (for bootstrap, the pieces
\* between slashes) and args (the paths); os is the age of the system, sessions
\* whether it has user sessions; launchd: does the pipe work, its error, its
\* dictionary of errors and the bootstrap-error.
Ages == {"old", "2021", "2022"}            \* before iOS 15, iOS 15, iOS 16 and later
Sessions == call.os = "2022" /\ call.sessions

\* Results: 0, an error number, or one of these.
Running  == -1
Crash    == -2
EUSAGE   == 101
EBADNAME == 102
ENOTSUP  == 103

NoName == ""
Absent == "absent"  \* strsep found no piece
Foreground == 501   \* xpc_user_sessions_get_foreground_uid
NumberOf(piece) == IF piece = "501" THEN 501 ELSE 0   \* strtol of what is not a number is 0

NewMessage == [sent |-> FALSE, routine |-> "none", type |-> 0, handle |-> 0, name |-> NoName,
               paths |-> <<>>, bools |-> {}]

Init == call \in Calls /\ msg = NewMessage /\ result = Running

Return(r) == result' = r /\ UNCHANGED call
-------------------------------------------------------------------------------
(* The pieces of a message.                                                *)

\* launchctl_setup_xpc_dict: the domain of the caller.
SetupXpcDict(m) == [m EXCEPT !.type = IF call.os = "old" THEN 1 ELSE 7, !.handle = 0]

Piece(target, n) == IF n <= Len(target) THEN target[n] ELSE Absent
Given(piece) == piece \notin {Absent, NoName}

\* launchctl_test_xpc_send asks launchd whether a domain has the service.
Has(type, name) == type \in call.launchd.has[name]

\* A service that the system domain lacks and the foreground user's has.
Moved(name) == Sessions /\ ~Has(1, name) /\ Has(2, name)

SystemTarget(m, target) ==
  LET name == Piece(target, 2) IN
  IF ~Given(name) THEN [m EXCEPT !.type = 1, !.handle = 0]
  ELSE [m EXCEPT !.type = IF Moved(name) THEN 2 ELSE 1,
                 !.handle = IF Moved(name) THEN Foreground ELSE 0, !.name = name]

TypeOf(domain) ==
  CASE domain = "user" -> 2 [] domain = "session" -> 4 [] domain = "pid" -> 5 [] OTHER -> 9

IsForeground(target) == Piece(target, 1) = "user" /\ Piece(target, 2) = "foreground"

OtherTarget(m, target) ==
  [m EXCEPT !.type = TypeOf(target[1]),
            !.handle = IF IsForeground(target) /\ Sessions THEN Foreground
                       ELSE NumberOf(target[2]),
            !.name = IF Given(Piece(target, 3)) THEN target[3] ELSE NoName]

\* launchctl_setup_xpc_dict_for_service_name: the error, and the message.
TargetError(target) ==
  CASE ~Given(Piece(target, 1))                               -> EBADNAME
    [] target[1] = "system"                                   -> 0
    [] IsForeground(target) /\ call.os = "2022" /\ ~call.sessions -> ENOTSUP
    [] Piece(target, 2) = Absent                              -> EBADNAME
    [] target[2] = "-1"                                       -> EUSAGE
    [] OTHER                                                  -> 0

WithTarget(m, target) ==
  IF target[1] = "system" THEN SystemTarget(m, target) ELSE OtherTarget(m, target)

\* A path that does not start with a slash is one below the working directory.
PathOf(p) == IF p.absolute THEN p.path ELSE <<"cwd">> \o p.path

Libraries == <<<<"Library", "LaunchDaemons">>, <<"System", "Library", "LaunchDaemons">>>>

ParseLoadUnload(domain, args) ==
  (IF domain THEN Libraries ELSE <<>>) \o [n \in DOMAIN args |-> PathOf(args[n])]

\* launchctl_xpc_from_plist and LimitLoadToSessionType; a directory is no plist.
Limited(p) == p.holds = "limited"

\* The paths are looked at until one is not limited to a session type.
ForForeground(args) == \E n \in DOMAIN args : ~Limited(args[n])
-------------------------------------------------------------------------------
(* load_cmd and bootstrap_cmd.                                             *)

Option(o)  == o \in call.options
HasDomain  == call.options \cap {"-Dall", "-Duser", "-Dlocal", "-Dsystem"} # {}
IsLoad     == call.cmd = "load"
LegacyLoad == call.cmd \in {"load", "unload"}

Misused ==
  /\ result = Running /\ ~msg.sent
  /\ IF LegacyLoad THEN Option("-?") \/ Option("-Dother") \/ call.args = <<>>
     ELSE call.target = <<>> /\ ~Option("--angel")
  /\ Return(EUSAGE) /\ UNCHANGED msg

LegacyBools ==
  {"legacy-load"} \cup (IF Option("-F") THEN {"force"} ELSE {})
    \cup (IF Option("-w") THEN {IF IsLoad THEN "enable" ELSE "disable"} ELSE {})
    \cup (IF ~IsLoad /\ call.os # "old" THEN {"no-einprogress"} ELSE {})

LoadCmd ==
  /\ result = Running /\ ~msg.sent /\ LegacyLoad
  /\ ~Option("-?") /\ ~Option("-Dother") /\ call.args # <<>>
  /\ msg' = [SetupXpcDict(NewMessage) EXCEPT
               !.sent = TRUE, !.routine = IF IsLoad THEN "load" ELSE "unload",
               !.paths = ParseLoadUnload(HasDomain, call.args), !.bools = LegacyBools]
  /\ UNCHANGED <<call, result>>

\* bootstrap_cmd wants a domain, and refuses the name of a service.
BadTarget ==
  /\ result = Running /\ ~msg.sent /\ call.cmd = "bootstrap"
  /\ call.target # <<>> \/ Option("--angel")
  /\ LET error == TargetError(call.target) IN
     \/ error # 0 /\ Return(error)
     \/ error = 0 /\ WithTarget(NewMessage, call.target).name # NoName /\ Return(EBADNAME)
  /\ UNCHANGED msg

BootstrapCmd ==
  /\ result = Running /\ ~msg.sent /\ call.cmd = "bootstrap" /\ call.target # <<>>
  /\ TargetError(call.target) = 0
  /\ LET m    == WithTarget(NewMessage, call.target)
         user == m.type = 1 /\ Sessions /\ ForForeground(call.args)
     IN /\ m.name = NoName
        /\ msg' = [m EXCEPT !.sent = TRUE, !.routine = "load",
                            !.type = IF user THEN 2 ELSE @, !.handle = IF user THEN Foreground ELSE @,
                            !.paths = ParseLoadUnload(FALSE, call.args),
                            !.bools = IF Option("--angel") THEN {"angel"} ELSE {}]
  /\ UNCHANGED <<call, result>>

\* launchctl_send_xpc_to_launchd: the error of the pipe, or that of the reply.
Sent == IF call.launchd.pipe # 0 THEN call.launchd.pipe ELSE call.launchd.error

\* Mutant: the bootstrap-error is not asked for.
Answer_NoBootstrapError == Sent
\* bootstrap-error is looked at when launchd names services that failed.
Answer ==
  IF call.cmd = "bootstrap" /\ Sent = 0 /\ call.launchd.errors # {} THEN call.launchd.bootstrap
  ELSE Sent

\* load_cmd releases the reply also when there is none: the variable then holds
\* what the stack did.
Replied ==
  /\ result = Running /\ msg.sent
  /\ \/ Return(Answer)
     \/ LegacyLoad /\ call.launchd.pipe # 0 /\ Return(Crash)
  /\ UNCHANGED msg

Next == Misused \/ LoadCmd \/ BadTarget \/ BootstrapCmd \/ Replied

Spec == Init /\ [][Next]_vars
-------------------------------------------------------------------------------
(* Properties.                                                             *)

\* launchd, whose working directory is another, gets every path in full, in the
\* order given and behind the directories of the domains.
LaunchdGetsFullPaths ==
  msg.sent =>
    /\ \A n \in DOMAIN call.args :
         LET p == call.args[n] IN
         msg.paths[Len(msg.paths) - Len(call.args) + n]
           = IF p.absolute THEN p.path ELSE <<"cwd">> \o p.path
    /\ HasDomain <=> IsPrefix(Libraries, msg.paths)

\* Daemons are loaded into the system domain unless one of the plists may run
\* for a user and the system has user sessions: then into the domain of the user
\* in the foreground.
DaemonsReachTheirDomain ==
  msg.sent /\ call.cmd = "bootstrap" /\ call.target[1] = "system" =>
    LET user == Sessions /\ \E p \in Range(call.args) : p.holds # "limited"
    IN <<msg.type, msg.handle>> = IF user THEN <<2, Foreground>> ELSE <<1, 0>>

\* A bootstrap that returns 0 had every service loaded, as far as launchd said.
NoErrorIsLost ==
  call.cmd = "bootstrap" /\ result = 0 =>
    /\ call.launchd.pipe = 0 /\ call.launchd.error = 0
    /\ call.launchd.errors # {} => call.launchd.bootstrap = 0

\* launchd is asked for the right files in the right domain, and its refusal is
\* reported.  (load_cmd, bootstrap_cmd, launchctl_send_xpc_to_launchd)
DaemonsAreLoaded == LaunchdGetsFullPaths /\ DaemonsReachTheirDomain /\ NoErrorIsLost
===============================================================================
