---------------------------------- MODULE P1ctl ----------------------------------
(***************************************************************************)
(* p1ctl before and after it talks to palera1nd (for the talk itself see   *)
(* Jailbreakd): the choice of the subcommand, its options, the password    *)
(* for the new bootstrap that is asked for twice, and the description of   *)
(* the flags bit by bit.                                                   *)
(***************************************************************************)
EXTENDS Naturals, Sequences

CONSTANTS
  Commands,  \* command lines, with what the user types and what is on the device
  Bits,      \* the width of the flags, 64
  ModeBits,  \* the width of mode_t, 16
  NameOf     \* the flags that have a name, by bit

VARIABLES
  cmd,       \* this command line
  at,        \* where the program is
  options,   \* options read so far
  typed,     \* what the user has still to type
  buffer,    \* the buffer that getpass returns, every time the same
  bit,       \* the next bit to describe
  printed,   \* the lines printed
  sent,      \* the request, or Nothing
  status     \* the exit status, or Running

vars == <<cmd, at, options, typed, buffer, bit, printed, sent, status>>

Running == 1000
Failure == 255    \* -1 as an exit status
ENOENT  == 2      \* for any error of opening, measuring or mapping the source
Nothing == [cmd |-> "nothing"]

Subcommands == {"palera1n_flags", "bootstrap", "overwrite"}

\* cmd has name, the subcommand; args, a sequence of options [o, arg]; paths, how
\* many follow; typed; flags, what palera1nd or the disk returns, as a set of
\* bits, and answers, which of the two does, and whether a path names a file.
Init ==
  /\ cmd \in Commands
  /\ at = "dispatch" /\ options = {} /\ typed = cmd.typed /\ buffer = "" /\ bit = 0
  /\ printed = <<>> /\ sent = Nothing /\ status = Running

Exit(n) ==
  /\ at' = "exit" /\ status' = n
  /\ UNCHANGED <<cmd, options, typed, buffer, bit, printed, sent>>

\* p1ctl_main: the first entry of that name; usage for any other.
Dispatch ==
  /\ at = "dispatch" /\ cmd.name \in Subcommands
  /\ at' = "options"
  /\ UNCHANGED <<cmd, options, typed, buffer, bit, printed, sent, status>>

Usage == at = "dispatch" /\ cmd.name \notin Subcommands /\ Exit(1)

Has(o) == \E p \in options : p.o = o
\* The last one counts when an option is repeated.
Arg(o) == LET given == SelectSeq(cmd.args, LAMBDA p : p.o = o) IN given[Len(given)].arg

Known(p) ==
  \/ cmd.name = "palera1n_flags" /\ p.o \in {"s", "d"}
  \/ cmd.name = "bootstrap" /\ p.o \in {"s", "S"}
  \/ cmd.name = "overwrite" /\ p.o = "m"

\* An unknown option, and a mode that is not a number to its end, end p1ctl.
Invalid(p) == ~Known(p) \/ (p.o = "m" /\ ~p.number)

Getopt ==
  /\ at = "options"
  /\ IF \A n \in DOMAIN cmd.args : ~Invalid(cmd.args[n])
     THEN /\ options' = {cmd.args[n] : n \in DOMAIN cmd.args}
          /\ at' = cmd.name
          /\ UNCHANGED <<cmd, typed, buffer, bit, printed, sent, status>>
     ELSE Exit(Failure)
-------------------------------------------------------------------------------
(* palera1n_flags.                                                         *)

Source == IF Has("d") THEN "disk" ELSE "palera1nd"

GetFlags ==
  /\ at = "palera1n_flags"
  /\ IF Source \notin cmd.answers THEN Exit(Failure)
     ELSE IF Has("s") THEN /\ at' = "describe"
                           /\ UNCHANGED <<cmd, options, typed, buffer, bit, printed, sent, status>>
     ELSE /\ printed' = <<"hexadecimal">> /\ at' = "exit" /\ status' = 0
          /\ UNCHANGED <<cmd, options, typed, buffer, bit, sent>>

\* jailbreak_str_pinfo_flag.
Str(b) == IF b \in DOMAIN NameOf THEN NameOf[b] ELSE "palera1n_option_undefined"

\* The loop ends before the last bit, 63.
Describe ==
  /\ at = "describe" /\ bit < Bits - 1
  /\ bit' = bit + 1
  /\ printed' = IF bit \in cmd.flags[Source] THEN Append(printed, Str(bit)) ELSE printed
  /\ UNCHANGED <<cmd, at, options, typed, buffer, sent, status>>

Described == at = "describe" /\ bit = Bits - 1 /\ Exit(0)
-------------------------------------------------------------------------------
(* bootstrap.                                                              *)

\* Sent, and answered; what p1ctl makes of the answer is Jailbreakd's.
Request(r) ==
  /\ sent' = r /\ at' = "exit" /\ status' = 0
  /\ UNCHANGED <<cmd, options, typed, buffer, bit, printed>>

\* The path of the bootstrap is resolved before anything is asked for.
Complete == ~(Has("s") /\ Has("S")) /\ cmd.paths >= 1 /\ "path" \in cmd.answers

Refuse == at = "bootstrap" /\ ~Complete /\ Exit(Failure)

Deploy(password) ==
  Request([cmd |-> "DEPLOY_BOOTSTRAP", nopassword |-> Has("s"), password |-> password])

WithoutPrompt ==
  /\ at = "bootstrap" /\ Complete
  /\ \/ Has("s") /\ Deploy("")
     \/ Has("S") /\ Deploy(Arg("S"))

Prompt ==
  /\ at = "bootstrap" /\ Complete /\ ~Has("s") /\ ~Has("S")
  /\ at' = "prompt"
  /\ UNCHANGED <<cmd, options, typed, buffer, bit, printed, sent, status>>

\* "New Password" and "Retype New Password": both pointers are getpass's buffer.
Getpass ==
  /\ at = "prompt" /\ Len(typed) >= 2
  /\ buffer' = typed[2]
  /\ typed' = SubSeq(typed, 3, Len(typed))
  /\ at' = "compare"
  /\ UNCHANGED <<cmd, options, bit, printed, sent, status>>

Password == buffer
Confirm  == buffer

\* Mutant: an empty password is taken.
Accepted_Empty == Confirm = Password
Accepted == Confirm = Password /\ Confirm # ""

Compare ==
  /\ at = "compare"
  /\ IF Accepted THEN Deploy(Password)
     ELSE /\ at' = "prompt"
          /\ UNCHANGED <<cmd, options, typed, buffer, bit, printed, sent, status>>
-------------------------------------------------------------------------------
(* overwrite.                                                              *)

Mode == Arg("m") % 2^ModeBits

Overwrite ==
  /\ at = "overwrite"
  /\ IF cmd.paths < 2 THEN Exit(Failure)
     ELSE IF "source" \notin cmd.answers THEN Exit(ENOENT)
     ELSE Request([cmd |-> "OVERWRITE_FILE_WITH_CONTENT", hasmode |-> Has("m"),
                   mode |-> IF Has("m") THEN Mode ELSE 0])

Next == Dispatch \/ Usage \/ Getopt \/ GetFlags \/ Describe \/ Described \/ Refuse \/ WithoutPrompt
        \/ Prompt \/ Getpass \/ Compare \/ Overwrite

Spec == Init /\ [][Next]_vars
-------------------------------------------------------------------------------
(* Properties.                                                             *)

Ended == at = "exit"

\* A description has a line for each flag that is set, the unknown ones too, and
\* no other line: but for the last bit, which the loop does not reach, although
\* -s is documented as "a string description of all the flags" (main.c:31).
FlagsAreDescribed ==
  Ended /\ status = 0 /\ cmd.name = "palera1n_flags" /\ Has("s") =>
    LET set == {b \in cmd.flags[Source] : b < Bits - 1}
        lines(b) == Len(SelectSeq(printed, LAMBDA l : l = Str(b)))
    IN /\ \A b \in set : lines(b) > 0
       /\ \A n \in DOMAIN printed : \E b \in set : printed[n] = Str(b)

\* An answer is printed only when there was one.
NoFlagsFromNowhere ==
  Ended /\ cmd.name = "palera1n_flags" /\ status = 0 => Source \in cmd.answers

PromptedFor == sent # Nothing /\ sent.cmd = "DEPLOY_BOOTSTRAP" /\ ~Has("s") /\ ~Has("S")

\* A new password that was asked for is what was typed first at a second prompt
\* and is not empty.  What was typed at the first prompts decides nothing, as
\* both pointers are getpass's one buffer: p1ctl has "Passwords does not match"
\* (bootstrap.c:53) to say, but asks again only after an empty one.
PasswordWasTyped ==
  PromptedFor =>
    LET prompts == Len(cmd.typed) - Len(typed) IN
    /\ sent.password # "" /\ sent.password = cmd.typed[prompts]
    /\ \A n \in 1..(prompts - 1) : n % 2 = 0 => cmd.typed[n] = ""

\* A mode reaches palera1nd only when the whole argument is a number, and it fits
\* what the kernel's modes have room for.
ModesAreNumbers ==
  sent # Nothing /\ sent.cmd = "OVERWRITE_FILE_WITH_CONTENT" /\ sent.hasmode =>
    /\ \A p \in options : p.o = "m" => p.number
    /\ sent.mode < 2^ModeBits

\* Nothing that p1ctl prints or sends is made up: it was read from where the
\* options say, or typed, and a number is one to its end.
\* (palera1n_flags_main, bootstrap_main, overwrite_main)
P1ctlInventsNothing ==
  FlagsAreDescribed /\ NoFlagsFromNowhere /\ PasswordWasTyped /\ ModesAreNumbers
===============================================================================
