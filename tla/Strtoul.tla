--------------------------------- MODULE Strtoul ---------------------------------
(***************************************************************************)
(* strtoul and strtoull of fakedyld, which are the same but for the width  *)
(* of the number: blanks, a sign, a prefix, then digits until a character  *)
(* is none.  Characters are their codes, for isupper compares with them.   *)
(***************************************************************************)
EXTENDS Integers, Sequences, FiniteSetsExt

CONSTANTS
  Numerals, \* the calls: a text and the base asked for, 0 for the text's own
  ULONG_MAX

VARIABLES
  call,     \* this call
  at,       \* what is read next
  s,        \* the offset of the character that is looked at
  base,
  neg,      \* was there a minus?
  acc,      \* the number so far
  any,      \* 0 without a digit, -1 when there are too many
  result    \* the number and the offset behind it, or none

vars == <<call, at, s, base, neg, acc, any, result>>

Char(k) == IF k < Len(call.text) THEN call.text[k + 1] ELSE 0

Zero  == 48
Minus == 45
Plus  == 43

IsSpace(c) == c \in 9..13 \cup {32}
IsDigit(c) == c \in 48..57
IsAlpha(c) == c \in 97..122 \cup 65..90
IsX(c)     == c \in {88, 120}

\* What isupper tests is whether the code is at least that of Z.
IsUpper(c) == c >= 65 /\ c >= 90

IsNumeral(c) == IsDigit(c) \/ IsAlpha(c)

\* So lower case letters exceed every base, and most capitals are below zero.
Value(c) ==
  IF IsDigit(c) THEN c - Zero
  ELSE IF IsUpper(c) THEN c - (65 - 10) ELSE c - (97 - 10)

Modulus == ULONG_MAX + 1

Init ==
  /\ call \in Numerals
  /\ at = "blanks" /\ s = 0 /\ base = call.base
  /\ neg = FALSE /\ acc = 0 /\ any = 0 /\ result = <<>>

Advance(n, next) == s' = s + n /\ at' = next /\ UNCHANGED <<call, acc, any, result>>

Blanks ==
  /\ at = "blanks"
  /\ IF IsSpace(Char(s)) THEN Advance(1, at) ELSE Advance(0, "sign")
  /\ UNCHANGED <<base, neg>>

Sign ==
  /\ at = "sign"
  /\ Advance(IF Char(s) \in {Minus, Plus} THEN 1 ELSE 0, "prefix")
  /\ neg' = (Char(s) = Minus)
  /\ UNCHANGED base

Prefix ==
  /\ at = "prefix"
  /\ \/ /\ base \in {0, 16} /\ Char(s) = Zero /\ IsX(Char(s + 1))
        /\ Advance(2, "digits") /\ base' = 16
     \/ /\ ~(base \in {0, 16} /\ Char(s) = Zero /\ IsX(Char(s + 1)))
        /\ Advance(0, "digits")
        /\ base' = IF base # 0 THEN base ELSE IF Char(s) = Zero THEN 8 ELSE 10
  /\ UNCHANGED neg

Cutoff == ULONG_MAX \div base
Cutlim == ULONG_MAX % base

\* Mutant: the last digit of the largest number is let pass.
TooLarge_LastDigit(v) == acc > Cutoff
TooLarge(v) == acc > Cutoff \/ (acc = Cutoff /\ v > Cutlim)

Digit ==
  /\ at = "digits"
  /\ LET v == Value(Char(s)) IN
     /\ IsNumeral(Char(s)) /\ v < base
     /\ \/ (any < 0 \/ TooLarge(v)) /\ any' = -1 /\ UNCHANGED acc
        \/ ~(any < 0 \/ TooLarge(v)) /\ any' = 1 /\ acc' = (acc * base + v) % Modulus
  /\ s' = s + 1
  /\ UNCHANGED <<call, at, base, neg, result>>

\* endptr is the text itself without a digit.
End ==
  /\ at = "digits"
  /\ ~(IsNumeral(Char(s)) /\ Value(Char(s)) < base)
  /\ result' = [value |-> IF any < 0 THEN ULONG_MAX ELSE IF neg THEN (-acc) % Modulus ELSE acc,
                end   |-> IF any = 0 THEN 0 ELSE s]
  /\ at' = "returned"
  /\ UNCHANGED <<call, s, base, neg, acc, any>>

Next == Blanks \/ Sign \/ Prefix \/ Digit \/ End

Spec == Init /\ [][Next]_vars
-------------------------------------------------------------------------------
(* Properties.                                                             *)

\* A numeral taken apart: its blanks, whether it has a sign and a prefix, and its
\* digits, which are as many as there are.
Form(b, sign, x, n, m) ==
  /\ \A k \in 0..(b - 1) : IsSpace(Char(k))
  /\ ~IsSpace(Char(b))
  /\ sign = (IF Char(b) \in {Minus, Plus} THEN 1 ELSE 0)
  /\ LET k == b + sign IN
     /\ x = (IF call.base \in {0, 16} /\ Char(k) = Zero /\ IsX(Char(k + 1)) THEN 2 ELSE 0)
     /\ n = (IF x = 2 THEN 16 ELSE IF call.base # 0 THEN call.base
             ELSE IF Char(k) = Zero THEN 8 ELSE 10)
     /\ LET OfBase(c) == IsDigit(c) /\ c - Zero < n IN
        /\ \A d \in (k + x)..(k + x + m - 1) : OfBase(Char(d))
        /\ ~OfBase(Char(k + x + m))

\* The number that m digits from k on stand for.
Number(k, n, m) == MapThenSumSet(LAMBDA d : (Char(d) - Zero) * n ^ (k + m - 1 - d), k..(k + m - 1))

Expected(k, n, m, minus) ==
  LET v == Number(k, n, m) IN
  IF v > ULONG_MAX THEN ULONG_MAX ELSE IF minus THEN (-v) % Modulus ELSE v

\* Of a numeral whose digits no letter follows, the whole value is returned, or
\* the largest one when it is larger, and the end is behind the last digit; a
\* text without digits is no number.  (strtoul, strtoull)
NumberIsRead ==
  at = "returned" =>
    \E b, m \in 0..Len(call.text), sign \in 0..1, x \in {0, 2}, n \in {8, 10, 16} \cup {call.base} :
      /\ Form(b, sign, x, n, m)
      /\ LET k == b + sign + x IN
         ~IsAlpha(Char(k + m)) =>
           result = [value |-> Expected(k, n, m, Char(b) = Minus), end |-> IF m = 0 THEN 0 ELSE k + m]
===============================================================================
