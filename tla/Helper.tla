------------------------------- MODULE Helper -------------------------------
(***************************************************************************)
(* The conversions of helper.c.  A string is a sequence of tokens: the     *)
(* characters a conversion looks at are tokens of their own, a word that   *)
(* none looks into is one token.                                           *)
(***************************************************************************)
EXTENDS Integers, Sequences, SequencesExt

NULL == <<"NULL">>                 \* a string that has not been set
Digits == <<"0", "1", "2", "3", "4", "5", "6", "7", "8", "9">>
Value  == [d \in ToSet(Digits) |-> CHOOSE n \in 0 .. 9 : Digits[n + 1] = d]

\* What the digits so far make, and whether the last character was one.
AddDigit(number, c, base) ==
    IF number.digit /\ c \in DOMAIN Value /\ Value[c] < base
    THEN [digit |-> TRUE, value |-> base * number.value + Value[c]]
    ELSE [number EXCEPT !.digit = FALSE]

\* str_to_int: leading blanks, then digits and nothing else.  The base is 0, so a
\* leading zero makes the number octal.  The value is stored before the tests: one that
\* fails leaves the number its first digits make.
StrToInt(string) ==
    LET length == Len(string)
        first  == SelectInSeq(string, LAMBDA c : c # "SP")
        base   == IF first \in 1 .. length - 1 /\ string[first] = "0" THEN 8 ELSE 10
        number[i \in 0 .. length] ==
          IF first = 0 \/ i < first THEN [digit |-> i + 1 = first, value |-> 0]
          ELSE AddDigit(number[i - 1], string[i], base)
    IN  [ok |-> first # 0 /\ number[length].digit, value |-> number[length].value]

LowerInName(c) == IF c = "Host" THEN "host" ELSE c

\* str_to_lower, on the names the parsers compare with.
Lower(c) == CASE c \in {"Content-Length", "CONTENT-LENGTH"} -> "content-length"
              [] c = "Host"        -> "host"
              [] c = "BusyWorkers" -> "busyworkers"
              [] c = "IdleWorkers" -> "idleworkers"
              [] c = "Uptime"      -> "uptime"
              [] OTHER             -> c
=============================================================================
