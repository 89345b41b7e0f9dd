----------------------------- MODULE IntToString -----------------------------
(***************************************************************************)
(* int_to_string of kernel.cpp, with which every number is printed: a digit  *)
(* is found in each step, then all are copied.                               *)
(***************************************************************************)
EXTENDS Integers, Sequences, SequencesExt

CONSTANTS
    LargestInt, \* 2 ^ 31 - 1
    Numbers,    \* the numbers printed
    BufferSize  \* the length of buffer in print_integer, 20

\* The smallest int is its own negation.
Smallest == -LargestInt - 1

PowerOfTen[k \in Nat] == IF k = 0 THEN 1 ELSE 10 * PowerOfTen[k - 1]

ASSUME IntToStringAssumption ==
    /\ LargestInt \in Nat \ {0} /\ Numbers \subseteq Smallest .. LargestInt
    /\ BufferSize \in Nat /\ BufferSize >= 2 /\ LargestInt < PowerOfTen[BufferSize - 2]

VARIABLES
    asked, num,     \* the argument of int_to_string, and what is left of it
    temp,           \* the digits found, the last one first
    text            \* the buffer

printVars == <<asked, num, temp, text>>

PrintInit ==
    /\ asked \in Numbers
    /\ num = asked /\ temp = <<>> /\ text = <<>>

-----------------------------------------------------------------------------
\* Division and remainder of C, which round towards zero.
Quotient(n) == IF n < 0 THEN -((-n) \div 10) ELSE n \div 10
Remainder(n) == n - 10 * Quotient(n)

\* The characters: digits as numbers, and the sign.
Sign == "-"

\* The magnitude that int_to_string goes on with; buffer_size is one less then.
Negate(n) == IF n = Smallest THEN n ELSE -n
Room == IF asked < 0 THEN BufferSize - 1 ELSE BufferSize

\* Mutant: the digits are copied as they were found.
NotInverted(s) == s

Inverted(s) == Reverse(s)

\* One round of the do loop, of which there is at least one.
FindDigit ==
    LET n == IF temp = <<>> /\ asked < 0 THEN Negate(asked) ELSE num IN
    /\ text = <<>>
    /\ temp = <<>> \/ (num # 0 /\ Len(temp) < Room)
    /\ temp' = Append(temp, Remainder(n))
    /\ num' = Quotient(n)
    /\ UNCHANGED <<asked, text>>

CopyDigits ==
    /\ text = <<>> /\ temp # <<>>
    /\ num = 0 \/ Len(temp) >= Room
    /\ text' = (IF asked < 0 THEN <<Sign>> ELSE <<>>) \o Inverted(temp)
    /\ UNCHANGED <<asked, num, temp>>

Printed == text # <<>> /\ UNCHANGED printVars

PrintNext == FindDigit \/ CopyDigits \/ Printed

PrintSpec == PrintInit /\ [][PrintNext]_printVars

-----------------------------------------------------------------------------
\* The number that a sequence of digits stands for.
Decimals(s) ==
    LET v[k \in 0 .. Len(s)] == IF k = 0 THEN 0 ELSE 10 * v[k - 1] + s[k]
    IN  v

Decimal(s) == Decimals(s)[Len(s)]

\* What is printed is the decimal notation of the number, without leading zeros, and
\* it fits the buffer with the zero byte behind it.  The smallest int is excepted:
\* its digits come out negative.
IntegerPrinted ==
    text # <<>> /\ asked # Smallest =>
        LET digits == IF asked < 0 THEN Tail(text) ELSE text
            magnitude == IF asked < 0 THEN -asked ELSE asked
        IN  /\ asked < 0 => Head(text) = Sign
            /\ \A k \in DOMAIN digits : digits[k] \in 0 .. 9
            /\ Decimal(digits) = magnitude
            /\ Len(digits) > 1 => digits[1] # 0
            /\ Len(text) < BufferSize
==============================================================================
