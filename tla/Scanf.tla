-------------------------------- MODULE Scanf --------------------------------
(***************************************************************************)
(* Reading an integer: the keyboard driver, the one global                  *)
(* IntegerScanfKeyboardEventHandler of kernel.cpp, and the processes that    *)
(* call scanf in the loop of collatztask_with_input.                        *)
(*                                                                          *)
(* A key is an interrupt, so its whole handling is one step; a process can  *)
(* be interrupted between any two instructions, so the three stores of      *)
(* Reset, the polling and GetValue are steps of their own.  The echo of the *)
(* key is the interrupt of module Console.                                  *)
(***************************************************************************)
EXTENDS Integers, Sequences, SequencesExt

CONSTANTS
    Readers,    \* the processes that run collatztask_with_input
    Keys,       \* the scan codes the keyboard sends
    MaxInt,     \* the largest int, 2 ^ 31 - 1
    MaxKeys     \* bound: the keys of one number before Enter

ASSUME ScanfAssumption ==
    Keys \subseteq 0 .. 255 /\ MaxInt \in Nat /\ MaxKeys \in Nat

VARIABLES
    value, completed, negative, \* the handler
    at,         \* where each reader is
    number,     \* what scanf stored for each reader
    line,       \* history: the characters accepted since value was reset
    torn        \* history: '-' or Enter was struck between two stores of Reset

handler == <<value, completed, negative>>
scanfVars == <<handler, at, number, line, torn>>

\* An int that overflows wraps.
Wrap(n) == ((n + MaxInt + 1) % (2 * (MaxInt + 1))) - (MaxInt + 1)

Enter == 10
Minus == 45
Digits == 48 .. 57
NoChar == 0

\* The character of a scan code.  All letters and the comma, the full stop and
\* the space, which the handler only echoes, are one character.
KeyChar(key) ==
    CASE key \in 2 .. 11 -> 48 + ((key - 1) % 10)
      [] key = 28 -> Enter
      [] key = 53 -> Minus
      [] key \in (16 .. 25) \cup (30 .. 38) \cup (44 .. 52) \cup {57} -> 97
      [] OTHER -> NoChar

ScanfInit ==
    /\ value = 0 /\ completed = FALSE /\ negative = FALSE
    /\ at = [r \in Readers |-> "prompt"]
    /\ number = [r \in Readers |-> 0]
    /\ line = <<>> /\ torn = FALSE

-----------------------------------------------------------------------------
(* The keyboard.                                                            *)

Resetting == \E r \in Readers : at[r] \in {"reset completed", "reset negative"}

\* Mutant: keys are taken after Enter as well.
AcceptAlways(c) == TRUE

Accept(c) == ~completed

OnKeyDown(c) ==
    IF ~Accept(c) THEN UNCHANGED <<handler, line, torn>>
    ELSE /\ line' = Append(line, c)
         /\ torn' = (torn \/ (Resetting /\ c \in {Minus, Enter}))
         /\ \/ /\ c = Enter
               /\ value' = IF negative THEN Wrap(-value) ELSE value
               /\ completed' = TRUE
               /\ UNCHANGED negative
            \/ /\ c = Minus /\ value = 0 /\ ~negative
               /\ negative' = TRUE
               /\ UNCHANGED <<value, completed>>
            \/ /\ c \in Digits
               /\ value' = Wrap(value * 10 + (c - 48))
               /\ UNCHANGED <<completed, negative>>
            \/ /\ c \notin Digits \cup {Enter}
               /\ ~(c = Minus /\ value = 0 /\ ~negative)
               /\ UNCHANGED handler

\* KeyboardDriver::HandleInterrupt.  A released key (from 128 on) and a code
\* without a character do not reach the handler.
KeyboardInterrupt(key) ==
    /\ KeyChar(key) # NoChar /\ ~completed =>
          Len(line) < MaxKeys \/ (KeyChar(key) = Enter /\ Len(line) = MaxKeys)
    /\ IF key < 128 /\ KeyChar(key) # NoChar
       THEN OnKeyDown(KeyChar(key)) ELSE UNCHANGED <<handler, line, torn>>
    /\ UNCHANGED <<at, number>>

-----------------------------------------------------------------------------
(* scanf.                                                                   *)

Go(r, from, to) == at[r] = from /\ at' = [at EXCEPT ![r] = to]

ResetValue(r) ==
    /\ Go(r, "prompt", "reset completed")
    /\ value' = 0
    /\ line' = <<>> /\ torn' = FALSE
    /\ UNCHANGED <<completed, negative, number>>

ResetCompleted(r) ==
    /\ Go(r, "reset completed", "reset negative")
    /\ completed' = FALSE
    /\ UNCHANGED <<value, negative, number, line, torn>>

ResetNegative(r) ==
    /\ Go(r, "reset negative", "poll")
    /\ negative' = FALSE
    /\ UNCHANGED <<value, completed, number, line, torn>>

\* Mutant: a number counts as complete when it is not zero.
CompletedNonzero == completed /\ value # 0

IsCompleted == completed

LeavePoll(r) ==
    /\ IsCompleted
    /\ Go(r, "poll", "get")
    /\ UNCHANGED <<handler, number, line, torn>>

GetValue(r) ==
    /\ Go(r, "get", "set_state")
    /\ number' = [number EXCEPT ![r] = value]
    /\ UNCHANGED <<handler, line, torn>>

\* set_state(0) leaves the process Ready; printCollatz comes to its end and the
\* loop of the task goes on.  From 0 and from a negative number the sequence
\* never reaches 1, and the process prints for ever.
printCollatz(r) ==
    /\ number[r] > 0
    /\ Go(r, "set_state", "prompt")
    /\ UNCHANGED <<handler, number, line, torn>>

ReaderStep(r) ==
    \/ ResetValue(r) \/ ResetCompleted(r) \/ ResetNegative(r)
    \/ LeavePoll(r) \/ GetValue(r) \/ printCollatz(r)

ScanfNext ==
    \/ \E key \in Keys : KeyboardInterrupt(key)
    \/ \E r \in Readers : ReaderStep(r)

\* The timer gives every reader its turn again and again; nobody has to type.
ScanfFairness == \A r \in Readers : WF_scanfVars(ReaderStep(r))

ScanfSpec == ScanfInit /\ [][ScanfNext]_scanfVars /\ ScanfFairness

-----------------------------------------------------------------------------
(* The number a line of characters stands for.                              *)

\* The digits among its first k characters, as one decimal number that wraps.
Magnitudes(s) ==
    LET m[k \in 0 .. Len(s)] ==
            IF k = 0 THEN 0
            ELSE IF s[k] \in Digits THEN Wrap(m[k - 1] * 10 + (s[k] - 48))
            ELSE m[k - 1]
    IN  m

Magnitude(s) == Magnitudes(s)[Len(s)]

\* A minus sign counts before the first digit that makes the number nonzero.
Negative(s) == \E k \in DOMAIN s : s[k] = Minus /\ Magnitudes(s)[k - 1] = 0

NumberOf(s) == IF Negative(s) THEN Wrap(-Magnitude(s)) ELSE Magnitude(s)

\* "get value of scanned number": what scanf stores is the number typed on the line
\* that the user began after the call and ended with Enter, whatever keys are struck
\* before the call, between two of its instructions, or after Enter.  Only a '-' or
\* an Enter struck in the middle of Reset is excepted, for Reset may wipe it out.
ScannedNumber ==
    [][\A r \in Readers :
          at[r] = "get" /\ at'[r] = "set_state" /\ ~torn =>
              /\ line # <<>> /\ Last(line) = Enter
              /\ Enter \notin Range(Front(line))
              /\ number'[r] = NumberOf(line)]_scanfVars

\* Enter ends the call: with the line complete, 0 and the empty line included, the
\* reader does not poll for ever.
EnterEndsScanf ==
    \A r \in Readers :
        (at[r] = "poll" /\ ~torn /\ line # <<>> /\ Last(line) = Enter) ~> at[r] # "poll"
==============================================================================
