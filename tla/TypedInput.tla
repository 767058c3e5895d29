----------------------------- MODULE TypedInput -----------------------------
(***************************************************************************)
(* What the keyboard promises the shell: characters arrive in the order in *)
(* which they were typed, those that find the buffer full are dropped, and *)
(* kgets() hands over what was typed up to Enter, edited by Backspace and  *)
(* cut at a maximal length.                                                *)
(***************************************************************************)
EXTENDS Integers, Sequences

CONSTANTS
    Chars,          \* characters a key can produce
    Printable,      \* those kgets puts into the line
    Backspace, Enter,
    Capacity,       \* characters the buffer holds
    MaxLine         \* characters a line holds

VARIABLES
    typed,          \* characters waiting in the buffer
    taken,          \* the character kgets is working on, or <<>>
    line,           \* the line so far
    submitted       \* the line is complete and belongs to the shell

vars == <<typed, taken, line, submitted>>

Init ==
    /\ typed = <<>> /\ taken = <<>> /\ line = <<>>
    /\ submitted = FALSE

\* A key is hit while there is room.
Type(c) ==
    /\ Len(typed) < Capacity
    /\ typed' = Append(typed, c)
    /\ UNCHANGED <<taken, line, submitted>>

Take ==
    /\ typed # <<>> /\ taken = <<>> /\ ~submitted
    /\ taken' = <<Head(typed)>>
    /\ typed' = Tail(typed)
    /\ UNCHANGED <<line, submitted>>

\* The line after c.
Edited(c) ==
    IF c \in Printable /\ Len(line) < MaxLine THEN Append(line, c)
    ELSE IF c = Backspace /\ line # <<>> THEN SubSeq(line, 1, Len(line) - 1)
    ELSE line

Apply ==
    /\ taken # <<>>
    /\ taken' = <<>>
    /\ line' = Edited(taken[1])
    /\ submitted' = (taken[1] = Enter)
    /\ UNCHANGED typed

\* The shell has executed the line and asks for the next one.
Restart ==
    /\ submitted
    /\ submitted' = FALSE
    /\ line' = <<>>
    /\ UNCHANGED <<typed, taken>>

Next == (\E c \in Chars : Type(c)) \/ Take \/ Apply \/ Restart

Spec == Init /\ [][Next]_vars

=============================================================================
