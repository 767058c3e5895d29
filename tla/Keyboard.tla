------------------------------ MODULE Keyboard ------------------------------
(***************************************************************************)
(* The PS/2 keyboard (drivers/in/ps2.c): keyboard_handler on IRQ1 turns    *)
(* scancodes into characters and pushes them into a ring; the shell pops   *)
(* them in kgetch() and edits them into a line in kgets().                 *)
(*                                                                         *)
(* A handler runs with IF clear and is one step.  The shell's accesses to  *)
(* the ring are separate steps, with an IRQ1 possible between any two of   *)
(* them.  Today the 8259A holds IRQ1 back while the shell runs (see        *)
(* Threads); the ring does not rely on it, and neither does this module.   *)
(***************************************************************************)
EXTENDS Integers, Sequences

CONSTANTS
    KB_BUF_SIZE,        \* cells of the ring: 128 in the code
    BUF_SIZE,           \* cells of kgets' static buf: 256 in the code
    Keys                \* keys of the keyboard that are hit: a subset of KeySet

Letters == {"a"}
KeySet == {"a", "1", "space", "backspace", "enter", "esc", "f1",
           "lshift", "rshift", "caps"}
ShiftKeys == {"lshift", "rshift"}

ASSUME KeyboardAssumption ==
    /\ KB_BUF_SIZE \in Nat /\ KB_BUF_SIZE > 1
    /\ BUF_SIZE \in Nat /\ BUF_SIZE > 1
    /\ Keys \subseteq KeySet

NUL == "NUL"
Printable == {"a", "A", "1", "!", " "}
Chars == Printable \cup {"BS", "LF", "ESC"}

VARIABLES
    kb_buf, kb_head, kb_tail,
    shift_pressed, caps_lock,
    registered,         \* IRQ1 goes to keyboard_handler, not to idle_irq1
    down,               \* shift keys the user holds down
    at,                 \* where the shell is
    c,                  \* kgetch's c
    buf, pos            \* kgets' buf and pos

ring  == <<kb_buf, kb_head, kb_tail>>
mods  == <<shift_pressed, caps_lock, down>>
shell == <<at, c, buf, pos>>
vars  == <<ring, mods, registered, shell>>

Init ==
    /\ kb_buf = [i \in 0 .. KB_BUF_SIZE - 1 |-> NUL]
    /\ kb_head = 0 /\ kb_tail = 0
    /\ shift_pressed = FALSE /\ caps_lock = FALSE
    /\ registered = FALSE
    /\ down = {}
    /\ at = "kgets" /\ c = NUL
    /\ buf = [i \in 0 .. BUF_SIZE - 1 |-> NUL]
    /\ pos = 0

-----------------------------------------------------------------------------
(* IRQ1. *)

\* One letter, one key with a second symbol, one without, the control
\* characters kgets knows, one it does not, and a key without a character
\* stand for the tables' 128 entries.
scancode_ascii(key) ==
    CASE key = "a"         -> "a"
      [] key = "1"         -> "1"
      [] key = "space"     -> " "
      [] key = "backspace" -> "BS"
      [] key = "enter"     -> "LF"
      [] key = "esc"       -> "ESC"
      [] OTHER             -> NUL

scancode_ascii_shift(key) ==
    CASE key = "a" -> "A" [] key = "1" -> "!" [] OTHER -> scancode_ascii(key)

\* The handler's choice of c.  Caps Lock inverts Shift for letters only.
Translate(key) ==
    IF key \in Letters
    THEN IF shift_pressed # caps_lock THEN "A" ELSE "a"
    ELSE IF shift_pressed /\ scancode_ascii_shift(key) # NUL
    THEN scancode_ascii_shift(key) ELSE scancode_ascii(key)

\* Mutant of keyboard_buffer_push: no cell is left empty.
PushOverfull(ch) ==
    /\ kb_buf' = [kb_buf EXCEPT ![kb_head] = ch]
    /\ kb_head' = (kb_head + 1) % KB_BUF_SIZE

\* A character that finds the ring full is dropped.
keyboard_buffer_push(ch) ==
    LET next == (kb_head + 1) % KB_BUF_SIZE IN
    IF next # kb_tail
    THEN kb_buf' = [kb_buf EXCEPT ![kb_head] = ch] /\ kb_head' = next
    ELSE UNCHANGED <<kb_buf, kb_head>>

\* Before the first kgetch idle_irq1 throws the byte away.
idle_irq1 ==
    /\ ~registered
    /\ UNCHANGED <<ring, shift_pressed, caps_lock>>

\* The make code of a shift key.
ShiftDown ==
    /\ shift_pressed' = TRUE
    /\ UNCHANGED <<ring, caps_lock>>

\* Mutant of ShiftUp: only the left key's break code is known.
ShiftUpLeft(key) ==
    /\ shift_pressed' = (shift_pressed /\ key # "lshift")
    /\ UNCHANGED <<ring, caps_lock>>

\* The break code of a shift key, whichever of the two.
ShiftUp(key) ==
    /\ key \in ShiftKeys
    /\ shift_pressed' = FALSE
    /\ UNCHANGED <<ring, caps_lock>>

CapsDown ==
    /\ caps_lock' = ~caps_lock
    /\ UNCHANGED <<ring, shift_pressed>>

CharDown(key) ==
    /\ LET ch == Translate(key) IN
       IF ch # NUL THEN keyboard_buffer_push(ch) ELSE UNCHANGED <<kb_buf, kb_head>>
    /\ UNCHANGED <<kb_tail, shift_pressed, caps_lock>>

\* keyboard_handler on a make code.
MakeHandler(key) ==
    /\ registered
    /\ \/ key \in ShiftKeys /\ ShiftDown
       \/ key = "caps" /\ CapsDown
       \/ key \notin ShiftKeys \cup {"caps"} /\ CharDown(key)

\* A key goes down, or repeats while it is held down.
Press(key) ==
    /\ idle_irq1 \/ MakeHandler(key)
    /\ down' = IF key \in ShiftKeys THEN down \cup {key} ELSE down
    /\ UNCHANGED <<registered, shell>>

\* A shift key is let go.  Every other break code is ignored.
Unpress(key) ==
    /\ key \in down
    /\ idle_irq1 \/ (registered /\ ShiftUp(key))
    /\ down' = down \ {key}
    /\ UNCHANGED <<registered, shell>>

Irq1 == \E key \in Keys : Press(key) \/ Unpress(key)

-----------------------------------------------------------------------------
(* The shell. *)

\* kgetch: idt_register_handler(33, keyboard_handler).
Register ==
    /\ at = "kgets"
    /\ registered' = TRUE
    /\ at' = "getch"
    /\ UNCHANGED <<ring, mods, c, buf, pos>>

\* keyboard_buffer_pop, first half: *c = kb_buf[kb_tail].  With an empty ring
\* kgetch yields and tries again, which changes nothing here.
PopRead ==
    /\ at = "getch" /\ kb_head # kb_tail
    /\ c' = kb_buf[kb_tail]
    /\ at' = "pop"
    /\ UNCHANGED <<ring, mods, registered, buf, pos>>

\* Mutant of PopAdvance: the tail does not wrap to 0.
PopAdvanceNoWrap ==
    /\ at = "pop"
    /\ kb_tail' = IF kb_tail = KB_BUF_SIZE - 1 THEN kb_tail ELSE kb_tail + 1
    /\ at' = "edit"
    /\ UNCHANGED <<kb_buf, kb_head, mods, registered, c, buf, pos>>

\* Second half.
PopAdvance ==
    /\ at = "pop"
    /\ kb_tail' = (kb_tail + 1) % KB_BUF_SIZE
    /\ at' = "edit"
    /\ UNCHANGED <<kb_buf, kb_head, mods, registered, c, buf, pos>>

\* Mutant of Enter: the line is not terminated.
EnterNoNul ==
    /\ at = "edit" /\ c = "LF"
    /\ at' = "exec"
    /\ UNCHANGED <<ring, mods, registered, c, buf, pos>>

\* kgets: Enter ends the line and returns it.
Enter ==
    /\ at = "edit" /\ c = "LF"
    /\ buf' = [buf EXCEPT ![pos] = NUL]
    /\ at' = "exec"
    /\ UNCHANGED <<ring, mods, registered, c, pos>>

Insert ==
    /\ at = "edit" /\ c \in Printable /\ pos < BUF_SIZE - 1
    /\ buf' = [buf EXCEPT ![pos] = c]
    /\ pos' = pos + 1
    /\ at' = "kgets"
    /\ UNCHANGED <<ring, mods, registered, c>>

Erase ==
    /\ at = "edit" /\ c = "BS" /\ pos > 0
    /\ pos' = pos - 1
    /\ at' = "kgets"
    /\ UNCHANGED <<ring, mods, registered, c, buf>>

\* Neither Enter, nor Backspace with something to erase, nor a printable
\* character that fits.
Ignore ==
    /\ at = "edit" /\ c # "LF"
    /\ ~(c = "BS" /\ pos > 0)
    /\ ~(c \in Printable /\ pos < BUF_SIZE - 1)
    /\ at' = "kgets"
    /\ UNCHANGED <<ring, mods, registered, c, buf, pos>>

\* sh_exec(buf) returned; shell() calls kgets again, with pos = 0.
Executed ==
    /\ at = "exec"
    /\ pos' = 0
    /\ at' = "kgets"
    /\ UNCHANGED <<ring, mods, registered, c, buf>>

Shell ==
    \/ Register \/ PopRead \/ PopAdvance
    \/ Enter \/ Insert \/ Erase \/ Ignore
    \/ Executed

Next == Irq1 \/ Shell

Spec == Init /\ [][Next]_vars

\* The shell's thread is scheduled again and again (ReadyRuns of Threads).
FairSpec == Spec /\ WF_vars(Shell)

-----------------------------------------------------------------------------

\* Every variable has its type: the indices of the ring and of the line stay
\* inside their buffers.
TypeOK ==
    /\ kb_buf \in [0 .. KB_BUF_SIZE - 1 -> Chars \cup {NUL}]
    /\ kb_head \in 0 .. KB_BUF_SIZE - 1 /\ kb_tail \in 0 .. KB_BUF_SIZE - 1
    /\ shift_pressed \in BOOLEAN /\ caps_lock \in BOOLEAN
    /\ registered \in BOOLEAN
    /\ down \subseteq ShiftKeys
    /\ at \in {"kgets", "getch", "pop", "edit", "exec"}
    /\ c \in Chars \cup {NUL}
    /\ buf \in [0 .. BUF_SIZE - 1 -> Chars \cup {NUL}]
    /\ pos \in 0 .. BUF_SIZE - 1

\* Characters between kb_tail and kb_head.
Waiting == (kb_head + KB_BUF_SIZE - kb_tail) % KB_BUF_SIZE

\* The character popped is the one that was read: an IRQ1 between the two
\* halves of keyboard_buffer_pop overwrites neither it nor its cell.
PopIntact == at = "pop" => kb_head # kb_tail /\ kb_buf[kb_tail] = c

\* sh_exec gets a string of exactly pos characters, all printable, whatever
\* was left in the static buffer by longer lines before.
LineTerminated ==
    at = "exec" => /\ buf[pos] = NUL
                   /\ \A i \in 0 .. pos - 1 : buf[i] \in Printable

\* Shift does not stick: when no shift key is held, letters are lower case
\* again, also when a key went down before the first kgetch.
ShiftNotStuck == down = {} => ~shift_pressed

\* What waits in the ring, in order, and the line so far.
Typed == [i \in 1 .. Waiting |-> kb_buf[(kb_tail + i - 1) % KB_BUF_SIZE]]
Line  == [i \in 1 .. pos |-> buf[i - 1]]

Abstract == INSTANCE TypedInput WITH
    Backspace <- "BS", Enter <- "LF",
    Capacity  <- KB_BUF_SIZE - 1,
    MaxLine   <- BUF_SIZE - 1,
    typed     <- Typed,
    taken     <- IF at = "edit" THEN <<c>> ELSE <<>>,
    line      <- Line,
    submitted <- at = "exec"

\* The ring, the two-step pop and the in-place line editing implement
\* TypedInput: nothing typed is reordered, duplicated or lost except what
\* finds the ring full, and the shell gets the edited line.
ImplementsTypedInput == Abstract!Spec

\* An Enter that got into the ring reaches the shell, however many
\* characters are before it and whatever is typed meanwhile.
EnterSubmits ==
    (at # "exec" /\ \E i \in 1 .. Waiting : Typed[i] = "LF") ~> at = "exec"

=============================================================================
