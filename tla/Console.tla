------------------------------ MODULE Console ------------------------------
(***************************************************************************)
(* The text screen (src/drivers/video/vga_default.c) and those who write   *)
(* on it: kernel_main at boot, the shell with its prompt, its echo of the  *)
(* typed line and the output of its commands, and the tasks of the status  *)
(* bar (src/kernel/tasks/gui.c).                                           *)
(*                                                                         *)
(* A thread gives the processor up only where it yields (see Threads), so  *)
(* what the shell prints between two yields is one step.  A position is a  *)
(* byte offset of the code divided by two.  The commands are told apart by *)
(* what they print, not by the line that called them.                      *)
(***************************************************************************)
EXTENDS Integers, Sequences

CONSTANTS
    MAX_ROWS, MAX_COLS,
    BufSize,            \* kprintf's buf: 256 in the code
    LineMax,            \* characters of kgets' line: 255 in the code
    WordMax,            \* characters `split' leaves of a word: 63 in the code
    Prompt,
    Keys,               \* characters typed
    Messages,           \* what commands print without a colour of their own
    Errors,             \* what they print in red
    Texts,              \* what they repeat with no colour around it: names and
                        \* lines from the disk, values, the word after `xxd'
    Logs,               \* what commands print with kdbg
    Files,              \* what `cat' prints
    ClockCol, CpuCol,   \* columns of the status bar: 12 and 75 in the code
    Times,              \* ticks that calculate_cpu_usage finds accounted
    TickMod             \* 2^32 in the code

Cells == MAX_ROWS * MAX_COLS
Usable == MAX_COLS - 1          \* putchar leaves the last column alone
WHITE_ON_BLACK == 7
BAR_COLOUR == 112               \* 0x70
CursorMod == 32768              \* the cursor registers hold half a 16-bit offset
Blank == " "

ASSUME ConsoleAssumption ==
    /\ MAX_ROWS \in Nat /\ MAX_ROWS > 2 /\ MAX_COLS \in Nat /\ MAX_COLS > 1
    /\ Cells <= CursorMod                 \* the cursor registers hold a position
    /\ \A text \in Messages \cup Errors \cup Texts \cup Logs \cup Files \cup {Prompt} :
         text \in Seq(STRING)
    /\ LineMax \in Nat /\ BufSize \in Nat /\ BufSize > 15
    /\ \A text \in Messages \cup Logs : Len(text) < BufSize
    /\ \A text \in Errors : Len(text) + 13 < BufSize
    /\ Keys \cap {Blank, "LF", "BS"} = {}   \* a blank would only end the word
    /\ WordMax \in Nat /\ WordMax + 14 < BufSize
    /\ Len(Prompt) > 0
    /\ Len(Prompt) + LineMax < (MAX_ROWS - 2) * Usable  \* a line fits below the bar
    /\ ClockCol \in 0 .. MAX_COLS - 1 /\ CpuCol \in 0 .. MAX_COLS - 1
    /\ CpuCol + 3 <= MAX_COLS
    /\ Times \subseteq Nat /\ TickMod \in Nat \ {0}

VARIABLES
    screen,     \* cells, cursor, colour (kprint's static), start
    at,         \* where the shell is
    line,       \* the line kgets has so far
    stuck,      \* history: Backspace in column 0 since the prompt
    tinted      \* history: the colour is from a text that was repeated

vars == <<screen, at, line, stuck, tinted>>

-----------------------------------------------------------------------------
(* The screen.  `start' is a history field: where the echo of the line     *)
(* begins; it moves up with the text.                                      *)

Row(pos) == pos \div MAX_COLS
Col(pos) == pos % MAX_COLS

set_cursor(s, pos) == [s EXCEPT !.cursor = pos % CursorMod]

\* A store may go past the screen: it then shows in the domain.
write(s, ch, attr, pos) ==
    [s EXCEPT !.cells = [p \in DOMAIN @ \cup {pos} |-> IF p = pos THEN <<ch, attr>> ELSE @[p]]]

scroll_line(s) ==
    [s EXCEPT !.cells = [p \in DOMAIN @ |->
                          IF p < Cells - MAX_COLS THEN @[p + MAX_COLS]
                          ELSE IF p < Cells THEN <<Blank, WHITE_ON_BLACK>> ELSE @[p]],
              !.cursor = (MAX_ROWS - 1) * MAX_COLS,
              !.start = IF @ < MAX_COLS THEN 0 ELSE @ - MAX_COLS]

kclear(s) ==
    [s EXCEPT !.cells = [p \in DOMAIN @ |-> IF p < Cells THEN <<"NUL", WHITE_ON_BLACK>> ELSE @[p]],
              !.cursor = 0]

\* Mutant of NextRow: the last row is not the end.
NextRowUnchecked(s) == set_cursor(s, s.cursor - Col(s.cursor) + MAX_COLS)

NextRow(s) ==
    IF Row(s.cursor) = MAX_ROWS - 1 THEN scroll_line(s)
    ELSE set_cursor(s, s.cursor - Col(s.cursor) + MAX_COLS)

\* Mutant of PutGlyph: the offset is not read again after the line was wrapped.
PutGlyphStale(s, ch, attr) ==
    LET t == IF Col(s.cursor) >= MAX_COLS - 1 THEN NextRow(s) ELSE s
    IN  set_cursor(write(t, ch, attr, s.cursor), s.cursor + 1)

\* putchar of anything but a line feed or a backspace.
PutGlyph(s, ch, attr) ==
    LET t == IF Col(s.cursor) >= MAX_COLS - 1 THEN NextRow(s) ELSE s
        u == IF t.cursor = Cells THEN scroll_line(t) ELSE t
    IN  set_cursor(write(u, ch, attr, t.cursor), t.cursor + 1)

PutBackspace(s, attr) ==
    LET t == PutGlyph(set_cursor(s, s.cursor - 1), Blank, attr) IN set_cursor(t, t.cursor - 1)

putchar(s, ch, attr) ==
    CASE ch = "LF" -> NextRow(s)
      [] ch = "BS" -> PutBackspace(s, attr)
      [] OTHER     -> PutGlyph(s, ch, attr)

-----------------------------------------------------------------------------
(* Printing.                                                               *)

Hex == <<"0", "1", "2", "3", "4", "5", "6", "7", "8", "9", "A", "B", "C", "D", "E", "F">>
HexDigits == {Hex[i] : i \in 1 .. 16}
HexValue(ch) == (CHOOSE i \in 1 .. 16 : Hex[i] = ch) - 1

\* A colour tag <(XY)> begins at i.
TagAt(text, i) ==
    /\ i + 5 <= Len(text)
    /\ text[i] = "<" /\ text[i + 1] = "(" /\ text[i + 4] = ")" /\ text[i + 5] = ">"
    /\ text[i + 2] \in HexDigits /\ text[i + 3] \in HexDigits

HasTag(text) == \E i \in 1 .. Len(text) : TagAt(text, i)

\* The messages that repeat nothing and are not in red have no tag.
ASSUME MessagesAssumption == \A text \in Messages : ~HasTag(text)

InTag(text, i) == \E j \in 1 .. i : j > i - 6 /\ TagAt(text, j)

PrintAt(s, text, i) ==
    IF TagAt(text, i)
    THEN [s EXCEPT !.colour = HexValue(text[i + 2]) * 16 + HexValue(text[i + 3])]
    ELSE IF InTag(text, i) THEN s
    ELSE putchar(s, text[i], s.colour)

\* The text is printed from left to right; tags do not overlap.
kprint(s, text) ==
    LET after[i \in 0 .. Len(text)] == IF i = 0 THEN s ELSE PrintAt(after[i - 1], text, i)
    IN  after[Len(text)]

\* The text is built in a buffer.  The characters of the format are copied
\* while there is room; those of an argument are all copied.
Fits(text) == Len(text) < BufSize
kprintf(s, text) == kprint(s, IF Fits(text) THEN text ELSE SubSeq(text, 1, BufSize - 1))

Tag(hi, lo) == <<"<", "(", hi, lo, ")", ">">>

\* The three colours of kdbg's levels that are used: KINFO, KWARN, KERR.
Levels == {"F", "E", "C"}
kdbg(s, level, text) ==
    kprintf(kprintf(kprintf(s, Tag("0", level) \o <<"[", "]", ":">> \o Tag("0", "7")), text), Tag("0", "7"))

\* vga_draw_text, and the loop of kprintci_vidmem.
Draw(s, text, pos, attr) ==
    LET after[i \in 0 .. Len(text)] ==
          IF i = 0 THEN s ELSE write(after[i - 1], text[i], attr, pos + i - 1)
    IN  after[Len(text)]

int_to_str(num) ==
    LET digits[n \in 0 .. num] == IF n < 10 THEN <<Hex[n + 1]>>
                                  ELSE Append(digits[n \div 10], Hex[(n % 10) + 1])
    IN  digits[num]

-----------------------------------------------------------------------------
(* The shell.                                                              *)

\* The boot loader leaves the cursor anywhere.
Init ==
    /\ \E pos \in 0 .. Cells - 1 :
         screen = [cells |-> [p \in 0 .. Cells - 1 |-> <<Blank, WHITE_ON_BLACK>>],
                   cursor |-> pos, colour |-> WHITE_ON_BLACK, start |-> 0]
    /\ at = "boot" /\ line = <<>> /\ stuck = FALSE /\ tinted = FALSE

\* kernel_main's banner, which sets a colour, and its messages; then shell()
\* begins.
Boot ==
    /\ at = "boot"
    /\ LET banner == kprintf(screen, <<"LF">> \o Tag("0", "F") \o <<"H", "LF", "LF">>)
       IN  screen' = kprintf(kdbg(banner, "F", <<"LF">>), <<"LF", "LF">>)
    /\ at' = "prompt"
    /\ UNCHANGED <<line, stuck, tinted>>

\* The prompt shows names of directories: a tag in one of them counts.
print_prompt ==
    /\ at = "prompt"
    /\ LET s == kprint(screen, Prompt) IN screen' = [s EXCEPT !.start = s.cursor]
    /\ at' = "kgets"
    /\ line' = <<>> /\ stuck' = FALSE
    /\ tinted' = (tinted \/ HasTag(Prompt))

Insert(c) ==
    /\ at = "kgets" /\ Len(line) < LineMax
    /\ line' = Append(line, c)
    /\ screen' = kprintf(screen, <<c>>)
    /\ UNCHANGED <<at, stuck, tinted>>

Rubout == <<"BS", Blank, "BS">>

\* Mutant of Erase: kgets does not look whether there is something to erase.
EraseAlways ==
    /\ at = "kgets"
    /\ line' = SubSeq(line, 1, Len(line) - 1)
    /\ screen' = kprintf(screen, Rubout)
    /\ stuck' = (stuck \/ Col(screen.cursor) = 0)
    /\ UNCHANGED <<at, tinted>>

\* In column 0 the cursor stays where it is.
Erase ==
    /\ at = "kgets" /\ line # <<>>
    /\ line' = SubSeq(line, 1, Len(line) - 1)
    /\ screen' = kprintf(screen, Rubout)
    /\ stuck' = (stuck \/ Col(screen.cursor) = 0)
    /\ UNCHANGED <<at, tinted>>

\* kgets returns the line; `start' is not used before the next prompt.
Enter ==
    /\ at = "kgets"
    /\ screen' = [kprintf(screen, <<"LF">>) EXCEPT !.start = 0]
    /\ at' = "exec"
    /\ stuck' = FALSE
    /\ UNCHANGED <<line, tinted>>

\* Mutant of Error: the colour is not set back.
ErrorRed(text) == Tag("0", "C") \o text \o <<"LF">>

\* An error is printed in red, and may name a word that was typed.
Error(text) == Tag("0", "C") \o text \o Tag("0", "7") \o <<"LF">>

\* args[0], as `split' leaves it.
FirstWord(l) == SubSeq(l, 1, IF Len(l) < WordMax THEN Len(l) ELSE WordMax)

\* A message.  If it has tags, the last one is that of an error.
Say(text) ==
    /\ screen' = kprintf(screen, text)
    /\ tinted' = (tinted /\ ~HasTag(text))
    /\ at' = "prompt"

\* A message repeats a text of any length: a name in a directory, a line of a
\* script that failed, a variable's value, the file that xxd does not find.  A
\* tag in it counts, and nothing sets the colour back.  A text longer
\* than the buffer is written past it, over kprintf's frame: nothing is known
\* of the kernel afterwards.
Repeat(text) ==
    \/ /\ Fits(text)
       /\ screen' = kprintf(screen, text \o <<"LF">>)
       /\ tinted' = (tinted \/ HasTag(text))
       /\ at' = "prompt"
    \/ ~Fits(text) /\ at' = "overrun" /\ UNCHANGED <<screen, tinted>>

Log(level, text) ==
    /\ screen' = kdbg(screen, level, text)
    /\ tinted' = FALSE
    /\ at' = "prompt"

\* `clear' leaves room for the bar.
Clear ==
    /\ screen' = kprintf(kclear(screen), <<"LF", "LF">>)
    /\ at' = "prompt"
    /\ UNCHANGED tinted

\* `cat' puts the bytes of a file out one by one, whatever they are.
PutBytes(s, bytes) ==
    LET after[i \in 0 .. Len(bytes)] ==
          IF i = 0 THEN s ELSE putchar(after[i - 1], bytes[i], WHITE_ON_BLACK)
    IN  after[Len(bytes)]

Cat(bytes) ==
    /\ screen' = kprint(PutBytes(screen, bytes), <<"LF">>)
    /\ at' = "prompt"
    /\ UNCHANGED tinted

sh_exec ==
    /\ at = "exec"
    /\ \/ line # <<>> /\ Say(Error(Append(FirstWord(line), "?")))   \* no command
       \/ \E text \in Errors : Say(Error(text))
       \/ \E text \in Messages : Say(text)
       \/ at' = "prompt" /\ UNCHANGED <<screen, tinted>>            \* nothing to say
       \/ \E text \in Texts : Repeat(text)
       \/ \E text \in Logs, level \in Levels : Log(level, text)
       \/ \E bytes \in Files : Cat(bytes)
       \/ Clear
    /\ line' = <<>>
    /\ UNCHANGED stuck

-----------------------------------------------------------------------------
(* The status bar's tasks run while the shell waits.                       *)

\* It is ui_bar's own thread that asks which thread is running, so all time
\* goes to system_time and none to idle_time: 100, unless no tick has passed
\* or the product wraps.
calculate_cpu_usage(time) == IF time = 0 THEN 0 ELSE ((time * 100) % TickMod) \div time

BarText == [i \in 1 .. MAX_COLS |-> "B"]

ui_bar ==
    /\ at \in {"prompt", "kgets"}
    /\ \E time \in Times :
         screen' = Draw(Draw(screen, BarText, 0, BAR_COLOUR),
                        int_to_str(calculate_cpu_usage(time)), CpuCol, BAR_COLOUR)
    /\ UNCHANGED <<at, line, stuck, tinted>>

\* The clock, eight characters in the code.
sys_time ==
    /\ at \in {"prompt", "kgets"}
    /\ screen' = Draw(screen, <<":">>, ClockCol, BAR_COLOUR)
    /\ UNCHANGED <<at, line, stuck, tinted>>

Next ==
    \/ Boot \/ print_prompt
    \/ \E c \in Keys : Insert(c)
    \/ Erase \/ Enter \/ sh_exec
    \/ ui_bar \/ sys_time

Spec == Init /\ [][Next]_vars

-----------------------------------------------------------------------------

\* Nothing is stored past the screen, and the cursor stays on it, whatever
\* is printed, typed and erased.
TypeOK ==
    /\ DOMAIN screen.cells = 0 .. Cells - 1
    /\ screen.cursor \in 0 .. Cells - 1 /\ screen.start \in 0 .. Cells - 1
    /\ screen.colour \in 0 .. 255
    /\ at \in {"boot", "prompt", "kgets", "exec", "overrun"}
    /\ line \in Seq(Keys) /\ Len(line) <= LineMax
    /\ stuck \in BOOLEAN /\ tinted \in BOOLEAN

\* Text fills the columns before the last one: the position as a number of
\* such columns, and back.
Linear(pos) == Row(pos) * Usable + Col(pos)
Position(n) == (n \div Usable) * MAX_COLS + (n % Usable)

\* While the shell waits for a key, the screen shows what it has of the
\* line: every character typed and not erased, after the prompt and below
\* the bar, across wrapped rows and scrolling, and the cursor is behind the
\* last one.  Erasing back over the end of a row is the exception: putchar
\* does not take the cursor to the row above.
EchoShown ==
    at = "kgets" /\ ~stuck =>
      LET from == Linear(screen.start) IN
      /\ \A k \in 1 .. Len(line) :
           screen.cells[Position(from + k - 1)] = <<line[k], screen.colour>>
      /\ Linear(screen.cursor) = from + Len(line)

\* The prompt stands in front of the line, whole, wherever Backspace is hit,
\* and below the bar's row.  Typing over the end of a row and erasing back
\* again and again takes a new row each time: only that scrolls the prompt up
\* into the bar.
PromptKept ==
    at = "kgets" =>
      LET from == Linear(screen.start) - Len(Prompt) IN
      /\ stuck \/ from >= Usable
      /\ from >= Usable =>
           \A k \in 1 .. Len(Prompt) :
             screen.cells[Position(from + k - 1)] = <<Prompt[k], screen.colour>>

\* The prompt has the default colour again after any sequence of commands that
\* print errors, messages, logs and files: an error sets it back whatever word it
\* names, and kprintf's buffer holds that tag also behind the longest word.  Only a
\* tag in a text that is repeated without that stays (a name or a line from the
\* disk, a value, the word typed after xxd), until the next error or log.
ColourRestored ==
    at = "kgets" /\ ~tinted => screen.colour = WHITE_ON_BLACK

=============================================================================
