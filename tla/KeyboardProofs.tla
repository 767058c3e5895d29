--------------------------- MODULE KeyboardProofs ---------------------------
(* Theorems about Keyboard, for rings and line buffers of any size. *)
EXTENDS Keyboard, SequenceTheorems, TLAPS

\* The ring, the line so far, and the modifiers: inductive.
KeyboardInv ==
    /\ TypeOK
    /\ PopIntact
    /\ \A i \in 0 .. pos - 1 : buf[i] \in Printable
    /\ at = "exec" => buf[pos] = NUL
    /\ ~registered => ~shift_pressed
    /\ ShiftNotStuck

\* What the handler can push.
LEMMA TranslateChars ==
    ASSUME NEW key \in KeySet, Translate(key) # NUL
    PROVE  Translate(key) \in Chars
  BY DEF Translate, scancode_ascii, scancode_ascii_shift, KeySet, Letters, NUL,
         Chars, Printable

\* The successor of a ring index is a ring index.
LEMMA NextIndex ==
    ASSUME NEW i \in 0 .. KB_BUF_SIZE - 1
    PROVE  /\ (i + 1) % KB_BUF_SIZE \in 0 .. KB_BUF_SIZE - 1
           /\ (i + 1) % KB_BUF_SIZE = IF i + 1 < KB_BUF_SIZE THEN i + 1 ELSE 0
  <1>1. KB_BUF_SIZE \in Nat \ {0}
    BY KeyboardAssumption DEF KeyboardAssumption
  <1>2. CASE i + 1 < KB_BUF_SIZE
    BY <1>1, <1>2
  <1>3. CASE i + 1 = KB_BUF_SIZE
    BY <1>1, <1>3
  <1> QED
    BY <1>1, <1>2, <1>3

LEMMA InitKeyboard == Init => KeyboardInv
  <1> SUFFICES ASSUME Init PROVE KeyboardInv
    OBVIOUS
  <1>1. KB_BUF_SIZE \in Nat \ {0} /\ BUF_SIZE \in Nat \ {0}
    BY KeyboardAssumption DEF KeyboardAssumption
  <1>2. TypeOK
    <2>1. /\ kb_buf \in [0 .. KB_BUF_SIZE - 1 -> Chars \cup {NUL}]
          /\ buf \in [0 .. BUF_SIZE - 1 -> Chars \cup {NUL}]
      BY DEF Init
    <2>2. /\ kb_head \in 0 .. KB_BUF_SIZE - 1 /\ kb_tail \in 0 .. KB_BUF_SIZE - 1
          /\ pos \in 0 .. BUF_SIZE - 1
      BY <1>1 DEF Init
    <2>3. /\ shift_pressed \in BOOLEAN /\ caps_lock \in BOOLEAN
          /\ registered \in BOOLEAN
      BY DEF Init
    <2>4. down \subseteq ShiftKeys /\ c \in Chars \cup {NUL}
          /\ at \in {"kgets", "getch", "pop", "edit", "exec"}
      BY DEF Init
    <2> QED
      BY <2>1, <2>2, <2>3, <2>4 DEF TypeOK
  <1>3. PopIntact /\ at # "exec" /\ ShiftNotStuck /\ ~shift_pressed
    BY DEF Init, PopIntact, ShiftNotStuck
  <1>4. \A i \in 0 .. pos - 1 : buf[i] \in Printable
    BY DEF Init
  <1> QED
    BY <1>2, <1>3, <1>4 DEF KeyboardInv

\* keyboard_buffer_push spares the cell kb_tail points to and never makes a
\* ring that holds something look empty.
LEMMA PushKeepsTail ==
    ASSUME KeyboardInv, NEW ch \in Chars, keyboard_buffer_push(ch), kb_tail' = kb_tail
    PROVE  /\ kb_buf' \in [0 .. KB_BUF_SIZE - 1 -> Chars \cup {NUL}]
           /\ kb_head' \in 0 .. KB_BUF_SIZE - 1
           /\ kb_head # kb_tail => kb_head' # kb_tail /\ kb_buf'[kb_tail] = kb_buf[kb_tail]
  <1>1. /\ kb_buf \in [0 .. KB_BUF_SIZE - 1 -> Chars \cup {NUL}]
        /\ kb_head \in 0 .. KB_BUF_SIZE - 1 /\ kb_tail \in 0 .. KB_BUF_SIZE - 1
    BY DEF KeyboardInv, TypeOK
  <1> DEFINE next == (kb_head + 1) % KB_BUF_SIZE
  <1>2. next \in 0 .. KB_BUF_SIZE - 1
    BY <1>1, NextIndex
  <1>3. \/ next # kb_tail /\ kb_buf' = [kb_buf EXCEPT ![kb_head] = ch] /\ kb_head' = next
        \/ kb_buf' = kb_buf /\ kb_head' = kb_head
    BY DEF keyboard_buffer_push
  <1> HIDE DEF next
  <1> QED
    BY <1>1, <1>2, <1>3

\* An IRQ1 preserves the invariant, wherever it strikes.
LEMMA IrqStep == KeyboardInv /\ Irq1 => KeyboardInv'
  <1> SUFFICES ASSUME KeyboardInv, NEW key \in Keys, Press(key) \/ Unpress(key)
               PROVE  KeyboardInv'
    BY DEF Irq1
  <1>0. /\ UNCHANGED <<registered, at, c, buf, pos>> /\ key \in KeySet
        /\ TypeOK /\ kb_tail' = kb_tail
    BY KeyboardAssumption
    DEF KeyboardAssumption, Press, Unpress, shell, KeyboardInv, idle_irq1,
        MakeHandler, ShiftDown, ShiftUp, CapsDown, CharDown, ring
  <1>1. ASSUME UNCHANGED ring, shift_pressed' \in BOOLEAN, caps_lock' \in BOOLEAN,
               down' \subseteq ShiftKeys, ShiftNotStuck',
               ~registered => ~shift_pressed'
        PROVE  KeyboardInv'
    <2>1. UNCHANGED <<kb_buf, kb_head, kb_tail>>
      BY <1>1 DEF ring
    <2>2. TypeOK'
      BY <1>0, <1>1, <2>1 DEF TypeOK
    <2> QED
      BY <1>0, <1>1, <2>1, <2>2 DEF KeyboardInv, PopIntact
  <1>2. CASE Unpress(key)
    <2>1. down' = down \ {key} /\ (idle_irq1 \/ (registered /\ ShiftUp(key)))
      BY <1>2 DEF Unpress
    <2>2. CASE idle_irq1
      <3>1. UNCHANGED ring /\ shift_pressed' = shift_pressed /\ caps_lock' = caps_lock
            /\ ~shift_pressed
        BY <2>2 DEF idle_irq1, KeyboardInv
      <3> QED
        BY <1>0, <1>1, <2>1, <3>1 DEF TypeOK, ShiftNotStuck
    <2>3. CASE registered /\ ShiftUp(key)
      <3>1. UNCHANGED ring /\ shift_pressed' = FALSE /\ caps_lock' = caps_lock
        BY <2>3 DEF ShiftUp
      <3> QED
        BY <1>0, <1>1, <2>1, <3>1 DEF TypeOK, ShiftNotStuck
    <2> QED  BY <2>1, <2>2, <2>3
  <1>3. CASE Press(key)
    <2>1. /\ down' = IF key \in ShiftKeys THEN down \cup {key} ELSE down
          /\ idle_irq1 \/ MakeHandler(key)
          /\ down' \subseteq ShiftKeys
      BY <1>0, <1>3 DEF Press, TypeOK
    <2>2. CASE idle_irq1
      <3>1. UNCHANGED ring /\ shift_pressed' = shift_pressed /\ caps_lock' = caps_lock
            /\ ~shift_pressed
        BY <2>2 DEF idle_irq1, KeyboardInv
      <3> QED
        BY <1>0, <1>1, <2>1, <3>1 DEF TypeOK, ShiftNotStuck
    <2>3. CASE registered /\ key \in ShiftKeys /\ ShiftDown
      <3>1. UNCHANGED ring /\ shift_pressed' = TRUE /\ caps_lock' = caps_lock
        BY <2>3 DEF ShiftDown
      <3>2. ShiftNotStuck'
        BY <2>1, <2>3 DEF ShiftNotStuck
      <3> QED
        BY <1>0, <1>1, <2>1, <2>3, <3>1, <3>2 DEF TypeOK
    <2>4. CASE registered /\ key = "caps" /\ CapsDown
      <3>1. UNCHANGED ring /\ shift_pressed' = shift_pressed /\ caps_lock' = ~caps_lock
        BY <2>4 DEF CapsDown
      <3>2. down' = down
        BY <2>1, <2>4 DEF ShiftKeys
      <3>3. ShiftNotStuck'
        BY <3>1, <3>2 DEF KeyboardInv, ShiftNotStuck
      <3>4. caps_lock' \in BOOLEAN
        BY <3>1
      <3> QED
        BY <1>0, <1>1, <2>1, <2>4, <3>1, <3>3, <3>4 DEF TypeOK
    <2>5. CASE registered /\ key \notin ShiftKeys \cup {"caps"} /\ CharDown(key)
      <3>1. /\ down' = down /\ shift_pressed' = shift_pressed /\ caps_lock' = caps_lock
            /\ ShiftNotStuck'
        BY <2>1, <2>5 DEF CharDown, KeyboardInv, ShiftNotStuck
      <3>2. CASE Translate(key) = NUL
        <4>1. UNCHANGED ring
          BY <2>5, <3>2 DEF CharDown, ring
        <4> QED
          BY <1>0, <1>1, <2>1, <2>5, <3>1, <4>1 DEF TypeOK
      <3>3. CASE Translate(key) # NUL
        <4>1. keyboard_buffer_push(Translate(key)) /\ Translate(key) \in Chars
          BY <1>0, <2>5, <3>3, TranslateChars DEF CharDown
        <4>2. /\ kb_buf' \in [0 .. KB_BUF_SIZE - 1 -> Chars \cup {NUL}]
              /\ kb_head' \in 0 .. KB_BUF_SIZE - 1
              /\ kb_head # kb_tail =>
                    kb_head' # kb_tail /\ kb_buf'[kb_tail] = kb_buf[kb_tail]
          BY <1>0, <4>1, PushKeepsTail
        <4>3. TypeOK'
          BY <1>0, <3>1, <4>2 DEF TypeOK
        <4>4. PopIntact'
          BY <1>0, <4>2 DEF KeyboardInv, PopIntact
        <4> QED
          BY <1>0, <2>5, <3>1, <4>3, <4>4 DEF KeyboardInv
      <3> QED  BY <3>2, <3>3
    <2> QED
      BY <2>1, <2>2, <2>3, <2>4, <2>5 DEF MakeHandler
  <1> QED  BY <1>2, <1>3

\* A step of the shell preserves the invariant.
LEMMA ShellStep == KeyboardInv /\ Shell => KeyboardInv'
  <1> SUFFICES ASSUME KeyboardInv, Shell PROVE KeyboardInv'
    OBVIOUS
  <1>0. TypeOK /\ BUF_SIZE \in Nat \ {0} /\ KB_BUF_SIZE \in Nat \ {0}
    BY KeyboardAssumption DEF KeyboardInv, KeyboardAssumption
  <1>1. CASE Register
    BY <1>0, <1>1 DEF Register, ring, mods, KeyboardInv, TypeOK, PopIntact, ShiftNotStuck
  <1>2. CASE PopRead
    <2>1. kb_buf[kb_tail] \in Chars \cup {NUL}
      BY <1>0 DEF TypeOK
    <2> QED
      BY <1>0, <1>2, <2>1
      DEF PopRead, ring, mods, KeyboardInv, TypeOK, PopIntact, ShiftNotStuck
  <1>3. CASE PopAdvance
    <2>1. kb_tail' \in 0 .. KB_BUF_SIZE - 1
      BY <1>0, <1>3, NextIndex DEF PopAdvance, TypeOK
    <2> QED
      BY <1>0, <1>3, <2>1
      DEF PopAdvance, mods, KeyboardInv, TypeOK, PopIntact, ShiftNotStuck
  <1>4. CASE Enter
    <2>1. buf' \in [0 .. BUF_SIZE - 1 -> Chars \cup {NUL}] /\ buf'[pos] = NUL
      BY <1>0, <1>4 DEF Enter, TypeOK
    <2>2. \A i \in 0 .. pos - 1 : buf'[i] = buf[i]
      BY <1>0, <1>4 DEF Enter, TypeOK
    <2> QED
      BY <1>0, <1>4, <2>1, <2>2
      DEF Enter, ring, mods, KeyboardInv, TypeOK, PopIntact, ShiftNotStuck
  <1>5. CASE Insert
    <2>1. /\ buf' \in [0 .. BUF_SIZE - 1 -> Chars \cup {NUL}] /\ buf'[pos] \in Printable
          /\ pos' = pos + 1 /\ pos' \in 0 .. BUF_SIZE - 1 /\ pos \in Nat
      BY <1>0, <1>5 DEF Insert, TypeOK
    <2>2. \A i \in 0 .. pos - 1 : buf'[i] = buf[i]
      BY <1>0, <1>5 DEF Insert, TypeOK
    <2>3. \A i \in 0 .. pos' - 1 : buf'[i] \in Printable
      BY <2>1, <2>2 DEF KeyboardInv
    <2> QED
      BY <1>0, <1>5, <2>1, <2>3
      DEF Insert, ring, mods, KeyboardInv, TypeOK, PopIntact, ShiftNotStuck
  <1>6. CASE Erase
    <2>1. pos' \in 0 .. BUF_SIZE - 1 /\ \A i \in 0 .. pos' - 1 : i \in 0 .. pos - 1
      BY <1>0, <1>6 DEF Erase, TypeOK
    <2> QED
      BY <1>0, <1>6, <2>1
      DEF Erase, ring, mods, KeyboardInv, TypeOK, PopIntact, ShiftNotStuck
  <1>7. CASE Ignore
    BY <1>0, <1>7 DEF Ignore, ring, mods, KeyboardInv, TypeOK, PopIntact, ShiftNotStuck
  <1>8. CASE Executed
    BY <1>0, <1>8 DEF Executed, ring, mods, KeyboardInv, TypeOK, PopIntact, ShiftNotStuck
  <1> QED
    BY <1>1, <1>2, <1>3, <1>4, <1>5, <1>6, <1>7, <1>8 DEF Shell

LEMMA KeyboardAlways == Spec => []KeyboardInv
  <1>1. KeyboardInv /\ UNCHANGED vars => KeyboardInv'
    BY DEF vars, ring, mods, shell, KeyboardInv, TypeOK, PopIntact, ShiftNotStuck
  <1> QED
    BY InitKeyboard, IrqStep, ShellStep, <1>1, PTL DEF Spec, Next

-----------------------------------------------------------------------------

\* Indices of ps2.c's two buffers stay in range: kgets never writes beyond buf.
THEOREM KeyboardTypeCorrect == Spec => []TypeOK
  BY KeyboardAlways, PTL DEF KeyboardInv

\* An IRQ1 between the two halves of keyboard_buffer_pop does no harm.
THEOREM PopIsAtomic == Spec => []PopIntact
  BY KeyboardAlways, PTL DEF KeyboardInv

\* sh_exec gets a terminated string of printable characters from kgets.
THEOREM LinesTerminated == Spec => []LineTerminated
  <1>1. KeyboardInv => LineTerminated
    BY DEF KeyboardInv, LineTerminated
  <1> QED
    BY <1>1, KeyboardAlways, PTL

\* keyboard_handler leaves Shift when the last shift key is let go.
THEOREM ShiftReleases == Spec => []ShiftNotStuck
  BY KeyboardAlways, PTL DEF KeyboardInv

-----------------------------------------------------------------------------
(* The ring and the line buffer implement TypedInput. *)

\* Modulo as the code uses it: at most one wrap.
LEMMA OneWrap ==
    ASSUME NEW x \in Nat, x < 2 * KB_BUF_SIZE
    PROVE  x % KB_BUF_SIZE = IF x < KB_BUF_SIZE THEN x ELSE x - KB_BUF_SIZE
  <1>1. KB_BUF_SIZE \in Nat \ {0}
    BY KeyboardAssumption DEF KeyboardAssumption
  <1>2. CASE x < KB_BUF_SIZE
    BY <1>1, <1>2
  <1>3. CASE ~(x < KB_BUF_SIZE)
    BY <1>1, <1>3
  <1> QED  BY <1>2, <1>3

\* How many characters wait between t and h, without modulo.
LEMMA WaitingIs ==
    ASSUME NEW h \in 0 .. KB_BUF_SIZE - 1, NEW t \in 0 .. KB_BUF_SIZE - 1
    PROVE  /\ (h + KB_BUF_SIZE - t) % KB_BUF_SIZE =
                 IF t <= h THEN h - t ELSE h - t + KB_BUF_SIZE
           /\ (h + KB_BUF_SIZE - t) % KB_BUF_SIZE \in 0 .. KB_BUF_SIZE - 1
  <1>1. KB_BUF_SIZE \in Nat \ {0}
    BY KeyboardAssumption DEF KeyboardAssumption
  <1> DEFINE x == h + KB_BUF_SIZE - t
  <1>2. x \in Nat /\ x < 2 * KB_BUF_SIZE
    BY <1>1
  <1>3. x % KB_BUF_SIZE = IF x < KB_BUF_SIZE THEN x ELSE x - KB_BUF_SIZE
    BY <1>2, OneWrap
  <1> QED
    BY <1>1, <1>3

\* The cell of the i-th character after t, without modulo.
LEMMA CellIs ==
    ASSUME NEW t \in 0 .. KB_BUF_SIZE - 1, NEW i \in 1 .. KB_BUF_SIZE
    PROVE  /\ (t + i - 1) % KB_BUF_SIZE =
                 IF t + i - 1 < KB_BUF_SIZE THEN t + i - 1 ELSE t + i - 1 - KB_BUF_SIZE
           /\ (t + i - 1) % KB_BUF_SIZE \in 0 .. KB_BUF_SIZE - 1
  <1>1. KB_BUF_SIZE \in Nat \ {0}
    BY KeyboardAssumption DEF KeyboardAssumption
  <1> DEFINE x == t + i - 1
  <1>2. x \in Nat /\ x < 2 * KB_BUF_SIZE
    BY <1>1
  <1>3. x % KB_BUF_SIZE = IF x < KB_BUF_SIZE THEN x ELSE x - KB_BUF_SIZE
    BY <1>2, OneWrap
  <1> QED
    BY <1>1, <1>3

LEMMA SequencesTyped ==
    ASSUME TypeOK
    PROVE  /\ Typed \in Seq(Chars \cup {NUL}) /\ Len(Typed) = Waiting
           /\ Line \in Seq(Chars \cup {NUL}) /\ Len(Line) = pos
           /\ Waiting \in 0 .. KB_BUF_SIZE - 1
           /\ Waiting = IF kb_tail <= kb_head THEN kb_head - kb_tail
                        ELSE kb_head - kb_tail + KB_BUF_SIZE
  <1>1. /\ Waiting \in 0 .. KB_BUF_SIZE - 1 /\ pos \in Nat
        /\ Waiting = IF kb_tail <= kb_head THEN kb_head - kb_tail
                     ELSE kb_head - kb_tail + KB_BUF_SIZE
        /\ KB_BUF_SIZE \in Nat \ {0} /\ BUF_SIZE \in Nat
    BY WaitingIs, KeyboardAssumption DEF KeyboardAssumption, TypeOK, Waiting
  <1>2. \A i \in 1 .. Waiting :
           kb_buf[(kb_tail + i - 1) % KB_BUF_SIZE] \in Chars \cup {NUL}
    <2> SUFFICES ASSUME NEW i \in 1 .. Waiting
                 PROVE  kb_buf[(kb_tail + i - 1) % KB_BUF_SIZE] \in Chars \cup {NUL}
      OBVIOUS
    <2>1. i \in 1 .. KB_BUF_SIZE /\ kb_tail \in 0 .. KB_BUF_SIZE - 1
      BY <1>1 DEF TypeOK
    <2>2. (kb_tail + i - 1) % KB_BUF_SIZE \in 0 .. KB_BUF_SIZE - 1
      BY <2>1, CellIs
    <2> QED
      BY <2>2 DEF TypeOK
  <1>3. \A i \in 1 .. pos : buf[i - 1] \in Chars \cup {NUL}
    BY <1>1 DEF TypeOK
  <1>4. Typed \in [1 .. Waiting -> Chars \cup {NUL}]
    BY <1>2 DEF Typed
  <1>5. Line \in [1 .. pos -> Chars \cup {NUL}]
    BY <1>3 DEF Line
  <1>6. Waiting \in Nat
    BY <1>1
  <1> QED
    BY <1>1, <1>4, <1>5, <1>6

\* keyboard_buffer_push appends to what waits, or drops the character.
LEMMA PushAppends ==
    ASSUME TypeOK, NEW ch \in Chars, keyboard_buffer_push(ch), kb_tail' = kb_tail
    PROVE  \/ Typed' = Typed
           \/ Len(Typed) < KB_BUF_SIZE - 1 /\ Typed' = Append(Typed, ch)
  <1>1. /\ KB_BUF_SIZE \in Nat \ {0}
        /\ kb_head \in 0 .. KB_BUF_SIZE - 1 /\ kb_tail \in 0 .. KB_BUF_SIZE - 1
        /\ kb_buf \in [0 .. KB_BUF_SIZE - 1 -> Chars \cup {NUL}]
    BY KeyboardAssumption DEF KeyboardAssumption, TypeOK
  <1> DEFINE next == (kb_head + 1) % KB_BUF_SIZE
             n == Waiting
  <1>2. CASE next = kb_tail
    <2>1. kb_buf' = kb_buf /\ kb_head' = kb_head
      BY <1>2 DEF keyboard_buffer_push
    <2> QED
      BY <2>1 DEF Typed, Waiting
  <1>3. CASE next # kb_tail
    <2>1. kb_buf' = [kb_buf EXCEPT ![kb_head] = ch] /\ kb_head' = next
      BY <1>3 DEF keyboard_buffer_push
    <2>2. /\ next = IF kb_head + 1 < KB_BUF_SIZE THEN kb_head + 1 ELSE 0
          /\ next \in 0 .. KB_BUF_SIZE - 1
      BY <1>1, NextIndex
    <2>3. /\ n = IF kb_tail <= kb_head THEN kb_head - kb_tail
                 ELSE kb_head - kb_tail + KB_BUF_SIZE
          /\ Len(Typed) = n
      BY SequencesTyped
    <2>4. Waiting' = IF kb_tail <= next THEN next - kb_tail
                     ELSE next - kb_tail + KB_BUF_SIZE
      <3> HIDE DEF next
      <3>1. (next + KB_BUF_SIZE - kb_tail) % KB_BUF_SIZE =
               IF kb_tail <= next THEN next - kb_tail
               ELSE next - kb_tail + KB_BUF_SIZE
        BY <1>1, <2>2, WaitingIs
      <3>2. Waiting' = (next + KB_BUF_SIZE - kb_tail) % KB_BUF_SIZE
        BY <2>1 DEF Waiting
      <3> QED
        BY <3>1, <3>2
    <2> HIDE DEF next, n
    <2>5. Waiting' = n + 1 /\ n < KB_BUF_SIZE - 1 /\ n \in Nat
      BY <1>1, <1>3, <2>2, <2>3, <2>4
    <2>6. ASSUME NEW i \in 1 .. n + 1
          PROVE  kb_buf'[(kb_tail + i - 1) % KB_BUF_SIZE] =
                    IF i = n + 1 THEN ch ELSE kb_buf[(kb_tail + i - 1) % KB_BUF_SIZE]
      <3> DEFINE cell == (kb_tail + i - 1) % KB_BUF_SIZE
      <3>1. /\ cell = IF kb_tail + i - 1 < KB_BUF_SIZE THEN kb_tail + i - 1
                      ELSE kb_tail + i - 1 - KB_BUF_SIZE
            /\ cell \in 0 .. KB_BUF_SIZE - 1
        BY <1>1, <2>5, CellIs
      <3> HIDE DEF cell
      <3>2. cell = kb_head <=> i = n + 1
        BY <1>1, <2>3, <2>5, <3>1
      <3>3. kb_buf'[cell] = IF i = n + 1 THEN ch ELSE kb_buf[cell]
        BY <1>1, <2>1, <3>1, <3>2
      <3> QED
        BY <3>3 DEF cell
    <2>7. Typed' = [i \in 1 .. n + 1 |-> kb_buf'[(kb_tail + i - 1) % KB_BUF_SIZE]]
      BY <2>5 DEF Typed
    <2>8. Typed \in Seq(Chars \cup {NUL}) /\ Len(Typed) = n
          /\ \A i \in 1 .. n : Typed[i] = kb_buf[(kb_tail + i - 1) % KB_BUF_SIZE]
      BY SequencesTyped DEF Typed, n
    <2>9. Append(Typed, ch) = [i \in 1 .. n + 1 |-> IF i = n + 1 THEN ch ELSE Typed[i]]
      <3>1. /\ Append(Typed, ch) \in Seq(Chars \cup {NUL})
            /\ Len(Append(Typed, ch)) = n + 1
            /\ Append(Typed, ch)[n + 1] = ch
            /\ \A i \in 1 .. n : Append(Typed, ch)[i] = Typed[i]
        BY <2>8, AppendProperties
      <3>2. Append(Typed, ch) \in [1 .. n + 1 -> Chars \cup {NUL}]
        BY <3>1, LenProperties
      <3>3. Append(Typed, ch) = [i \in 1 .. n + 1 |-> Append(Typed, ch)[i]]
        BY <3>2
      <3>4. \A i \in 1 .. n + 1 : i = n + 1 \/ i \in 1 .. n
        BY <2>5
      <3> QED
        BY <2>5, <3>1, <3>3, <3>4
    <2> QED
      BY <2>5, <2>6, <2>7, <2>8, <2>9
  <1> QED  BY <1>2, <1>3

\* The second half of keyboard_buffer_pop takes the first waiting character.
LEMMA PopTakesHead ==
    ASSUME TypeOK, PopIntact, PopAdvance
    PROVE  Typed # <<>> /\ Head(Typed) = c /\ Typed' = Tail(Typed)
  <1>1. /\ KB_BUF_SIZE \in Nat \ {0}
        /\ kb_head \in 0 .. KB_BUF_SIZE - 1 /\ kb_tail \in 0 .. KB_BUF_SIZE - 1
    BY KeyboardAssumption DEF KeyboardAssumption, TypeOK
  <1> DEFINE n == Waiting
             t == (kb_tail + 1) % KB_BUF_SIZE
  <1>2. /\ kb_tail' = t /\ kb_head' = kb_head /\ kb_buf' = kb_buf
        /\ kb_head # kb_tail /\ kb_buf[kb_tail] = c
    BY DEF PopAdvance, PopIntact
  <1>3. /\ n = IF kb_tail <= kb_head THEN kb_head - kb_tail
               ELSE kb_head - kb_tail + KB_BUF_SIZE
        /\ Typed \in Seq(Chars \cup {NUL}) /\ Len(Typed) = n
    BY SequencesTyped
  <1>4. t \in 0 .. KB_BUF_SIZE - 1
        /\ t = IF kb_tail + 1 < KB_BUF_SIZE THEN kb_tail + 1 ELSE 0
    BY <1>1, NextIndex
  <1> HIDE DEF t
  <1>5. Waiting' = IF t <= kb_head THEN kb_head - t ELSE kb_head - t + KB_BUF_SIZE
    <2>1. (kb_head + KB_BUF_SIZE - t) % KB_BUF_SIZE =
             IF t <= kb_head THEN kb_head - t ELSE kb_head - t + KB_BUF_SIZE
      BY <1>1, <1>4, WaitingIs
    <2> QED
      BY <1>2, <2>1 DEF Waiting
  <1>6. \A i \in 1 .. n : Typed[i] = kb_buf[(kb_tail + i - 1) % KB_BUF_SIZE]
    BY DEF Typed
  <1> HIDE DEF n
  <1>7. Waiting' = n - 1 /\ n \in Nat \ {0} /\ n < KB_BUF_SIZE
    BY <1>1, <1>2, <1>3, <1>4, <1>5
  <1>8. ASSUME NEW i \in 1 .. n - 1
        PROVE  (t + i - 1) % KB_BUF_SIZE = (kb_tail + (i + 1) - 1) % KB_BUF_SIZE
    <2>1. i \in 1 .. KB_BUF_SIZE /\ i + 1 \in 1 .. KB_BUF_SIZE
      BY <1>1, <1>7
    <2>2. (t + i - 1) % KB_BUF_SIZE =
             IF t + i - 1 < KB_BUF_SIZE THEN t + i - 1 ELSE t + i - 1 - KB_BUF_SIZE
      BY <1>4, <2>1, CellIs
    <2> DEFINE j == i + 1
    <2> HIDE DEF j
    <2>3. (kb_tail + j - 1) % KB_BUF_SIZE =
             IF kb_tail + j - 1 < KB_BUF_SIZE THEN kb_tail + j - 1
             ELSE kb_tail + j - 1 - KB_BUF_SIZE
      BY <1>1, <2>1, CellIs DEF j
    <2> QED
      BY <1>1, <1>4, <2>1, <2>2, <2>3 DEF j
  <1>9. Typed # <<>> /\ Head(Typed) = c
    <2>1. Typed # <<>>
      BY <1>3, <1>7, EmptySeq
    <2>2. (kb_tail + 1 - 1) % KB_BUF_SIZE = kb_tail
      BY <1>1
    <2>3. Typed[1] = c
      BY <1>2, <1>6, <1>7, <2>2
    <2> QED
      BY <1>3, <1>7, <2>1, <2>3
  <1>10. Typed' = [i \in 1 .. n - 1 |-> kb_buf[(t + i - 1) % KB_BUF_SIZE]]
    BY <1>2, <1>7 DEF Typed
  <1>11. \A i \in 1 .. n - 1 : kb_buf[(t + i - 1) % KB_BUF_SIZE] = Typed[i + 1]
    <2> SUFFICES ASSUME NEW i \in 1 .. n - 1
                 PROVE  kb_buf[(t + i - 1) % KB_BUF_SIZE] = Typed[i + 1]
      OBVIOUS
    <2>1. i + 1 \in 1 .. n
      BY <1>7
    <2>2. Typed[i + 1] = kb_buf[(kb_tail + (i + 1) - 1) % KB_BUF_SIZE]
      BY <1>6, <2>1
    <2> QED
      BY <1>8, <2>2
  <1>12. Tail(Typed) = [i \in 1 .. n - 1 |-> Typed[i + 1]]
    <2>1. /\ Tail(Typed) \in Seq(Chars \cup {NUL}) /\ Len(Tail(Typed)) = n - 1
          /\ \A i \in 1 .. n - 1 : Tail(Typed)[i] = Typed[i + 1]
      BY <1>3, <1>9, HeadTailProperties
    <2>2. Tail(Typed) \in [1 .. n - 1 -> Chars \cup {NUL}]
      BY <2>1, LenProperties
    <2>3. Tail(Typed) = [i \in 1 .. n - 1 |-> Tail(Typed)[i]]
      BY <2>2
    <2> QED
      BY <2>1, <2>3
  <1> QED
    BY <1>9, <1>10, <1>11, <1>12

\* The in-place edits of kgets are edits of the line.
LEMMA LineEdits ==
    ASSUME TypeOK
    PROVE  /\ Insert => Line' = Append(Line, c)
           /\ Erase => Line # <<>> /\ Line' = SubSeq(Line, 1, Len(Line) - 1)
           /\ Enter => Line' = Line
           /\ pos = 0 => Line = <<>>
           /\ pos # 0 => Line # <<>>
  <1>1. /\ pos \in 0 .. BUF_SIZE - 1 /\ BUF_SIZE \in Nat /\ pos \in Nat
        /\ buf \in [0 .. BUF_SIZE - 1 -> Chars \cup {NUL}]
        /\ c \in Chars \cup {NUL}
    BY KeyboardAssumption DEF KeyboardAssumption, TypeOK
  <1>2. /\ Line \in Seq(Chars \cup {NUL}) /\ Len(Line) = pos
        /\ \A i \in 1 .. pos : Line[i] = buf[i - 1]
    BY SequencesTyped DEF Line
  <1>3. ASSUME Insert PROVE Line' = Append(Line, c)
    <2>1. /\ buf' = [buf EXCEPT ![pos] = c] /\ pos' = pos + 1
      BY <1>3 DEF Insert
    <2>2. Line' = [i \in 1 .. pos + 1 |-> buf'[i - 1]]
      BY <2>1 DEF Line
    <2>3. \A i \in 1 .. pos + 1 : buf'[i - 1] = IF i = pos + 1 THEN c ELSE Line[i]
      BY <1>1, <1>2, <2>1
    <2>4. /\ Append(Line, c) \in Seq(Chars \cup {NUL})
          /\ Len(Append(Line, c)) = pos + 1
          /\ Append(Line, c)[pos + 1] = c
          /\ \A i \in 1 .. pos : Append(Line, c)[i] = Line[i]
      BY <1>1, <1>2, AppendProperties
    <2>5. Append(Line, c) \in [1 .. pos + 1 -> Chars \cup {NUL}]
      BY <2>4, LenProperties
    <2>6. Append(Line, c) = [i \in 1 .. pos + 1 |-> Append(Line, c)[i]]
      BY <2>5
    <2>7. \A i \in 1 .. pos + 1 : i = pos + 1 \/ i \in 1 .. pos
      BY <1>1
    <2>8. \A i \in 1 .. pos + 1 : Append(Line, c)[i] = buf'[i - 1]
      BY <1>1, <2>3, <2>4, <2>7
    <2> QED
      BY <2>2, <2>6, <2>8
  <1>4. ASSUME Erase PROVE Line # <<>> /\ Line' = SubSeq(Line, 1, Len(Line) - 1)
    <2>1. pos > 0 /\ pos' = pos - 1 /\ buf' = buf
      BY <1>4 DEF Erase
    <2>2. Line' = [i \in 1 .. pos - 1 |-> buf[i - 1]]
      BY <2>1 DEF Line
    <2>3. SubSeq(Line, 1, pos - 1) = [i \in 1 .. pos - 1 |-> Line[i]]
      BY <1>1, <1>2, <2>1
    <2>4. \A i \in 1 .. pos - 1 : Line[i] = buf[i - 1]
      BY <1>1, <1>2
    <2>5. Line # <<>>
      BY <1>1, <1>2, <2>1, EmptySeq
    <2> QED
      BY <1>2, <2>2, <2>3, <2>4, <2>5
  <1>5. ASSUME Enter PROVE Line' = Line
    <2>1. pos' = pos /\ buf' = [buf EXCEPT ![pos] = NUL]
      BY <1>5 DEF Enter
    <2>2. \A i \in 1 .. pos : buf'[i - 1] = buf[i - 1]
      BY <1>1, <2>1
    <2> QED
      BY <2>1, <2>2 DEF Line
  <1>6. pos = 0 => Line = <<>>
    BY <1>2, EmptySeq
  <1>7. pos # 0 => Line # <<>>
    BY <1>1, <1>2, EmptySeq
  <1> QED
    BY <1>3, <1>4, <1>5, <1>6, <1>7

\* Every step maps to a step of TypedInput or leaves its state alone.
LEMMA StepRefines ==
    ASSUME KeyboardInv, [Next]_vars
    PROVE  [Abstract!Next]_Abstract!vars
  <1> DEFINE held == IF at = "edit" THEN <<c>> ELSE <<>>
  <1>0. TypeOK /\ PopIntact /\ Len(Line) = pos /\ pos \in 0 .. BUF_SIZE - 1
        /\ BUF_SIZE \in Nat
    BY SequencesTyped, KeyboardAssumption DEF KeyboardAssumption, KeyboardInv, TypeOK
  \* What the shell's steps leave alone.
  <1>a. UNCHANGED ring => Typed' = Typed
    BY DEF ring, Typed, Waiting
  <1>b. UNCHANGED <<buf, pos>> => Line' = Line
    BY DEF Line
  <1>1. ASSUME NEW key \in Keys, Press(key) \/ Unpress(key)
        PROVE  [Abstract!Next]_Abstract!vars
    <2>1. UNCHANGED <<at, c, buf, pos>>
      BY <1>1 DEF Press, Unpress, shell
    <2>2. UNCHANGED ring \/ CharDown(key)
      BY <1>1 DEF Press, Unpress, idle_irq1, MakeHandler, ShiftDown, ShiftUp, CapsDown
    <2>3. CASE UNCHANGED ring
      BY <1>a, <1>b, <2>1, <2>3 DEF Abstract!vars
    <2>4. CASE CharDown(key) /\ Translate(key) # NUL
      <3>1. /\ keyboard_buffer_push(Translate(key)) /\ kb_tail' = kb_tail
            /\ Translate(key) \in Chars
        BY <2>4, TranslateChars, KeyboardAssumption DEF CharDown, KeyboardAssumption
      <3>2. \/ Typed' = Typed
            \/ Len(Typed) < KB_BUF_SIZE - 1 /\ Typed' = Append(Typed, Translate(key))
        BY <1>0, <3>1, PushAppends
      <3>3. CASE Typed' = Typed
        BY <1>b, <2>1, <3>3 DEF Abstract!vars
      <3>4. CASE Len(Typed) < KB_BUF_SIZE - 1 /\ Typed' = Append(Typed, Translate(key))
        <4>1. Abstract!Type(Translate(key))
          BY <1>b, <2>1, <3>4 DEF Abstract!Type
        <4> QED
          BY <3>1, <4>1 DEF Abstract!Next
      <3> QED  BY <3>2, <3>3, <3>4
    <2>5. CASE CharDown(key) /\ Translate(key) = NUL
      <3>1. UNCHANGED ring
        BY <2>5 DEF CharDown, ring
      <3> QED
        BY <2>3, <3>1
    <2> QED  BY <2>2, <2>3, <2>4, <2>5
  <1>2. CASE Register
    BY <1>2, <1>a, <1>b DEF Register, Abstract!vars
  <1>3. CASE PopRead
    BY <1>3, <1>a, <1>b DEF PopRead, Abstract!vars
  <1>4. CASE PopAdvance
    <2>1. Typed # <<>> /\ Head(Typed) = c /\ Typed' = Tail(Typed)
      BY <1>0, <1>4, PopTakesHead
    <2>2. at = "pop" /\ at' = "edit" /\ c' = c /\ UNCHANGED <<buf, pos>>
      BY <1>4 DEF PopAdvance
    <2>3. Abstract!Take
      BY <1>b, <2>1, <2>2 DEF Abstract!Take
    <2> QED
      BY <2>3 DEF Abstract!Next
  <1>5. ASSUME at = "edit", at' = "kgets" \/ at' = "exec", UNCHANGED ring,
               Line' = Abstract!Edited(c), (at' = "exec") = (c = "LF")
        PROVE  [Abstract!Next]_Abstract!vars
    <2>1. held = <<c>> /\ held # <<>> /\ held[1] = c
      BY <1>5
    <2>2. held' = <<>>
      BY <1>5
    <2>3. Abstract!Apply
      BY <1>5, <1>a, <2>1, <2>2 DEF Abstract!Apply
    <2> QED
      BY <2>3 DEF Abstract!Next
  <1>6. CASE Enter
    <2>1. at = "edit" /\ at' = "exec" /\ c = "LF" /\ UNCHANGED ring
      BY <1>6 DEF Enter
    <2>2. Line' = Line
      BY <1>0, <1>6, LineEdits
    <2>3. Abstract!Edited(c) = Line
      BY <2>1 DEF Abstract!Edited, Printable
    <2> QED
      BY <1>5, <2>1, <2>2, <2>3
  <1>7. CASE Insert
    <2>1. at = "edit" /\ at' = "kgets" /\ c \in Printable /\ UNCHANGED ring
          /\ pos < BUF_SIZE - 1 /\ c # "LF"
      BY <1>7 DEF Insert, Printable
    <2>2. Line' = Append(Line, c)
      BY <1>0, <1>7, LineEdits
    <2>3. Abstract!Edited(c) = Append(Line, c)
      BY <1>0, <2>1 DEF Abstract!Edited
    <2> QED
      BY <1>5, <2>1, <2>2, <2>3
  <1>8. CASE Erase
    <2>1. at = "edit" /\ at' = "kgets" /\ c = "BS" /\ UNCHANGED ring
      BY <1>8 DEF Erase
    <2>2. Line # <<>> /\ Line' = SubSeq(Line, 1, Len(Line) - 1)
      BY <1>0, <1>8, LineEdits
    <2>3. Abstract!Edited(c) = SubSeq(Line, 1, Len(Line) - 1)
      BY <2>1, <2>2 DEF Abstract!Edited, Printable
    <2> QED
      BY <1>5, <2>1, <2>2, <2>3
  <1>9. CASE Ignore
    <2>1. at = "edit" /\ at' = "kgets" /\ c # "LF" /\ UNCHANGED ring
          /\ UNCHANGED <<buf, pos>>
          /\ ~(c = "BS" /\ pos > 0) /\ ~(c \in Printable /\ pos < BUF_SIZE - 1)
      BY <1>9 DEF Ignore
    <2>2. c = "BS" => Line = <<>>
      BY <1>0, <2>1, LineEdits
    <2>3. Abstract!Edited(c) = Line
      BY <1>0, <2>1, <2>2 DEF Abstract!Edited
    <2> QED
      BY <1>5, <1>b, <2>1, <2>3
  <1>10. CASE Executed
    <2>1. at = "exec" /\ at' = "kgets" /\ pos' = 0 /\ UNCHANGED ring /\ c' = c
      BY <1>10 DEF Executed
    <2>2. Line' = <<>>
      BY <2>1 DEF Line
    <2>3. Abstract!Restart
      BY <1>a, <2>1, <2>2 DEF Abstract!Restart
    <2> QED
      BY <2>3 DEF Abstract!Next
  <1>11. CASE UNCHANGED vars
    BY <1>11, <1>a, <1>b DEF vars, shell, Abstract!vars
  <1> QED
    BY <1>1, <1>2, <1>3, <1>4, <1>6, <1>7, <1>8, <1>9, <1>10, <1>11
    DEF Next, Irq1, Shell

\* ps2.c's ring and in-place line editing implement TypedInput for every size
\* of the two buffers: nothing that gets into the ring is lost, duplicated or
\* reordered, and kgets returns the edited line.
THEOREM KeyboardRefines == Spec => ImplementsTypedInput
  <1>1. Init => Abstract!Init
    <2> SUFFICES ASSUME Init PROVE Abstract!Init
      OBVIOUS
    <2>1. KeyboardInv
      BY InitKeyboard
    <2>2. Waiting = 0 /\ pos = 0
      BY <2>1, SequencesTyped DEF Init, KeyboardInv
    <2>3. Typed = <<>> /\ Line = <<>>
      BY <2>2 DEF Typed, Line
    <2> QED
      BY <2>3 DEF Init, Abstract!Init
  <1>2. KeyboardInv /\ [Next]_vars => [Abstract!Next]_Abstract!vars
    BY StepRefines
  <1> QED
    BY <1>1, <1>2, KeyboardAlways, PTL DEF Spec, ImplementsTypedInput, Abstract!Spec

=============================================================================
