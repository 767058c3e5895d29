--------------------------- MODULE ConsoleProofs ---------------------------
(***************************************************************************)
(* Proofs about Console: whatever is printed, typed and erased, nothing is *)
(* stored past the screen and the cursor stays on it; the prompt has the   *)
(* default colour; the screen shows the line that is typed, and the prompt *)
(* before it.                                                              *)
(***************************************************************************)
EXTENDS Console, WellFoundedInduction, TLAPS

-----------------------------------------------------------------------------
(* Induction over the positions of a text.                                 *)

LEMMA LeastNat ==
    ASSUME NEW T, T \subseteq Nat, T # {}
    PROVE  \E x \in T : \A y \in T : x <= y
  <1> DEFINE R == OpToRel(<, Nat)
  <1>1. PICK x \in T : \A y \in T : ~(<<y, x>> \in R)
    <2>1. IsWellFoundedOn(R, Nat)
      BY NatLessThanWellFounded
    <2> HIDE DEF R
    <2> QED
      BY <2>1, WFMin
  <1>2. \A y \in T : ~(y < x)
    BY <1>1 DEF OpToRel
  <1> QED
    BY <1>2

\* What holds of 0 and is handed on up to n holds up to n.
LEMMA UpTo ==
    ASSUME NEW n \in Nat, NEW S, 0 \in S,
           \A i \in 1 .. n : i - 1 \in S => i \in S
    PROVE  \A i \in 0 .. n : i \in S
  <1> SUFFICES ASSUME NEW j \in 0 .. n, j \notin S PROVE FALSE
    OBVIOUS
  <1> DEFINE T == {i \in Nat : i <= n /\ i \notin S}
  <1>1. T \subseteq Nat /\ j \in T
    OBVIOUS
  <1>2. PICK x \in T : \A y \in T : x <= y
    BY <1>1, LeastNat
  <1>3. x \in 1 .. n /\ x - 1 \in Nat /\ x - 1 \notin T
    BY <1>2
  <1> QED
    BY <1>3

-----------------------------------------------------------------------------
(* The loops over a text: the function of the screens between two of their *)
(* steps exists, so it is what its equation says.                          *)

Printed(s, text) ==
    LET after[i \in 0 .. Len(text)] == IF i = 0 THEN s ELSE PrintAt(after[i - 1], text, i)
    IN  after

IsPrinted(f, s, text, n) ==
    f = [i \in 0 .. n |-> IF i = 0 THEN s ELSE PrintAt(f[i - 1], text, i)]

LEMMA PrintedSteps ==
    ASSUME NEW s, NEW text, Len(text) \in Nat
    PROVE  /\ kprint(s, text) = Printed(s, text)[Len(text)]
           /\ Printed(s, text)[0] = s
           /\ \A i \in 1 .. Len(text) :
                 Printed(s, text)[i] = PrintAt(Printed(s, text)[i - 1], text, i)
  <1> DEFINE S == {n \in Nat : \E f : IsPrinted(f, s, text, n)}
  <1>1. 0 \in S
    <2> DEFINE f == [i \in 0 .. 0 |-> s]
    <2>1. IsPrinted(f, s, text, 0)
      BY DEF IsPrinted
    <2> QED
      BY <2>1
  <1>2. ASSUME NEW n \in 1 .. Len(text), n - 1 \in S
        PROVE  n \in S
    <2>1. PICK f : IsPrinted(f, s, text, n - 1)
      BY <1>2
    <2> DEFINE g == [i \in 0 .. n |-> IF i = n THEN PrintAt(f[n - 1], text, n) ELSE f[i]]
    <2>2. \A i \in 0 .. n - 1 : f[i] = IF i = 0 THEN s ELSE PrintAt(f[i - 1], text, i)
      BY <2>1 DEF IsPrinted
    <2>3. ASSUME NEW i \in 0 .. n
          PROVE  g[i] = IF i = 0 THEN s ELSE PrintAt(g[i - 1], text, i)
      <3>1. CASE i = 0
        BY <2>2, <3>1
      <3>2. CASE i \in 1 .. n - 1
        <4>1. g[i] = f[i] /\ g[i - 1] = f[i - 1]
          BY <3>2
        <4> QED
          BY <2>2, <3>2, <4>1
      <3>3. CASE i = n
        <4>1. g[i - 1] = f[i - 1]
          BY <3>3
        <4> QED
          BY <3>3, <4>1
      <3> QED
        BY <3>1, <3>2, <3>3
    <2>4. IsPrinted(g, s, text, n)
      BY <2>3 DEF IsPrinted
    <2> QED
      BY <2>4
  <1> HIDE DEF S
  <1>3. Len(text) \in S
    <2>1. \A i \in 1 .. Len(text) : i - 1 \in S => i \in S
      BY <1>2
    <2>2. \A i \in 0 .. Len(text) : i \in S
      BY <1>1, <2>1, UpTo, Zenon
    <2> QED
      BY <2>2
  <1>4. \E f : IsPrinted(f, s, text, Len(text))
    BY <1>3 DEF S
  <1>5. IsPrinted(Printed(s, text), s, text, Len(text))
    <2>1. Printed(s, text) = CHOOSE f : IsPrinted(f, s, text, Len(text))
      BY Zenon DEF Printed, IsPrinted
    <2> QED
      BY <1>4, <2>1, Zenon
  <1>6. \A i \in 0 .. Len(text) : Printed(s, text)[i] =
            IF i = 0 THEN s ELSE PrintAt(Printed(s, text)[i - 1], text, i)
    BY <1>5 DEF IsPrinted
  <1>7. kprint(s, text) = Printed(s, text)[Len(text)]
    BY DEF kprint, Printed
  <1> QED
    BY <1>6, <1>7

Drawn(s, text, pos, attr) ==
    LET after[i \in 0 .. Len(text)] ==
          IF i = 0 THEN s ELSE write(after[i - 1], text[i], attr, pos + i - 1)
    IN  after

IsDrawn(f, s, text, pos, attr, n) ==
    f = [i \in 0 .. n |-> IF i = 0 THEN s ELSE write(f[i - 1], text[i], attr, pos + i - 1)]

LEMMA DrawnSteps ==
    ASSUME NEW s, NEW text, NEW pos, NEW attr, Len(text) \in Nat
    PROVE  /\ Draw(s, text, pos, attr) = Drawn(s, text, pos, attr)[Len(text)]
           /\ Drawn(s, text, pos, attr)[0] = s
           /\ \A i \in 1 .. Len(text) :
                 Drawn(s, text, pos, attr)[i] =
                   write(Drawn(s, text, pos, attr)[i - 1], text[i], attr, pos + i - 1)
  <1> DEFINE S == {n \in Nat : \E f : IsDrawn(f, s, text, pos, attr, n)}
  <1>1. 0 \in S
    <2> DEFINE f == [i \in 0 .. 0 |-> s]
    <2>1. IsDrawn(f, s, text, pos, attr, 0)
      BY DEF IsDrawn
    <2> QED
      BY <2>1
  <1>2. ASSUME NEW n \in 1 .. Len(text), n - 1 \in S
        PROVE  n \in S
    <2>1. PICK f : IsDrawn(f, s, text, pos, attr, n - 1)
      BY <1>2
    <2> DEFINE g == [i \in 0 .. n |->
                       IF i = n THEN write(f[n - 1], text[n], attr, pos + n - 1) ELSE f[i]]
    <2>2. \A i \in 0 .. n - 1 :
            f[i] = IF i = 0 THEN s ELSE write(f[i - 1], text[i], attr, pos + i - 1)
      BY <2>1 DEF IsDrawn
    <2>3. ASSUME NEW i \in 0 .. n
          PROVE  g[i] = IF i = 0 THEN s ELSE write(g[i - 1], text[i], attr, pos + i - 1)
      <3>1. CASE i = 0
        BY <2>2, <3>1
      <3>2. CASE i \in 1 .. n - 1
        <4>1. g[i] = f[i] /\ g[i - 1] = f[i - 1]
          BY <3>2
        <4> QED
          BY <2>2, <3>2, <4>1
      <3>3. CASE i = n
        <4>1. g[i - 1] = f[i - 1]
          BY <3>3
        <4> QED
          BY <3>3, <4>1
      <3> QED
        BY <3>1, <3>2, <3>3
    <2>4. IsDrawn(g, s, text, pos, attr, n)
      BY <2>3 DEF IsDrawn
    <2> QED
      BY <2>4
  <1> HIDE DEF S
  <1>3. Len(text) \in S
    <2>1. \A i \in 1 .. Len(text) : i - 1 \in S => i \in S
      BY <1>2
    <2>2. \A i \in 0 .. Len(text) : i \in S
      BY <1>1, <2>1, UpTo, Zenon
    <2> QED
      BY <2>2
  <1>4. \E f : IsDrawn(f, s, text, pos, attr, Len(text))
    BY <1>3 DEF S
  <1>5. IsDrawn(Drawn(s, text, pos, attr), s, text, pos, attr, Len(text))
    <2>1. Drawn(s, text, pos, attr) =
            CHOOSE f : IsDrawn(f, s, text, pos, attr, Len(text))
      BY Zenon DEF Drawn, IsDrawn
    <2> QED
      BY <1>4, <2>1, Zenon
  <1>6. \A i \in 0 .. Len(text) : Drawn(s, text, pos, attr)[i] =
            IF i = 0 THEN s ELSE write(Drawn(s, text, pos, attr)[i - 1], text[i], attr, pos + i - 1)
    BY <1>5 DEF IsDrawn
  <1>7. Draw(s, text, pos, attr) = Drawn(s, text, pos, attr)[Len(text)]
    BY DEF Draw, Drawn
  <1> QED
    BY <1>6, <1>7

Bytes(s, bytes) ==
    LET after[i \in 0 .. Len(bytes)] ==
          IF i = 0 THEN s ELSE putchar(after[i - 1], bytes[i], WHITE_ON_BLACK)
    IN  after

IsBytes(f, s, bytes, n) ==
    f = [i \in 0 .. n |-> IF i = 0 THEN s ELSE putchar(f[i - 1], bytes[i], WHITE_ON_BLACK)]

LEMMA BytesSteps ==
    ASSUME NEW s, NEW bytes, Len(bytes) \in Nat
    PROVE  /\ PutBytes(s, bytes) = Bytes(s, bytes)[Len(bytes)]
           /\ Bytes(s, bytes)[0] = s
           /\ \A i \in 1 .. Len(bytes) :
                 Bytes(s, bytes)[i] = putchar(Bytes(s, bytes)[i - 1], bytes[i], WHITE_ON_BLACK)
  <1> DEFINE S == {n \in Nat : \E f : IsBytes(f, s, bytes, n)}
  <1>1. 0 \in S
    <2> DEFINE f == [i \in 0 .. 0 |-> s]
    <2>1. IsBytes(f, s, bytes, 0)
      BY DEF IsBytes
    <2> QED
      BY <2>1
  <1>2. ASSUME NEW n \in 1 .. Len(bytes), n - 1 \in S
        PROVE  n \in S
    <2>1. PICK f : IsBytes(f, s, bytes, n - 1)
      BY <1>2
    <2> DEFINE g == [i \in 0 .. n |->
                       IF i = n THEN putchar(f[n - 1], bytes[n], WHITE_ON_BLACK) ELSE f[i]]
    <2>2. \A i \in 0 .. n - 1 : f[i] = IF i = 0 THEN s ELSE putchar(f[i - 1], bytes[i], WHITE_ON_BLACK)
      BY <2>1 DEF IsBytes
    <2>3. ASSUME NEW i \in 0 .. n
          PROVE  g[i] = IF i = 0 THEN s ELSE putchar(g[i - 1], bytes[i], WHITE_ON_BLACK)
      <3>1. CASE i = 0
        BY <2>2, <3>1
      <3>2. CASE i \in 1 .. n - 1
        <4>1. g[i] = f[i] /\ g[i - 1] = f[i - 1]
          BY <3>2
        <4> QED
          BY <2>2, <3>2, <4>1
      <3>3. CASE i = n
        <4>1. g[i - 1] = f[i - 1]
          BY <3>3
        <4> QED
          BY <3>3, <4>1
      <3> QED
        BY <3>1, <3>2, <3>3
    <2>4. IsBytes(g, s, bytes, n)
      BY <2>3 DEF IsBytes
    <2> QED
      BY <2>4
  <1> HIDE DEF S
  <1>3. Len(bytes) \in S
    <2>1. \A i \in 1 .. Len(bytes) : i - 1 \in S => i \in S
      BY <1>2
    <2>2. \A i \in 0 .. Len(bytes) : i \in S
      BY <1>1, <2>1, UpTo, Zenon
    <2> QED
      BY <2>2
  <1>4. \E f : IsBytes(f, s, bytes, Len(bytes))
    BY <1>3 DEF S
  <1>5. IsBytes(Bytes(s, bytes), s, bytes, Len(bytes))
    <2>1. Bytes(s, bytes) = CHOOSE f : IsBytes(f, s, bytes, Len(bytes))
      BY Zenon DEF Bytes, IsBytes
    <2> QED
      BY <1>4, <2>1, Zenon
  <1>6. \A i \in 0 .. Len(bytes) : Bytes(s, bytes)[i] =
            IF i = 0 THEN s ELSE putchar(Bytes(s, bytes)[i - 1], bytes[i], WHITE_ON_BLACK)
    BY <1>5 DEF IsBytes
  <1>7. PutBytes(s, bytes) = Bytes(s, bytes)[Len(bytes)]
    BY DEF PutBytes, Bytes
  <1> QED
    BY <1>6, <1>7

-----------------------------------------------------------------------------
(* Rows and columns.                                                       *)

LEMMA Sizes ==
    /\ CursorMod \in Nat /\ Cells \in Nat /\ Cells <= CursorMod /\ Cells > MAX_COLS + MAX_COLS
    /\ MAX_COLS \in Nat /\ MAX_COLS > 1
    /\ MAX_ROWS \in Nat /\ MAX_ROWS > 2
    /\ Cells - MAX_COLS = (MAX_ROWS - 1) * MAX_COLS
  <1>1. MAX_ROWS * MAX_COLS >= 3 * MAX_COLS
    BY ConsoleAssumption, SMT
  <1>2. MAX_ROWS * MAX_COLS - MAX_COLS = (MAX_ROWS - 1) * MAX_COLS
    BY ConsoleAssumption, SMT
  <1> QED
    BY <1>1, <1>2, ConsoleAssumption DEF Cells, CursorMod

LEMMA RowCol ==
    ASSUME NEW pos \in Nat
    PROVE  /\ Row(pos) \in Nat /\ Col(pos) \in 0 .. MAX_COLS - 1
           /\ pos = Row(pos) * MAX_COLS + Col(pos)
  BY Sizes DEF Row, Col

LEMMA RowColIs ==
    ASSUME NEW r \in Nat, NEW c \in 0 .. MAX_COLS - 1
    PROVE  /\ r * MAX_COLS + c \in Nat
           /\ Row(r * MAX_COLS + c) = r /\ Col(r * MAX_COLS + c) = c
  <1> DEFINE pos == r * MAX_COLS + c
  <1>1. pos \in Nat
    BY Sizes
  <1>2. /\ Row(pos) \in Nat /\ Col(pos) \in 0 .. MAX_COLS - 1
        /\ pos = Row(pos) * MAX_COLS + Col(pos)
    BY <1>1, RowCol
  <1>3. (Row(pos) - r) * MAX_COLS = c - Col(pos)
    BY <1>2, Sizes
  <1> HIDE DEF pos
  <1>4. Row(pos) - r = 0
    <2>1. Row(pos) - r >= 1 => (Row(pos) - r) * MAX_COLS >= MAX_COLS
      BY <1>2, Sizes
    <2>2. r - Row(pos) >= 1 => (r - Row(pos)) * MAX_COLS >= MAX_COLS
      BY <1>2, Sizes
    <2>3. (r - Row(pos)) * MAX_COLS = Col(pos) - c
      BY <1>2, Sizes DEF pos
    <2>4. c - Col(pos) < MAX_COLS /\ Col(pos) - c < MAX_COLS
      BY <1>2, Sizes
    <2>5. ~(Row(pos) - r >= 1) /\ ~(r - Row(pos) >= 1)
      BY <1>2, <1>3, <2>1, <2>2, <2>3, <2>4, Sizes
    <2> QED
      BY <1>2, <2>5
  <1> QED
    BY <1>1, <1>2, <1>3, <1>4, Sizes DEF pos

LEMMA RowStart ==
    ASSUME NEW r \in Nat
    PROVE  r * MAX_COLS \in Nat /\ Row(r * MAX_COLS) = r /\ Col(r * MAX_COLS) = 0
  <1>1. r * MAX_COLS \in Nat /\ 0 \in 0 .. MAX_COLS - 1 /\ r * MAX_COLS + 0 = r * MAX_COLS
    BY Sizes
  <1>2. Row(r * MAX_COLS + 0) = r /\ Col(r * MAX_COLS + 0) = 0
    BY <1>1, RowColIs
  <1> QED
    BY <1>1, <1>2

\* Where the next row begins.
LEMMA RowBelow ==
    ASSUME NEW pos \in 0 .. Cells - 1
    PROVE  /\ Row(pos) \in 0 .. MAX_ROWS - 1
           /\ Row(pos) # MAX_ROWS - 1 =>
                /\ pos - Col(pos) + MAX_COLS = (Row(pos) + 1) * MAX_COLS
                /\ (Row(pos) + 1) * MAX_COLS \in MAX_COLS .. Cells - MAX_COLS
  <1>1. /\ Row(pos) \in Nat /\ Col(pos) \in 0 .. MAX_COLS - 1
        /\ pos = Row(pos) * MAX_COLS + Col(pos)
    BY RowCol, Sizes
  <1>2. Row(pos) >= MAX_ROWS => Row(pos) * MAX_COLS >= MAX_ROWS * MAX_COLS
    BY <1>1, Sizes
  <1>3. Row(pos) <= MAX_ROWS - 1
    BY <1>1, <1>2, Sizes DEF Cells
  <1>4. ASSUME Row(pos) # MAX_ROWS - 1
        PROVE  /\ pos - Col(pos) + MAX_COLS = (Row(pos) + 1) * MAX_COLS
               /\ (Row(pos) + 1) * MAX_COLS \in MAX_COLS .. Cells - MAX_COLS
    <2>1. (Row(pos) + 1) * MAX_COLS = Row(pos) * MAX_COLS + MAX_COLS
      BY <1>1, Sizes
    <2>2. (Row(pos) + 1) * MAX_COLS <= (MAX_ROWS - 1) * MAX_COLS
      BY <1>1, <1>3, <1>4, Sizes
    <2>3. Row(pos) * MAX_COLS \in Nat
      BY <1>1, Sizes
    <2> QED
      BY <1>1, <2>1, <2>2, <2>3, Sizes
  <1> QED
    BY <1>1, <1>3, <1>4

LEMMA OnScreen ==
    ASSUME NEW pos \in 0 .. Cells - 1
    PROVE  /\ Row(pos) \in 0 .. MAX_ROWS - 1 /\ Col(pos) \in 0 .. MAX_COLS - 1
           /\ pos = Row(pos) * MAX_COLS + Col(pos)
           /\ pos >= MAX_COLS => Row(pos) >= 1
  <1>1. pos \in Nat
    BY Sizes
  <1>2. Row(pos) = 0 => Row(pos) * MAX_COLS = 0
    BY Sizes
  <1> QED
    BY <1>1, <1>2, RowCol, RowBelow, Sizes

-----------------------------------------------------------------------------
(* The screen, field by field.                                             *)

IsRecord(s) ==
    s = [cells |-> s.cells, cursor |-> s.cursor, colour |-> s.colour, start |-> s.start]

IsScreen(s) ==
    /\ IsRecord(s)
    /\ DOMAIN s.cells = 0 .. Cells - 1
    /\ s.cursor \in 0 .. Cells - 1 /\ s.start \in 0 .. Cells - 1
    /\ s.colour \in 0 .. 255

LEMMA SmallPosition ==
    ASSUME NEW pos \in 0 .. CursorMod - 1
    PROVE  pos % CursorMod = pos
  <1>1. CursorMod \in Nat /\ CursorMod > 0
    BY Sizes
  <1>2. PICK m \in Nat : m = CursorMod /\ m > 0
    BY <1>1
  <1>3. pos % m = pos
    BY <1>2, SMT
  <1> QED
    BY <1>2, <1>3

LEMMA SetCursor ==
    ASSUME NEW s, IsRecord(s), NEW pos \in 0 .. CursorMod - 1
    PROVE  LET t == set_cursor(s, pos) IN
           /\ IsRecord(t) /\ t.cells = s.cells /\ t.cursor = pos
           /\ t.colour = s.colour /\ t.start = s.start
  <1> DEFINE t == set_cursor(s, pos)
  <1>1. pos % CursorMod = pos
    BY SmallPosition
  <1>2. t = [s EXCEPT !.cursor = pos]
    BY <1>1, Zenon DEF set_cursor
  <1> QED
    BY <1>2 DEF IsRecord

LEMMA Write ==
    ASSUME NEW s, IsRecord(s), DOMAIN s.cells = 0 .. Cells - 1,
           NEW ch, NEW attr, NEW pos \in 0 .. Cells - 1
    PROVE  LET t == write(s, ch, attr, pos) IN
           /\ IsRecord(t) /\ DOMAIN t.cells = 0 .. Cells - 1
           /\ \A p \in 0 .. Cells - 1 :
                t.cells[p] = IF p = pos THEN <<ch, attr>> ELSE s.cells[p]
           /\ t.cursor = s.cursor /\ t.colour = s.colour /\ t.start = s.start
  <1> DEFINE t == write(s, ch, attr, pos)
  <1> DEFINE c == [p \in 0 .. Cells - 1 |-> IF p = pos THEN <<ch, attr>> ELSE s.cells[p]]
  <1>1. (0 .. Cells - 1) \cup {pos} = 0 .. Cells - 1
    OBVIOUS
  <1>2. t = [s EXCEPT !.cells = c]
    BY <1>1 DEF write
  <1>3. t = [cells |-> c, cursor |-> s.cursor, colour |-> s.colour, start |-> s.start]
    BY <1>2 DEF IsRecord
  <1> QED
    BY <1>3 DEF IsRecord

LEMMA Scroll ==
    ASSUME NEW s, IsScreen(s)
    PROVE  LET t == scroll_line(s) IN
           /\ IsScreen(t) /\ t.cursor = Cells - MAX_COLS /\ t.colour = s.colour
           /\ \A p \in 0 .. Cells - 1 - MAX_COLS : t.cells[p] = s.cells[p + MAX_COLS]
           /\ t.start = IF s.start < MAX_COLS THEN 0 ELSE s.start - MAX_COLS
  <1> DEFINE t == scroll_line(s)
  <1> DEFINE c == [p \in 0 .. Cells - 1 |->
                     IF p < Cells - MAX_COLS THEN s.cells[p + MAX_COLS]
                     ELSE IF p < Cells THEN <<Blank, WHITE_ON_BLACK>> ELSE s.cells[p]]
             b == IF s.start < MAX_COLS THEN 0 ELSE s.start - MAX_COLS
  <1>1. t = [s EXCEPT !.cells = c, !.cursor = (MAX_ROWS - 1) * MAX_COLS, !.start = b]
    BY DEF scroll_line, IsScreen
  <1> HIDE DEF c, b
  <1>2. t = [cells |-> c, cursor |-> Cells - MAX_COLS, colour |-> s.colour, start |-> b]
    <2>1. s = [cells |-> s.cells, cursor |-> s.cursor, colour |-> s.colour, start |-> s.start]
      BY DEF IsScreen, IsRecord
    <2>2. (MAX_ROWS - 1) * MAX_COLS = Cells - MAX_COLS
      BY Sizes
    <2> QED
      BY <1>1, <2>1, <2>2
  <1>3. b \in 0 .. Cells - 1 /\ Cells - MAX_COLS \in 0 .. Cells - 1
    BY Sizes DEF IsScreen, b
  <1>4. \A p \in 0 .. Cells - 1 - MAX_COLS : c[p] = s.cells[p + MAX_COLS]
    BY Sizes DEF c
  <1>5. DOMAIN c = 0 .. Cells - 1
    BY DEF c
  <1>6. /\ t.cells = c /\ t.cursor = Cells - MAX_COLS /\ t.colour = s.colour /\ t.start = b
        /\ IsRecord(t)
    BY <1>2 DEF IsRecord
  <1>7. IsScreen(t)
    BY <1>3, <1>5, <1>6 DEF IsScreen
  <1> QED
    BY <1>4, <1>6, <1>7 DEF b

LEMMA Below ==
    ASSUME NEW s, IsScreen(s)
    PROVE  LET t == NextRow(s) IN
           /\ IsScreen(t) /\ t.colour = s.colour
           /\ t.cursor \in MAX_COLS .. Cells - MAX_COLS /\ Col(t.cursor) = 0
           /\ Row(s.cursor) # MAX_ROWS - 1 =>
                /\ t.cursor = (Row(s.cursor) + 1) * MAX_COLS
                /\ t.cells = s.cells /\ t.start = s.start
           /\ Row(s.cursor) = MAX_ROWS - 1 => t = scroll_line(s)
  <1> DEFINE t == NextRow(s)
  <1>1. /\ Row(s.cursor) \in 0 .. MAX_ROWS - 1
        /\ Row(s.cursor) # MAX_ROWS - 1 =>
             /\ s.cursor - Col(s.cursor) + MAX_COLS = (Row(s.cursor) + 1) * MAX_COLS
             /\ (Row(s.cursor) + 1) * MAX_COLS \in MAX_COLS .. Cells - MAX_COLS
    BY RowBelow DEF IsScreen
  <1>2. CASE Row(s.cursor) = MAX_ROWS - 1
    <2>1. t = scroll_line(s)
      BY <1>2 DEF NextRow
    <2>2. IsScreen(t) /\ t.cursor = Cells - MAX_COLS /\ t.colour = s.colour
      BY <2>1, Scroll
    <2>3. MAX_ROWS - 1 \in Nat /\ Cells - MAX_COLS = (MAX_ROWS - 1) * MAX_COLS
      BY Sizes
    <2>4. Col(t.cursor) = 0
      BY <2>2, <2>3, RowStart
    <2>5. Cells - MAX_COLS \in MAX_COLS .. Cells - MAX_COLS
      BY Sizes
    <2> QED
      BY <1>2, <2>1, <2>2, <2>4, <2>5
  <1>3. CASE Row(s.cursor) # MAX_ROWS - 1
    <2>1. PICK pos : pos = (Row(s.cursor) + 1) * MAX_COLS
      OBVIOUS
    <2>2. pos \in MAX_COLS .. Cells - MAX_COLS /\ t = set_cursor(s, pos)
      BY <1>1, <1>3, <2>1 DEF NextRow
    <2>3. pos \in 0 .. CursorMod - 1 /\ pos \in 0 .. Cells - 1
      BY <2>2, Sizes
    <2>4. /\ IsRecord(t) /\ t.cells = s.cells /\ t.cursor = pos
          /\ t.colour = s.colour /\ t.start = s.start
      <3>1. IsRecord(s)
        BY DEF IsScreen
      <3> QED
        BY <2>2, <2>3, <3>1, SetCursor
    <2>5. Col(pos) = 0
      BY <1>1, <2>1, RowStart
    <2>6. IsScreen(t)
      BY <2>3, <2>4 DEF IsScreen
    <2> QED
      BY <1>3, <2>1, <2>2, <2>4, <2>5, <2>6
  <1> QED
    BY <1>2, <1>3

\* The screen with the cursor where the next glyph goes.
Wrapped(s) == IF Col(s.cursor) = MAX_COLS - 1 THEN NextRow(s) ELSE s

\* putchar of a glyph writes it before the last column, in a new row if it
\* has to, and leaves the cursor behind it.
GlyphPut(s, ch, attr) ==
    LET t == PutGlyph(s, ch, attr)
        u == Wrapped(s)
    IN  /\ IsScreen(u) /\ u.colour = s.colour
        /\ Col(u.cursor) # MAX_COLS - 1
        /\ IsScreen(t) /\ t.colour = s.colour /\ t.start = u.start
        /\ t.cursor = u.cursor + 1
        /\ \A p \in 0 .. Cells - 1 :
             t.cells[p] = IF p = u.cursor THEN <<ch, attr>> ELSE u.cells[p]
        /\ s.cursor >= MAX_COLS => t.cursor > MAX_COLS

LEMMA Glyph ==
    ASSUME NEW s, IsScreen(s), NEW ch, NEW attr
    PROVE  GlyphPut(s, ch, attr)
  <1> DEFINE t == PutGlyph(s, ch, attr)
             u == Wrapped(s)
             v == write(u, ch, attr, u.cursor)
  <1>1. s.cursor \in 0 .. Cells - 1 /\ Col(s.cursor) \in 0 .. MAX_COLS - 1
    <2>1. s.cursor \in 0 .. Cells - 1
      BY DEF IsScreen
    <2> QED
      BY <2>1, OnScreen
  <1>2. IsScreen(u) /\ u.colour = s.colour /\ Col(u.cursor) # MAX_COLS - 1
    <2>1. CASE Col(s.cursor) = MAX_COLS - 1
      BY <2>1, Below, Sizes DEF Wrapped
    <2>2. CASE Col(s.cursor) # MAX_COLS - 1
      BY <2>2 DEF Wrapped
    <2> QED
      BY <2>1, <2>2
  <1>3. s.cursor >= MAX_COLS => u.cursor >= MAX_COLS
    <2>1. CASE Col(s.cursor) = MAX_COLS - 1
      BY <2>1, Below, Sizes DEF Wrapped
    <2>2. CASE Col(s.cursor) # MAX_COLS - 1
      BY <2>2 DEF Wrapped
    <2> QED
      BY <2>1, <2>2
  <1>4. u = IF Col(s.cursor) >= MAX_COLS - 1 THEN NextRow(s) ELSE s
    BY <1>1, Sizes DEF Wrapped
  <1> HIDE DEF u
  <1>5. u.cursor \in 0 .. Cells - 1 /\ u.cursor # Cells
    BY <1>2, Sizes DEF IsScreen
  <1>6. t = set_cursor(v, u.cursor + 1)
    BY <1>4, <1>5 DEF PutGlyph
  <1>7. u.cursor + 1 \in 0 .. Cells - 1 /\ u.cursor + 1 \in 0 .. CursorMod - 1
    <2>1. u.cursor # Cells - 1
      <3>1. Cells - 1 = (MAX_ROWS - 1) * MAX_COLS + (MAX_COLS - 1)
        BY Sizes
      <3>2. MAX_ROWS - 1 \in Nat /\ MAX_COLS - 1 \in 0 .. MAX_COLS - 1
        BY Sizes
      <3>3. Col(Cells - 1) = MAX_COLS - 1
        BY <3>1, <3>2, RowColIs
      <3> QED
        BY <1>2, <3>3
    <2> QED
      BY <1>5, <2>1, Sizes
  <1>8. /\ IsRecord(v) /\ DOMAIN v.cells = 0 .. Cells - 1
        /\ \A p \in 0 .. Cells - 1 :
             v.cells[p] = IF p = u.cursor THEN <<ch, attr>> ELSE u.cells[p]
        /\ v.cursor = u.cursor /\ v.colour = u.colour /\ v.start = u.start
    <2>1. IsRecord(u) /\ DOMAIN u.cells = 0 .. Cells - 1
      BY <1>2 DEF IsScreen
    <2> QED
      BY <1>5, <2>1, Write
  <1> HIDE DEF v, t
  <1>9. /\ IsRecord(t) /\ t.cells = v.cells /\ t.cursor = u.cursor + 1
        /\ t.colour = v.colour /\ t.start = v.start
    BY <1>6, <1>7, <1>8, SetCursor
  <1>10. IsScreen(t) /\ t.colour = s.colour
    BY <1>2, <1>7, <1>8, <1>9 DEF IsScreen
  <1>11. s.cursor >= MAX_COLS => t.cursor > MAX_COLS
    BY <1>3, <1>5, <1>9, Sizes
  <1> QED
    BY <1>2, <1>8, <1>9, <1>10, <1>11 DEF t, u, GlyphPut

\* A backspace erases the glyph before the cursor; in column 0 it erases
\* the one under it, and the cursor stays.
BackspacePut(s, attr) ==
    LET t   == PutBackspace(s, attr)
        pos == IF Col(s.cursor) = 0 THEN s.cursor ELSE s.cursor - 1
    IN  /\ IsScreen(t) /\ t.colour = s.colour /\ t.start = s.start
        /\ t.cursor = pos /\ pos >= MAX_COLS
        /\ \A p \in 0 .. Cells - 1 :
             t.cells[p] = IF p = pos THEN <<Blank, attr>> ELSE s.cells[p]

LEMMA Backspace ==
    ASSUME NEW s, IsScreen(s), s.cursor >= MAX_COLS, NEW attr
    PROVE  BackspacePut(s, attr)
  <1> DEFINE a == set_cursor(s, s.cursor - 1)
             b == PutGlyph(a, Blank, attr)
             u == Wrapped(a)
             t == PutBackspace(s, attr)
             pos == IF Col(s.cursor) = 0 THEN s.cursor ELSE s.cursor - 1
  <1>1. s.cursor - 1 \in 0 .. CursorMod - 1 /\ s.cursor - 1 \in 0 .. Cells - 1
    BY Sizes DEF IsScreen
  <1>2. /\ IsScreen(a) /\ a.cells = s.cells /\ a.cursor = s.cursor - 1
        /\ a.colour = s.colour /\ a.start = s.start
    <2>1. IsRecord(s)
      BY DEF IsScreen
    <2>2. /\ IsRecord(a) /\ a.cells = s.cells /\ a.cursor = s.cursor - 1
          /\ a.colour = s.colour /\ a.start = s.start
      BY <1>1, <2>1, SetCursor
    <2> HIDE DEF a
    <2> QED
      BY <1>1, <2>2 DEF IsScreen
  <1> HIDE DEF a
  <1>3. /\ Row(s.cursor) \in 1 .. MAX_ROWS - 1 /\ Col(s.cursor) \in 0 .. MAX_COLS - 1
        /\ s.cursor = Row(s.cursor) * MAX_COLS + Col(s.cursor)
    <2>1. s.cursor \in 0 .. Cells - 1
      BY DEF IsScreen
    <2> QED
      BY <2>1, OnScreen, Sizes
  <1>4. u.cursor = pos /\ u.cells = s.cells /\ u.start = s.start
    <2>1. CASE Col(s.cursor) = 0
      <3>1. s.cursor - 1 = (Row(s.cursor) - 1) * MAX_COLS + (MAX_COLS - 1)
        BY <1>3, <2>1, Sizes
      <3>2. Row(s.cursor) - 1 \in Nat /\ MAX_COLS - 1 \in 0 .. MAX_COLS - 1
        BY <1>3, Sizes
      <3>3. Col(a.cursor) = MAX_COLS - 1 /\ Row(a.cursor) = Row(s.cursor) - 1
        BY <1>2, <3>1, <3>2, RowColIs
      <3>4. Row(a.cursor) # MAX_ROWS - 1 /\ (Row(a.cursor) + 1) * MAX_COLS = s.cursor
        BY <1>3, <2>1, <3>3, Sizes
      <3> QED
        BY <1>2, <2>1, <3>3, <3>4, Below DEF Wrapped
    <2>2. CASE Col(s.cursor) # 0
      <3>1. s.cursor - 1 = Row(s.cursor) * MAX_COLS + (Col(s.cursor) - 1)
        BY <1>3, Sizes
      <3>2. Row(s.cursor) \in Nat /\ Col(s.cursor) - 1 \in 0 .. MAX_COLS - 1
        BY <1>3, <2>2, Sizes
      <3>3. Col(a.cursor) = Col(s.cursor) - 1
        BY <1>2, <3>1, <3>2, RowColIs
      <3>4. Col(a.cursor) # MAX_COLS - 1
        BY <1>3, <3>3, Sizes
      <3> QED
        BY <1>2, <2>2, <3>4 DEF Wrapped
    <2> QED
      BY <2>1, <2>2
  <1>5. /\ IsScreen(b) /\ b.colour = s.colour /\ b.start = s.start /\ b.cursor = pos + 1
        /\ \A p \in 0 .. Cells - 1 :
             b.cells[p] = IF p = pos THEN <<Blank, attr>> ELSE s.cells[p]
    <2>1. GlyphPut(a, Blank, attr)
      BY <1>2, Glyph
    <2> QED
      BY <1>2, <1>4, <2>1 DEF GlyphPut
  <1>6. t = set_cursor(b, b.cursor - 1)
    BY DEF PutBackspace, a
  <1> HIDE DEF b, t
  <1>7. pos >= MAX_COLS /\ pos \in 0 .. Cells - 1
    <2>1. CASE Col(s.cursor) = 0
      BY <2>1 DEF IsScreen
    <2>2. CASE Col(s.cursor) # 0
      <3>1. s.cursor # MAX_COLS
        <4>1. 1 * MAX_COLS = MAX_COLS /\ 1 \in Nat
          BY Sizes
        <4>2. Col(1 * MAX_COLS) = 0
          BY <4>1, RowStart, Zenon
        <4> QED
          BY <2>2, <4>1, <4>2, Zenon
      <3> QED
        BY <1>1, <2>2, <3>1, Sizes DEF IsScreen
    <2> QED
      BY <2>1, <2>2
  <1>8. b.cursor - 1 = pos /\ pos \in 0 .. CursorMod - 1
    BY <1>5, <1>7, Sizes
  <1> HIDE DEF pos
  <1>9. /\ IsRecord(t) /\ t.cells = b.cells /\ t.cursor = pos
        /\ t.colour = b.colour /\ t.start = b.start
    BY <1>5, <1>6, <1>8, SetCursor DEF IsScreen
  <1>10. IsScreen(t)
    BY <1>5, <1>7, <1>9 DEF IsScreen
  <1> QED
    BY <1>5, <1>7, <1>9, <1>10 DEF t, pos, BackspacePut

\* Once the cursor is below the row of the bar, it stays below it; a line
\* feed takes it there.
IsBelow(s) == IsScreen(s) /\ s.cursor >= MAX_COLS

LEMMA Putchar ==
    ASSUME NEW s, IsScreen(s), NEW ch, NEW attr, IsBelow(s) \/ ch = "LF"
    PROVE  IsBelow(putchar(s, ch, attr)) /\ putchar(s, ch, attr).colour = s.colour
  <1>1. CASE ch = "LF"
    <2>1. putchar(s, ch, attr) = NextRow(s)
      BY <1>1 DEF putchar
    <2>2. NextRow(s).cursor \in MAX_COLS .. Cells - MAX_COLS
      BY Below
    <2> QED
      BY <2>1, <2>2, Below, Sizes DEF IsBelow
  <1>2. CASE ch = "BS"
    <2>1. putchar(s, ch, attr) = PutBackspace(s, attr) /\ s.cursor >= MAX_COLS
      BY <1>2 DEF putchar, IsBelow
    <2>2. /\ IsScreen(PutBackspace(s, attr)) /\ PutBackspace(s, attr).colour = s.colour
          /\ PutBackspace(s, attr).cursor >= MAX_COLS
      <3>1. BackspacePut(s, attr)
        BY <2>1, Backspace
      <3> QED
        BY <3>1 DEF BackspacePut
    <2> QED
      BY <2>1, <2>2 DEF IsBelow
  <1>3. CASE ch # "LF" /\ ch # "BS"
    <2>1. putchar(s, ch, attr) = PutGlyph(s, ch, attr) /\ s.cursor >= MAX_COLS
      BY <1>3 DEF putchar, IsBelow
    <2>2. GlyphPut(s, ch, attr)
      BY Glyph
    <2>3. /\ IsScreen(PutGlyph(s, ch, attr)) /\ PutGlyph(s, ch, attr).cursor > MAX_COLS
          /\ PutGlyph(s, ch, attr).colour = s.colour
      BY <2>1, <2>2 DEF GlyphPut
    <2>4. PutGlyph(s, ch, attr).cursor >= MAX_COLS
      BY <2>3, Sizes DEF IsScreen
    <2> QED
      BY <2>1, <2>3, <2>4 DEF IsBelow
  <1> QED
    BY <1>1, <1>2, <1>3

-----------------------------------------------------------------------------
(* Printing.                                                               *)

\* The colour that a tag at i sets.
TagColour(text, i) == HexValue(text[i + 2]) * 16 + HexValue(text[i + 3])

LEMMA HexRange ==
    ASSUME NEW ch \in HexDigits
    PROVE  HexValue(ch) \in 0 .. 15
  <1>1. \E i \in 1 .. 16 : Hex[i] = ch
    BY DEF HexDigits
  <1>2. (CHOOSE i \in 1 .. 16 : Hex[i] = ch) \in 1 .. 16
    BY <1>1
  <1> QED
    BY <1>2 DEF HexValue

LEMMA TwoDigits ==
    ASSUME NEW a \in 0 .. 15, NEW b \in 0 .. 15
    PROVE  a * 16 + b \in 0 .. 255
  OBVIOUS

Coloured(s, c) == [s EXCEPT !.colour = c]

LEMMA SetColour ==
    ASSUME NEW s, IsScreen(s), NEW c \in 0 .. 255
    PROVE  LET t == Coloured(s, c)
           IN  IsScreen(t) /\ t.cursor = s.cursor /\ t.colour = c
                 /\ t.cells = s.cells /\ t.start = s.start
  BY DEF Coloured, IsScreen, IsRecord

LEMMA PrintStep ==
    ASSUME NEW s, IsScreen(s), NEW text, NEW i \in 1 .. Len(text), Len(text) \in Nat,
           IsBelow(s) \/ (i = 1 /\ text[1] = "LF")
    PROVE  LET t == PrintAt(s, text, i)
           IN  /\ IsBelow(t)
               /\ t.colour = IF TagAt(text, i) THEN TagColour(text, i) ELSE s.colour
  <1>1. CASE TagAt(text, i)
    <2>1. PrintAt(s, text, i) = Coloured(s, TagColour(text, i))
      BY <1>1 DEF PrintAt, TagColour, Coloured
    <2>2. TagColour(text, i) \in 0 .. 255
      <3>1. HexValue(text[i + 2]) \in 0 .. 15 /\ HexValue(text[i + 3]) \in 0 .. 15
        BY <1>1, HexRange DEF TagAt
      <3> QED
        BY <3>1, TwoDigits DEF TagColour
    <2>3. IsBelow(s)
      BY <1>1 DEF TagAt
    <2> DEFINE c == TagColour(text, i)
    <2> HIDE DEF c
    <2>4. /\ IsScreen(Coloured(s, c)) /\ Coloured(s, c).cursor = s.cursor
          /\ Coloured(s, c).colour = c
      <3>1. c \in 0 .. 255
        BY <2>2 DEF c
      <3> QED
        BY <3>1, SetColour, Zenon
    <2> QED
      BY <1>1, <2>1, <2>3, <2>4 DEF IsBelow, c
  <1>2. CASE ~TagAt(text, i) /\ InTag(text, i)
    <2>1. PrintAt(s, text, i) = s
      BY <1>2 DEF PrintAt
    <2>2. IsBelow(s)
      BY <1>2 DEF InTag
    <2> QED
      BY <1>2, <2>1, <2>2
  <1>3. CASE ~TagAt(text, i) /\ ~InTag(text, i)
    <2>1. PrintAt(s, text, i) = putchar(s, text[i], s.colour)
      BY <1>3 DEF PrintAt
    <2> QED
      BY <1>3, <2>1, Putchar
  <1> QED
    BY <1>1, <1>2, <1>3

LEMMA Kprint ==
    ASSUME NEW s, IsScreen(s), NEW text, Len(text) \in Nat,
           IsBelow(s) \/ (Len(text) > 0 /\ text[1] = "LF")
    PROVE  /\ IsBelow(kprint(s, text))
           /\ \A i \in 0 .. Len(text) : IsScreen(Printed(s, text)[i])
           /\ \A i \in 1 .. Len(text) :
                Printed(s, text)[i].colour =
                  IF TagAt(text, i) THEN TagColour(text, i) ELSE Printed(s, text)[i - 1].colour
  <1> DEFINE P(i) == Printed(s, text)[i]
             S == {i \in 0 .. Len(text) : IsScreen(P(i)) /\ (IsBelow(s) \/ i > 0 => IsBelow(P(i)))}
  <1>1. P(0) = s /\ \A i \in 1 .. Len(text) : P(i) = PrintAt(P(i - 1), text, i)
    BY PrintedSteps
  <1>2. 0 \in S
    BY <1>1
  <1>3. ASSUME NEW i \in 1 .. Len(text), i - 1 \in S
        PROVE  /\ i \in S
               /\ P(i).colour = IF TagAt(text, i) THEN TagColour(text, i) ELSE P(i - 1).colour
    <2>1. IsScreen(P(i - 1)) /\ P(i) = PrintAt(P(i - 1), text, i)
      BY <1>1, <1>3
    <2>2. IsBelow(P(i - 1)) \/ (i = 1 /\ text[1] = "LF")
      BY <1>3
    <2>3. /\ IsBelow(P(i))
          /\ P(i).colour = IF TagAt(text, i) THEN TagColour(text, i) ELSE P(i - 1).colour
      BY <2>1, <2>2, PrintStep
    <2> QED
      BY <2>3 DEF IsBelow
  <1> HIDE DEF S
  <1>4. \A i \in 0 .. Len(text) : i \in S
    <2>1. \A i \in 1 .. Len(text) : i - 1 \in S => i \in S
      BY <1>3
    <2> QED
      BY <1>2, <2>1, UpTo, Zenon
  <1>5. IsBelow(kprint(s, text))
    <2>1. kprint(s, text) = P(Len(text)) /\ Len(text) \in S
      BY <1>4, PrintedSteps
    <2> QED
      BY <2>1 DEF S
  <1>6. \A i \in 0 .. Len(text) : IsScreen(P(i))
    BY <1>4 DEF S
  <1>7. \A i \in 1 .. Len(text) : i - 1 \in S
    BY <1>4
  <1> QED
    BY <1>3, <1>5, <1>6, <1>7

\* After the last tag the colour does not change any more.
LEMMA KprintColour ==
    ASSUME NEW s, IsScreen(s), NEW text, Len(text) \in Nat,
           IsBelow(s) \/ (Len(text) > 0 /\ text[1] = "LF")
    PROVE  /\ ~HasTag(text) => kprint(s, text).colour = s.colour
           /\ \A k \in 1 .. Len(text) :
                TagAt(text, k) /\ (\A j \in (k + 1) .. Len(text) : ~TagAt(text, j))
                  => kprint(s, text).colour = TagColour(text, k)
  <1> DEFINE P(i) == Printed(s, text)[i]
  <1>1. kprint(s, text) = P(Len(text)) /\ P(0) = s
    BY PrintedSteps
  <1>2. \A i \in 1 .. Len(text) :
          P(i).colour = IF TagAt(text, i) THEN TagColour(text, i) ELSE P(i - 1).colour
    BY Kprint
  <1> HIDE DEF P
  <1>3. ASSUME NEW k \in 0 .. Len(text), \A j \in (k + 1) .. Len(text) : ~TagAt(text, j)
        PROVE  P(Len(text)).colour = P(k).colour
    <2> DEFINE S == {i \in 0 .. Len(text) : i >= k => P(i).colour = P(k).colour}
    <2>1. 0 \in S
      OBVIOUS
    <2>2. ASSUME NEW i \in 1 .. Len(text), i - 1 \in S
          PROVE  i \in S
      <3>1. CASE i <= k
        BY <3>1
      <3>2. CASE i > k
        <4>1. P(i).colour = P(i - 1).colour
          BY <1>2, <1>3, <3>2
        <4> QED
          BY <2>2, <3>2, <4>1
      <3> QED
        BY <3>1, <3>2
    <2> HIDE DEF S
    <2>3. \A i \in 0 .. Len(text) : i \in S
      <3>1. \A i \in 1 .. Len(text) : i - 1 \in S => i \in S
        BY <2>2
      <3> QED
        BY <2>1, <3>1, UpTo, Zenon
    <2>4. Len(text) \in S
      BY <2>3
    <2> QED
      BY <2>4 DEF S
  <1>4. ~HasTag(text) => kprint(s, text).colour = s.colour
    BY <1>1, <1>3 DEF HasTag
  <1>5. ASSUME NEW k \in 1 .. Len(text), TagAt(text, k),
               \A j \in (k + 1) .. Len(text) : ~TagAt(text, j)
        PROVE  kprint(s, text).colour = TagColour(text, k)
    BY <1>1, <1>2, <1>3, <1>5
  <1> QED
    BY <1>4, <1>5

-----------------------------------------------------------------------------
(* The other ways to write on the screen.                                  *)

\* What is drawn changes cells of the screen and nothing else.
LEMMA Drawing ==
    ASSUME NEW s, IsScreen(s), NEW text, Len(text) \in Nat, NEW pos \in Nat, NEW attr,
           pos + Len(text) <= Cells
    PROVE  LET t == Draw(s, text, pos, attr)
           IN  /\ IsScreen(t) /\ t.cursor = s.cursor /\ t.colour = s.colour
               /\ t.start = s.start
               /\ \A p \in 0 .. Cells - 1 :
                    p < pos \/ p >= pos + Len(text) => t.cells[p] = s.cells[p]
  <1> DEFINE D(i) == Drawn(s, text, pos, attr)[i]
             Same(t) == /\ IsScreen(t) /\ t.cursor = s.cursor /\ t.colour = s.colour
                        /\ t.start = s.start
                        /\ \A p \in 0 .. Cells - 1 :
                             p < pos \/ p >= pos + Len(text) => t.cells[p] = s.cells[p]
             S == {i \in 0 .. Len(text) : Same(D(i))}
  <1>1. /\ Draw(s, text, pos, attr) = D(Len(text)) /\ D(0) = s
        /\ \A i \in 1 .. Len(text) : D(i) = write(D(i - 1), text[i], attr, pos + i - 1)
    BY DrawnSteps
  <1> HIDE DEF D
  <1>2. 0 \in S
    BY <1>1
  <1>3. ASSUME NEW i \in 1 .. Len(text), i - 1 \in S
        PROVE  i \in S
    <2> DEFINE a == D(i - 1)
               b == D(i)
               q == pos + i - 1
    <2>1. b = write(a, text[i], attr, q) /\ q \in 0 .. Cells - 1
      BY <1>1, Sizes
    <2>2. Same(a) /\ IsRecord(a) /\ DOMAIN a.cells = 0 .. Cells - 1
      BY <1>3 DEF IsScreen
    <2> HIDE DEF a, b
    <2>3. /\ IsRecord(b) /\ DOMAIN b.cells = 0 .. Cells - 1
          /\ \A p \in 0 .. Cells - 1 :
               b.cells[p] = IF p = q THEN <<text[i], attr>> ELSE a.cells[p]
          /\ b.cursor = a.cursor /\ b.colour = a.colour /\ b.start = a.start
      BY <2>1, <2>2, Write
    <2>4. IsScreen(b)
      BY <2>2, <2>3 DEF IsScreen
    <2>5. q >= pos /\ q < pos + Len(text)
      OBVIOUS
    <2>6. Same(b)
      BY <2>2, <2>3, <2>4, <2>5
    <2> QED
      BY <2>6 DEF b
  <1> HIDE DEF S
  <1>4. \A i \in 0 .. Len(text) : i \in S
    <2>1. \A i \in 1 .. Len(text) : i - 1 \in S => i \in S
      BY <1>3
    <2> QED
      BY <1>2, <2>1, UpTo, Zenon
  <1>5. Len(text) \in S
    BY <1>4
  <1>6. Same(D(Len(text)))
    BY <1>5 DEF S
  <1> QED
    BY <1>1, <1>6

LEMMA PuttingBytes ==
    ASSUME NEW s, IsBelow(s), NEW bytes, Len(bytes) \in Nat
    PROVE  IsBelow(PutBytes(s, bytes)) /\ PutBytes(s, bytes).colour = s.colour
  <1> DEFINE B(i) == Bytes(s, bytes)[i]
             S == {i \in 0 .. Len(bytes) : IsBelow(B(i)) /\ B(i).colour = s.colour}
  <1>1. /\ PutBytes(s, bytes) = B(Len(bytes)) /\ B(0) = s
        /\ \A i \in 1 .. Len(bytes) : B(i) = putchar(B(i - 1), bytes[i], WHITE_ON_BLACK)
    BY BytesSteps
  <1> HIDE DEF B
  <1>2. 0 \in S
    BY <1>1
  <1>3. ASSUME NEW i \in 1 .. Len(bytes), i - 1 \in S
        PROVE  i \in S
    <2>1. IsScreen(B(i - 1)) /\ IsBelow(B(i - 1)) /\ B(i - 1).colour = s.colour
      BY <1>3 DEF IsBelow
    <2>2. B(i) = putchar(B(i - 1), bytes[i], WHITE_ON_BLACK)
      BY <1>1
    <2> QED
      BY <2>1, <2>2, Putchar
  <1> HIDE DEF S
  <1>4. \A i \in 0 .. Len(bytes) : i \in S
    <2>1. \A i \in 1 .. Len(bytes) : i - 1 \in S => i \in S
      BY <1>3
    <2> QED
      BY <1>2, <2>1, UpTo, Zenon
  <1>5. Len(bytes) \in S
    BY <1>4
  <1> QED
    BY <1>1, <1>5 DEF S

LEMMA Clearing ==
    ASSUME NEW s, IsScreen(s)
    PROVE  IsScreen(kclear(s)) /\ kclear(s).colour = s.colour /\ kclear(s).start = s.start
  <1> DEFINE c == [p \in 0 .. Cells - 1 |-> IF p < Cells THEN <<"NUL", WHITE_ON_BLACK>> ELSE s.cells[p]]
  <1>1. kclear(s) = [s EXCEPT !.cells = c, !.cursor = 0]
    BY DEF kclear, IsScreen
  <1> HIDE DEF c
  <1>2. kclear(s) = [cells |-> c, cursor |-> 0, colour |-> s.colour, start |-> s.start]
    BY <1>1 DEF IsScreen, IsRecord
  <1>3. DOMAIN c = 0 .. Cells - 1 /\ 0 \in 0 .. Cells - 1
    BY Sizes DEF c
  <1> QED
    BY <1>2, <1>3 DEF IsScreen, IsRecord

\* A number up to 100 has at most three digits.
LEMMA ThreeDigits ==
    ASSUME NEW num \in 0 .. 100
    PROVE  Len(int_to_str(num)) \in 1 .. 3
  <1> DEFINE H(n) == Hex[n + 1]
             V(n) == IF n < 10 THEN <<H(n)>>
                     ELSE IF n < 100 THEN Append(<<H(n \div 10)>>, H(n % 10))
                     ELSE Append(Append(<<H(1)>>, H(0)), H(0))
             IsDigits(f) == f = [n \in 0 .. num |-> IF n < 10 THEN <<Hex[n + 1]>>
                                                   ELSE Append(f[n \div 10], Hex[(n % 10) + 1])]
             f == [n \in 0 .. num |-> V(n)]
             d == CHOOSE g : IsDigits(g)
  <1>1. ASSUME NEW n \in 10 .. 100
        PROVE  n \div 10 \in 0 .. n /\ V(n) = Append(V(n \div 10), H(n % 10))
    <2> HIDE DEF H
    <2>1. CASE n < 100
      <3>1. n \div 10 \in 0 .. 9
        BY <2>1
      <3>2. V(n \div 10) = <<H(n \div 10)>>
        BY <3>1
      <3>3. V(n) = Append(<<H(n \div 10)>>, H(n % 10))
        <4>1. ~(n < 10)
          OBVIOUS
        <4> QED
          BY <2>1, <4>1, Zenon
      <3>4. n \div 10 \in 0 .. n
        BY <3>1
      <3> HIDE DEF V
      <3> QED
        BY <3>2, <3>3, <3>4, Zenon
    <2>2. CASE n = 100
      <3>1. 100 \div 10 = 10 /\ 100 % 10 = 0 /\ 10 \div 10 = 1 /\ 10 % 10 = 0
        OBVIOUS
      <3>2. V(10) = Append(<<H(10 \div 10)>>, H(10 % 10))
        <4>1. ~(10 < 10) /\ 10 < 100
          OBVIOUS
        <4> QED
          BY <4>1, Zenon
      <3>3. V(100) = Append(Append(<<H(1)>>, H(0)), H(0))
        <4>1. ~(100 < 10) /\ ~(100 < 100)
          OBVIOUS
        <4> QED
          BY <4>1, Zenon
      <3>4. 10 \in 0 .. 100
        OBVIOUS
      <3> HIDE DEF V
      <3> QED
        BY <2>2, <3>1, <3>2, <3>3, <3>4, Zenon
    <2> QED
      BY <2>1, <2>2
  <1>2. ASSUME NEW n \in 0 .. num
        PROVE  f[n] = IF n < 10 THEN <<H(n)>> ELSE Append(f[n \div 10], H(n % 10))
    <2> HIDE DEF H
    <2>1. CASE n < 10
      BY <2>1
    <2>2. CASE n >= 10
      <3> HIDE DEF V
      <3>1. n \div 10 \in 0 .. num /\ V(n) = Append(V(n \div 10), H(n % 10))
        <4>1. n \in 10 .. 100
          BY <2>2
        <4>2. n \div 10 \in 0 .. n /\ V(n) = Append(V(n \div 10), H(n % 10))
          BY <1>1, <4>1
        <4> QED
          BY <4>2
      <3>2. f[n \div 10] = V(n \div 10) /\ f[n] = V(n)
        BY <3>1
      <3> QED
        BY <2>2, <3>1, <3>2
    <2> QED
      BY <2>1, <2>2
  <1>3. IsDigits(f)
    <2> HIDE DEF V
    <2> QED
      BY <1>2
  <1>4. IsDigits(d)
    <2> HIDE DEF f
    <2> QED
      BY <1>3, Zenon
  <1>5. int_to_str(num) = d[num]
    BY Zenon DEF int_to_str
  <1> HIDE DEF d
  <1>6. \A n \in 0 .. num : d[n] = IF n < 10 THEN <<H(n)>> ELSE Append(d[n \div 10], H(n % 10))
    BY <1>4
  <1> HIDE DEF H
  <1>7. \A n \in 0 .. num : n < 10 => d[n] = <<H(n)>>
    BY <1>6
  <1>8. \A n \in 0 .. num : n >= 10 => d[n] = Append(d[n \div 10], H(n % 10))
    <2> SUFFICES ASSUME NEW n \in 0 .. num, n >= 10
                 PROVE  d[n] = Append(d[n \div 10], H(n % 10))
      OBVIOUS
    <2>1. ~(n < 10)
      OBVIOUS
    <2> QED
      BY <1>6, <2>1, Zenon
  <1>9. CASE num < 10
    BY <1>5, <1>7, <1>9
  <1>10. CASE num >= 10 /\ num < 100
    <2>1. num \div 10 \in 0 .. num /\ num \div 10 < 10
      BY <1>10
    <2>2. d[num \div 10] = <<H(num \div 10)>>
      BY <1>7, <2>1
    <2>3. d[num] = Append(d[num \div 10], H(num % 10))
      <3>1. num \in 0 .. num /\ num >= 10
        BY <1>10
      <3> QED
        BY <1>8, <3>1, Zenon
    <2> QED
      BY <1>5, <2>2, <2>3
  <1>11. CASE num = 100
    <2>1. 100 \div 10 = 10 /\ 10 \div 10 = 1
      OBVIOUS
    <2>2. 1 \in 0 .. num /\ 10 \in 0 .. num /\ 100 \in 0 .. num
      BY <1>11
    <2>3. d[1] = <<H(1)>>
      BY <1>7, <2>2
    <2>4. d[10] = Append(d[10 \div 10], H(10 % 10))
      BY <1>8, <2>2
    <2>5. d[100] = Append(d[100 \div 10], H(100 % 10))
      BY <1>8, <2>2
    <2>6. d[100] = Append(Append(<<H(1)>>, H(10 % 10)), H(100 % 10))
      <3>1. d[10 \div 10] = d[1] /\ d[100 \div 10] = d[10]
        BY <2>1
      <3> DEFINE h == H(10 % 10)
                 g == H(100 % 10)
      <3>2. d[10] = Append(d[1], h) /\ d[100] = Append(d[10], g)
        BY <2>4, <2>5, <3>1
      <3> HIDE DEF h, g
      <3>3. d[100] = Append(Append(<<H(1)>>, h), g)
        BY <2>3, <3>2
      <3> QED
        BY <3>3, Zenon DEF h, g
    <2>7. Len(Append(Append(<<H(1)>>, H(10 % 10)), H(100 % 10))) = 3
      OBVIOUS
    <2> QED
      BY <1>5, <1>11, <2>6, <2>7
  <1> QED
    BY <1>9, <1>10, <1>11

LEMMA Percentage ==
    ASSUME NEW time \in Nat
    PROVE  calculate_cpu_usage(time) \in 0 .. 100
  <1>1. CASE time = 0
    BY <1>1 DEF calculate_cpu_usage
  <1>2. CASE time # 0
    <2> DEFINE a == (time * 100) % TickMod
    <2>1. a \in Nat /\ a <= time * 100
      BY ConsoleAssumption
    <2> HIDE DEF a
    <2>2. a \div time \in Nat /\ (a \div time) * time <= a
      BY <1>2, <2>1
    <2>3. a \div time <= 100
      <3>1. a \div time >= 101 => (a \div time) * time >= 101 * time
        BY <1>2, <2>2
      <3> QED
        BY <1>2, <2>1, <2>2, <3>1
    <2> QED
      BY <1>2, <2>2, <2>3 DEF calculate_cpu_usage, a
  <1> QED
    BY <1>1, <1>2

-----------------------------------------------------------------------------
(* The colour after a text.                                                *)

LEMMA NoTagInShort ==
    ASSUME NEW text, Len(text) \in 0 .. 5
    PROVE  ~HasTag(text)
  BY DEF HasTag, TagAt

LEMMA DefaultColour == HexValue("0") * 16 + HexValue("7") = WHITE_ON_BLACK
  <1>1. HexValue("0") = 0
    <2>1. \A i \in 1 .. 16 : Hex[i] = "0" <=> i = 1
      BY DEF Hex
    <2> QED
      BY <2>1 DEF HexValue
  <1>2. HexValue("7") = 7
    <2>1. \A i \in 1 .. 16 : Hex[i] = "7" <=> i = 8
      BY DEF Hex
    <2> QED
      BY <2>1 DEF HexValue
  <1> QED
    BY <1>1, <1>2 DEF WHITE_ON_BLACK

LEMMA LastTag ==
    ASSUME NEW text, Len(text) \in Nat, HasTag(text)
    PROVE  \E k \in 1 .. Len(text) :
              TagAt(text, k) /\ \A j \in (k + 1) .. Len(text) : ~TagAt(text, j)
  <1> DEFINE T == {n \in Nat : n < Len(text) /\ TagAt(text, Len(text) - n)}
  <1>1. T # {}
    <2>1. PICK i \in 1 .. Len(text) : TagAt(text, i)
      BY DEF HasTag
    <2>2. Len(text) - i \in Nat /\ Len(text) - (Len(text) - i) = i
      BY <2>1
    <2>3. Len(text) - i \in T
      BY <2>1, <2>2
    <2> QED
      BY <2>3
  <1>2. PICK n \in T : \A m \in T : n <= m
    BY <1>1, LeastNat
  <1> DEFINE k == Len(text) - n
  <1>3. k \in 1 .. Len(text) /\ TagAt(text, k)
    BY <1>2
  <1>4. ASSUME NEW j \in (k + 1) .. Len(text), TagAt(text, j)
        PROVE  FALSE
    <2>1. Len(text) - j \in Nat /\ Len(text) - (Len(text) - j) = j /\ Len(text) - j < n
      BY <1>2, <1>4
    <2>2. Len(text) - j \in T
      BY <1>2, <1>4, <2>1
    <2> QED
      BY <1>2, <2>1, <2>2
  <1> QED
    BY <1>3, <1>4

\* The last tag, if there is one, sets the default colour.
SetsBack(text) ==
    \A i \in 1 .. Len(text) :
      TagAt(text, i) /\ (\A j \in (i + 1) .. Len(text) : ~TagAt(text, j))
        => text[i + 2] = "0" /\ text[i + 3] = "7"

\* A text that sets the colour back, or one without tags in the default
\* colour, leaves the default colour.
LEMMA SetBack ==
    ASSUME NEW s, IsBelow(s), NEW text, Len(text) \in Nat, SetsBack(text),
           HasTag(text) \/ s.colour = WHITE_ON_BLACK
    PROVE  kprint(s, text).colour = WHITE_ON_BLACK
  <1>0. IsScreen(s)
    BY DEF IsBelow
  <1>1. CASE HasTag(text)
    <2>1. PICK k \in 1 .. Len(text) :
             TagAt(text, k) /\ \A j \in (k + 1) .. Len(text) : ~TagAt(text, j)
      BY <1>1, LastTag
    <2>2. kprint(s, text).colour = TagColour(text, k)
      BY <1>0, <2>1, KprintColour
    <2>3. text[k + 2] = "0" /\ text[k + 3] = "7"
      BY <2>1 DEF SetsBack
    <2> QED
      BY <2>2, <2>3, DefaultColour DEF TagColour
  <1>2. CASE ~HasTag(text)
    BY <1>0, <1>2, KprintColour
  <1> QED
    BY <1>1, <1>2

\* kprintf prints what fits in its buffer.
LEMMA Kprintf ==
    ASSUME NEW s, IsScreen(s), NEW S, NEW text \in Seq(S),
           IsBelow(s) \/ (Len(text) > 0 /\ text[1] = "LF")
    PROVE  /\ IsBelow(kprintf(s, text))
           /\ ~HasTag(text) => kprintf(s, text).colour = s.colour
  <1> DEFINE cut == IF Fits(text) THEN text ELSE SubSeq(text, 1, BufSize - 1)
  <1>1. /\ Len(cut) \in Nat /\ Len(cut) <= Len(text)
        /\ \A i \in 1 .. Len(cut) : cut[i] = text[i]
        /\ Len(text) > 0 => Len(cut) > 0
    <2>1. CASE Fits(text)
      BY <2>1
    <2>2. CASE ~Fits(text)
      <3>1. BufSize - 1 \in 1 .. Len(text)
        BY <2>2, ConsoleAssumption DEF Fits
      <3>2. /\ Len(SubSeq(text, 1, BufSize - 1)) = BufSize - 1
            /\ \A i \in 1 .. BufSize - 1 : SubSeq(text, 1, BufSize - 1)[i] = text[i]
        BY <3>1
      <3> QED
        BY <2>2, <3>1, <3>2
    <2> QED
      BY <2>1, <2>2
  <1>2. kprintf(s, text) = kprint(s, cut)
    BY DEF kprintf
  <1> HIDE DEF cut
  <1>3. IsBelow(s) \/ (Len(cut) > 0 /\ cut[1] = "LF")
    BY <1>1
  <1>4. HasTag(cut) => HasTag(text)
    <2> SUFFICES ASSUME NEW i \in 1 .. Len(cut), TagAt(cut, i)
                 PROVE  HasTag(text)
      BY DEF HasTag
    <2>1. /\ i \in 1 .. Len(text) /\ i + 5 <= Len(text)
          /\ \A j \in 0 .. 5 : i + j \in 1 .. Len(cut)
      BY <1>1 DEF TagAt
    <2>2. \A j \in 0 .. 5 : cut[i + j] = text[i + j]
      BY <1>1, <2>1
    <2>3. TagAt(text, i)
      BY <2>1, <2>2 DEF TagAt
    <2> QED
      BY <2>1, <2>3 DEF HasTag
  <1>5. IsBelow(kprint(s, cut))
    BY <1>1, <1>3, Kprint
  <1>6. ~HasTag(cut) => kprint(s, cut).colour = s.colour
    BY <1>1, <1>3, KprintColour
  <1> QED
    BY <1>2, <1>4, <1>5, <1>6

LEMMA FitsPrints ==
    ASSUME NEW s, NEW text, Fits(text)
    PROVE  kprintf(s, text) = kprint(s, text)
  BY DEF kprintf

\* A line of the log ends in the default colour, whatever it says.
LEMMA Kdbg ==
    ASSUME NEW s, IsBelow(s), NEW level, NEW S, NEW text \in Seq(S)
    PROVE  IsBelow(kdbg(s, level, text)) /\ kdbg(s, level, text).colour = WHITE_ON_BLACK
  <1> DEFINE head == Tag("0", level) \o <<"[", "]", ":">> \o Tag("0", "7")
             a == kprintf(s, head)
             b == kprintf(a, text)
             c == kprintf(b, Tag("0", "7"))
             C == {"<", "(", "0", level, ")", ">", "[", "]", ":", "7"}
  <1>1. head \in Seq(C)
    BY DEF Tag
  <1>2. IsBelow(a)
    BY <1>1, Kprintf DEF IsBelow
  <1> HIDE DEF a
  <1>3. IsBelow(b)
    BY <1>2, Kprintf DEF IsBelow
  <1> HIDE DEF b
  <1>4. /\ Len(Tag("0", "7")) = 6 /\ Fits(Tag("0", "7"))
    BY ConsoleAssumption DEF Tag, Fits
  <1>5. c = kprint(b, Tag("0", "7"))
    BY <1>4, FitsPrints
  <1>6. SetsBack(Tag("0", "7")) /\ HasTag(Tag("0", "7"))
    <2>1. "0" \in HexDigits /\ "7" \in HexDigits
      <3>1. Hex[1] = "0" /\ Hex[8] = "7"
        BY DEF Hex
      <3> QED
        BY <3>1 DEF HexDigits
    <2>2. TagAt(Tag("0", "7"), 1)
      BY <2>1 DEF TagAt, Tag
    <2>3. \A i \in 1 .. 6 : TagAt(Tag("0", "7"), i) => i = 1
      BY <1>4 DEF TagAt
    <2> QED
      BY <1>4, <2>2, <2>3 DEF SetsBack, HasTag, Tag
  <1>7. IsBelow(c) /\ c.colour = WHITE_ON_BLACK
    BY <1>3, <1>4, <1>5, <1>6, SetBack, Kprint DEF IsBelow
  <1> QED
    BY <1>7 DEF kdbg, a, b

-----------------------------------------------------------------------------
(* The invariant.  After boot the cursor is always below the bar, so that  *)
(* no backspace takes it off the screen; the colour is the default one at  *)
(* every point where a command may begin to print.                         *)

ShellType ==
    /\ at \in {"boot", "prompt", "kgets", "exec", "overrun"}
    /\ line \in Seq(Keys) /\ Len(line) <= LineMax
    /\ stuck \in BOOLEAN /\ tinted \in BOOLEAN

ScreenInv ==
    /\ IsScreen(screen)
    /\ at # "boot" => IsBelow(screen)

ColourInv ==
    at \in {"prompt", "kgets", "exec"} /\ ~tinted => screen.colour = WHITE_ON_BLACK

ConsoleInv == ShellType /\ ScreenInv /\ ColourInv

Started(s, pos) == [s EXCEPT !.start = pos]

LEMMA SetStart ==
    ASSUME NEW s, IsBelow(s), NEW pos \in 0 .. Cells - 1
    PROVE  LET t == Started(s, pos)
           IN  /\ IsBelow(t) /\ t.cells = s.cells /\ t.cursor = s.cursor
               /\ t.colour = s.colour /\ t.start = pos
  BY DEF Started, IsBelow, IsScreen, IsRecord

LEMMA NoLine == <<>> \in Seq(Keys) /\ Len(<<>>) <= LineMax
  <1>1. LineMax \in Nat
    BY ConsoleAssumption
  <1> QED
    BY <1>1

LEMMA InitInv == Init => ConsoleInv
  <1> SUFFICES ASSUME Init PROVE ConsoleInv
    OBVIOUS
  <1> DEFINE blank == [p \in 0 .. Cells - 1 |-> <<Blank, WHITE_ON_BLACK>>]
  <1>1. PICK pos \in 0 .. Cells - 1 :
          screen = [cells |-> blank, cursor |-> pos, colour |-> WHITE_ON_BLACK, start |-> 0]
    BY DEF Init
  <1>2. DOMAIN blank = 0 .. Cells - 1 /\ 0 \in 0 .. Cells - 1
    BY Sizes
  <1> HIDE DEF blank
  <1>3. IsScreen(screen)
    BY <1>1, <1>2 DEF IsScreen, IsRecord, WHITE_ON_BLACK
  <1>4. ShellType
    BY NoLine DEF Init, ShellType
  <1> QED
    BY <1>3, <1>4 DEF Init, ConsoleInv, ScreenInv, ColourInv

LEMMA BootInv == ConsoleInv /\ Boot => ConsoleInv'
  <1> SUFFICES ASSUME ConsoleInv, Boot PROVE ConsoleInv'
    OBVIOUS
  <1> DEFINE text == <<"LF">> \o Tag("0", "F") \o <<"H", "LF", "LF">>
             a == kprintf(screen, text)
             b == kdbg(a, "F", <<"LF">>)
             c == kprintf(b, <<"LF", "LF">>)
  <1>1. text \in Seq({"LF", "<", "(", "0", "F", ")", ">", "H"}) /\ Len(text) > 0 /\ text[1] = "LF"
    BY DEF Tag
  <1>2. screen' = c
    BY DEF Boot
  <1> HIDE DEF text
  <1>3. IsBelow(a)
    BY <1>1, Kprintf DEF ConsoleInv, ScreenInv
  <1> HIDE DEF a
  <1>4. IsBelow(b) /\ b.colour = WHITE_ON_BLACK
    <2>1. <<"LF">> \in Seq({"LF"})
      OBVIOUS
    <2> QED
      BY <1>3, <2>1, Kdbg
  <1> HIDE DEF b
  <1>5. IsBelow(c) /\ c.colour = WHITE_ON_BLACK
    <2>1. <<"LF", "LF">> \in Seq({"LF"}) /\ Len(<<"LF", "LF">>) \in 0 .. 5 /\ IsScreen(b)
      BY <1>4 DEF IsBelow
    <2>2. ~HasTag(<<"LF", "LF">>)
      BY <2>1, NoTagInShort
    <2> QED
      BY <1>4, <2>1, <2>2, Kprintf
  <1> QED
    BY <1>2, <1>5 DEF Boot, ConsoleInv, ShellType, ScreenInv, ColourInv, IsBelow

LEMMA PromptInv == ConsoleInv /\ print_prompt => ConsoleInv'
  <1> SUFFICES ASSUME ConsoleInv, print_prompt PROVE ConsoleInv'
    OBVIOUS
  <1> DEFINE s == kprint(screen, Prompt)
  <1>1. IsBelow(screen) /\ IsScreen(screen) /\ Len(Prompt) \in Nat
    BY ConsoleAssumption DEF ConsoleInv, ScreenInv, print_prompt
  <1>2. screen' = Started(s, s.cursor)
    BY DEF print_prompt, Started
  <1>3. IsBelow(s)
    BY <1>1, Kprint
  <1>4. ~HasTag(Prompt) => s.colour = screen.colour
    BY <1>1, KprintColour
  <1> HIDE DEF s
  <1>5. s.cursor \in 0 .. Cells - 1
    BY <1>3 DEF IsBelow, IsScreen
  <1>6. IsBelow(screen') /\ screen'.colour = s.colour
    BY <1>2, <1>3, <1>5, SetStart
  <1>7. ShellType'
    BY NoLine DEF ConsoleInv, ShellType, print_prompt
  <1>8. ColourInv'
    BY <1>4, <1>6 DEF ConsoleInv, ColourInv, print_prompt
  <1> QED
    BY <1>6, <1>7, <1>8 DEF ConsoleInv, ScreenInv, print_prompt, IsBelow

\* What kgets echoes has no tag.
LEMMA Echo ==
    ASSUME ConsoleInv, at # "boot", NEW S, NEW text \in Seq(S), Len(text) \in 0 .. 5
    PROVE  /\ IsBelow(kprintf(screen, text))
           /\ kprintf(screen, text).colour = screen.colour
  <1>1. IsBelow(screen) /\ IsScreen(screen)
    BY DEF ConsoleInv, ScreenInv
  <1>2. ~HasTag(text)
    BY NoTagInShort
  <1> QED
    BY <1>1, <1>2, Kprintf

LEMMA InsertInv ==
    ASSUME NEW c \in Keys
    PROVE  ConsoleInv /\ Insert(c) => ConsoleInv'
  <1> SUFFICES ASSUME ConsoleInv, Insert(c) PROVE ConsoleInv'
    OBVIOUS
  <1>1. <<c>> \in Seq({c}) /\ Len(<<c>>) \in 0 .. 5 /\ at # "boot"
    BY DEF Insert
  <1>2. IsBelow(screen') /\ screen'.colour = screen.colour
    BY <1>1, Echo DEF Insert
  <1>3. ShellType'
    BY ConsoleAssumption DEF ConsoleInv, ShellType, Insert
  <1> QED
    BY <1>2, <1>3 DEF ConsoleInv, ScreenInv, ColourInv, IsBelow, Insert

LEMMA EraseInv == ConsoleInv /\ Erase => ConsoleInv'
  <1> SUFFICES ASSUME ConsoleInv, Erase PROVE ConsoleInv'
    OBVIOUS
  <1>1. Rubout \in Seq({"BS", Blank}) /\ Len(Rubout) \in 0 .. 5 /\ at # "boot"
    BY DEF Erase, Rubout
  <1>2. IsBelow(screen') /\ screen'.colour = screen.colour
    BY <1>1, Echo DEF Erase
  <1>3. ShellType'
    <2>1. line' \in Seq(Keys) /\ Len(line') <= LineMax
      BY ConsoleAssumption DEF ConsoleInv, ShellType, Erase
    <2> QED
      BY <2>1 DEF ConsoleInv, ShellType, Erase
  <1> QED
    BY <1>2, <1>3 DEF ConsoleInv, ScreenInv, ColourInv, IsBelow, Erase

LEMMA EnterInv == ConsoleInv /\ Enter => ConsoleInv'
  <1> SUFFICES ASSUME ConsoleInv, Enter PROVE ConsoleInv'
    OBVIOUS
  <1> DEFINE s == kprintf(screen, <<"LF">>)
  <1>1. <<"LF">> \in Seq({"LF"}) /\ Len(<<"LF">>) \in 0 .. 5 /\ at # "boot"
    BY DEF Enter
  <1>2. IsBelow(s) /\ s.colour = screen.colour
    BY <1>1, Echo
  <1>3. screen' = Started(s, 0) /\ 0 \in 0 .. Cells - 1
    BY Sizes DEF Enter, Started
  <1> HIDE DEF s
  <1>4. IsBelow(screen') /\ screen'.colour = screen.colour
    BY <1>2, <1>3, SetStart
  <1>5. ShellType'
    BY DEF ConsoleInv, ShellType, Enter
  <1> QED
    BY <1>4, <1>5 DEF ConsoleInv, ScreenInv, ColourInv, IsBelow, Enter

-----------------------------------------------------------------------------
(* Commands.                                                               *)

Joined(C, a, b) ==
    /\ a \o b \in Seq(C) /\ Len(a \o b) = Len(a) + Len(b)
    /\ \A j \in 1 .. Len(a) : (a \o b)[j] = a[j]
    /\ \A j \in 1 .. Len(b) : (a \o b)[Len(a) + j] = b[j]

LEMMA Concat ==
    ASSUME NEW C, NEW a \in Seq(C), NEW b \in Seq(C)
    PROVE  Joined(C, a, b)
  BY DEF Joined

\* An error fits in the buffer and sets the colour back, whatever it names.
LEMMA ErrorSetsBack ==
    ASSUME NEW S, NEW word \in Seq(S), Len(word) + 13 < BufSize
    PROVE  /\ Len(Error(word)) \in Nat /\ Fits(Error(word))
           /\ SetsBack(Error(word))
  <1> DEFINE C == S \cup {"<", "(", "0", "7", "C", ")", ">", "LF"}
             red == Tag("0", "C")
             back == Tag("0", "7")
             feed == <<"LF">>
             text == Error(word)
             k == Len(word) + 7
  <1>1. red \in Seq(C) /\ back \in Seq(C) /\ word \in Seq(C) /\ feed \in Seq(C)
    BY DEF Tag
  <1>2. Len(red) = 6 /\ Len(back) = 6 /\ Len(feed) = 1
    BY DEF Tag
  <1>3. text = red \o word \o back \o feed
    BY DEF Error
  <1>4. back[1] = "<" /\ back[2] = "(" /\ back[3] = "0" /\ back[4] = "7" /\ back[5] = ")" /\ back[6] = ">"
    BY DEF Tag
  <1> HIDE DEF red, back, feed, C, text
  <1> DEFINE y == red \o word
             z == y \o back
  <1>5. Len(word) \in Nat
    OBVIOUS
  <1>6. y \in Seq(C) /\ Len(y) = Len(red) + Len(word)
    <2>1. Joined(C, red, word)
      BY <1>1, Concat, Zenon
    <2> QED
      BY <2>1, Zenon DEF Joined
  <1> HIDE DEF y
  <1>8. /\ z \in Seq(C) /\ Len(z) = Len(y) + Len(back)
         /\ \A j \in 1 .. Len(back) : z[Len(y) + j] = back[j]
    <2>1. Joined(C, y, back)
      BY <1>1, <1>6, Concat, Zenon
    <2> QED
      BY <2>1, Zenon DEF Joined
  <1> HIDE DEF z
  <1>9. text = z \o feed
    BY <1>3 DEF y, z
  <1>10. /\ Len(text) = Len(z) + Len(feed)
         /\ \A j \in 1 .. Len(z) : text[j] = z[j]
    <2>1. Joined(C, z, feed)
      BY <1>1, <1>8, Concat, Zenon
    <2> QED
      BY <1>9, <2>1, Zenon DEF Joined
  <1>11. Len(y) = Len(word) + 6 /\ Len(z) = Len(word) + 12 /\ Len(text) = Len(word) + 13
    BY <1>2, <1>5, <1>6, <1>8, <1>10
  <1>12. \A j \in 1 .. 6 : text[Len(word) + 6 + j] = back[j]
    BY <1>2, <1>5, <1>8, <1>10, <1>11
  <1>13. /\ text[k] = "<" /\ text[k + 1] = "(" /\ text[k + 2] = "0" /\ text[k + 3] = "7"
        /\ text[k + 4] = ")" /\ text[k + 5] = ">"
    <2>1. \A j \in 1 .. 6 : Len(word) + 6 + j = k + (j - 1)
      BY <1>5
    <2>2. /\ text[k + 0] = back[1] /\ text[k + 1] = back[2] /\ text[k + 2] = back[3]
          /\ text[k + 3] = back[4] /\ text[k + 4] = back[5] /\ text[k + 5] = back[6]
      BY <1>12, <2>1
    <2>3. k + 0 = k
      BY <1>5
    <2> QED
      BY <1>4, <2>2, <2>3
  <1>14. TagAt(text, k)
    <2>1. "0" \in HexDigits /\ "7" \in HexDigits
      <3>1. Hex[1] = "0" /\ Hex[8] = "7"
        BY DEF Hex
      <3> QED
        BY <3>1 DEF HexDigits
    <2> QED
      BY <1>5, <1>11, <1>13, <2>1 DEF TagAt
  <1>15. ASSUME NEW i \in 1 .. Len(text), TagAt(text, i),
               \A j \in (i + 1) .. Len(text) : ~TagAt(text, j)
        PROVE  i = k
    <2>1. i + 5 <= Len(word) + 13 /\ text[i] = "<"
      BY <1>5, <1>11, <1>15 DEF TagAt
    <2>2. ~(i < k)
      BY <1>5, <1>11, <1>14, <1>15
    <2>3. i # k + 1
      BY <1>13, <2>1
    <2> QED
      BY <1>5, <1>11, <2>1, <2>2, <2>3
  <1>16. SetsBack(text)
    BY <1>13, <1>15 DEF SetsBack
  <1>17. Fits(text)
    BY <1>5, <1>11 DEF Fits
  <1> QED
    BY <1>5, <1>11, <1>16, <1>17 DEF text

LEMMA SayInv ==
    ASSUME ConsoleInv, at = "exec", NEW text, Len(text) \in Nat, Fits(text), SetsBack(text),
           Say(text)
    PROVE  /\ IsBelow(screen')
           /\ ~tinted' => screen'.colour = WHITE_ON_BLACK
           /\ tinted' \in BOOLEAN /\ at' = "prompt"
  <1>1. IsBelow(screen) /\ IsScreen(screen) /\ screen' = kprint(screen, text)
    BY FitsPrints DEF ConsoleInv, ScreenInv, Say
  <1>2. IsBelow(screen')
    BY <1>1, Kprint
  <1>3. ASSUME ~tinted' PROVE screen'.colour = WHITE_ON_BLACK
    <2>1. HasTag(text) \/ screen.colour = WHITE_ON_BLACK
      BY <1>3 DEF ConsoleInv, ColourInv, Say
    <2> QED
      BY <1>1, <2>1, SetBack
  <1> QED
    BY <1>2, <1>3 DEF Say

LEMMA NoTagAtEnd ==
    ASSUME NEW S, NEW text \in Seq(S), ~HasTag(text)
    PROVE  ~HasTag(text \o <<"LF">>)
  <1> DEFINE t == text \o <<"LF">>
  <1>1. /\ Len(t) = Len(text) + 1 /\ Len(text) \in Nat /\ t[Len(text) + 1] = "LF"
        /\ \A j \in 1 .. Len(text) : t[j] = text[j]
    OBVIOUS
  <1> HIDE DEF t
  <1> SUFFICES ASSUME NEW i \in 1 .. Len(t), TagAt(t, i) PROVE FALSE
    BY DEF HasTag, t
  <1>2. i + 5 # Len(text) + 1
    BY <1>1 DEF TagAt
  <1>3. i + 5 <= Len(text) /\ i \in 1 .. Len(text)
    BY <1>1, <1>2 DEF TagAt
  <1>4. \A j \in 0 .. 5 : i + j \in 1 .. Len(text)
    BY <1>1, <1>3
  <1>5. \A j \in 0 .. 5 : t[i + j] = text[i + j]
    BY <1>1, <1>4
  <1>6. TagAt(text, i)
    BY <1>3, <1>5 DEF TagAt
  <1> QED
    BY <1>3, <1>6 DEF HasTag

LEMMA RepeatInv ==
    ASSUME ConsoleInv, at = "exec", NEW text \in Texts, Repeat(text)
    PROVE  /\ IsBelow(screen')
           /\ at' = "prompt" /\ ~tinted' => screen'.colour = WHITE_ON_BLACK
           /\ tinted' \in BOOLEAN /\ at' \in {"prompt", "overrun"}
  <1>1. IsBelow(screen) /\ IsScreen(screen) /\ text \in Seq(STRING)
    BY ConsoleAssumption DEF ConsoleInv, ScreenInv
  <1>2. CASE /\ Fits(text)
             /\ screen' = kprintf(screen, text \o <<"LF">>)
             /\ tinted' = (tinted \/ HasTag(text))
             /\ at' = "prompt"
    <2>1. text \o <<"LF">> \in Seq(STRING \cup {"LF"})
      <3>1. text \in Seq(STRING \cup {"LF"}) /\ <<"LF">> \in Seq(STRING \cup {"LF"})
        BY <1>1
      <3> QED
        BY <3>1
    <2>2. IsBelow(screen')
      BY <1>1, <1>2, <2>1, Kprintf
    <2>3. ASSUME ~tinted' PROVE screen'.colour = WHITE_ON_BLACK
      <3>1. ~HasTag(text \o <<"LF">>) /\ screen.colour = WHITE_ON_BLACK
        BY <1>1, <1>2, <2>3, NoTagAtEnd DEF ConsoleInv, ColourInv
      <3> QED
        BY <1>1, <1>2, <2>1, <3>1, Kprintf
    <2> QED
      BY <1>2, <2>2, <2>3
  <1>3. CASE ~Fits(text) /\ at' = "overrun" /\ UNCHANGED <<screen, tinted>>
    BY <1>1, <1>3 DEF ConsoleInv, ShellType
  <1> QED
    BY <1>2, <1>3 DEF Repeat

LEMMA ExecInv == ConsoleInv /\ sh_exec => ConsoleInv'
  <1> SUFFICES ASSUME ConsoleInv, sh_exec PROVE ConsoleInv'
    OBVIOUS
  <1>0. /\ at = "exec" /\ IsBelow(screen) /\ IsScreen(screen)
        /\ line' = <<>> /\ stuck' = stuck
    BY DEF ConsoleInv, ScreenInv, sh_exec
  <1> SUFFICES /\ IsBelow(screen')
               /\ at' = "prompt" /\ ~tinted' => screen'.colour = WHITE_ON_BLACK
               /\ tinted' \in BOOLEAN /\ at' \in {"prompt", "overrun"}
    BY <1>0, NoLine DEF ConsoleInv, ShellType, ScreenInv, ColourInv, IsBelow
  <1>1. CASE line # <<>> /\ Say(Error(Append(FirstWord(line), "?")))
    <2> DEFINE word == Append(FirstWord(line), "?")
    <2>1. FirstWord(line) \in Seq(Keys) /\ Len(FirstWord(line)) <= WordMax
      BY ConsoleAssumption DEF FirstWord, ConsoleInv, ShellType
    <2>2. word \in Seq(Keys \cup {"?"}) /\ Len(word) = Len(FirstWord(line)) + 1
      BY <2>1
    <2> HIDE DEF word
    <2>3. Len(word) + 13 < BufSize
      BY <2>1, <2>2, ConsoleAssumption
    <2>4. Len(Error(word)) \in Nat /\ Fits(Error(word)) /\ SetsBack(Error(word))
      BY <2>2, <2>3, ErrorSetsBack
    <2> QED
      BY <1>0, <1>1, <2>4, SayInv DEF word
  <1>e. ASSUME NEW text \in Errors, Say(Error(text))
        PROVE  /\ IsBelow(screen')
               /\ at' = "prompt" /\ ~tinted' => screen'.colour = WHITE_ON_BLACK
               /\ tinted' \in BOOLEAN /\ at' \in {"prompt", "overrun"}
    <2>1. Len(Error(text)) \in Nat /\ Fits(Error(text)) /\ SetsBack(Error(text))
      BY ConsoleAssumption, ErrorSetsBack
    <2> QED
      BY <1>0, <1>e, <2>1, SayInv
  <1>2. ASSUME NEW text \in Messages, Say(text)
        PROVE  /\ IsBelow(screen')
               /\ at' = "prompt" /\ ~tinted' => screen'.colour = WHITE_ON_BLACK
               /\ tinted' \in BOOLEAN /\ at' \in {"prompt", "overrun"}
    <2>1. Len(text) \in Nat /\ Fits(text) /\ ~HasTag(text)
      BY ConsoleAssumption, MessagesAssumption DEF Fits
    <2>2. SetsBack(text)
      BY <2>1 DEF SetsBack, HasTag
    <2> QED
      BY <1>0, <1>2, <2>1, <2>2, SayInv
  <1>q. CASE at' = "prompt" /\ UNCHANGED <<screen, tinted>>
    BY <1>0, <1>q DEF ConsoleInv, ShellType, ColourInv
  <1>3. ASSUME NEW text \in Texts, Repeat(text)
        PROVE  /\ IsBelow(screen')
               /\ at' = "prompt" /\ ~tinted' => screen'.colour = WHITE_ON_BLACK
               /\ tinted' \in BOOLEAN /\ at' \in {"prompt", "overrun"}
    BY <1>0, <1>3, RepeatInv
  <1>4. ASSUME NEW text \in Logs, NEW level \in Levels, Log(level, text)
        PROVE  /\ IsBelow(screen') /\ screen'.colour = WHITE_ON_BLACK
               /\ tinted' = FALSE /\ at' = "prompt"
    <2>1. text \in Seq(STRING)
      BY ConsoleAssumption
    <2> QED
      BY <1>0, <1>4, <2>1, Kdbg DEF Log
  <1>5. ASSUME NEW bytes \in Files, Cat(bytes)
        PROVE  /\ IsBelow(screen') /\ screen'.colour = screen.colour
               /\ tinted' = tinted /\ at' = "prompt"
    <2> DEFINE s == PutBytes(screen, bytes)
    <2>1. Len(bytes) \in Nat
      BY ConsoleAssumption
    <2>2. IsBelow(s) /\ IsScreen(s) /\ s.colour = screen.colour
      BY <1>0, <2>1, PuttingBytes DEF IsBelow
    <2>3. screen' = kprint(s, <<"LF">>) /\ Len(<<"LF">>) \in Nat /\ Len(<<"LF">>) \in 0 .. 5
      BY <1>5 DEF Cat
    <2> HIDE DEF s
    <2>4. ~HasTag(<<"LF">>)
      BY <2>3, NoTagInShort
    <2>5. IsBelow(kprint(s, <<"LF">>))
      BY <2>2, <2>3, Kprint
    <2>6. kprint(s, <<"LF">>).colour = s.colour
      BY <2>2, <2>3, <2>4, KprintColour
    <2> QED
      BY <1>5, <2>2, <2>3, <2>5, <2>6 DEF Cat
  <1>6. CASE Clear
    <2> DEFINE s == kclear(screen)
    <2>1. IsScreen(s) /\ s.colour = screen.colour
      BY <1>0, Clearing
    <2>2. screen' = kprintf(s, <<"LF", "LF">>) /\ tinted' = tinted /\ at' = "prompt"
      BY <1>6 DEF Clear
    <2> HIDE DEF s
    <2>3. /\ <<"LF", "LF">> \in Seq({"LF"}) /\ Len(<<"LF", "LF">>) \in 0 .. 5
          /\ Len(<<"LF", "LF">>) > 0 /\ <<"LF", "LF">>[1] = "LF"
      OBVIOUS
    <2>4. ~HasTag(<<"LF", "LF">>)
      BY <2>3, NoTagInShort
    <2>5. IsBelow(screen') /\ screen'.colour = screen.colour
      BY <2>1, <2>2, <2>3, <2>4, Kprintf
    <2> QED
      BY <1>0, <2>2, <2>5 DEF ConsoleInv, ShellType, ColourInv
  <1>7. ASSUME tinted' = tinted, screen'.colour = screen.colour, ~tinted'
        PROVE  screen'.colour = WHITE_ON_BLACK
    BY <1>0, <1>7 DEF ConsoleInv, ColourInv
  <1>8. tinted \in BOOLEAN
    BY DEF ConsoleInv, ShellType
  <1> QED
    BY <1>1, <1>e, <1>2, <1>q, <1>3, <1>4, <1>5, <1>6, <1>7, <1>8 DEF sh_exec

LEMMA BarInv == ConsoleInv /\ ui_bar => ConsoleInv'
  <1> SUFFICES ASSUME ConsoleInv, ui_bar PROVE ConsoleInv'
    OBVIOUS
  <1>1. PICK time \in Times :
          screen' = Draw(Draw(screen, BarText, 0, BAR_COLOUR),
                         int_to_str(calculate_cpu_usage(time)), CpuCol, BAR_COLOUR)
    BY DEF ui_bar
  <1> DEFINE s == Draw(screen, BarText, 0, BAR_COLOUR)
             text == int_to_str(calculate_cpu_usage(time))
  <1>2. IsScreen(screen) /\ IsBelow(screen)
    BY DEF ConsoleInv, ScreenInv, ui_bar
  <1>3. Len(BarText) = MAX_COLS
    BY Sizes DEF BarText
  <1>4. IsScreen(s) /\ s.cursor = screen.cursor /\ s.colour = screen.colour
    BY <1>2, <1>3, Drawing, Sizes
  <1>5. Len(text) \in Nat /\ CpuCol \in Nat /\ CpuCol + Len(text) <= Cells
    <2>1. time \in Nat /\ CpuCol \in Nat /\ CpuCol + 3 <= MAX_COLS
      BY ConsoleAssumption
    <2>2. Len(text) \in 1 .. 3
      BY <2>1, Percentage, ThreeDigits
    <2> HIDE DEF text
    <2>3. \A n \in 1 .. 3 : n \in Nat /\ CpuCol + n <= Cells
      BY <2>1, Sizes
    <2> QED
      BY <2>1, <2>2, <2>3, Zenon
  <1>6. screen' = Draw(s, text, CpuCol, BAR_COLOUR)
    BY <1>1
  <1> HIDE DEF s, text
  <1>7. IsScreen(screen') /\ screen'.cursor = screen.cursor /\ screen'.colour = screen.colour
    BY <1>4, <1>5, <1>6, Drawing
  <1> QED
    BY <1>2, <1>7 DEF ConsoleInv, ShellType, ScreenInv, ColourInv, IsBelow, ui_bar

LEMMA ClockInv == ConsoleInv /\ sys_time => ConsoleInv'
  <1> SUFFICES ASSUME ConsoleInv, sys_time PROVE ConsoleInv'
    OBVIOUS
  <1>1. IsScreen(screen) /\ IsBelow(screen)
    BY DEF ConsoleInv, ScreenInv, sys_time
  <1> DEFINE text == <<":">>
  <1>2. Len(text) \in Nat /\ ClockCol \in Nat /\ ClockCol + Len(text) <= Cells
    BY ConsoleAssumption, Sizes
  <1>3. screen' = Draw(screen, text, ClockCol, BAR_COLOUR)
    BY DEF sys_time
  <1> HIDE DEF text
  <1>4. IsScreen(screen') /\ screen'.cursor = screen.cursor /\ screen'.colour = screen.colour
    BY <1>1, <1>2, <1>3, Drawing
  <1> QED
    BY <1>1, <1>4 DEF ConsoleInv, ShellType, ScreenInv, ColourInv, IsBelow, sys_time

\* Whatever is printed, typed, erased, logged, listed or drawn, the screen is
\* a screen and the cursor is below the bar.
THEOREM ConsoleAlways == Spec => []ConsoleInv
  <1>1. ConsoleInv /\ [Next]_vars => ConsoleInv'
    <2> SUFFICES ASSUME ConsoleInv, [Next]_vars PROVE ConsoleInv'
      OBVIOUS
    <2>1. CASE UNCHANGED vars
      BY <2>1 DEF vars, ConsoleInv, ShellType, ScreenInv, ColourInv, IsBelow, IsScreen, IsRecord
    <2>2. CASE Next
      BY <2>2, BootInv, PromptInv, InsertInv, EraseInv, EnterInv, ExecInv, BarInv, ClockInv DEF Next
    <2> QED
      BY <2>1, <2>2
  <1> QED
    BY <1>1, InitInv, PTL DEF Spec

\* No store goes past the screen and the cursor stays on it, for every size
\* of the screen, every text and every sequence of keys (putchar, kprint,
\* scroll_line and the drawing of the bar).
THEOREM NothingPastScreen == Spec => []TypeOK
  <1>1. ConsoleInv => TypeOK
    BY DEF ConsoleInv, ShellType, ScreenInv, IsScreen, TypeOK
  <1> QED
    BY <1>1, ConsoleAlways, PTL

\* At the prompt the colour is the default one after any sequence of commands,
\* unless a text repeated without a colour around it (a name or line from the
\* disk, a value, the word typed after xxd) has set another: every error sets it
\* back, whatever word it names, and kprintf's buffer holds that tag.
THEOREM PromptColour == Spec => []ColourRestored
  <1>1. ConsoleInv => ColourRestored
    BY DEF ConsoleInv, ColourInv, ColourRestored
  <1> QED
    BY <1>1, ConsoleAlways, PTL

-----------------------------------------------------------------------------
(* The columns that text fills, counted through: Linear and Position undo  *)
(* each other, and a row up is Usable columns less.                        *)

LEMMA UsableSize ==
    /\ Usable \in Nat /\ Usable >= 1 /\ MAX_COLS = Usable + 1
    /\ MAX_ROWS * Usable \in Nat /\ (MAX_ROWS - 1) * Usable \in Nat
    /\ (MAX_ROWS - 1) * Usable = MAX_ROWS * Usable - Usable
  BY Sizes DEF Usable

\* What Position is made of.
LEMMA PositionParts ==
    ASSUME NEW n \in Nat
    PROVE  \E r \in Nat, c \in 0 .. Usable - 1 :
             /\ n = r * Usable + c
             /\ Position(n) = r * MAX_COLS + c
  <1>1. Usable \in Nat /\ Usable >= 1
    BY UsableSize
  <1>2. PICK u \in Nat : u = Usable
    BY <1>1
  <1>3. PICK r, c : r = n \div u /\ c = n % u
    OBVIOUS
  <1>4. r \in Nat /\ c \in 0 .. u - 1 /\ n = r * u + c
    BY <1>1, <1>2, <1>3
  <1>5. Position(n) = r * MAX_COLS + c
    BY <1>2, <1>3 DEF Position
  <1> QED
    BY <1>2, <1>4, <1>5

LEMMA LinearOf ==
    ASSUME NEW r \in Nat, NEW c \in 0 .. MAX_COLS - 1
    PROVE  Linear(r * MAX_COLS + c) = r * Usable + c
  BY RowColIs DEF Linear

LEMMA LinearPosition ==
    ASSUME NEW n \in Nat
    PROVE  /\ Position(n) \in Nat /\ Linear(Position(n)) = n
           /\ n >= Usable => Position(n) >= MAX_COLS
           /\ n < MAX_ROWS * Usable => Position(n) < Cells
  <1>1. PICK r \in Nat, c \in 0 .. Usable - 1 :
          n = r * Usable + c /\ Position(n) = r * MAX_COLS + c
    BY PositionParts
  <1>2. c \in 0 .. MAX_COLS - 1
    BY <1>1, UsableSize
  <1>3. Position(n) \in Nat /\ Linear(Position(n)) = n
    BY <1>1, <1>2, LinearOf, RowColIs
  <1>4. ASSUME n >= Usable PROVE Position(n) >= MAX_COLS
    <2>1. r # 0
      <3>1. r = 0 => r * Usable = 0
        BY UsableSize
      <3> QED
        BY <1>1, <1>4, <3>1, UsableSize
    <2>2. r * MAX_COLS >= MAX_COLS
      BY <2>1, UsableSize
    <2> QED
      BY <1>1, <2>2, UsableSize
  <1>5. ASSUME n < MAX_ROWS * Usable PROVE Position(n) < Cells
    <2>1. r < MAX_ROWS
      <3>1. r >= MAX_ROWS => r * Usable >= MAX_ROWS * Usable
        BY UsableSize, Sizes
      <3>2. r * Usable \in Nat
        BY UsableSize
      <3> QED
        BY <1>1, <1>5, <3>1, <3>2, UsableSize, Sizes
    <2>2. r * MAX_COLS <= (MAX_ROWS - 1) * MAX_COLS
      BY <2>1, Sizes
    <2>3. r * MAX_COLS \in Nat
      BY Sizes
    <2> QED
      BY <1>1, <1>2, <2>2, <2>3, Sizes
  <1> QED
    BY <1>3, <1>4, <1>5

LEMMA PositionOf ==
    ASSUME NEW r \in Nat, NEW c \in 0 .. Usable - 1
    PROVE  Position(r * Usable + c) = r * MAX_COLS + c
  <1>1. r * Usable + c \in Nat
    BY UsableSize
  <1>2. PICK q \in Nat, d \in 0 .. Usable - 1 :
          /\ r * Usable + c = q * Usable + d
          /\ Position(r * Usable + c) = q * MAX_COLS + d
    BY <1>1, PositionParts
  <1>3. (q - r) * Usable = c - d /\ (r - q) * Usable = d - c
    BY <1>2, UsableSize
  <1>4. q - r >= 1 => (q - r) * Usable >= Usable
    BY UsableSize
  <1>5. r - q >= 1 => (r - q) * Usable >= Usable
    BY UsableSize
  <1>6. c - d < Usable /\ d - c < Usable
    BY <1>2, UsableSize
  <1>7. q = r
    BY <1>2, <1>3, <1>4, <1>5, <1>6, UsableSize
  <1>8. d = c
    BY <1>2, <1>7, UsableSize
  <1> QED
    BY <1>2, <1>7, <1>8

LEMMA RowUp ==
    ASSUME NEW n \in Nat, n >= Usable
    PROVE  n - Usable \in Nat /\ Position(n - Usable) = Position(n) - MAX_COLS
  <1>1. PICK r \in Nat, c \in 0 .. Usable - 1 :
          n = r * Usable + c /\ Position(n) = r * MAX_COLS + c
    BY PositionParts
  <1>2. r # 0
    <2>1. r = 0 => r * Usable = 0
      BY UsableSize
    <2> QED
      BY <1>1, <2>1, UsableSize
  <1>3. r - 1 \in Nat /\ n - Usable = (r - 1) * Usable + c
    BY <1>1, <1>2, UsableSize
  <1>4. Position(n - Usable) = (r - 1) * MAX_COLS + c
    BY <1>3, PositionOf
  <1>5. (r - 1) * MAX_COLS = r * MAX_COLS - MAX_COLS
    BY <1>2, Sizes
  <1>6. r * MAX_COLS \in Nat
    BY Sizes
  <1> QED
    BY <1>1, <1>3, <1>4, <1>5, <1>6, UsableSize

\* The linear position of the cursor, and where a glyph is put.
LEMMA LinearCursor ==
    ASSUME NEW pos \in 0 .. Cells - 1
    PROVE  /\ Linear(pos) \in 0 .. MAX_ROWS * Usable
           /\ pos >= MAX_COLS => Linear(pos) >= Usable
           /\ Col(pos) # MAX_COLS - 1 =>
                /\ Position(Linear(pos)) = pos
                /\ Linear(pos) < MAX_ROWS * Usable
                /\ pos + 1 \in 0 .. Cells - 1 => Linear(pos + 1) = Linear(pos) + 1
           /\ Col(pos) # 0 => Linear(pos - 1) = Linear(pos) - 1 /\ Col(pos - 1) # MAX_COLS - 1
           /\ Col(pos) = MAX_COLS - 1 => Linear(pos) = (Row(pos) + 1) * Usable
  <1>1. PICK r \in 0 .. MAX_ROWS - 1, c \in 0 .. MAX_COLS - 1 :
          /\ r = Row(pos) /\ c = Col(pos)
          /\ pos = r * MAX_COLS + c
          /\ pos >= MAX_COLS => r >= 1
    BY OnScreen
  <1>2. r \in Nat /\ r * Usable \in Nat /\ (r + 1) * Usable = r * Usable + Usable
    BY UsableSize
  <1>3. Linear(pos) = r * Usable + c
    BY <1>1 DEF Linear
  <1>4. (r + 1) * Usable <= MAX_ROWS * Usable
    BY <1>1, Sizes, UsableSize
  <1>5. Linear(pos) \in 0 .. MAX_ROWS * Usable
    BY <1>1, <1>2, <1>3, <1>4, UsableSize
  <1>6. ASSUME pos >= MAX_COLS PROVE Linear(pos) >= Usable
    <2>1. r * Usable >= Usable
      BY <1>1, <1>6, UsableSize
    <2> QED
      BY <1>1, <1>2, <1>3, <2>1, UsableSize
  <1>7. ASSUME c # MAX_COLS - 1
        PROVE  /\ Position(Linear(pos)) = pos
               /\ Linear(pos) < MAX_ROWS * Usable
               /\ Linear(pos + 1) = Linear(pos) + 1
    <2>0. Usable \in Nat /\ Usable >= 1 /\ MAX_COLS = Usable + 1
      BY UsableSize
    <2>1. c \in 0 .. Usable - 1 /\ c + 1 \in 0 .. MAX_COLS - 1
      BY <1>7, <2>0
    <2>2. Position(r * Usable + c) = r * MAX_COLS + c
      BY <1>2, <2>1, PositionOf
    <2>3. Linear(r * MAX_COLS + (c + 1)) = r * Usable + (c + 1)
      BY <1>2, <2>1, LinearOf
    <2>4. pos + 1 = r * MAX_COLS + (c + 1) /\ r * MAX_COLS \in Nat
      BY <1>1, Sizes
    <2>5. Linear(pos) < MAX_ROWS * Usable
      <3>1. PICK a, b : a = r * Usable /\ b = MAX_ROWS * Usable
        OBVIOUS
      <3>2. a \in Nat /\ b \in Nat /\ a + Usable <= b /\ Linear(pos) = a + c
        BY <1>2, <1>3, <1>4, <3>1, UsableSize
      <3>3. a + c < b
        BY <2>1, <3>2, UsableSize
      <3> QED
        BY <3>1, <3>2, <3>3
    <2>6. Linear(pos + 1) = Linear(pos) + 1
      BY <1>2, <1>3, <2>1, <2>3, <2>4
    <2> QED
      BY <1>1, <1>3, <2>2, <2>5, <2>6
  <1>8. ASSUME c # 0
        PROVE  Linear(pos - 1) = Linear(pos) - 1 /\ Col(pos - 1) # MAX_COLS - 1
    <2>1. c - 1 \in 0 .. MAX_COLS - 1 /\ c - 1 # MAX_COLS - 1
      BY <1>1, <1>8, UsableSize
    <2>2. Linear(r * MAX_COLS + (c - 1)) = r * Usable + (c - 1) /\ Col(r * MAX_COLS + (c - 1)) = c - 1
      BY <1>2, <2>1, LinearOf, RowColIs
    <2>3. pos - 1 = r * MAX_COLS + (c - 1)
      BY <1>1, Sizes
    <2> QED
      BY <1>1, <1>2, <1>3, <2>1, <2>2, <2>3
  <1>9. c = MAX_COLS - 1 => Linear(pos) = (r + 1) * Usable
    BY <1>2, <1>3, UsableSize
  <1> QED
    BY <1>1, <1>5, <1>6, <1>7, <1>8, <1>9

-----------------------------------------------------------------------------
(* A text that is on the screen stays there.                               *)

\* How far the next glyph moves the text up: a row, if it scrolls.
Shift(s) == IF Col(s.cursor) = MAX_COLS - 1 /\ Row(s.cursor) = MAX_ROWS - 1 THEN Usable ELSE 0

\* The screen after the wrap that a glyph may need.
WrapMoves(s) ==
    LET u == Wrapped(s)
    IN  /\ Linear(u.cursor) = Linear(s.cursor) - Shift(s)
        /\ Position(Linear(u.cursor)) = u.cursor
        /\ Linear(u.cursor) < MAX_ROWS * Usable
        /\ Shift(s) = 0 => u.cells = s.cells /\ u.start = s.start
        /\ Shift(s) # 0 =>
             /\ Shift(s) = Usable /\ Linear(s.cursor) = MAX_ROWS * Usable
             /\ u.start = IF s.start < MAX_COLS THEN 0 ELSE s.start - MAX_COLS
             /\ \A p \in 0 .. Cells - 1 - MAX_COLS : u.cells[p] = s.cells[p + MAX_COLS]

LEMMA Wraps ==
    ASSUME NEW s, IsScreen(s)
    PROVE  WrapMoves(s)
  <1> DEFINE u == Wrapped(s)
  <1>1. s.cursor \in 0 .. Cells - 1
    BY DEF IsScreen
  <1>2. /\ Linear(s.cursor) \in 0 .. MAX_ROWS * Usable
        /\ Col(s.cursor) # MAX_COLS - 1 =>
             Position(Linear(s.cursor)) = s.cursor /\ Linear(s.cursor) < MAX_ROWS * Usable
        /\ Col(s.cursor) = MAX_COLS - 1 => Linear(s.cursor) = (Row(s.cursor) + 1) * Usable
    BY <1>1, LinearCursor
  <1>3. Row(s.cursor) \in 0 .. MAX_ROWS - 1
    BY <1>1, OnScreen
  <1>4. \A r \in Nat : Linear(r * MAX_COLS) = r * Usable /\ Position(r * Usable) = r * MAX_COLS
    <2> SUFFICES ASSUME NEW r \in Nat
                 PROVE  Linear(r * MAX_COLS) = r * Usable /\ Position(r * Usable) = r * MAX_COLS
      OBVIOUS
    <2>1. 0 \in 0 .. MAX_COLS - 1 /\ 0 \in 0 .. Usable - 1
      BY UsableSize
    <2>2. Linear(r * MAX_COLS + 0) = r * Usable + 0 /\ Position(r * Usable + 0) = r * MAX_COLS + 0
      BY <2>1, LinearOf, PositionOf
    <2>3. r * MAX_COLS + 0 = r * MAX_COLS /\ r * Usable + 0 = r * Usable
      BY UsableSize
    <2> QED
      BY <2>2, <2>3
  <1>5. CASE Col(s.cursor) # MAX_COLS - 1
    <2>1. u = s /\ Shift(s) = 0
      BY <1>5 DEF Wrapped, Shift
    <2> QED
      BY <1>2, <1>5, <2>1 DEF WrapMoves
  <1>6. CASE Col(s.cursor) = MAX_COLS - 1 /\ Row(s.cursor) # MAX_ROWS - 1
    <2>1. u = NextRow(s) /\ Shift(s) = 0
      BY <1>6 DEF Wrapped, Shift
    <2>2. u.cursor = (Row(s.cursor) + 1) * MAX_COLS /\ u.cells = s.cells /\ u.start = s.start
      BY <1>6, <2>1, Below
    <2> HIDE DEF u
    <2>3. PICK r \in Nat : r = Row(s.cursor) + 1 /\ r <= MAX_ROWS - 1
      BY <1>3, <1>6, Sizes
    <2>4. Linear(u.cursor) = r * Usable /\ Position(r * Usable) = u.cursor
      BY <1>4, <2>2, <2>3
    <2>5. r * Usable < MAX_ROWS * Usable
      <3>1. r * Usable <= (MAX_ROWS - 1) * Usable
        BY <2>3, UsableSize, Sizes
      <3>2. r * Usable \in Nat
        BY UsableSize
      <3> QED
        BY <3>1, <3>2, UsableSize
    <2>6. Linear(s.cursor) = r * Usable /\ r * Usable \in Nat
      BY <1>2, <1>6, <2>3
    <2> QED
      BY <2>1, <2>2, <2>4, <2>5, <2>6 DEF WrapMoves, u
  <1>7. CASE Col(s.cursor) = MAX_COLS - 1 /\ Row(s.cursor) = MAX_ROWS - 1
    <2>1. u = NextRow(s) /\ Shift(s) = Usable /\ Usable # 0
      BY <1>7, UsableSize DEF Wrapped, Shift
    <2>2. u = scroll_line(s)
      BY <1>7, <2>1, Below
    <2>3. /\ u.cursor = Cells - MAX_COLS
          /\ \A p \in 0 .. Cells - 1 - MAX_COLS : u.cells[p] = s.cells[p + MAX_COLS]
          /\ u.start = IF s.start < MAX_COLS THEN 0 ELSE s.start - MAX_COLS
      BY <2>2, Scroll
    <2> HIDE DEF u
    <2>4. MAX_ROWS - 1 \in Nat /\ u.cursor = (MAX_ROWS - 1) * MAX_COLS
      BY <2>3, Sizes
    <2>5. Linear(u.cursor) = (MAX_ROWS - 1) * Usable /\ Position((MAX_ROWS - 1) * Usable) = u.cursor
      BY <1>4, <2>4
    <2>6. Linear(s.cursor) = MAX_ROWS * Usable
      <3>1. MAX_ROWS - 1 + 1 = MAX_ROWS
        BY Sizes
      <3> QED
        BY <1>2, <1>7, <3>1
    <2>7. /\ (MAX_ROWS - 1) * Usable = MAX_ROWS * Usable - Usable
          /\ (MAX_ROWS - 1) * Usable < MAX_ROWS * Usable
      BY UsableSize
    <2> QED
      BY <2>1, <2>3, <2>5, <2>6, <2>7 DEF WrapMoves, u
  <1> QED
    BY <1>5, <1>6, <1>7

\* What a glyph does to the text before it: it stays, or moves up a row, and
\* the glyph stands behind it.
GlyphMoves(s, ch, attr) ==
    LET t == PutGlyph(s, ch, attr)
    IN  /\ Linear(t.cursor) = Linear(s.cursor) - Shift(s) + 1
        /\ \A n \in Usable .. Linear(s.cursor) - 1 :
             t.cells[Position(n - Shift(s))] = s.cells[Position(n)]
        /\ t.cells[Position(Linear(s.cursor) - Shift(s))] = <<ch, attr>>
        /\ Shift(s) = 0 => t.start = s.start
        /\ Shift(s) # 0 =>
             /\ Shift(s) = Usable /\ Linear(s.cursor) = MAX_ROWS * Usable
             /\ t.start = IF s.start < MAX_COLS THEN 0 ELSE s.start - MAX_COLS

LEMMA GlyphMove ==
    ASSUME NEW s, IsScreen(s), NEW ch, NEW attr
    PROVE  GlyphMoves(s, ch, attr)
  <1> DEFINE t == PutGlyph(s, ch, attr)
             u == Wrapped(s)
  <1>1. /\ IsScreen(u) /\ Col(u.cursor) # MAX_COLS - 1
        /\ IsScreen(t) /\ t.start = u.start /\ t.cursor = u.cursor + 1
        /\ \A p \in 0 .. Cells - 1 :
             t.cells[p] = IF p = u.cursor THEN <<ch, attr>> ELSE u.cells[p]
    <2>1. GlyphPut(s, ch, attr)
      BY Glyph
    <2> QED
      BY <2>1 DEF GlyphPut
  <1>2. /\ Linear(u.cursor) = Linear(s.cursor) - Shift(s)
        /\ Position(Linear(u.cursor)) = u.cursor
        /\ Linear(u.cursor) < MAX_ROWS * Usable
        /\ Shift(s) = 0 => u.cells = s.cells /\ u.start = s.start
        /\ Shift(s) # 0 =>
             /\ Shift(s) = Usable /\ Linear(s.cursor) = MAX_ROWS * Usable
             /\ u.start = IF s.start < MAX_COLS THEN 0 ELSE s.start - MAX_COLS
             /\ \A p \in 0 .. Cells - 1 - MAX_COLS : u.cells[p] = s.cells[p + MAX_COLS]
    BY Wraps DEF WrapMoves
  <1> HIDE DEF t, u
  <1>3. s.cursor \in 0 .. Cells - 1 /\ u.cursor \in 0 .. Cells - 1 /\ u.cursor + 1 \in 0 .. Cells - 1
    BY <1>1 DEF IsScreen
  <1>4. Linear(t.cursor) = Linear(u.cursor) + 1
    BY <1>1, <1>3, LinearCursor
  <1>5. t.cells[Position(Linear(s.cursor) - Shift(s))] = <<ch, attr>>
    BY <1>1, <1>2, <1>3
  <1>6. Linear(s.cursor) \in Nat /\ Linear(s.cursor) <= MAX_ROWS * Usable /\ MAX_ROWS * Usable \in Nat
    BY <1>3, LinearCursor, UsableSize
  <1>7. ASSUME NEW n \in Usable .. Linear(s.cursor) - 1
        PROVE  t.cells[Position(n - Shift(s))] = s.cells[Position(n)]
    <2>1. n \in Nat /\ n >= Usable /\ n < MAX_ROWS * Usable /\ n < Linear(s.cursor)
      BY <1>6, <1>7, UsableSize
    <2>2. Position(n) \in MAX_COLS .. Cells - 1
      BY <2>1, LinearPosition, Sizes
    <2>3. CASE Shift(s) = 0
      <3>1. Linear(Position(n)) = n /\ n # Linear(u.cursor)
        BY <1>2, <1>6, <2>1, <2>3, LinearPosition
      <3>2. Position(n) # u.cursor /\ Position(n) \in 0 .. Cells - 1 /\ n - Shift(s) = n
        BY <2>1, <2>2, <2>3, <3>1, Sizes
      <3> QED
        BY <1>1, <1>2, <2>3, <3>2
    <2>4. CASE Shift(s) # 0
      <3>1. Shift(s) = Usable
        BY <1>2, <2>4
      <3>2. n - Usable \in Nat /\ Position(n - Usable) = Position(n) - MAX_COLS
        BY <2>1, RowUp
      <3>3. PICK p : p = Position(n) - MAX_COLS
        OBVIOUS
      <3>4. p \in 0 .. Cells - 1 - MAX_COLS /\ p \in 0 .. Cells - 1 /\ p + MAX_COLS = Position(n)
        BY <2>2, <3>3, Sizes
      <3>5. Linear(p) = n - Usable
        BY <3>2, <3>3, LinearPosition
      <3>6. p # u.cursor
        BY <1>2, <1>6, <2>1, <3>1, <3>5, UsableSize
      <3>7. t.cells[p] = u.cells[p] /\ u.cells[p] = s.cells[p + MAX_COLS]
        BY <1>1, <1>2, <2>4, <3>4, <3>6
      <3> QED
        BY <3>1, <3>2, <3>3, <3>4, <3>7
    <2> QED
      BY <2>3, <2>4
  <1>8. /\ Linear(t.cursor) = Linear(s.cursor) - Shift(s) + 1
        /\ Shift(s) = 0 => t.start = s.start
        /\ Shift(s) # 0 =>
             /\ Shift(s) = Usable /\ Linear(s.cursor) = MAX_ROWS * Usable
             /\ t.start = IF s.start < MAX_COLS THEN 0 ELSE s.start - MAX_COLS
    BY <1>1, <1>2, <1>4
  <1> QED
    BY <1>5, <1>7, <1>8 DEF GlyphMoves, t

\* A short text has no tag, so it goes to putchar character by character.
LEMMA ShortPrint ==
    ASSUME NEW s, IsBelow(s), NEW text, Len(text) \in 1 .. 5
    PROVE  /\ kprintf(s, text) = Printed(s, text)[Len(text)] /\ Printed(s, text)[0] = s
           /\ \A i \in 1 .. Len(text) :
                /\ Printed(s, text)[i] = putchar(Printed(s, text)[i - 1], text[i], s.colour)
                /\ Printed(s, text)[i - 1].colour = s.colour
  <1> DEFINE P(i) == Printed(s, text)[i]
             S == {i \in 0 .. Len(text) : P(i).colour = s.colour}
  <1>1. IsScreen(s) /\ Len(text) \in Nat
    BY DEF IsBelow
  <1>2. \A i \in 1 .. Len(text) : ~TagAt(text, i) /\ ~InTag(text, i)
    <2>1. \A i \in Nat : i >= 1 => ~TagAt(text, i)
      <3>1. \A n \in 1 .. 5, i \in Nat : i >= 1 => ~(i + 5 <= n)
        OBVIOUS
      <3>2. \A i \in Nat : i >= 1 => ~(i + 5 <= Len(text))
        BY <3>1, Zenon
      <3> QED
        BY <3>2, Zenon DEF TagAt
    <2> QED
      BY <2>1 DEF InTag
  <1>3. /\ kprint(s, text) = P(Len(text)) /\ P(0) = s
        /\ \A i \in 1 .. Len(text) : P(i) = PrintAt(P(i - 1), text, i)
    BY <1>1, PrintedSteps
  <1>4. \A i \in 1 .. Len(text) : P(i).colour = P(i - 1).colour
    BY <1>1, <1>2, Kprint
  <1>5. Fits(text)
    <2>1. \A n \in 1 .. 5 : n < BufSize
      BY ConsoleAssumption
    <2> QED
      BY <2>1, Zenon DEF Fits
  <1>6. kprintf(s, text) = P(Len(text))
    BY <1>3, <1>5, FitsPrints
  <1> HIDE DEF P
  <1>7. \A i \in 0 .. Len(text) : i \in S
    <2>1. 0 \in S
      BY <1>1, <1>3
    <2>2. \A i \in 1 .. Len(text) : i - 1 \in S => i \in S
      BY <1>4
    <2> HIDE DEF S
    <2> QED
      BY <1>1, <2>1, <2>2, UpTo, Zenon
  <1>8. ASSUME NEW i \in 1 .. Len(text)
        PROVE  P(i) = putchar(P(i - 1), text[i], s.colour) /\ P(i - 1).colour = s.colour
    <2>1. P(i - 1).colour = s.colour
      BY <1>7
    <2>2. P(i) = putchar(P(i - 1), text[i], P(i - 1).colour)
      BY <1>2, <1>3 DEF PrintAt
    <2> QED
      BY <2>1, <2>2
  <1> QED
    BY <1>3, <1>6, <1>8 DEF P

LEMMA OneGlyph ==
    ASSUME NEW s, IsBelow(s), NEW c, c \notin {"LF", "BS"}
    PROVE  kprintf(s, <<c>>) = PutGlyph(s, c, s.colour)
  <1> DEFINE text == <<c>>
             P(i) == Printed(s, text)[i]
  <1>1. Len(text) = 1 /\ text[1] = c /\ Len(text) \in 1 .. 5
    OBVIOUS
  <1> HIDE DEF text
  <1>2. /\ kprintf(s, text) = P(1) /\ P(0) = s
        /\ P(1) = putchar(P(1 - 1), text[1], s.colour)
    BY <1>1, ShortPrint
  <1>3. P(1) = putchar(s, c, s.colour)
    BY <1>1, <1>2
  <1> QED
    BY <1>2, <1>3 DEF putchar, text

\* Where a rubout takes the cursor.
RubPos(s) == IF Col(s.cursor) = 0 THEN s.cursor ELSE s.cursor - 1

LEMMA RubPosition ==
    ASSUME NEW s, IsBelow(s)
    PROVE  /\ RubPos(s) \in MAX_COLS .. Cells - 1
           /\ Col(RubPos(s)) # MAX_COLS - 1
           /\ RubPos(s) + 1 \in 0 .. Cells - 1 => Col(RubPos(s) + 1) # 0
           /\ Linear(RubPos(s)) = Linear(s.cursor) - (IF Col(s.cursor) = 0 THEN 0 ELSE 1)
           /\ Linear(RubPos(s)) \in Nat /\ Linear(s.cursor) \in Nat
  <1> DEFINE pos == RubPos(s)
  <1>1. IsScreen(s) /\ s.cursor \in 0 .. Cells - 1 /\ s.cursor >= MAX_COLS
    BY DEF IsBelow, IsScreen
  <1>2. pos >= MAX_COLS
    <2>1. BackspacePut(s, 0)
      BY <1>1, Backspace
    <2> QED
      BY <2>1 DEF BackspacePut, RubPos
  <1>3. pos \in MAX_COLS .. Cells - 1
    BY <1>1, <1>2, Sizes DEF RubPos
  <1>4. Col(pos) # MAX_COLS - 1
    <2>1. CASE Col(s.cursor) = 0
      BY <2>1, Sizes DEF RubPos
    <2>2. CASE Col(s.cursor) # 0
      BY <1>1, <2>2, LinearCursor DEF RubPos
    <2> QED
      BY <2>1, <2>2
  <1>5. Linear(pos) = Linear(s.cursor) - (IF Col(s.cursor) = 0 THEN 0 ELSE 1)
    <2>1. Linear(s.cursor) \in Int
      BY <1>1, LinearCursor, UsableSize
    <2>2. CASE Col(s.cursor) = 0
      BY <2>1, <2>2 DEF RubPos
    <2>3. CASE Col(s.cursor) # 0
      BY <1>1, <2>3, LinearCursor DEF RubPos
    <2> QED
      BY <2>2, <2>3
  <1> HIDE DEF pos
  <1>6. pos \in 0 .. Cells - 1
    BY <1>3, Sizes
  <1>7. Linear(pos) \in Nat /\ Linear(s.cursor) \in Nat
    BY <1>1, <1>6, LinearCursor, UsableSize
  <1>8. Col(pos + 1) # 0
    <2>1. Row(pos) \in Nat /\ Col(pos) \in 0 .. MAX_COLS - 1 /\ pos = Row(pos) * MAX_COLS + Col(pos)
      BY <1>6, RowCol, Sizes
    <2>2. Col(pos) + 1 \in 0 .. MAX_COLS - 1 /\ Col(pos) + 1 # 0
      BY <1>4, <2>1, Sizes
    <2>3. pos + 1 = Row(pos) * MAX_COLS + (Col(pos) + 1)
      BY <2>1, Sizes
    <2> QED
      BY <2>1, <2>2, <2>3, RowColIs
  <1> QED
    BY <1>3, <1>4, <1>5, <1>7, <1>8 DEF pos

\* kgets' rubout erases the glyph before the cursor and changes no other.
RubbedOut(s) ==
    LET t == kprintf(s, Rubout)
    IN  /\ t.colour = s.colour /\ t.start = s.start /\ t.cursor = RubPos(s)
        /\ \A p \in 0 .. Cells - 1 : p # RubPos(s) => t.cells[p] = s.cells[p]

LEMMA Rubbing ==
    ASSUME NEW s, IsBelow(s)
    PROVE  RubbedOut(s)
  <1> DEFINE P(i) == Printed(s, Rubout)[i]
             a == PutBackspace(s, s.colour)
             b == PutGlyph(a, Blank, s.colour)
             c == PutBackspace(b, s.colour)
             pos == RubPos(s)
  <1>1. kprintf(s, Rubout) = c
    <2>1. Len(Rubout) = 3 /\ Rubout[1] = "BS" /\ Rubout[2] = Blank /\ Rubout[3] = "BS" /\ Len(Rubout) \in 1 .. 5
      BY DEF Rubout
    <2>2. 1 \in 1 .. 3 /\ 2 \in 1 .. 3 /\ 3 \in 1 .. 3 /\ 1 - 1 = 0 /\ 2 - 1 = 1 /\ 3 - 1 = 2
      OBVIOUS
    <2>3. /\ kprintf(s, Rubout) = P(3) /\ P(0) = s
          /\ \A i \in 1 .. 3 : P(i) = putchar(P(i - 1), Rubout[i], s.colour)
      <3>1. /\ kprintf(s, Rubout) = P(Len(Rubout)) /\ P(0) = s
            /\ \A i \in 1 .. Len(Rubout) : P(i) = putchar(P(i - 1), Rubout[i], s.colour)
        <4> HIDE DEF P
        <4>1. /\ kprintf(s, Rubout) = Printed(s, Rubout)[Len(Rubout)]
              /\ Printed(s, Rubout)[0] = s
              /\ \A i \in 1 .. Len(Rubout) :
                    /\ Printed(s, Rubout)[i]
                         = putchar(Printed(s, Rubout)[i - 1], Rubout[i], s.colour)
                    /\ Printed(s, Rubout)[i - 1].colour = s.colour
          <5>1. Len(Rubout) \in 1 .. 5
            BY <2>1, Zenon
          <5> QED
            BY <5>1, ShortPrint, Zenon
        <4> QED
          BY <4>1, Zenon DEF P
      <3> QED
        BY <2>1, <3>1, Zenon
    <2> HIDE DEF P
    <2>4. /\ P(1) = putchar(s, "BS", s.colour) /\ P(2) = putchar(P(1), Blank, s.colour)
          /\ P(3) = putchar(P(2), "BS", s.colour)
      BY <2>1, <2>2, <2>3
    <2>5. Blank # "LF" /\ Blank # "BS"
      BY Zenon DEF Blank
    <2>6. P(1) = a /\ P(2) = b /\ P(3) = c
      BY <2>4, <2>5 DEF putchar
    <2> QED
      BY <2>3, <2>6
  <1>2. IsScreen(s) /\ s.cursor >= MAX_COLS
    BY DEF IsBelow
  <1>3. /\ IsScreen(a) /\ a.start = s.start /\ a.cursor = pos /\ a.colour = s.colour
        /\ \A p \in 0 .. Cells - 1 : p # pos => a.cells[p] = s.cells[p]
    <2>1. BackspacePut(s, s.colour)
      BY <1>2, Backspace
    <2> QED
      BY <2>1 DEF BackspacePut, RubPos
  <1>4. /\ pos \in MAX_COLS .. Cells - 1 /\ Col(pos) # MAX_COLS - 1
        /\ pos + 1 \in 0 .. Cells - 1 => Col(pos + 1) # 0
    BY RubPosition
  <1> HIDE DEF a, pos
  <1>5. /\ IsScreen(b) /\ b.start = s.start /\ b.cursor = pos + 1 /\ b.colour = s.colour
        /\ \A p \in 0 .. Cells - 1 : p # pos => b.cells[p] = s.cells[p]
    <2>1. GlyphPut(a, Blank, s.colour) /\ Wrapped(a) = a
      BY <1>3, <1>4, Glyph DEF Wrapped
    <2> QED
      BY <1>3, <2>1 DEF GlyphPut
  <1> HIDE DEF b
  <1>6. Col(b.cursor) # 0 /\ b.cursor >= MAX_COLS /\ b.cursor - 1 = pos
    BY <1>4, <1>5, Sizes DEF IsScreen
  <1>7. /\ c.start = s.start /\ c.cursor = pos /\ c.colour = s.colour
        /\ \A p \in 0 .. Cells - 1 : p # pos => c.cells[p] = s.cells[p]
    <2>1. BackspacePut(b, s.colour)
      BY <1>5, <1>6, Backspace
    <2> QED
      BY <1>5, <1>6, <2>1 DEF BackspacePut
  <1> QED
    BY <1>1, <1>7 DEF RubbedOut, pos

-----------------------------------------------------------------------------
(* The echo.  The line stands from `start' up to the cursor; a text that   *)
(* fits below the bar is not scrolled into it.                             *)

LineShown(s, text) ==
    /\ s.start >= MAX_COLS
    /\ Linear(s.cursor) = Linear(s.start) + Len(text)
    /\ \A k \in 1 .. Len(text) :
         s.cells[Position(Linear(s.start) + k - 1)] = <<text[k], s.colour>>

LEMMA LinearUp ==
    ASSUME NEW pos \in 0 .. Cells - 1
    PROVE  /\ pos >= MAX_COLS => Linear(pos - MAX_COLS) = Linear(pos) - Usable
           /\ pos < MAX_COLS => Linear(pos) <= Usable
  <1>1. PICK r \in 0 .. MAX_ROWS - 1, c \in 0 .. MAX_COLS - 1 :
          /\ r = Row(pos) /\ c = Col(pos)
          /\ pos = r * MAX_COLS + c
          /\ pos >= MAX_COLS => r >= 1
    BY OnScreen
  <1>2. Linear(pos) = r * Usable + c /\ r * Usable \in Nat
    BY <1>1, UsableSize DEF Linear
  <1>3. ASSUME pos >= MAX_COLS PROVE Linear(pos - MAX_COLS) = Linear(pos) - Usable
    <2>1. r - 1 \in Nat /\ (r - 1) * MAX_COLS = r * MAX_COLS - MAX_COLS /\ r * MAX_COLS \in Nat
      BY <1>1, <1>3, Sizes
    <2>2. Linear((r - 1) * MAX_COLS + c) = (r - 1) * Usable + c
      BY <2>1, LinearOf
    <2>3. (r - 1) * Usable = r * Usable - Usable
      BY <2>1, UsableSize
    <2>4. pos - MAX_COLS = (r - 1) * MAX_COLS + c
      BY <1>1, <2>1, Sizes
    <2> QED
      BY <1>2, <2>2, <2>3, <2>4, UsableSize
  <1>4. ASSUME pos < MAX_COLS PROVE Linear(pos) <= Usable
    <2>1. r = 0
      <3>1. r >= 1 => r * MAX_COLS >= MAX_COLS
        BY <1>1, Sizes
      <3>2. r * MAX_COLS \in Nat
        BY Sizes
      <3> QED
        BY <1>1, <1>4, <3>1, <3>2, Sizes
    <2>2. r * Usable = 0
      BY <2>1, UsableSize
    <2>3. c <= Usable
      BY <1>1, UsableSize
    <2> QED
      BY <1>2, <2>2, <2>3
  <1> QED
    BY <1>3, <1>4

\* The columns of the line, below the bar and before the cursor.
LEMMA LineColumns ==
    ASSUME NEW s, IsBelow(s), s.start >= MAX_COLS
    PROVE  /\ Linear(s.start) \in Nat /\ Linear(s.start) >= Usable
           /\ Linear(s.cursor) \in Nat /\ Linear(s.cursor) <= MAX_ROWS * Usable
           /\ s.cursor \in 0 .. Cells - 1 /\ s.start \in 0 .. Cells - 1
  <1>1. s.cursor \in 0 .. Cells - 1 /\ s.start \in 0 .. Cells - 1
    BY DEF IsBelow, IsScreen
  <1> QED
    BY <1>1, LinearCursor, UsableSize

LEMMA TypedShown ==
    ASSUME NEW s, IsBelow(s), NEW text \in Seq(Keys), Len(text) < LineMax,
           LineShown(s, text), NEW ch \in Keys
    PROVE  LineShown(PutGlyph(s, ch, s.colour), Append(text, ch))
  <1> DEFINE t == PutGlyph(s, ch, s.colour)
             n == Len(text)
             m == Linear(s.start)
             long == Append(text, ch)
             d == Shift(s)
  <1>1. /\ m \in Nat /\ m >= Usable /\ Linear(s.cursor) = m + n /\ n \in Nat
        /\ s.start \in 0 .. Cells - 1 /\ s.start >= MAX_COLS
    BY LineColumns DEF LineShown
  <1>2. Len(long) = n + 1 /\ long[n + 1] = ch /\ \A k \in 1 .. n : long[k] = text[k]
    OBVIOUS
  <1>3. t.colour = s.colour
    <2>1. GlyphPut(s, ch, s.colour)
      BY Glyph DEF IsBelow
    <2> QED
      BY <2>1 DEF GlyphPut
  <1>4. /\ Linear(t.cursor) = ((m + n) - d) + 1
        /\ \A i \in Usable .. (m + n) - 1 : t.cells[Position(i - d)] = s.cells[Position(i)]
        /\ t.cells[Position((m + n) - d)] = <<ch, s.colour>>
        /\ d = 0 => t.start = s.start
        /\ d # 0 =>
             /\ d = Usable /\ m + n = MAX_ROWS * Usable
             /\ t.start = IF s.start < MAX_COLS THEN 0 ELSE s.start - MAX_COLS
    <2>1. GlyphMoves(s, ch, s.colour)
      BY GlyphMove DEF IsBelow
    <2>2. PICK e : e = m + n
      OBVIOUS
    <2>3. Linear(s.cursor) = e
      BY <1>1, <2>2
    <2>4. /\ Linear(t.cursor) = e - d + 1
          /\ \A i \in Usable .. e - 1 : t.cells[Position(i - d)] = s.cells[Position(i)]
          /\ t.cells[Position(e - d)] = <<ch, s.colour>>
          /\ d = 0 => t.start = s.start
          /\ d # 0 =>
               /\ d = Usable /\ e = MAX_ROWS * Usable
               /\ t.start = IF s.start < MAX_COLS THEN 0 ELSE s.start - MAX_COLS
      BY <2>1, <2>3 DEF GlyphMoves
    <2> HIDE DEF t, d, m, n
    <2> QED
      BY <2>2, <2>4, Zenon
  <1> HIDE DEF t, long, d
  <1>5. t.start >= MAX_COLS /\ Linear(t.start) = m - d /\ d \in Nat
    <2>1. CASE d = 0
      BY <1>1, <1>4, <2>1
    <2>2. CASE d # 0
      <3>1. d = Usable /\ t.start = s.start - MAX_COLS /\ Linear(t.start) = m - Usable
        BY <1>1, <1>4, <2>2, LinearUp, Sizes
      <3>2. m > Usable + Usable
        <4>1. (MAX_ROWS - 2) * Usable = MAX_ROWS * Usable - Usable - Usable
          BY UsableSize, Sizes
        <4>2. Len(Prompt) \in Nat /\ LineMax \in Nat /\ Len(Prompt) + LineMax < (MAX_ROWS - 2) * Usable
          BY ConsoleAssumption
        <4>3. m + n = MAX_ROWS * Usable /\ n < LineMax
          BY <1>4, <2>2
        <4> DEFINE area == MAX_ROWS * Usable
                   inner == (MAX_ROWS - 2) * Usable
        <4>4. /\ m \in Nat /\ n \in Nat /\ Usable \in Nat /\ area \in Nat /\ LineMax \in Nat
              /\ inner = area - Usable - Usable /\ m + n = area
          BY <1>1, <4>1, <4>2, <4>3, UsableSize, Zenon
        <4>5. Len(Prompt) \in Nat /\ Len(Prompt) + LineMax < inner /\ n < LineMax
          BY <4>2, <4>3, Zenon
        <4> HIDE DEF m, n, area, inner
        <4> QED
          BY <4>4, <4>5
      <3>3. t.start \in 0 .. Cells - 1
        BY <1>1, <3>1, Sizes
      <3>4. ~(t.start < MAX_COLS)
        BY <1>1, <3>1, <3>2, <3>3, LinearUp, UsableSize
      <3> QED
        BY <3>1, <3>3, <3>4, UsableSize, Sizes
    <2> QED
      BY <2>1, <2>2
  <1>6. ASSUME NEW k \in 1 .. n + 1
        PROVE  t.cells[Position(Linear(t.start) + k - 1)] = <<long[k], t.colour>>
    <2>1. CASE k = n + 1
      <3>1. Linear(t.start) + k - 1 = (m + n) - d
        BY <1>1, <1>5, <2>1
      <3> QED
        BY <1>2, <1>3, <1>4, <2>1, <3>1
    <2>2. CASE k # n + 1
      <3>1. /\ Linear(t.start) + k - 1 = (m + k - 1) - d /\ m + k - 1 \in Usable .. (m + n) - 1
            /\ k \in 1 .. n
        <4>1. PICK b : b = Linear(t.start)
          OBVIOUS
        <4>2. b = m - d /\ d \in Nat /\ m \in Nat /\ n \in Nat /\ m >= Usable /\ Usable \in Nat
          BY <1>1, <1>5, <4>1, UsableSize
        <4> HIDE DEF m, n
        <4>3. b + k - 1 = (m + k - 1) - d /\ m + k - 1 \in Usable .. (m + n) - 1 /\ k \in 1 .. n
          BY <2>2, <4>2
        <4> QED
          BY <4>1, <4>3
      <3>2. s.cells[Position(m + k - 1)] = <<text[k], s.colour>>
        BY <3>1 DEF LineShown
      <3> QED
        BY <1>2, <1>3, <1>4, <3>1, <3>2
    <2> QED
      BY <2>1, <2>2
  <1>7. Linear(t.cursor) = Linear(t.start) + (n + 1)
    BY <1>1, <1>4, <1>5
  <1> QED
    BY <1>2, <1>5, <1>6, <1>7 DEF LineShown, t, long

LEMMA ErasedShown ==
    ASSUME NEW s, IsBelow(s), NEW text \in Seq(Keys), text # <<>>,
           LineShown(s, text), Col(s.cursor) # 0
    PROVE  LineShown(kprintf(s, Rubout), SubSeq(text, 1, Len(text) - 1))
  <1> DEFINE t == kprintf(s, Rubout)
             n == Len(text)
             m == Linear(s.start)
             short == SubSeq(text, 1, n - 1)
             pos == RubPos(s)
  <1>1. /\ m \in Nat /\ m >= Usable /\ Linear(s.cursor) = m + n /\ n \in Nat /\ n >= 1
        /\ s.start >= MAX_COLS /\ m + n <= MAX_ROWS * Usable
    BY LineColumns DEF LineShown
  <1>2. Len(short) = n - 1 /\ \A k \in 1 .. n - 1 : short[k] = text[k]
    <2>1. n - 1 \in 0 .. Len(text)
      BY <1>1
    <2>2. \A j \in 0 .. Len(text) :
            /\ Len(SubSeq(text, 1, j)) = j
            /\ \A k \in 1 .. j : SubSeq(text, 1, j)[k] = text[k]
      OBVIOUS
    <2> QED
      BY <2>1, <2>2, Zenon
  <1>3. /\ t.colour = s.colour /\ t.start = s.start /\ t.cursor = pos
        /\ \A p \in 0 .. Cells - 1 : p # pos => t.cells[p] = s.cells[p]
    BY Rubbing DEF RubbedOut
  <1>4. Linear(pos) = (m + n) - 1
    BY <1>1, RubPosition
  <1>5. ASSUME NEW k \in 1 .. n - 1
        PROVE  t.cells[Position(m + k - 1)] = <<text[k], s.colour>>
    <2>1. PICK q : q = m + k - 1
      OBVIOUS
    <2>2. q \in Nat /\ q < (m + n) - 1 /\ k \in 1 .. n /\ q < MAX_ROWS * Usable
      <3>1. MAX_ROWS * Usable \in Nat
        BY UsableSize
      <3> HIDE DEF m, n
      <3> QED
        BY <1>1, <2>1, <3>1
    <2>3. Position(q) \in 0 .. Cells - 1 /\ Linear(Position(q)) = q
      BY <2>2, LinearPosition, Sizes
    <2>4. Position(q) # pos
      BY <1>1, <1>4, <2>2, <2>3
    <2>5. s.cells[Position(m + k - 1)] = <<text[k], s.colour>>
      BY <2>2 DEF LineShown
    <2> QED
      BY <1>3, <2>1, <2>3, <2>4, <2>5
  <1> HIDE DEF t, short
  <1>6. Linear(t.cursor) = m + (n - 1)
    BY <1>1, <1>3, <1>4
  <1> QED
    BY <1>1, <1>2, <1>3, <1>5, <1>6 DEF LineShown, t, short

\* What is written in the row of the bar does not touch the line.
SameBelowBar(s, t) ==
    /\ t.cursor = s.cursor /\ t.start = s.start /\ t.colour = s.colour
    /\ \A p \in MAX_COLS .. Cells - 1 : t.cells[p] = s.cells[p]

LEMMA BarShown ==
    ASSUME NEW s, IsBelow(s), NEW t, SameBelowBar(s, t), NEW text \in Seq(Keys), LineShown(s, text)
    PROVE  LineShown(t, text)
  <1> DEFINE n == Len(text)
             m == Linear(s.start)
  <1>1. /\ m \in Nat /\ m >= Usable /\ Linear(s.cursor) = m + n /\ n \in Nat
        /\ s.start >= MAX_COLS /\ m + n <= MAX_ROWS * Usable
    BY LineColumns DEF LineShown
  <1>2. ASSUME NEW k \in 1 .. n
        PROVE  t.cells[Position(m + k - 1)] = <<text[k], s.colour>>
    <2>1. PICK q : q = m + k - 1
      OBVIOUS
    <2>2. q \in Nat /\ q >= Usable /\ q < MAX_ROWS * Usable
      <3>1. MAX_ROWS * Usable \in Nat /\ Usable \in Nat
        BY UsableSize
      <3> HIDE DEF m, n
      <3> QED
        BY <1>1, <2>1, <3>1
    <2>3. Position(q) \in MAX_COLS .. Cells - 1
      BY <2>2, LinearPosition, Sizes
    <2>4. s.cells[Position(m + k - 1)] = <<text[k], s.colour>>
      BY DEF LineShown
    <2> QED
      BY <2>1, <2>3, <2>4 DEF SameBelowBar
  <1> QED
    BY <1>1, <1>2 DEF LineShown, SameBelowBar

SameOutside(s, t, from, to) ==
    /\ t.cursor = s.cursor /\ t.start = s.start /\ t.colour = s.colour
    /\ \A p \in 0 .. Cells - 1 : p < from \/ p >= to => t.cells[p] = s.cells[p]

LEMMA BarTouches ==
    ASSUME ConsoleInv, ui_bar \/ sys_time
    PROVE  SameBelowBar(screen, screen') /\ IsBelow(screen)
  <1>1. IsScreen(screen) /\ IsBelow(screen)
    BY DEF ConsoleInv, ScreenInv, ui_bar, sys_time
  <1>2. CASE sys_time
    <2> DEFINE text == <<":">>
    <2>1. /\ Len(text) \in Nat /\ ClockCol \in Nat /\ ClockCol + Len(text) <= Cells
          /\ ClockCol + Len(text) <= MAX_COLS
      BY ConsoleAssumption, Sizes
    <2>2. screen' = Draw(screen, text, ClockCol, BAR_COLOUR)
      BY <1>2 DEF sys_time
    <2> HIDE DEF text
    <2>3. SameOutside(screen, screen', ClockCol, ClockCol + Len(text))
      BY <1>1, <2>1, <2>2, Drawing DEF SameOutside
    <2> QED
      BY <1>1, <2>1, <2>3, Sizes DEF SameOutside, SameBelowBar
  <1>3. CASE ui_bar
    <2>1. PICK time \in Times :
            screen' = Draw(Draw(screen, BarText, 0, BAR_COLOUR),
                           int_to_str(calculate_cpu_usage(time)), CpuCol, BAR_COLOUR)
      BY <1>3 DEF ui_bar
    <2> DEFINE s == Draw(screen, BarText, 0, BAR_COLOUR)
               text == int_to_str(calculate_cpu_usage(time))
    <2>2. Len(BarText) = MAX_COLS
      BY Sizes DEF BarText
    <2>3. IsScreen(s) /\ SameOutside(screen, s, 0, 0 + Len(BarText))
      <3>1. Len(BarText) \in Nat /\ 0 \in Nat /\ 0 + Len(BarText) <= Cells
        BY <2>2, Sizes
      <3> QED
        BY <1>1, <3>1, Drawing DEF SameOutside
    <2>4. Len(text) \in Nat /\ CpuCol \in Nat /\ CpuCol + Len(text) <= MAX_COLS
      <3>1. time \in Nat /\ CpuCol \in Nat /\ CpuCol + 3 <= MAX_COLS
        BY ConsoleAssumption
      <3>2. Len(text) \in 1 .. 3
        BY <3>1, Percentage, ThreeDigits
      <3> HIDE DEF text
      <3>3. \A n \in 1 .. 3 : n \in Nat /\ CpuCol + n <= MAX_COLS
        BY <3>1, Sizes
      <3> QED
        BY <3>1, <3>2, <3>3, Zenon
    <2>5. screen' = Draw(s, text, CpuCol, BAR_COLOUR)
      BY <2>1
    <2> HIDE DEF s, text
    <2>6. CpuCol + Len(text) <= Cells
      BY <2>4, Sizes
    <2>7. SameOutside(s, screen', CpuCol, CpuCol + Len(text))
      BY <2>3, <2>4, <2>5, <2>6, Drawing DEF SameOutside
    <2> QED
      BY <1>1, <2>2, <2>3, <2>4, <2>7, Sizes DEF SameOutside, SameBelowBar
  <1> QED
    BY <1>1, <1>2, <1>3

EchoInv == at = "kgets" /\ ~stuck => LineShown(screen, line)

LEMMA EchoStep == ConsoleInv /\ EchoInv /\ [Next]_vars => EchoInv'
  <1> SUFFICES ASSUME ConsoleInv, EchoInv, [Next]_vars PROVE EchoInv'
    OBVIOUS
  <1>1. at \in {"prompt", "kgets"} => IsBelow(screen)
    BY DEF ConsoleInv, ScreenInv
  <1>2. line \in Seq(Keys)
    BY DEF ConsoleInv, ShellType
  <1>3. CASE Boot \/ Enter \/ sh_exec
    <2>1. at' # "kgets"
      BY <1>3 DEF Boot, Enter, sh_exec, Say, Repeat, Log, Cat, Clear
    <2> QED
      BY <2>1 DEF EchoInv
  <1>4. CASE print_prompt
    <2> DEFINE s == kprint(screen, Prompt)
    <2>1. IsScreen(screen) /\ IsBelow(screen) /\ Len(Prompt) \in Nat
      BY <1>1, <1>4, ConsoleAssumption DEF print_prompt, IsBelow
    <2>2. IsBelow(s)
      BY <2>1, Kprint
    <2>3. screen' = Started(s, s.cursor) /\ line' = <<>>
      BY <1>4 DEF print_prompt, Started
    <2> HIDE DEF s
    <2>4. s.cursor \in 0 .. Cells - 1 /\ s.cursor >= MAX_COLS
      BY <2>2 DEF IsBelow, IsScreen
    <2>5. screen'.start = s.cursor /\ screen'.cursor = s.cursor
      BY <2>2, <2>3, <2>4, SetStart
    <2>6. Linear(s.cursor) \in Int
      BY <2>4, LinearCursor, UsableSize
    <2>7. LineShown(screen', line')
      <3>1. Len(line') = 0
        BY <2>3
      <3> QED
        BY <2>4, <2>5, <2>6, <3>1 DEF LineShown
    <2> QED
      BY <2>7 DEF EchoInv
  <1>5. ASSUME NEW c \in Keys, Insert(c), ~stuck PROVE LineShown(screen', line')
    <2>1. /\ IsBelow(screen) /\ LineShown(screen, line) /\ Len(line) < LineMax
          /\ line' = Append(line, c) /\ screen' = kprintf(screen, <<c>>)
      BY <1>1, <1>5 DEF Insert, EchoInv
    <2>2. c \notin {"LF", "BS"}
      BY ConsoleAssumption
    <2>3. screen' = PutGlyph(screen, c, screen.colour)
      BY <2>1, <2>2, OneGlyph
    <2> QED
      BY <1>2, <2>1, <2>3, TypedShown
  <1>6. ASSUME Erase, ~stuck' PROVE LineShown(screen', line')
    <2>1. /\ IsBelow(screen) /\ LineShown(screen, line) /\ line # <<>> /\ Col(screen.cursor) # 0
          /\ line' = SubSeq(line, 1, Len(line) - 1) /\ screen' = kprintf(screen, Rubout)
      BY <1>1, <1>6 DEF Erase, EchoInv, ConsoleInv, ShellType
    <2> QED
      BY <1>2, <2>1, ErasedShown
  <1>7. ASSUME ui_bar \/ sys_time, at = "kgets", ~stuck PROVE LineShown(screen', line')
    <2>1. SameBelowBar(screen, screen') /\ IsBelow(screen)
      BY <1>7, BarTouches
    <2>2. line' = line /\ LineShown(screen, line)
      BY <1>7 DEF ui_bar, sys_time, EchoInv
    <2> QED
      BY <1>2, <2>1, <2>2, BarShown
  <1>8. CASE UNCHANGED vars
    BY <1>8 DEF vars, EchoInv, LineShown
  <1>9. CASE \E c \in Keys : Insert(c)
    BY <1>5, <1>9 DEF EchoInv, Insert
  <1>10. CASE Erase
    BY <1>6, <1>10 DEF EchoInv
  <1>11. CASE ui_bar \/ sys_time
    BY <1>7, <1>11 DEF EchoInv, ui_bar, sys_time
  <1> QED
    BY <1>3, <1>4, <1>8, <1>9, <1>10, <1>11 DEF Next

\* The screen shows the line that kgets has, whatever was printed before it,
\* across wrapped rows and scrolling, while the bar is drawn, for every size
\* of the screen that the longest line fits below the bar.
THEOREM LineEchoed == Spec => []EchoShown
  <1>1. Init => EchoInv
    BY DEF Init, EchoInv
  <1>2. Init /\ [][Next]_vars => []EchoInv
    <2>1. Init /\ [][Next]_vars => []ConsoleInv
      BY ConsoleAlways DEF Spec
    <2> QED
      BY <1>1, <2>1, EchoStep, PTL
  <1>3. EchoInv => EchoShown
    BY DEF EchoInv, EchoShown, LineShown
  <1> QED
    BY <1>2, <1>3, PTL DEF Spec

-----------------------------------------------------------------------------
(* The prompt.  It stands before `start', and `start' is never behind the  *)
(* cursor, so nothing typed or erased touches it; it can only be scrolled  *)
(* into the row of the bar, and then nothing is claimed of it any more.    *)

\* A prompt of glyphs only: no directory's name has a tag.
PlainPrompt ==
    ~HasTag(Prompt) /\ \A k \in 1 .. Len(Prompt) : Prompt[k] \notin {"LF", "BS"}

PromptAt(s, from) ==
    from >= Usable =>
      \A k \in 1 .. Len(Prompt) : s.cells[Position(from + (k - 1))] = <<Prompt[k], s.colour>>

PromptHeld(s, n) ==
    /\ Linear(s.cursor) >= Linear(s.start) + n
    /\ PromptAt(s, Linear(s.start) - Len(Prompt))

LEMMA PromptSize ==
    /\ Len(Prompt) \in Nat /\ LineMax \in Nat
    /\ MAX_ROWS * Usable \in Nat /\ Usable \in Nat /\ Usable >= 1
    /\ (Len(Prompt) + LineMax) + (Usable + Usable) < MAX_ROWS * Usable
  <1>1. (MAX_ROWS - 2) * Usable = MAX_ROWS * Usable - (Usable + Usable)
    BY UsableSize, Sizes
  <1>2. Len(Prompt) \in Nat /\ LineMax \in Nat /\ Len(Prompt) + LineMax < (MAX_ROWS - 2) * Usable
    BY ConsoleAssumption
  <1> QED
    BY <1>1, <1>2, UsableSize

LEMMA LinearScreen ==
    ASSUME NEW s, IsScreen(s)
    PROVE  /\ s.start \in 0 .. Cells - 1 /\ s.cursor \in 0 .. Cells - 1
           /\ Linear(s.start) \in Nat /\ Linear(s.cursor) \in Nat
           /\ Linear(s.cursor) <= MAX_ROWS * Usable
  <1>1. s.start \in 0 .. Cells - 1 /\ s.cursor \in 0 .. Cells - 1
    BY DEF IsScreen
  <1> QED
    BY <1>1, LinearCursor, UsableSize

LEMMA TypedPrompt ==
    ASSUME NEW s, IsBelow(s), NEW n \in Nat, n < LineMax, PromptHeld(s, n), NEW ch
    PROVE  LET t == PutGlyph(s, ch, s.colour)
           IN  /\ PromptHeld(t, n + 1)
               /\ /\ Linear(s.cursor) = Linear(s.start) + n /\ s.start >= MAX_COLS
                  /\ Linear(s.start) - Len(Prompt) >= Usable
                  => Linear(t.start) - Len(Prompt) >= Usable
  <1> DEFINE t == PutGlyph(s, ch, s.colour)
  <1>1. PICK d, e, m, len : d = Shift(s) /\ e = Linear(s.cursor) /\ m = Linear(s.start) /\ len = Len(Prompt)
    OBVIOUS
  <1>2. /\ s.start \in 0 .. Cells - 1 /\ m \in Nat /\ e \in Nat /\ len \in Nat
        /\ e <= MAX_ROWS * Usable /\ e >= m + n
    BY <1>1, LinearScreen, PromptSize DEF IsBelow, PromptHeld
  <1>3. t.colour = s.colour
    <2>1. GlyphPut(s, ch, s.colour)
      BY Glyph DEF IsBelow
    <2> QED
      BY <2>1 DEF GlyphPut
  <1>4. /\ Linear(t.cursor) = (e - d) + 1
        /\ \A i \in Usable .. e - 1 : t.cells[Position(i - d)] = s.cells[Position(i)]
        /\ d = 0 => t.start = s.start
        /\ d # 0 =>
             /\ d = Usable /\ e = MAX_ROWS * Usable
             /\ t.start = IF s.start < MAX_COLS THEN 0 ELSE s.start - MAX_COLS
    <2>1. GlyphMoves(s, ch, s.colour)
      BY GlyphMove DEF IsBelow
    <2> QED
      BY <1>1, <2>1 DEF GlyphMoves
  <1> HIDE DEF t
  <1>5. ASSUME Linear(t.start) = m - d, d \in Nat
        PROVE  Linear(t.cursor) >= Linear(t.start) + (n + 1) /\ PromptAt(t, Linear(t.start) - Len(Prompt))
    <2>1. Linear(t.cursor) >= Linear(t.start) + (n + 1)
      BY <1>2, <1>4, <1>5
    <2>2. ASSUME (m - d) - len >= Usable, NEW k \in 1 .. Len(Prompt)
          PROVE  t.cells[Position(((m - d) - len) + (k - 1))] = <<Prompt[k], s.colour>>
      <3>1. PICK i : i = (m - len) + (k - 1)
        OBVIOUS
      <3>2. /\ i \in Usable .. e - 1 /\ ((m - d) - len) + (k - 1) = i - d /\ m - len >= Usable
        <4>1. k \in 1 .. len /\ Usable \in Nat
          BY <1>1, PromptSize
        <4> QED
          BY <1>2, <1>5, <2>2, <3>1, <4>1
      <3>3. s.cells[Position((m - len) + (k - 1))] = <<Prompt[k], s.colour>>
        BY <1>1, <3>2 DEF PromptHeld, PromptAt
      <3> QED
        BY <1>4, <3>1, <3>2, <3>3
    <2> QED
      BY <1>1, <1>3, <1>5, <2>1, <2>2 DEF PromptAt
  <1>6. CASE d = 0
    <2>1. Linear(t.start) = m - d /\ d \in Nat /\ Linear(t.start) = m
      BY <1>1, <1>2, <1>4, <1>6
    <2> QED
      BY <1>1, <1>5, <2>1 DEF PromptHeld, t
  <1>7. CASE d # 0 /\ s.start >= MAX_COLS
    <2>1. d = Usable /\ e = MAX_ROWS * Usable /\ t.start = s.start - MAX_COLS
      BY <1>2, <1>4, <1>7, Sizes
    <2>2. Linear(t.start) = m - d /\ d \in Nat
      BY <1>1, <1>2, <1>7, <2>1, LinearUp, UsableSize
    <2>3. e = m + n => (m - d) - len >= Usable
      BY <1>1, <1>2, <2>1, PromptSize
    <2> QED
      BY <1>1, <1>5, <2>2, <2>3 DEF PromptHeld, t
  <1>8. CASE d # 0 /\ ~(s.start >= MAX_COLS)
    <2>1. d = Usable /\ e = MAX_ROWS * Usable /\ t.start = 0
      BY <1>2, <1>4, <1>8, Sizes
    <2>2. Linear(0 * MAX_COLS + 0) = 0 * Usable + 0
      BY LinearOf, Sizes
    <2>3. Linear(t.start) = 0
      BY <2>1, <2>2, Sizes, UsableSize
    <2>4. Linear(t.cursor) >= 0 + (n + 1)
      BY <1>1, <1>2, <1>4, <2>1, PromptSize
    <2>5. ~(0 - len >= Usable)
      BY <1>2, PromptSize
    <2> QED
      BY <1>1, <1>8, <2>3, <2>4, <2>5 DEF PromptHeld, PromptAt, t
  <1> QED
    BY <1>6, <1>7, <1>8

LEMMA ErasedPrompt ==
    ASSUME NEW s, IsBelow(s), NEW n \in Nat, n >= 1, PromptHeld(s, n)
    PROVE  PromptHeld(kprintf(s, Rubout), n - 1) /\ kprintf(s, Rubout).start = s.start
  <1> DEFINE t == kprintf(s, Rubout)
             pos == RubPos(s)
  <1>1. PICK e, m, len : e = Linear(s.cursor) /\ m = Linear(s.start) /\ len = Len(Prompt)
    OBVIOUS
  <1>2. /\ m \in Nat /\ e \in Nat /\ len \in Nat /\ e <= MAX_ROWS * Usable /\ e >= m + n
    BY <1>1, LinearScreen, PromptSize DEF IsBelow, PromptHeld
  <1>3. /\ t.colour = s.colour /\ t.start = s.start /\ t.cursor = pos
        /\ \A p \in 0 .. Cells - 1 : p # pos => t.cells[p] = s.cells[p]
    BY Rubbing DEF RubbedOut
  <1>4. Linear(pos) = e - (IF Col(s.cursor) = 0 THEN 0 ELSE 1)
    BY <1>1, RubPosition
  <1>5. Linear(pos) >= m + (n - 1)
    BY <1>2, <1>4
  <1>6. ASSUME m - len >= Usable, NEW k \in 1 .. Len(Prompt)
        PROVE  t.cells[Position((m - len) + (k - 1))] = <<Prompt[k], s.colour>>
    <2>1. PICK q : q = (m - len) + (k - 1)
      OBVIOUS
    <2>2. k \in 1 .. len /\ Usable \in Nat /\ MAX_ROWS * Usable \in Nat
      BY <1>1, PromptSize
    <2>3. q \in Nat /\ q < m /\ q < MAX_ROWS * Usable
      BY <1>2, <1>6, <2>1, <2>2
    <2>4. Position(q) \in 0 .. Cells - 1 /\ Linear(Position(q)) = q
      BY <2>3, LinearPosition, Sizes
    <2>5. Position(q) # pos
      BY <1>2, <1>5, <2>3, <2>4
    <2>6. s.cells[Position((m - len) + (k - 1))] = <<Prompt[k], s.colour>>
      BY <1>1, <1>6 DEF PromptHeld, PromptAt
    <2> QED
      BY <1>3, <2>1, <2>4, <2>5, <2>6
  <1> HIDE DEF t, pos
  <1> QED
    BY <1>1, <1>3, <1>5, <1>6 DEF PromptHeld, PromptAt, t

LEMMA BarPrompt ==
    ASSUME NEW s, IsBelow(s), NEW t, SameBelowBar(s, t), NEW n \in Nat, PromptHeld(s, n)
    PROVE  PromptHeld(t, n)
  <1>1. PICK m, len : m = Linear(s.start) /\ len = Len(Prompt)
    OBVIOUS
  <1>2. /\ m \in Nat /\ len \in Nat /\ m <= MAX_ROWS * Usable
        /\ Linear(s.cursor) >= m + n
    BY <1>1, LinearScreen, PromptSize DEF IsBelow, PromptHeld
  <1>3. ASSUME m - len >= Usable, NEW k \in 1 .. Len(Prompt)
        PROVE  t.cells[Position((m - len) + (k - 1))] = <<Prompt[k], s.colour>>
    <2>1. PICK q : q = (m - len) + (k - 1)
      OBVIOUS
    <2>2. k \in 1 .. len /\ Usable \in Nat /\ MAX_ROWS * Usable \in Nat
      BY <1>1, PromptSize
    <2>3. q \in Nat /\ q >= Usable /\ q < MAX_ROWS * Usable
      BY <1>2, <1>3, <2>1, <2>2
    <2>4. Position(q) \in MAX_COLS .. Cells - 1
      BY <2>3, LinearPosition, Sizes
    <2>5. s.cells[Position((m - len) + (k - 1))] = <<Prompt[k], s.colour>>
      BY <1>1, <1>3 DEF PromptHeld, PromptAt
    <2> QED
      BY <2>1, <2>4, <2>5 DEF SameBelowBar
  <1> QED
    BY <1>1, <1>2, <1>3 DEF PromptHeld, PromptAt, SameBelowBar

\* The first i characters of the prompt stand before the cursor.
PromptSoFar(s, t, i) ==
    /\ IsBelow(t) /\ t.colour = s.colour
    /\ Linear(t.cursor) - i >= Usable
    /\ \A k \in 1 .. i : t.cells[Position((Linear(t.cursor) - i) + (k - 1))] = <<Prompt[k], s.colour>>

LEMMA NextOfPrompt ==
    ASSUME NEW s, NEW a, NEW i \in 1 .. Len(Prompt), PromptSoFar(s, a, i - 1),
           Prompt[i] \notin {"LF", "BS"}
    PROVE  PromptSoFar(s, putchar(a, Prompt[i], a.colour), i)
  <1> DEFINE ch == Prompt[i]
             t == PutGlyph(a, ch, a.colour)
  <1>1. putchar(a, ch, a.colour) = t
    BY DEF putchar
  <1>2. IsBelow(a) /\ IsScreen(a) /\ a.colour = s.colour
    BY DEF PromptSoFar, IsBelow
  <1>3. IsBelow(t) /\ t.colour = s.colour
    <2>1. IsBelow(putchar(a, ch, a.colour)) /\ putchar(a, ch, a.colour).colour = a.colour
      BY <1>2, Putchar
    <2> QED
      BY <1>1, <1>2, <2>1
  <1>4. PICK d, e, len : d = Shift(a) /\ e = Linear(a.cursor) /\ len = Len(Prompt)
    OBVIOUS
  <1>5. /\ e \in Nat /\ len \in Nat /\ i \in 1 .. len /\ Usable \in Nat
        /\ e - (i - 1) >= Usable /\ e <= MAX_ROWS * Usable
        /\ len + (Usable + Usable) < MAX_ROWS * Usable
    BY <1>2, <1>4, LinearScreen, PromptSize DEF PromptSoFar
  <1>6. /\ Linear(t.cursor) = (e - d) + 1
        /\ \A n \in Usable .. e - 1 : t.cells[Position(n - d)] = a.cells[Position(n)]
        /\ t.cells[Position(e - d)] = <<ch, a.colour>>
        /\ d # 0 => d = Usable /\ e = MAX_ROWS * Usable
    <2>1. GlyphMoves(a, ch, a.colour)
      BY <1>2, GlyphMove
    <2> QED
      BY <1>4, <2>1 DEF GlyphMoves
  <1> HIDE DEF t
  <1>7. d \in Nat /\ Linear(t.cursor) - i = (e - d) - (i - 1)
    <2>1. d \in Nat
      BY <1>5, <1>6
    <2>2. e \in Int /\ d \in Int /\ i \in Int
      BY <1>5, <2>1
    <2>3. ((e - d) + 1) - i = (e - d) - (i - 1)
      BY <2>2
    <2>4. Linear(t.cursor) = (e - d) + 1
      BY <1>6
    <2> QED
      BY <2>1, <2>3, <2>4
  <1>8. (e - d) - (i - 1) >= Usable
    <2>1. CASE d = 0
      BY <1>5, <2>1
    <2>2. CASE d # 0
      BY <1>5, <1>6, <2>2
    <2> QED
      BY <2>1, <2>2
  <1>9. ASSUME NEW k \in 1 .. i
        PROVE  t.cells[Position(((e - d) - (i - 1)) + (k - 1))] = <<Prompt[k], s.colour>>
    <2>1. CASE k = i
      <3>1. ((e - d) - (i - 1)) + (k - 1) = e - d
        BY <1>5, <1>7, <2>1
      <3> QED
        BY <1>2, <1>6, <2>1, <3>1
    <2>2. CASE k # i
      <3>1. PICK n : n = (e - (i - 1)) + (k - 1)
        OBVIOUS
      <3>2. n \in Usable .. e - 1 /\ ((e - d) - (i - 1)) + (k - 1) = n - d /\ k \in 1 .. i - 1
        BY <1>5, <1>7, <2>2, <3>1
      <3>3. a.cells[Position((e - (i - 1)) + (k - 1))] = <<Prompt[k], s.colour>>
        BY <1>4, <3>2 DEF PromptSoFar
      <3> QED
        BY <1>6, <3>1, <3>2, <3>3
    <2> QED
      BY <2>1, <2>2
  <1>10. PromptSoFar(s, t, i)
    BY <1>3, <1>7, <1>8, <1>9 DEF PromptSoFar
  <1> QED
    BY <1>1, <1>10 DEF t

LEMMA PromptPrinted ==
    ASSUME NEW s, IsBelow(s), PlainPrompt
    PROVE  PromptSoFar(s, kprint(s, Prompt), Len(Prompt))
  <1> DEFINE P(i) == Printed(s, Prompt)[i]
             S == {i \in 0 .. Len(Prompt) : PromptSoFar(s, P(i), i)}
  <1>1. Len(Prompt) \in Nat
    BY PromptSize
  <1>2. /\ kprint(s, Prompt) = P(Len(Prompt)) /\ P(0) = s
        /\ \A i \in 1 .. Len(Prompt) : P(i) = PrintAt(P(i - 1), Prompt, i)
    BY <1>1, PrintedSteps
  <1> HIDE DEF P
  <1>3. 0 \in S
    <2>1. s.cursor \in 0 .. Cells - 1 /\ s.cursor >= MAX_COLS
      BY DEF IsBelow, IsScreen
    <2>2. Linear(s.cursor) >= Usable /\ Linear(s.cursor) \in Nat
      BY <2>1, LinearCursor, UsableSize
    <2>3. PromptSoFar(s, s, 0)
      BY <2>2, UsableSize DEF PromptSoFar
    <2> QED
      BY <1>1, <1>2, <2>3
  <1>4. ASSUME NEW i \in 1 .. Len(Prompt), i - 1 \in S
        PROVE  i \in S
    <2>1. ~TagAt(Prompt, i) /\ ~InTag(Prompt, i) /\ Prompt[i] \notin {"LF", "BS"}
      BY <1>1 DEF PlainPrompt, HasTag, InTag
    <2>2. P(i) = putchar(P(i - 1), Prompt[i], P(i - 1).colour)
      BY <1>2, <2>1 DEF PrintAt
    <2>3. PromptSoFar(s, P(i - 1), i - 1)
      BY <1>4
    <2>4. PromptSoFar(s, P(i), i)
      BY <2>1, <2>2, <2>3, NextOfPrompt
    <2> QED
      BY <1>1, <2>4
  <1> HIDE DEF S
  <1>5. \A i \in 0 .. Len(Prompt) : i \in S
    <2>1. \A i \in 1 .. Len(Prompt) : i - 1 \in S => i \in S
      BY <1>4
    <2> QED
      BY <1>1, <1>3, <2>1, UpTo, Zenon
  <1>6. Len(Prompt) \in S
    BY <1>1, <1>5
  <1> QED
    BY <1>2, <1>6 DEF S

PromptInvariant ==
    at = "kgets" =>
      /\ PromptHeld(screen, Len(line))
      /\ ~stuck => Linear(screen.start) - Len(Prompt) >= Usable

LEMMA PromptStep ==
    ASSUME PlainPrompt
    PROVE  ConsoleInv /\ EchoInv /\ PromptInvariant /\ [Next]_vars => PromptInvariant'
  <1> SUFFICES ASSUME ConsoleInv, EchoInv, PromptInvariant, [Next]_vars PROVE PromptInvariant'
    OBVIOUS
  <1>1. at \in {"prompt", "kgets"} => IsBelow(screen)
    BY DEF ConsoleInv, ScreenInv
  <1>2. line \in Seq(Keys) /\ Len(line) \in Nat
    BY DEF ConsoleInv, ShellType
  <1>3. CASE Boot \/ Enter \/ sh_exec
    <2>1. at' # "kgets"
      BY <1>3 DEF Boot, Enter, sh_exec, Say, Repeat, Log, Cat, Clear
    <2> QED
      BY <2>1 DEF PromptInvariant
  <1>4. CASE print_prompt
    <2> DEFINE s == kprint(screen, Prompt)
    <2>1. PromptSoFar(screen, s, Len(Prompt))
      BY <1>1, <1>4, PromptPrinted DEF print_prompt
    <2>2. screen' = Started(s, s.cursor) /\ line' = <<>>
      BY <1>4 DEF print_prompt, Started
    <2> HIDE DEF s
    <2>3. IsBelow(s) /\ s.colour = screen.colour /\ s.cursor \in 0 .. Cells - 1
      BY <2>1 DEF PromptSoFar, IsBelow, IsScreen
    <2>4. /\ screen'.start = s.cursor /\ screen'.cursor = s.cursor /\ screen'.cells = s.cells
          /\ screen'.colour = s.colour
      BY <2>2, <2>3, SetStart
    <2>5. Linear(s.cursor) \in Nat /\ Len(line') = 0
      BY <2>2, <2>3, LinearCursor, UsableSize
    <2>6. PromptHeld(screen', Len(line'))
      BY <2>1, <2>3, <2>4, <2>5 DEF PromptSoFar, PromptHeld, PromptAt
    <2>7. Linear(screen'.start) - Len(Prompt) >= Usable
      BY <2>1, <2>4 DEF PromptSoFar
    <2> QED
      BY <2>6, <2>7 DEF PromptInvariant
  <1>5. ASSUME NEW c \in Keys, Insert(c)
        PROVE  /\ PromptHeld(screen', Len(line'))
               /\ ~stuck' => Linear(screen'.start) - Len(Prompt) >= Usable
    <2>1. /\ IsBelow(screen) /\ PromptHeld(screen, Len(line)) /\ Len(line) < LineMax
          /\ line' = Append(line, c) /\ screen' = kprintf(screen, <<c>>) /\ stuck' = stuck
      BY <1>1, <1>5 DEF Insert, PromptInvariant
    <2>2. c \notin {"LF", "BS"}
      BY ConsoleAssumption
    <2>3. screen' = PutGlyph(screen, c, screen.colour)
      BY <2>1, <2>2, OneGlyph
    <2>4. Len(line') = Len(line) + 1
      BY <1>2, <2>1
    <2>5. ~stuck => /\ Linear(screen.cursor) = Linear(screen.start) + Len(line)
                    /\ screen.start >= MAX_COLS
                    /\ Linear(screen.start) - Len(Prompt) >= Usable
      BY <1>5 DEF EchoInv, LineShown, PromptInvariant, Insert
    <2>6. PICK n \in Nat : n = Len(line)
      BY <1>2
    <2>7. /\ PromptHeld(screen', n + 1)
          /\ /\ Linear(screen.cursor) = Linear(screen.start) + n /\ screen.start >= MAX_COLS
             /\ Linear(screen.start) - Len(Prompt) >= Usable
             => Linear(screen'.start) - Len(Prompt) >= Usable
      BY <2>1, <2>3, <2>6, TypedPrompt
    <2> QED
      BY <2>1, <2>4, <2>5, <2>6, <2>7
  <1>6. ASSUME Erase
        PROVE  /\ PromptHeld(screen', Len(line'))
               /\ ~stuck' => Linear(screen'.start) - Len(Prompt) >= Usable
    <2>1. /\ IsBelow(screen) /\ PromptHeld(screen, Len(line)) /\ line # <<>>
          /\ line' = SubSeq(line, 1, Len(line) - 1) /\ screen' = kprintf(screen, Rubout)
          /\ ~stuck' => ~stuck
          /\ ~stuck => Linear(screen.start) - Len(Prompt) >= Usable
      BY <1>1, <1>6 DEF Erase, PromptInvariant, ConsoleInv, ShellType
    <2>2. PICK n \in Nat : n = Len(line)
      BY <1>2
    <2>3. n >= 1 /\ Len(line') = n - 1
      BY <1>2, <2>1, <2>2
    <2>4. PromptHeld(screen', n - 1) /\ screen'.start = screen.start
      BY <2>1, <2>2, <2>3, ErasedPrompt
    <2> QED
      BY <2>1, <2>3, <2>4
  <1>7. ASSUME ui_bar \/ sys_time, at = "kgets"
        PROVE  /\ PromptHeld(screen', Len(line'))
               /\ ~stuck' => Linear(screen'.start) - Len(Prompt) >= Usable
    <2>1. SameBelowBar(screen, screen') /\ IsBelow(screen)
      BY <1>7, BarTouches
    <2>2. line' = line /\ stuck' = stuck /\ PromptHeld(screen, Len(line))
      BY <1>7 DEF ui_bar, sys_time, PromptInvariant
    <2>3. PromptHeld(screen', Len(line))
      BY <1>2, <2>1, <2>2, BarPrompt
    <2> QED
      BY <1>7, <2>1, <2>2, <2>3 DEF PromptInvariant, SameBelowBar
  <1>8. CASE UNCHANGED vars
    BY <1>8 DEF vars, PromptInvariant, PromptHeld, PromptAt
  <1>9. CASE \E c \in Keys : Insert(c)
    BY <1>5, <1>9 DEF PromptInvariant
  <1>10. CASE Erase
    BY <1>6, <1>10 DEF PromptInvariant
  <1>11. CASE ui_bar \/ sys_time
    BY <1>7, <1>11 DEF PromptInvariant, ui_bar, sys_time
  <1> QED
    BY <1>3, <1>4, <1>8, <1>9, <1>10, <1>11 DEF Next

\* A prompt of glyphs stands whole before the line wherever Backspace is hit
\* and however long the line gets; a rubout never reaches into it.
THEOREM PromptStands == PlainPrompt => (Spec => []PromptKept)
  <1> SUFFICES ASSUME PlainPrompt PROVE Spec => []PromptKept
    OBVIOUS
  <1>1. Init => PromptInvariant /\ EchoInv
    BY DEF Init, PromptInvariant, EchoInv
  <1>2. ConsoleInv /\ EchoInv /\ PromptInvariant /\ [Next]_vars => PromptInvariant'
    BY PromptStep
  <1>3. Init /\ [][Next]_vars => []ConsoleInv
    BY ConsoleAlways DEF Spec
  <1>4. PromptInvariant => PromptKept
    <2> SUFFICES ASSUME PromptInvariant, at = "kgets" PROVE PromptKept
      BY DEF PromptKept
    <2> DEFINE from == Linear(screen.start) - Len(Prompt)
    <2>1. PromptAt(screen, from) /\ (stuck \/ from >= Usable)
      BY DEF PromptInvariant, PromptHeld
    <2> HIDE DEF from
    <2>2. from >= Usable =>
            \A k \in 1 .. Len(Prompt) :
              screen.cells[Position(from + (k - 1))] = <<Prompt[k], screen.colour>>
      BY <2>1 DEF PromptAt
    <2> QED
      BY <2>1, <2>2 DEF PromptKept, from
  <1> QED
    BY <1>1, <1>2, <1>3, <1>4, EchoStep, PTL DEF Spec

=============================================================================
