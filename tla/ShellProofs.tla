----------------------------- MODULE ShellProofs -----------------------------
(* Theorems about Shell, for any lines, any scripts and any heap.          *)
EXTENDS Shell, SequenceTheorems, FiniteSetTheorems, WellFoundedInduction, TLAPS

Interpreters == {"sh_exec", "sh_execute_script", "exec_sh_script"}
Pieces    == {NULL} \cup (Blocks \X Nat \X Nat)
Positions == {NULL} \cup (Blocks \X (Nat \ {0}))
Frames ==
    [fn : Interpreters, buf : Blocks, entries : Blocks, token : Pieces, pos : Nat,
     status : Nat, nested : BOOLEAN]

\* The interpreter's variables have their types.
ShellType ==
    /\ stack \in Seq(Frames)
    /\ loading \in Seq(Blocks)
    /\ used \subseteq Blocks
    /\ mem \in [Blocks -> Seq(Symbols)]
    /\ last \in Positions

\* The blocks an activation frees when it ends.
Owns(f) == {f.buf, f.entries}

\* Two activations share no block, and only the outermost one is sh_exec,
\* which has a single block.
OwnedInv ==
    /\ MemoryOwned
    /\ \A i, j \in DOMAIN stack : i # j => Owns(stack[i]) \cap Owns(stack[j]) = {}
    /\ \A i \in DOMAIN stack :
          /\ stack[i].fn = "sh_exec" <=> i = 1
          /\ stack[i].fn = "sh_exec" => stack[i].entries = stack[i].buf

\* strtok's pointer is NULL once the innermost activation has got its last
\* piece: an activation never ends with a pointer into its text left behind.
StrtokInv == StrtokOwned /\ (Finished => last = NULL)

\* What strtok has left of the text of activation f when its pointer is l
\* and the blocks hold m: behind the last piece lie delimiters only, or one delimiter and the rest.
Left(m, f, l) ==
    LET text == m[f.buf] IN
    /\ f.token = NULL =>
          \A i \in f.pos + 1 .. Len(text) : text[i] = Delimiter(f.fn)
    /\ f.token # NULL /\ l = NULL => f.pos = Len(text)
    /\ f.token # NULL /\ l # NULL => /\ l[2] = f.pos + 2
                                     /\ f.pos + 1 <= Len(text)
                                     /\ text[f.pos + 1] = Delimiter(f.fn)

TextInv == stack # <<>> /\ ~Top.nested => Left(mem, Top, last)

\* The blocks of a script being loaded are its own, and its caller is still at
\* the piece that called it.
LoadInv ==
    /\ \A i, j \in DOMAIN loading : i # j => loading[i] # loading[j]
    /\ \A i \in DOMAIN stack : Owns(stack[i]) \cap Range(loading) = {}
    /\ loading # <<>> => stack # <<>> /\ Top.token # NULL

ShellInv == ShellType /\ OwnedInv /\ LoadInv /\ StrtokInv /\ TextInv

-----------------------------------------------------------------------------
(* The least element of a set of numbers. *)

LEMMA LeastNat ==
    ASSUME NEW T, T \subseteq Nat, T # {}
    PROVE  \E x \in T : \A y \in T : x <= y
  <1> DEFINE R == OpToRel(<, Nat)
  <1>1. PICK x \in T : \A y \in T : ~(<<y, x>> \in R)
    <2>1. IsWellFoundedOn(R, Nat)
      BY NatLessThanWellFounded
    <2> HIDE DEF R
    <2> QED
      BY <2>1, WFMin
  <1>2. \A y \in T : ~(y < x)
    BY <1>1 DEF OpToRel
  <1> QED
    BY <1>2

LEMMA MinIsLeast ==
    ASSUME NEW T, T \subseteq Nat, T # {}
    PROVE  Min(T) \in T /\ \A y \in T : Min(T) <= y
  BY LeastNat DEF Min

-----------------------------------------------------------------------------
(* strtok. *)

\* What strtok returns, and where it leaves its pointer.
LEMMA StrtokIs ==
    ASSUME NEW m \in [Blocks -> Seq(Symbols)], NEW at \in Positions, NEW delim
    PROVE  LET r == strtok(m, at, delim) IN
           /\ r.token \in Pieces /\ r.last \in Positions
           /\ r.token # NULL => at # NULL /\ r.token[1] = at[1]
           /\ r.last # NULL => /\ r.token # NULL
                               /\ r.last[1] = at[1]
                               /\ r.last[2] = r.token[3] + 2
                               /\ r.token[3] + 1 <= Len(m[at[1]])
                               /\ m[at[1]][r.token[3] + 1] = delim
           /\ r.token # NULL /\ r.last = NULL => r.token[3] = Len(m[at[1]])
           /\ r.token = NULL => r.last = NULL
           /\ r.token = NULL /\ at # NULL =>
                 \A i \in at[2] .. Len(m[at[1]]) : m[at[1]][i] = delim
  <1> DEFINE r == strtok(m, at, delim)
  <1>1. CASE at = NULL
    BY <1>1 DEF strtok, Pieces, Positions, NULL
  <1>2. CASE at # NULL
    <2> DEFINE text == m[at[1]]
               rest == at[2] .. Len(text)
               from == {i \in rest : text[i] # delim}
               first == Min(from)
               stops == {i \in rest : i > first /\ text[i] = delim}
    <2>1. at \in Blocks \X (Nat \ {0}) /\ at[1] \in Blocks /\ at[2] \in Nat \ {0}
      BY <1>2 DEF Positions
    <2>2. text \in Seq(Symbols) /\ Len(text) \in Nat
      BY <2>1
    <2>3. CASE from = {}
      <3>1. r = [token |-> NULL, last |-> NULL]
        BY <1>2, <2>3 DEF strtok
      <3>2. \A i \in rest : text[i] = delim
        BY <2>3
      <3> QED
        BY <3>1, <3>2 DEF Pieces, Positions
    <2>4. CASE from # {}
      <3>1. rest \subseteq Nat
        BY <2>1, <2>2
      <3>2. first \in from
        BY <2>4, <3>1, MinIsLeast
      <3>3. first \in Nat /\ first >= 1 /\ first <= Len(text)
        BY <2>1, <2>2, <3>2
      <3>4. CASE stops = {}
        <4>1. r = [token |-> <<at[1], first, Len(text)>>, last |-> NULL]
          BY <1>2, <2>4, <3>4 DEF strtok
        <4>2. <<at[1], first, Len(text)>> # NULL
          BY DEF NULL
        <4> HIDE DEF first
        <4>3. <<at[1], first, Len(text)>> \in Pieces /\ NULL \in Positions
          BY <2>1, <2>2, <3>3 DEF Pieces, Positions
        <4>4. r.token = <<at[1], first, Len(text)>> /\ r.last = NULL
          BY <4>1
        <4> HIDE DEF r
        <4> QED
          BY <1>2, <4>2, <4>3, <4>4 DEF r
      <3>5. CASE stops # {}
        <4> DEFINE s == Min(stops)
        <4>1. r = [token |-> <<at[1], first, s - 1>>, last |-> <<at[1], s + 1>>]
          BY <1>2, <2>4, <3>5 DEF strtok
        <4>2. s \in stops
          BY <3>1, <3>5, MinIsLeast
        <4>3. s \in Nat /\ s > first /\ s <= Len(text) /\ text[s] = delim
          BY <2>1, <2>2, <4>2
        <4>4. <<at[1], first, s - 1>> # NULL /\ <<at[1], s + 1>> # NULL
          BY DEF NULL
        <4> HIDE DEF s, first, text
        <4>5. s - 1 \in Nat /\ s + 1 \in Nat \ {0} /\ (s - 1) + 2 = s + 1
              /\ (s - 1) + 1 = s
          BY <3>3, <4>3
        <4>6. <<at[1], first, s - 1>> \in Pieces /\ <<at[1], s + 1>> \in Positions
          BY <2>1, <3>3, <4>5 DEF Pieces, Positions
        <4>7. r.token = <<at[1], first, s - 1>> /\ r.last = <<at[1], s + 1>>
          BY <4>1
        <4> HIDE DEF r
        <4> QED
          BY <1>2, <4>3, <4>4, <4>5, <4>6, <4>7 DEF r, text
      <3> QED  BY <3>4, <3>5
    <2> QED  BY <2>3, <2>4
  <1> QED
    BY <1>1, <1>2

-----------------------------------------------------------------------------
(* An activation goes on to its next piece. *)

\* A command returns to its activation: only the status and the history move.
LEMMA ReturnedIs ==
    ASSUME NEW frames \in Seq(Frames), frames # <<>>, NEW status \in Nat,
           NEW nested \in BOOLEAN
    PROVE  LET n == Len(frames)
               after == Returned(frames, status, nested) IN
           /\ after \in Seq(Frames) /\ Len(after) = n
           /\ \A i \in 1 .. n - 1 : after[i] = frames[i]
           /\ after[n].fn = frames[n].fn /\ after[n].buf = frames[n].buf
           /\ after[n].entries = frames[n].entries
           /\ after[n].token = frames[n].token /\ after[n].pos = frames[n].pos
           /\ after[n].nested = (frames[n].nested \/ nested)
  <1> DEFINE n == Len(frames)
             f == frames[n]
             g == [f EXCEPT !.status = StatusAfter(f, status), !.nested = @ \/ nested]
  <1>1. n \in Nat \ {0} /\ n \in 1 .. n /\ f \in Frames
    BY EmptySeq
  <1>2. StatusAfter(f, status) \in Nat
    BY <1>1 DEF StatusAfter, Frames, Interpreters
  <1>3. /\ g \in Frames
        /\ g.fn = f.fn /\ g.buf = f.buf /\ g.entries = f.entries
        /\ g.token = f.token /\ g.pos = f.pos /\ g.nested = (f.nested \/ nested)
    <2> HIDE DEF f
    <2> QED  BY <1>1, <1>2 DEF Frames
  <1>4. Returned(frames, status, nested) = [frames EXCEPT ![n] = g]
    BY DEF Returned
  <1> HIDE DEF g
  <1> QED
    BY <1>1, <1>3, <1>4, ExceptSeq

\* strtok(NULL, ...) in the innermost activation of frames.
LEMMA AdvanceIs ==
    ASSUME ShellType, NEW frames \in Seq(Frames), frames # <<>>,
           last # NULL => last[1] = frames[Len(frames)].buf,
           Advance(frames)
    PROVE  LET n == Len(frames) IN
           /\ stack' \in Seq(Frames) /\ Len(stack') = n
           /\ \A i \in 1 .. n - 1 : stack'[i] = frames[i]
           /\ stack'[n].fn = frames[n].fn /\ stack'[n].buf = frames[n].buf
           /\ stack'[n].entries = frames[n].entries
           /\ stack'[n].nested = frames[n].nested
           /\ stack'[n].token # NULL => stack'[n].token[1] = frames[n].buf
           /\ last' \in Positions
           /\ last' # NULL => last'[1] = frames[n].buf /\ stack'[n].token # NULL
           /\ Left(mem, frames[n], last) /\ frames[n].token # NULL
                => Left(mem, stack'[n], last')
  <1> DEFINE n == Len(frames)
             f == frames[n]
             r == strtok(mem, last, Delimiter(f.fn))
             g == [f EXCEPT !.token = r.token,
                            !.pos = IF r.token # NULL /\ r.token[1] = f.buf
                                    THEN r.token[3] ELSE @]
  <1>1. n \in Nat \ {0} /\ n \in 1 .. n /\ f \in Frames
    BY EmptySeq
  <1>2. /\ r.token \in Pieces /\ r.last \in Positions
        /\ r.token # NULL => last # NULL /\ r.token[1] = last[1]
        /\ r.last # NULL => /\ r.token # NULL
                            /\ r.last[1] = last[1]
                            /\ r.last[2] = r.token[3] + 2
                            /\ r.token[3] + 1 <= Len(mem[last[1]])
                            /\ mem[last[1]][r.token[3] + 1] = Delimiter(f.fn)
        /\ r.token # NULL /\ r.last = NULL => r.token[3] = Len(mem[last[1]])
        /\ r.token = NULL => r.last = NULL
        /\ r.token = NULL /\ last # NULL =>
              \A i \in last[2] .. Len(mem[last[1]]) : mem[last[1]][i] = Delimiter(f.fn)
    <2>1. mem \in [Blocks -> Seq(Symbols)] /\ last \in Positions
      BY DEF ShellType
    <2> QED
      BY <2>1, StrtokIs
  <1>3. stack' = [frames EXCEPT ![n] = g] /\ last' = r.last
    BY DEF Advance
  <1>4. r.token # NULL => r.token[1] = f.buf /\ r.token[3] \in Nat
    BY <1>2 DEF Pieces
  <1> HIDE DEF r, f
  <1>5. /\ g \in Frames /\ g.fn = f.fn /\ g.buf = f.buf /\ g.entries = f.entries
        /\ g.nested = f.nested /\ g.token = r.token
        /\ g.pos = IF r.token # NULL THEN r.token[3] ELSE f.pos
    BY <1>1, <1>2, <1>4 DEF Frames
  <1> HIDE DEF g
  <1>6. /\ stack' \in Seq(Frames) /\ Len(stack') = n /\ stack'[n] = g
        /\ \A i \in 1 .. n - 1 : stack'[i] = frames[i]
    BY <1>1, <1>3, <1>5, ExceptSeq
  <1>7. ASSUME Left(mem, f, last), f.token # NULL PROVE Left(mem, g, r.last)
    <2> DEFINE text == mem[f.buf]
    <2>0. f.pos \in Nat /\ text \in Seq(Symbols) /\ f.buf \in Blocks
      BY <1>1 DEF Frames, ShellType
    <2>1. last # NULL => mem[last[1]] = text
      BY DEF f
    <2>2. CASE r.token = NULL
      <3>1. CASE last = NULL
        BY <1>5, <1>7, <2>0, <2>2, <3>1 DEF Left
      <3>2. CASE last # NULL
        <4>1. /\ last[2] = f.pos + 2 /\ text[f.pos + 1] = Delimiter(f.fn)
              /\ \A i \in last[2] .. Len(text) : text[i] = Delimiter(f.fn)
          BY <1>2, <1>7, <2>1, <2>2, <3>2 DEF Left
        <4>2. \A i \in f.pos + 1 .. Len(text) : text[i] = Delimiter(f.fn)
          BY <2>0, <4>1
        <4> QED
          BY <1>5, <1>7, <2>2, <4>2 DEF Left
      <3> QED  BY <3>1, <3>2
    <2>3. CASE r.token # NULL
      BY <1>2, <1>5, <1>7, <2>1, <2>3 DEF Left
    <2> QED  BY <2>2, <2>3
  <1> QED
    BY <1>2, <1>3, <1>4, <1>5, <1>6, <1>7 DEF f

LEMMA RangeEmpty == Range(<<>>) = {}
  BY DEF Range

\* The activations `frames' are the outermost ones of the stack, what they
\* own is in use, and the innermost of them goes on: the invariant holds again.
LEMMA AdvanceStep ==
    ASSUME ShellInv, NEW frames \in Seq(Frames), frames # <<>>,
           Len(frames) <= Len(stack),
           \A i \in 1 .. Len(frames) : /\ frames[i].fn = stack[i].fn
                                       /\ frames[i].buf = stack[i].buf
                                       /\ frames[i].entries = stack[i].entries
                                       /\ frames[i].token = stack[i].token,
           used' = UNION {Owns(frames[i]) : i \in 1 .. Len(frames)},
           loading' = <<>>,
           last # NULL => last[1] = frames[Len(frames)].buf,
           \/ frames[Len(frames)].nested
           \/ /\ frames[Len(frames)].token # NULL
              /\ Left(mem, frames[Len(frames)], last),
           mem' = mem, Advance(frames)
    PROVE  ShellInv'
  <1> DEFINE n == Len(frames)
  <1>0. n \in Nat \ {0} /\ n \in 1 .. n /\ Len(stack) \in Nat
    BY EmptySeq DEF ShellInv, ShellType
  <1>1. /\ stack' \in Seq(Frames) /\ Len(stack') = n
        /\ \A i \in 1 .. n - 1 : stack'[i] = frames[i]
        /\ stack'[n].fn = frames[n].fn /\ stack'[n].buf = frames[n].buf
        /\ stack'[n].entries = frames[n].entries
        /\ stack'[n].nested = frames[n].nested
        /\ stack'[n].token # NULL => stack'[n].token[1] = frames[n].buf
        /\ last' \in Positions
        /\ last' # NULL => last'[1] = frames[n].buf /\ stack'[n].token # NULL
        /\ Left(mem, frames[n], last) /\ frames[n].token # NULL
             => Left(mem, stack'[n], last')
    BY AdvanceIs DEF ShellInv
  <1> HIDE DEF n
  <1>2. /\ DOMAIN stack' = 1 .. n /\ stack' # <<>> /\ Top' = stack'[n]
        /\ DOMAIN stack = 1 .. Len(stack)
    BY <1>0, <1>1 DEF Top, ShellInv, ShellType
  <1>3. \A i \in 1 .. n : /\ stack'[i].fn = stack[i].fn
                          /\ stack'[i].buf = frames[i].buf
                          /\ stack'[i].entries = frames[i].entries
                          /\ Owns(stack'[i]) = Owns(stack[i])
                          /\ stack'[i].token # NULL => stack'[i].token[1] = stack'[i].buf
    <2> TAKE i \in 1 .. n
    <2>1. CASE i = n
      BY <1>0, <1>1, <2>1 DEF n, Owns
    <2>2. CASE i # n
      <3>1. i \in 1 .. n - 1 /\ i \in DOMAIN stack
        BY <1>0, <1>2, <2>2 DEF n
      <3>2. frames[i].token # NULL => frames[i].token[1] = frames[i].buf
        BY <3>1 DEF n, ShellInv, StrtokInv, StrtokOwned
      <3> QED
        BY <1>1, <3>1, <3>2 DEF n, Owns
    <2> QED  BY <2>1, <2>2
  <1>4. ShellType'
    <2>0. \A i \in 1 .. n : frames[i] \in Frames
      BY DEF n
    <2>1. \A i \in 1 .. n : Owns(frames[i]) \subseteq Blocks
      BY <2>0 DEF Owns, Frames
    <2>2. used' \subseteq Blocks
      BY <2>1 DEF n
    <2> QED
      BY <1>1, <2>2, EmptySeq DEF ShellInv, ShellType, Blocks
  <1>5. OwnedInv'
    <2>1. \A i \in 1 .. n : i \in DOMAIN stack
      BY <1>0, <1>2 DEF n
    <2>2. MemoryOwned'
      <3>1. used' = UNION {{stack'[i].buf, stack'[i].entries} : i \in DOMAIN stack'}
        BY <1>2, <1>3 DEF Owns, n
      <3>2. Range(loading') = {}
        BY RangeEmpty
      <3> QED
        BY <3>1, <3>2 DEF MemoryOwned
    <2>3. \A i, j \in DOMAIN stack' :
             i # j => Owns(stack'[i]) \cap Owns(stack'[j]) = {}
      BY <1>2, <1>3, <2>1 DEF ShellInv, OwnedInv
    <2>4. \A i \in DOMAIN stack' :
             /\ stack'[i].fn = "sh_exec" <=> i = 1
             /\ stack'[i].fn = "sh_exec" => stack'[i].entries = stack'[i].buf
      BY <1>2, <1>3, <2>1 DEF ShellInv, OwnedInv, n
    <2> QED
      BY <2>2, <2>3, <2>4 DEF OwnedInv, Owns
  <1>6. StrtokInv'
    <2>1. stack'[n].buf \in used'
      BY <1>0, <1>1 DEF n, Owns
    <2> QED
      BY <1>1, <1>2, <1>3, <2>1 DEF StrtokInv, StrtokOwned, Finished
  <1>7. TextInv'
    BY <1>1, <1>2 DEF TextInv, n
  <1>8. LoadInv'
    BY RangeEmpty DEF LoadInv
  <1> QED
    BY <1>4, <1>5, <1>6, <1>7, <1>8 DEF ShellInv

\* The innermost activation goes on after a command that ran no script; one
\* that was being loaded has freed all it had.
LEMMA GoOn ==
    ASSUME ShellInv, stack # <<>>, Top.token # NULL,
           used' = used \ Range(loading), loading' = <<>>, mem' = mem,
           \/ Advance(stack)
           \/ \E status \in Nat : Advance(Returned(stack, status, FALSE))
    PROVE  ShellInv'
  <1>0. stack \in Seq(Frames) /\ stack # <<>> /\ Len(stack) \in Nat \ {0}
        /\ DOMAIN stack = 1 .. Len(stack)
    BY EmptySeq DEF ShellInv, ShellType
  <1>1. /\ used' = UNION {Owns(stack[i]) : i \in 1 .. Len(stack)}
        /\ last # NULL => last[1] = stack[Len(stack)].buf
        /\ stack[Len(stack)].token # NULL
        /\ stack[Len(stack)].nested \/ Left(mem, stack[Len(stack)], last)
    <2>1. used = (UNION {Owns(stack[i]) : i \in 1 .. Len(stack)}) \cup Range(loading)
      BY <1>0 DEF ShellInv, OwnedInv, MemoryOwned, Owns
    <2>2. \A i \in 1 .. Len(stack) : Owns(stack[i]) \cap Range(loading) = {}
      BY <1>0 DEF ShellInv, LoadInv
    <2>3. used' = UNION {Owns(stack[i]) : i \in 1 .. Len(stack)}
      <3> DEFINE U == UNION {Owns(stack[i]) : i \in 1 .. Len(stack)}
      <3>1. U \cap Range(loading) = {}
        BY <2>2
      <3>2. used = U \cup Range(loading)
        BY <2>1
      <3> HIDE DEF U
      <3>3. used' = U
        BY <3>1, <3>2
      <3> QED
        BY <3>3 DEF U
    <2> QED
      BY <1>0, <2>3 DEF ShellInv, StrtokInv, StrtokOwned, TextInv, Top
  <1>2. CASE Advance(stack)
    BY <1>0, <1>1, <1>2, AdvanceStep
  <1>3. ASSUME NEW status \in Nat, Advance(Returned(stack, status, FALSE))
        PROVE  ShellInv'
    <2> DEFINE frames == Returned(stack, status, FALSE)
               n == Len(stack)
    <2>1. /\ frames \in Seq(Frames) /\ Len(frames) = n
          /\ \A i \in 1 .. n - 1 : frames[i] = stack[i]
          /\ frames[n].fn = stack[n].fn /\ frames[n].buf = stack[n].buf
          /\ frames[n].entries = stack[n].entries
          /\ frames[n].token = stack[n].token /\ frames[n].pos = stack[n].pos
          /\ frames[n].nested = (stack[n].nested \/ FALSE)
      BY <1>0, ReturnedIs
    <2>2. Advance(frames)
      BY <1>3
    <2> HIDE DEF frames
    <2>3. \A i \in 1 .. n : /\ frames[i].fn = stack[i].fn
                            /\ frames[i].buf = stack[i].buf
                            /\ frames[i].entries = stack[i].entries
                            /\ frames[i].token = stack[i].token
      BY <1>0, <2>1
    <2>4. frames[n].nested \/ Left(mem, frames[n], last)
      BY <1>1, <2>1 DEF Left, ShellInv, ShellType, Frames
    <2>5. frames # <<>>
      BY <1>0, <2>1
    <2>6. used' = UNION {Owns(frames[i]) : i \in 1 .. n}
      BY <1>1, <2>3 DEF Owns
    <2>7. /\ last # NULL => last[1] = frames[n].buf
          /\ frames[n].token # NULL /\ n <= Len(stack) /\ mem' = mem
      BY <1>0, <1>1, <2>1
    <2>8. /\ Len(frames) = n /\ frames \in Seq(Frames)
      BY <2>1
    <2> HIDE DEF n
    <2> QED
      BY <2>2, <2>3, <2>4, <2>5, <2>6, <2>7, <2>8, AdvanceStep
  <1> QED
    BY <1>2, <1>3

-----------------------------------------------------------------------------
(* Activations begin and end. *)

\* A new activation of fn, with block b for its text.
LEMMA FrameIs ==
    ASSUME NEW fn \in Interpreters, NEW b \in Blocks, NEW e \in Blocks,
           NEW m \in [Blocks -> Seq(Symbols)], NEW text \in Seq(Symbols),
           m[b] = text
    PROVE  LET r == strtok(m, <<b, 1>>, Delimiter(fn))
               f == Frame(fn, b, e, text, r) IN
           /\ f \in Frames /\ f.fn = fn /\ f.buf = b /\ f.entries = e
           /\ ~f.nested
           /\ f.token # NULL => f.token[1] = b
           /\ r.last \in Positions
           /\ r.last # NULL => r.last[1] = b /\ f.token # NULL
           /\ Left(m, f, r.last)
  <1> DEFINE r == strtok(m, <<b, 1>>, Delimiter(fn))
             f == Frame(fn, b, e, text, r)
             at == <<b, 1>>
  <1>1. at \in Positions /\ at[1] = b /\ at[2] = 1 /\ at # NULL
    BY DEF Positions, NULL
  <1>2. /\ r.token \in Pieces /\ r.last \in Positions
        /\ r.token # NULL => r.token[1] = b
        /\ r.last # NULL => /\ r.token # NULL
                            /\ r.last[1] = b
                            /\ r.last[2] = r.token[3] + 2
                            /\ r.token[3] + 1 <= Len(text)
                            /\ text[r.token[3] + 1] = Delimiter(fn)
        /\ r.token # NULL /\ r.last = NULL => r.token[3] = Len(text)
    BY <1>1, StrtokIs
  <1> HIDE DEF r
  <1>3. Len(text) \in Nat /\ (r.token # NULL => r.token[3] \in Nat)
    BY <1>2 DEF Pieces
  <1>4. /\ f.fn = fn /\ f.buf = b /\ f.entries = e /\ f.token = r.token
        /\ f.pos = (IF r.token = NULL THEN Len(text) ELSE r.token[3])
        /\ ~f.nested
    BY DEF Frame
  <1>5. f \in Frames
    BY <1>2, <1>3 DEF Frame, Frames
  <1> HIDE DEF f
  <1>6. Left(m, f, r.last)
    BY <1>2, <1>3, <1>4 DEF Left
  <1> QED
    BY <1>2, <1>4, <1>5, <1>6 DEF r, f

\* kmalloc returns a block that nobody has.
LEMMA FreshBlock ==
    ASSUME NEW S, S \subseteq Blocks, S # {}
    PROVE  Min(S) \in S
  <1>1. S \subseteq Nat
    BY DEF Blocks
  <1> QED
    BY <1>1, MinIsLeast

\* sh_exec is called from the prompt.
LEMMA ShExecStep ==
    ASSUME ShellInv, NEW line \in Lines, ShExec(line)
    PROVE  ShellInv'
  <1> DEFINE b == Min(FreeBlocks)
             m == [mem EXCEPT ![b] = line]
             r == strtok(m, <<b, 1>>, Amp)
             f == Frame("sh_exec", b, b, line, r)
  <1>1. b \in FreeBlocks /\ b \in Blocks
    BY FreshBlock DEF ShExec, FreeBlocks
  <1>2. /\ stack = <<>> /\ used' = used \cup {b} /\ mem' = m /\ last' = r.last
        /\ stack' = <<f>>
    BY DEF ShExec
  <1>3. used = {} /\ loading = <<>> /\ loading' = <<>>
    BY <1>2, RangeEmpty DEF ShellInv, OwnedInv, MemoryOwned, LoadInv, ShExec
  <1>4. line \in Seq(Symbols)
    BY ShellAssumption DEF ShellAssumption
  <1> HIDE DEF b
  <1>5. m \in [Blocks -> Seq(Symbols)] /\ m[b] = line
    BY <1>1, <1>4 DEF ShellInv, ShellType
  <1>6. Amp = Delimiter("sh_exec") /\ "sh_exec" \in Interpreters
    BY DEF Delimiter, Interpreters
  <1> HIDE DEF m
  <1>7. /\ f \in Frames /\ f.fn = "sh_exec" /\ f.buf = b /\ f.entries = b
        /\ ~f.nested
        /\ f.token # NULL => f.token[1] = b
        /\ r.last \in Positions
        /\ r.last # NULL => r.last[1] = b /\ f.token # NULL
        /\ Left(m, f, r.last)
    BY <1>1, <1>4, <1>5, <1>6, FrameIs
  <1> HIDE DEF f, r
  <1>8. /\ stack' \in Seq(Frames) /\ Len(stack') = 1 /\ stack' # <<>>
        /\ DOMAIN stack' = {1} /\ stack'[1] = f /\ Top' = f
    BY <1>2, <1>7 DEF Top
  <1>9. ShellType'
    BY <1>1, <1>2, <1>3, <1>5, <1>7, <1>8, EmptySeq DEF ShellType
  <1>10. OwnedInv'
    BY <1>2, <1>3, <1>7, <1>8, RangeEmpty DEF OwnedInv, MemoryOwned, Owns
  <1>11. StrtokInv' /\ TextInv'
    BY <1>2, <1>7, <1>8 DEF StrtokInv, StrtokOwned, Finished, TextInv
  <1>12. LoadInv'
    BY <1>3, RangeEmpty DEF LoadInv
  <1> QED
    BY <1>9, <1>10, <1>11, <1>12 DEF ShellInv

\* sh_exec returns to the prompt.
LEMMA ShExecEndStep == ShellInv /\ ShExecEnd => ShellInv'
  <1> SUFFICES ASSUME ShellInv, ShExecEnd PROVE ShellInv'
    OBVIOUS
  <1>0. stack \in Seq(Frames) /\ stack # <<>> /\ Len(stack) \in Nat \ {0}
        /\ DOMAIN stack = 1 .. Len(stack)
    BY EmptySeq DEF ShExecEnd, Finished, ShellInv, ShellType
  <1>1. Len(stack) = 1 /\ stack[1].entries = stack[1].buf
    BY <1>0 DEF ShExecEnd, Top, ShellInv, OwnedInv
  <1>l. loading = <<>> /\ loading' = <<>>
    BY DEF ShExecEnd, Finished, ShellInv, LoadInv
  <1>2. used = {Top.buf}
    <2>1. DOMAIN stack = {1}
      BY <1>0, <1>1
    <2>2. used = (UNION {{stack[i].buf, stack[i].entries} : i \in {1}}) \cup Range(loading)
      BY <2>1 DEF ShellInv, OwnedInv, MemoryOwned
    <2>3. Range(loading) = {}
      BY <1>l, RangeEmpty
    <2> QED
      BY <1>1, <2>2, <2>3 DEF Top
  <1>3. /\ used' = {} /\ stack' = <<>> /\ last' = NULL /\ loading' = <<>>
        /\ mem' = [b \in Blocks |-> <<>>]
    BY <1>2, <1>l DEF ShExecEnd, ShellInv, StrtokInv
  <1>4. ShellType'
    BY <1>3, EmptySeq DEF ShellType, Positions
  <1> QED
    BY <1>3, <1>4, RangeEmpty
    DEF ShellInv, OwnedInv, LoadInv, MemoryOwned, StrtokInv, StrtokOwned, Finished,
        TextInv

\* kmalloc gives one more block to the script being loaded.
LEMMA ObtainStep ==
    ASSUME ShellInv, Obtain, stack # <<>>, Top.token # NULL
    PROVE  ShellInv'
  <1> DEFINE b == Min(FreeBlocks)
             k == Len(loading)
  <1>1. b \in Blocks /\ b \notin used
    BY FreshBlock DEF Obtain, FreeBlocks
  <1>2. /\ used' = used \cup {b} /\ loading' = Append(loading, b)
        /\ UNCHANGED <<stack, mem, last, harmed>>
    BY DEF Obtain
  <1> HIDE DEF b
  <1>3. loading \in Seq(Blocks) /\ k \in Nat /\ DOMAIN loading = 1 .. k
    BY DEF ShellInv, ShellType
  <1>4. /\ loading' \in Seq(Blocks) /\ Len(loading') = k + 1
        /\ DOMAIN loading' = 1 .. k + 1
        /\ \A i \in 1 .. k : loading'[i] = loading[i]
        /\ loading'[k + 1] = b
    BY <1>1, <1>2, <1>3, AppendProperties
  <1>5. /\ k + 1 \in 1 .. k + 1
        /\ \A i \in 1 .. k : i \in 1 .. k + 1
        /\ \A i \in 1 .. k + 1 : i \in 1 .. k \/ i = k + 1
    <2> HIDE DEF k
    <2> QED  BY <1>3
  <1> HIDE DEF k
  <1>6. Range(loading') = Range(loading) \cup {b}
    <2>1. \A x \in Range(loading') : x \in Range(loading) \cup {b}
      BY <1>3, <1>4, <1>5 DEF Range
    <2>2. \A x \in Range(loading) \cup {b} : x \in Range(loading')
      BY <1>3, <1>4, <1>5 DEF Range
    <2> QED  BY <2>1, <2>2
  <1>7. used = (UNION {Owns(stack[i]) : i \in DOMAIN stack}) \cup Range(loading)
    BY DEF ShellInv, OwnedInv, MemoryOwned, Owns
  <1>8. MemoryOwned'
    <2>1. used' = (UNION {Owns(stack[i]) : i \in DOMAIN stack}) \cup Range(loading')
      <3> DEFINE U == UNION {Owns(stack[i]) : i \in DOMAIN stack}
      <3>1. used = U \cup Range(loading)
        BY <1>7
      <3> HIDE DEF U
      <3>2. used' = U \cup Range(loading')
        BY <1>2, <1>6, <3>1
      <3> QED
        BY <3>2 DEF U
    <2> QED
      BY <1>2, <2>1 DEF MemoryOwned, Owns
  <1>9. LoadInv'
    <2>1. \A i \in 1 .. k : loading[i] \in used
      <3>1. \A i \in 1 .. k : loading[i] \in Range(loading)
        BY <1>3 DEF Range
      <3>2. Range(loading) \subseteq used
        BY <1>7
      <3> QED  BY <3>1, <3>2
    <2>2. \A i, j \in DOMAIN loading' : i # j => loading'[i] # loading'[j]
      <3>1. \A i, j \in 1 .. k : i # j => loading[i] # loading[j]
        BY <1>3 DEF ShellInv, LoadInv
      <3> QED  BY <1>1, <1>4, <1>5, <2>1, <3>1
    <2>3. \A i \in DOMAIN stack : Owns(stack[i]) \cap Range(loading') = {}
      <3>1. \A i \in DOMAIN stack : Owns(stack[i]) \subseteq used
        BY <1>7
      <3>2. \A i \in DOMAIN stack : Owns(stack[i]) \cap Range(loading) = {}
        BY DEF ShellInv, LoadInv
      <3> QED  BY <1>1, <1>6, <3>1, <3>2
    <2>4. stack' = stack /\ Top' = Top
      BY <1>2 DEF Top
    <2> QED
      BY <2>2, <2>3, <2>4 DEF LoadInv
  <1>10. ShellType'
    BY <1>1, <1>2, <1>4 DEF ShellInv, ShellType
  <1>11. OwnedInv'
    BY <1>2, <1>8 DEF ShellInv, OwnedInv
  <1>12. StrtokInv' /\ TextInv'
    BY <1>1, <1>2 DEF ShellInv, StrtokInv, StrtokOwned, TextInv, Finished, Top
  <1> QED
    BY <1>9, <1>10, <1>11, <1>12 DEF ShellInv

\* A script gives up: it frees what it has, and its caller goes on.
LEMMA GiveUpStep ==
    ASSUME ShellInv, stack # <<>>, Top.token # NULL, GiveUp(Range(loading))
    PROVE  ShellInv'
  BY GoOn DEF GiveUp

\* What a script has while it is loaded.
LEMMA LoadingIs ==
    ASSUME ShellInv
    PROVE  /\ loading = <<>> => Range(loading) = {}
           /\ Len(loading) = 1 => /\ Range(loading) = {loading[1]}
                                  /\ stack # <<>> /\ Top.token # NULL
           /\ Len(loading) = 2 => /\ Range(loading) = {loading[1], loading[2]}
                                  /\ loading[1] \in Blocks /\ loading[2] \in Blocks
                                  /\ loading[1] # loading[2]
                                  /\ stack # <<>> /\ Top.token # NULL
  <1>1. loading \in Seq(Blocks) /\ DOMAIN loading = 1 .. Len(loading)
    BY DEF ShellInv, ShellType
  <1>2. loading # <<>> => stack # <<>> /\ Top.token # NULL
    BY DEF ShellInv, LoadInv
  <1>e. loading = <<>> => Len(loading) = 0
    OBVIOUS
  <1>3. Len(loading) = 1 => DOMAIN loading = {1} /\ loading # <<>>
    BY <1>1, <1>e
  <1>4. Len(loading) = 2 => DOMAIN loading = {1, 2} /\ loading # <<>>
    BY <1>1, <1>e
  <1>5. Len(loading) = 2 => loading[1] # loading[2]
    <2>1. \A i, j \in DOMAIN loading : i # j => loading[i] # loading[j]
      BY DEF ShellInv, LoadInv
    <2> QED
      BY <1>4, <2>1
  <1>6. Len(loading) = 2 => loading[1] \in Blocks /\ loading[2] \in Blocks
    <2>1. \A i \in DOMAIN loading : loading[i] \in Blocks
      BY <1>1, ElementOfSeq
    <2> QED
      BY <1>4, <2>1
  <1> QED
    BY <1>2, <1>3, <1>4, <1>5, <1>6, RangeEmpty DEF Range

\* A script starts: the caller's position in strtok is overwritten.
LEMMA ScriptStartsStep == ShellInv /\ ScriptStarts => ShellInv'
  <1> SUFFICES ASSUME ShellInv, ScriptStarts PROVE ShellInv'
    OBVIOUS
  <1> DEFINE fn      == Interpreter
             text    == Scripts[Command.arg]
             entries == loading[1]
             b       == loading[2]
             m       == [mem EXCEPT ![b] = text]
             r       == strtok(m, <<b, 1>>, Newline)
             f       == Frame(fn, b, entries, text, r)
             n       == Len(stack)
  <1>1. /\ used' = used /\ mem' = m /\ last' = r.last /\ loading' = <<>>
        /\ stack' = Append(stack, f) /\ stack # <<>>
    BY LoadingIs DEF ScriptStarts, ReadsFile
  <1>2. /\ entries \in Blocks /\ b \in Blocks /\ b # entries
        /\ Range(loading) = {entries, b}
    BY LoadingIs DEF ScriptStarts, ReadsFile
  <1>3. text \in Seq(Symbols)
    BY ShellAssumption DEF ShellAssumption, ScriptStarts
  <1>4. fn \in Interpreters /\ fn # "sh_exec" /\ Newline = Delimiter(fn)
    BY DEF Interpreter, Interpreters, Delimiter
  <1> HIDE DEF b, entries, text, fn
  <1>5. /\ m \in [Blocks -> Seq(Symbols)] /\ m[b] = text
        /\ \A c \in Blocks \ {b} : m[c] = mem[c]
    BY <1>2, <1>3 DEF ShellInv, ShellType
  <1> HIDE DEF m
  <1>6. /\ f \in Frames /\ f.fn = fn /\ f.buf = b /\ f.entries = entries
        /\ ~f.nested
        /\ f.token # NULL => f.token[1] = b
        /\ r.last \in Positions
        /\ r.last # NULL => r.last[1] = b /\ f.token # NULL
        /\ Left(m, f, r.last)
    BY <1>2, <1>3, <1>4, <1>5, FrameIs
  <1> HIDE DEF f, r
  <1>7. /\ stack \in Seq(Frames) /\ n \in Nat \ {0} /\ DOMAIN stack = 1 .. n
    BY <1>1, EmptySeq DEF ShellInv, ShellType
  <1>8. /\ stack' \in Seq(Frames) /\ stack' # <<>> /\ Len(stack') = n + 1
        /\ DOMAIN stack' = 1 .. n + 1
        /\ \A i \in 1 .. n : stack'[i] = stack[i]
        /\ stack'[n + 1] = f /\ Top' = f
    <2>1. /\ stack' \in Seq(Frames) /\ stack' # <<>> /\ Len(stack') = n + 1
          /\ \A i \in 1 .. n : stack'[i] = stack[i]
          /\ stack'[n + 1] = f
      BY <1>1, <1>6, <1>7, AppendProperties
    <2> QED
      BY <2>1 DEF Top
  <1> HIDE DEF n
  <1>9. ShellType'
    BY <1>1, <1>2, <1>5, <1>6, <1>8, EmptySeq DEF ShellInv, ShellType
  <1>10. OwnedInv'
    <2>1. Owns(f) = Range(loading)
      BY <1>2, <1>6 DEF Owns
    <2>2. \A i \in 1 .. n : Owns(stack[i]) \cap Owns(f) = {}
      BY <1>7, <2>1 DEF ShellInv, LoadInv
    <2>3. MemoryOwned'
      <3>1. used = (UNION {Owns(stack[i]) : i \in 1 .. n}) \cup Owns(f)
        BY <1>7, <2>1 DEF ShellInv, OwnedInv, MemoryOwned, Owns
      <3>2. /\ n + 1 \in 1 .. n + 1
            /\ \A i \in 1 .. n : i \in 1 .. n + 1
            /\ \A i \in 1 .. n + 1 : i \in 1 .. n \/ i = n + 1
        BY <1>7
      <3>3. used' = UNION {Owns(stack'[i]) : i \in 1 .. n + 1}
        <4> DEFINE U == UNION {Owns(stack[i]) : i \in 1 .. n}
                   V == UNION {Owns(stack'[i]) : i \in 1 .. n + 1}
        <4>1. \A x \in U \cup Owns(f) : x \in V
          BY <1>8, <3>2
        <4>2. \A x \in V : x \in U \cup Owns(f)
          <5> TAKE x \in V
          <5>1. PICK i \in 1 .. n + 1 : x \in Owns(stack'[i])
            OBVIOUS
          <5>2. CASE i \in 1 .. n
            BY <1>8, <5>1, <5>2
          <5>3. CASE i = n + 1
            BY <1>8, <5>1, <5>3
          <5> QED  BY <3>2, <5>2, <5>3
        <4> HIDE DEF U, V
        <4>3. used' = V
          BY <1>1, <3>1, <4>1, <4>2 DEF U
        <4> QED  BY <4>3 DEF V
      <3> QED
        BY <1>1, <1>8, <3>3, RangeEmpty DEF MemoryOwned, Owns
    <2>4. ASSUME NEW i \in 1 .. n + 1, NEW j \in 1 .. n + 1, i # j
          PROVE  Owns(stack'[i]) \cap Owns(stack'[j]) = {}
      <3>1. CASE i \in 1 .. n /\ j \in 1 .. n
        BY <1>7, <1>8, <2>4, <3>1 DEF ShellInv, OwnedInv
      <3>2. CASE i = n + 1 /\ j \in 1 .. n
        BY <1>8, <2>2, <3>2
      <3>3. CASE j = n + 1 /\ i \in 1 .. n
        BY <1>8, <2>2, <3>3
      <3> QED
        BY <1>7, <2>4, <3>1, <3>2, <3>3
    <2>5. ASSUME NEW i \in 1 .. n + 1
          PROVE  /\ stack'[i].fn = "sh_exec" <=> i = 1
                 /\ stack'[i].fn = "sh_exec" => stack'[i].entries = stack'[i].buf
      <3>1. CASE i \in 1 .. n
        BY <1>7, <1>8, <3>1 DEF ShellInv, OwnedInv
      <3>2. CASE i = n + 1
        BY <1>4, <1>6, <1>7, <1>8, <3>2
      <3> QED  BY <1>7, <3>1, <3>2
    <2> QED
      BY <1>8, <2>3, <2>4, <2>5 DEF OwnedInv, Owns
  <1>11. StrtokInv'
    <2>1. ASSUME NEW i \in 1 .. n + 1
          PROVE  stack'[i].token # NULL => stack'[i].token[1] = stack'[i].buf
      <3>1. CASE i \in 1 .. n
        BY <1>7, <1>8, <3>1 DEF ShellInv, StrtokInv, StrtokOwned
      <3>2. CASE i = n + 1
        BY <1>6, <1>8, <3>2
      <3> QED  BY <1>7, <3>1, <3>2
    <2>2. b \in used'
      <3>1. Range(loading) \subseteq used
        BY DEF ShellInv, OwnedInv, MemoryOwned
      <3> QED
        BY <1>1, <1>2, <3>1
    <2> QED
      BY <1>1, <1>6, <1>8, <2>1, <2>2 DEF StrtokInv, StrtokOwned, Finished
  <1>12. TextInv'
    BY <1>1, <1>6, <1>8 DEF TextInv
  <1>13. LoadInv'
    BY <1>1, RangeEmpty DEF LoadInv
  <1> QED
    BY <1>9, <1>10, <1>11, <1>12, <1>13 DEF ShellInv

\* A script ends: strtok's pointer is NULL, and its caller goes on with that.
LEMMA ScriptEndsStep == ShellInv /\ ScriptEnds => ShellInv'
  <1> SUFFICES ASSUME ShellInv, ScriptEnds PROVE ShellInv'
    OBVIOUS
  <1> DEFINE n == Len(stack)
             frames == Returned(Below, ScriptStatus, TRUE)
  <1>0. /\ stack \in Seq(Frames) /\ n \in Nat \ {0} /\ DOMAIN stack = 1 .. n
    BY EmptySeq DEF ScriptEnds, Finished, ShellInv, ShellType
  <1>n. /\ n \in Nat \ {0}
        /\ \A i \in 1 .. n - 1 : (i \in 1 .. n - 2 \/ i = n - 1) /\ i \in 1 .. n /\ i # n
        /\ \A i \in 1 .. n : i \in 1 .. n - 1 \/ i = n
        /\ n \in 1 .. n
    <2>1. n \in Nat \ {0}
      BY <1>0
    <2> HIDE DEF n
    <2> QED  BY <2>1
  <1>1. n # 1
    BY <1>0 DEF ScriptEnds, Top, ShellInv, OwnedInv
  <1>2. /\ Below \in Seq(Frames) /\ Len(Below) = n - 1 /\ Below # <<>>
        /\ \A i \in 1 .. n - 1 : Below[i] = stack[i]
    <2>1. \A i \in 1 .. n - 1 : stack[i] \in Frames
      BY <1>0
    <2>2. /\ Below \in Seq(Frames) /\ Len(Below) = n - 1
          /\ \A i \in 1 .. n - 1 : Below[i] = stack[i]
      <3>1. n - 1 \in Int /\ 1 \in Int /\ 1 <= n - 1
        BY <1>0, <1>1
      <3>2. /\ SubSeq(stack, 1, n - 1) \in Seq(Frames)
            /\ Len(SubSeq(stack, 1, n - 1)) = (n - 1) - 1 + 1
            /\ \A i \in 1 .. (n - 1) - 1 + 1 :
                  SubSeq(stack, 1, n - 1)[i] = stack[1 + i - 1]
        BY <2>1, <3>1, SubSeqProperties
      <3> QED
        BY <3>1, <3>2 DEF Below
    <2> QED
      BY <1>0, <1>1, <2>2
  <1>3. ScriptStatus \in Nat
    BY DEF ScriptStatus
  <1>4. /\ frames \in Seq(Frames) /\ Len(frames) = n - 1
        /\ \A i \in 1 .. n - 2 : frames[i] = Below[i]
        /\ frames[n - 1].fn = Below[n - 1].fn /\ frames[n - 1].buf = Below[n - 1].buf
        /\ frames[n - 1].entries = Below[n - 1].entries
        /\ frames[n - 1].token = Below[n - 1].token
        /\ frames[n - 1].nested
    <2> DEFINE k == Len(Below)
    <2>1. /\ frames \in Seq(Frames) /\ Len(frames) = k
          /\ \A i \in 1 .. k - 1 : frames[i] = Below[i]
          /\ frames[k].fn = Below[k].fn /\ frames[k].buf = Below[k].buf
          /\ frames[k].entries = Below[k].entries
          /\ frames[k].token = Below[k].token
          /\ frames[k].nested = (Below[k].nested \/ TRUE)
      BY <1>2, <1>3, ReturnedIs
    <2>2. k = n - 1 /\ k - 1 = n - 2
      BY <1>0, <1>2
    <2> HIDE DEF frames
    <2> QED  BY <2>1, <2>2
  <1>5. /\ used' = used \ {Top.buf, Top.entries} /\ mem' = mem
        /\ Advance(frames)
        /\ loading = <<>> /\ loading' = <<>>
    BY DEF ScriptEnds, Finished, ShellInv, LoadInv
  <1> HIDE DEF frames
  <1>6. \A i \in 1 .. n - 1 : /\ frames[i].fn = stack[i].fn
                              /\ frames[i].buf = stack[i].buf
                              /\ frames[i].entries = stack[i].entries
                              /\ frames[i].token = stack[i].token
    BY <1>2, <1>4, <1>n
  <1>7. used' = UNION {Owns(frames[i]) : i \in 1 .. n - 1}
    <2>1. used = UNION {Owns(stack[i]) : i \in 1 .. n}
      BY <1>0, <1>5, RangeEmpty DEF ShellInv, OwnedInv, MemoryOwned, Owns
    <2>2. \A i \in 1 .. n - 1 : /\ Owns(frames[i]) = Owns(stack[i])
                                /\ Owns(stack[i]) \cap Owns(Top) = {}
                                /\ Owns(stack[i]) \subseteq used
      <3>1. \A i \in 1 .. n - 1 : Owns(frames[i]) = Owns(stack[i])
        BY <1>6 DEF Owns
      <3>2. \A i \in 1 .. n - 1 : Owns(stack[i]) \cap Owns(stack[n]) = {}
        BY <1>0, <1>n DEF ShellInv, OwnedInv
      <3>3. \A i \in 1 .. n - 1 : Owns(stack[i]) \subseteq used
        BY <1>n, <2>1
      <3> QED
        BY <3>1, <3>2, <3>3 DEF Top
    <2>3. \A i \in 1 .. n : i \in 1 .. n - 1 \/ stack[i] = Top
      BY <1>n DEF Top
    <2>4. used' = used \ Owns(Top)
      BY <1>5 DEF Owns
    <2> QED
      BY <2>1, <2>2, <2>3, <2>4
  <1>8. last = NULL
    BY DEF ScriptEnds, ShellInv, StrtokInv
  <1>9. frames # <<>> /\ n - 1 <= Len(stack)
    BY <1>0, <1>1, <1>4
  <1>10. frames \in Seq(Frames) /\ Len(frames) = n - 1 /\ frames[n - 1].nested
    BY <1>4
  <1> HIDE DEF n
  <1> QED
    BY <1>5, <1>6, <1>7, <1>8, <1>9, <1>10, AdvanceStep

LEMMA ShellStep == ShellInv /\ [Next]_vars => ShellInv'
  <1> SUFFICES ASSUME ShellInv, [Next]_vars PROVE ShellInv'
    OBVIOUS
  <1>1. CASE UNCHANGED vars
    <2>1. Top' = Top /\ Finished' = Finished
      BY <1>1 DEF vars, Finished, Top
    <2>2. LoadInv'
      BY <1>1, <2>1 DEF vars, ShellInv, LoadInv
    <2> QED
      BY <1>1, <2>1, <2>2
      DEF vars, ShellInv, ShellType, OwnedInv, MemoryOwned, StrtokInv, StrtokOwned,
          TextInv
  <1>2. CASE \E line \in Lines : ShExec(line)
    BY <1>2, ShExecStep
  <1>3. CASE ShExecEnd
    BY <1>3, ShExecEndStep
  <1>r. ASSUME Running
        PROVE  stack # <<>> /\ Top.token # NULL /\ loading = <<>> /\ Range(loading) = {}
    BY <1>r, RangeEmpty DEF Running
  <1>4. CASE Skip \/ SetVariable
    BY <1>4, <1>r, GoOn DEF Skip, SetVariable, Assigns, Runs
  <1>5. CASE Simple
    <2>1. Status \in Nat
      BY DEF Status
    <2> QED
      BY <1>5, <1>r, <2>1, GoOn DEF Simple, Executes, Runs
  <1>6. CASE Overrun
    <2>1. Top' = Top /\ ~Finished'
      BY <1>6 DEF Overrun, Finished, Top
    <2>2. LoadInv'
      BY <1>6, <2>1 DEF Overrun, ShellInv, LoadInv
    <2> QED
      BY <1>6, <2>1, <2>2
      DEF Overrun, ShellInv, ShellType, OwnedInv, MemoryOwned, StrtokInv, StrtokOwned,
          TextInv
  <1>7. CASE ScriptNoMemory
    BY <1>7, <1>r, GiveUpStep DEF ScriptNoMemory, Calls, Executes, Runs
  <1>8. CASE ScriptNoDirectory \/ ScriptNotFound \/ ScriptNoBuffer
    BY <1>8, LoadingIs, GiveUpStep
    DEF ScriptNoDirectory, ScriptNotFound, ScriptNoBuffer, ReadsDirectory
  <1>9. CASE ScriptNotRead
    BY <1>9, LoadingIs, GiveUpStep DEF ScriptNotRead, ReadsFile
  <1>10. CASE ScriptCalled
    BY <1>10, <1>r, ObtainStep DEF ScriptCalled, Calls, Executes, Runs
  <1>11. CASE ScriptFound
    BY <1>11, LoadingIs, ObtainStep DEF ScriptFound, ReadsDirectory
  <1>12. CASE ScriptStarts
    BY <1>12, ScriptStartsStep
  <1>13. CASE ScriptEnds
    BY <1>13, ScriptEndsStep
  <1> QED
    BY <1>1, <1>2, <1>3, <1>4, <1>5, <1>6, <1>7, <1>8, <1>9, <1>10, <1>11, <1>12, <1>13
    DEF Next, Interpret

LEMMA ShellAlways == Spec => []ShellInv
  <1>1. Init => ShellInv
    <2> SUFFICES ASSUME Init PROVE ShellInv
      OBVIOUS
    <2>1. ShellType
      BY EmptySeq DEF Init, ShellType, Positions
    <2>2. Range(loading) = {}
      BY RangeEmpty DEF Init
    <2> QED
      BY <2>1, <2>2
      DEF Init, ShellInv, OwnedInv, LoadInv, MemoryOwned, StrtokInv, StrtokOwned,
          TextInv, Finished
  <1> QED
    BY <1>1, ShellStep, PTL DEF Spec

\* Whatever is typed and whatever the scripts call, with each allocation and
\* each disk read of a script failing at any point: what is allocated is what the
\* active interpreters will free.  Every exit has its own kfree calls in the model.
THEOREM NoLeakNoUseAfterFree == Spec => []MemoryOwned
  <1>1. ShellInv => MemoryOwned
    BY DEF ShellInv, OwnedInv
  <1> QED
    BY <1>1, ShellAlways, PTL

\* strtok's static pointer never dangles, and no interpreter is ever handed a
\* piece of another's text, at any depth of recursion.
THEOREM StrtokNeverDangles == Spec => []StrtokOwned
  <1>1. ShellInv => StrtokOwned
    BY DEF ShellInv, StrtokInv
  <1> QED
    BY <1>1, ShellAlways, PTL

\* strtok loses no command of a text that calls no script.
THEOREM PlainTextsExecuted == Spec => []PlainTextExecuted
  <1>1. ShellInv => PlainTextExecuted
    <2> SUFFICES ASSUME ShellInv, Finished, ~Top.nested
                 PROVE  Executable(Top) = {}
      BY DEF PlainTextExecuted
    <2>1. \A i \in Top.pos + 1 .. Len(mem[Top.buf]) :
             mem[Top.buf][i] = Delimiter(Top.fn)
      BY DEF ShellInv, TextInv, Finished, Left
    <2>2. Delimiter(Top.fn).cmd \in {"&", "newline"}
      BY DEF Delimiter, Amp, Newline, Symbol
    <2> QED
      BY <2>1, <2>2 DEF Executable
  <1> QED
    BY <1>1, ShellAlways, PTL

-----------------------------------------------------------------------------
(* Variables. *)

\* The table is a sequence of name and value, and every name in it has been
\* assigned to.
EnvInv ==
    /\ \E S : env_vars \in Seq([name : S, value : S])
    /\ \A i \in DOMAIN env_vars : env_vars[i].name \in DOMAIN assigned
    /\ EnvCurrent

\* set_env_var changes the first entry of that name, or adds one.
LEMMA SetVariableStep == EnvInv /\ SetVariable => EnvInv'
  <1> SUFFICES ASSUME EnvInv, SetVariable PROVE EnvInv'
    OBVIOUS
  <1> DEFINE x == Trimmed[1].arg
             v == Trimmed[1].val
             hits == {i \in DOMAIN env_vars : env_vars[i].name = x}
  <1>0. PICK S0 : env_vars \in Seq([name : S0, value : S0])
    BY DEF EnvInv
  <1> DEFINE S == S0 \cup {x, v}
             Entries == [name : S, value : S]
             k == Len(env_vars)
  <1>1. env_vars' = set_env_var(x, v)
    BY DEF SetVariable
  <1>2. /\ DOMAIN assigned' = DOMAIN assigned \cup {x}
        /\ \A y \in DOMAIN assigned \cup {x} :
              assigned'[y] = IF y = x THEN v ELSE assigned[y]
    BY DEF SetVariable
  <1> HIDE DEF x, v
  <1>3. env_vars \in Seq(Entries) /\ k \in Nat /\ DOMAIN env_vars = 1 .. k
    <2>1. [name : S0, value : S0] \subseteq Entries
      OBVIOUS
    <2> HIDE DEF S, Entries
    <2>2. env_vars \in Seq(Entries)
      BY <1>0, <2>1, SeqMonotonic
    <2> QED
      BY <2>2, LenProperties
  <1>4. x \in S /\ v \in S
    OBVIOUS
  <1> HIDE DEF S
  <1>5. k <= MAX_ENV_VARS /\ MAX_ENV_VARS \in Nat
    BY ShellAssumption DEF EnvInv, EnvCurrent, ShellAssumption
  <1>6. CASE hits # {}
    <2> DEFINE h == Min(hits)
    <2>1. h \in hits
      <3>1. hits \subseteq Nat
        BY <1>3
      <3> QED  BY <1>6, <3>1, MinIsLeast
    <2>2. env_vars' = [env_vars EXCEPT ![h].value = v]
      BY <1>1, <1>6 DEF set_env_var
    <2> HIDE DEF h
    <2>3. h \in 1 .. k /\ env_vars[h].name = x /\ env_vars[h] \in Entries
      <3>1. h \in 1 .. k /\ env_vars[h].name = x
        BY <1>3, <2>1
      <3> HIDE DEF Entries
      <3> QED  BY <1>3, <3>1, ElementOfSeq
    <2> DEFINE e == [env_vars[h] EXCEPT !.value = v]
    <2>4. e \in Entries /\ e.name = x /\ e.value = v
      BY <1>4, <2>3
    <2>5. env_vars' = [env_vars EXCEPT ![h] = e]
      BY <2>2
    <2> HIDE DEF e, Entries
    <2>6. /\ env_vars' \in Seq(Entries) /\ Len(env_vars') = k
          /\ DOMAIN env_vars' = 1 .. k
          /\ \A i \in 1 .. k : env_vars'[i] = IF i = h THEN e ELSE env_vars[i]
      BY <1>3, <2>3, <2>4, <2>5, ExceptSeq
    <2>7. \A i \in 1 .. k : env_vars'[i].name = env_vars[i].name
      BY <2>3, <2>4, <2>6
    <2>8. \A i, j \in 1 .. k : env_vars[i].name = env_vars[j].name => i = j
      BY <1>3 DEF EnvInv, EnvCurrent
    <2>9. \A i \in 1 .. k : env_vars'[i].value = assigned'[env_vars'[i].name]
      BY <1>2, <1>3, <2>3, <2>4, <2>6, <2>7, <2>8 DEF EnvInv, EnvCurrent
    <2>10. EnvCurrent'
      BY <1>5, <2>6, <2>7, <2>8, <2>9 DEF EnvCurrent
    <2>11. \A i \in DOMAIN env_vars' : env_vars'[i].name \in DOMAIN assigned'
      BY <1>2, <1>3, <2>6, <2>7 DEF EnvInv
    <2>12. \E T : env_vars' \in Seq([name : T, value : T])
      BY <2>6 DEF Entries
    <2> QED
      BY <2>10, <2>11, <2>12 DEF EnvInv
  <1>7. CASE hits = {} /\ k < MAX_ENV_VARS
    <2> DEFINE e == [name |-> x, value |-> v]
    <2>1. env_vars' = Append(env_vars, e)
      BY <1>1, <1>7 DEF set_env_var
    <2>2. e \in Entries /\ e.name = x /\ e.value = v
      BY <1>4
    <2> HIDE DEF e, Entries
    <2>3. /\ env_vars' \in Seq(Entries) /\ Len(env_vars') = k + 1
          /\ DOMAIN env_vars' = 1 .. k + 1
          /\ \A i \in 1 .. k : env_vars'[i] = env_vars[i]
          /\ env_vars'[k + 1] = e
      BY <1>3, <2>1, <2>2, AppendProperties
    <2>4. \A i \in 1 .. k : env_vars[i].name # x /\ env_vars[i].name \in DOMAIN assigned
      BY <1>3, <1>7 DEF EnvInv
    <2>5. \A i \in 1 .. k + 1 : i \in 1 .. k \/ i = k + 1
      BY <1>3
    <2>6. \A i, j \in 1 .. k + 1 : env_vars'[i].name = env_vars'[j].name => i = j
      <3>1. \A i, j \in 1 .. k : env_vars[i].name = env_vars[j].name => i = j
        BY <1>3 DEF EnvInv, EnvCurrent
      <3>2. \A i \in 1 .. k : env_vars'[i].name = env_vars[i].name /\ env_vars'[i].name # x
        BY <2>3, <2>4
      <3>3. env_vars'[k + 1].name = x
        BY <2>2, <2>3
      <3> QED
        BY <2>5, <3>1, <3>2, <3>3, Zenon
    <2>7. \A i \in 1 .. k + 1 : env_vars'[i].value = assigned'[env_vars'[i].name]
      BY <1>2, <1>3, <2>2, <2>3, <2>4, <2>5 DEF EnvInv, EnvCurrent
    <2>8. \A i \in 1 .. k + 1 : env_vars'[i].name \in DOMAIN assigned'
      BY <1>2, <2>2, <2>3, <2>4, <2>5
    <2>9. Len(env_vars') <= MAX_ENV_VARS
      BY <1>3, <1>5, <1>7, <2>3
    <2>10. \E T : env_vars' \in Seq([name : T, value : T])
      BY <2>3 DEF Entries
    <2> QED
      BY <2>3, <2>6, <2>7, <2>8, <2>9, <2>10 DEF EnvInv, EnvCurrent
  <1>8. CASE hits = {} /\ ~(k < MAX_ENV_VARS)
    <2>1. env_vars' = env_vars
      BY <1>1, <1>8 DEF set_env_var
    <2>2. \A i \in DOMAIN env_vars : env_vars[i].name # x
      BY <1>8
    <2> QED
      BY <1>0, <1>2, <2>1, <2>2 DEF EnvInv, EnvCurrent
  <1> QED
    BY <1>6, <1>7, <1>8

\* get_env_var finds each variable once and with its last value, unless the
\* table was full when it was first assigned.
THEOREM VariablesCurrent == Spec => []EnvCurrent
  <1>1. Init => EnvInv
    <2> SUFFICES ASSUME Init PROVE EnvInv
      OBVIOUS
    <2>1. env_vars \in Seq([name : {}, value : {}]) /\ Len(env_vars) = 0
          /\ DOMAIN env_vars = {}
      BY EmptySeq DEF Init
    <2>2. 0 <= MAX_ENV_VARS
      BY ShellAssumption DEF ShellAssumption
    <2> QED
      BY <2>1, <2>2 DEF EnvInv, EnvCurrent
  <1>2. EnvInv /\ [Next]_vars => EnvInv'
    <2> SUFFICES ASSUME EnvInv, [Next]_vars PROVE EnvInv'
      OBVIOUS
    <2>1. CASE SetVariable
      BY <2>1, SetVariableStep
    <2>2. CASE UNCHANGED <<env_vars, assigned>>
      BY <2>2 DEF EnvInv, EnvCurrent
    <2> QED
      BY <2>1, <2>2
      DEF Next, Interpret, vars, ShExec, ShExecEnd, Skip, Simple, Overrun,
          ScriptNoMemory, ScriptCalled, ScriptNoDirectory, ScriptNotFound,
          ScriptNoBuffer, ScriptFound, ScriptNotRead, GiveUp, Obtain, ScriptStarts,
          ScriptEnds
  <1>3. EnvInv => EnvCurrent
    BY DEF EnvInv
  <1> QED
    BY <1>1, <1>2, <1>3, PTL DEF Spec

=============================================================================
