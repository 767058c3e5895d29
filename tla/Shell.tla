-------------------------------- MODULE Shell --------------------------------
(***************************************************************************)
(* The shell's command interpreter (src/user/shell.c): command lists       *)
(* (sh_exec), the two script interpreters (sh_execute_script for `sh' and  *)
(* exec_sh_script for `exec'), their recursion through sh_exec_single, and *)
(* the variables of exec scripts.  All of them cut their text into pieces  *)
(* with strtok (src/libc/string.c), which remembers its position in ONE    *)
(* static variable, `last', shared by every level of the recursion.        *)
(*                                                                         *)
(* A text is a sequence of symbols: a whole command is one symbol, and so  *)
(* are the delimiters `&' and newline and a run of blanks.  strtok writes  *)
(* a NUL after each piece; here a piece carries its end instead.  The      *)
(* scheduler commands are in Threads; here a command is known by the       *)
(* status it returns.                                                      *)
(***************************************************************************)
EXTENDS Naturals, Sequences, FiniteSets, FiniteSetsExt, Functions

CONSTANTS
    Lines,          \* the lines typed at the prompt
    Scripts,        \* the script files: [name -> text]
    MAX_ENV_VARS,   \* slots of env_vars (16 in the code)
    MaxBufs,        \* blocks the heap can give to the interpreter
    StackSize,      \* bytes of the shell's stack (8192 in the code)
    StackLimit,     \* bytes after which an overrun must do harm (in the code
                    \* 1 MB at most: that far below lies the kernel's image)
    FrameSize       \* bytes of stack a call takes: [function -> Nat]

\* What a text is made of: a command, its argument, the value it assigns.
Symbols == [cmd : STRING, arg : STRING, val : STRING]

ASSUME ShellAssumption ==
    /\ MAX_ENV_VARS \in Nat
    /\ MaxBufs \in Nat \ {0}
    /\ StackSize \in Nat /\ StackLimit \in Nat /\ StackSize <= StackLimit
    /\ \A fn \in {"sh_exec", "sh_execute_script", "exec_sh_script",
                   "sh_exec_single", "fat32_resolve_path"} : FrameSize[fn] \in Nat
    /\ Lines \subseteq Seq(Symbols)
    /\ \A f \in DOMAIN Scripts : Scripts[f] \in Seq(Symbols)

VARIABLES
    stack,      \* the activations of sh_exec and the script interpreters
    loading,    \* the blocks of a script interpreter that has not come to
                \* its text yet: none, the directory's, the directory's and
                \* the text's
    used,       \* the heap blocks they have allocated
    mem,        \* what the blocks hold; kfree leaves it there
    last,       \* strtok's static pointer
    env_vars,   \* the variables, in the order they were added
    assigned,   \* history: the value last given to each name
    end,        \* the kernel's flag `end', set by exit
    harmed      \* an overrun of the stack has destroyed something

vars == <<stack, loading, used, mem, last, env_vars, assigned, end, harmed>>

-----------------------------------------------------------------------------
(* Symbols and texts.                                                      *)

Symbol(cmd, arg, val) == [cmd |-> cmd, arg |-> arg, val |-> val]
Amp       == Symbol("&", "", "")
Newline   == Symbol("newline", "", "")
Blank     == Symbol("blank", "", "")
Word(c)   == Symbol(c, "", "")          \* a command without arguments
Call(c, f) == Symbol(c, f, "")          \* sh f, exec f
Assign(n, v) == Symbol("=", n, v)       \* n=v
Variable(n) == Symbol("$", n, "")       \* $n or ${n} as a whole line
Comment   == Symbol("#", "", "")

NULL == <<>>
Blocks == 1 .. MaxBufs

Init ==
    /\ stack = <<>>
    /\ loading = <<>>
    /\ used = {}
    /\ mem = [b \in Blocks |-> <<>>]
    /\ last = NULL
    /\ env_vars = <<>>
    /\ assigned = [n \in {} |-> ""]
    /\ end = FALSE
    /\ harmed = FALSE

-----------------------------------------------------------------------------
(* strtok: called with `at' (its argument, or `last' for strtok(NULL, .)). *)
(* A pointer is <<block, index>>, a piece is <<block, first, last>>.       *)

Delimiter(fn) == IF fn = "sh_exec" THEN Amp ELSE Newline

\* Mutant of strtok: the position stays at the delimiter's predecessor.
StrtokSticks(m, at, delim) ==
    IF at = NULL THEN [token |-> NULL, last |-> NULL]
    ELSE LET text == m[at[1]]
             rest == at[2] .. Len(text)
             from == {i \in rest : text[i] # delim}
         IN  IF from = {} THEN [token |-> NULL, last |-> NULL]
             ELSE LET first == Min(from)
                      stops == {i \in rest : i > first /\ text[i] = delim}
                  IN  IF stops = {}
                      THEN [token |-> <<at[1], first, Len(text)>>,
                            last |-> at]
                      ELSE [token |-> <<at[1], first, Min(stops) - 1>>,
                            last |-> <<at[1], Min(stops) + 1>>]

\* Mutant of strtok: it skips a symbol after the delimiter.
StrtokSkips(m, at, delim) ==
    IF at = NULL THEN [token |-> NULL, last |-> NULL]
    ELSE LET text == m[at[1]]
             rest == at[2] .. Len(text)
             from == {i \in rest : text[i] # delim}
         IN  IF from = {} THEN [token |-> NULL, last |-> NULL]
             ELSE LET first == Min(from)
                      stops == {i \in rest : i > first /\ text[i] = delim}
                  IN  IF stops = {}
                      THEN [token |-> <<at[1], first, Len(text)>>, last |-> NULL]
                      ELSE [token |-> <<at[1], first, Min(stops) - 1>>,
                            last |-> <<at[1], Min(stops) + 2>>]

\* Delimiters are skipped; the piece runs to the next one or to the end, and
\* a piece that runs to the end leaves NULL behind.
strtok(m, at, delim) ==
    IF at = NULL THEN [token |-> NULL, last |-> NULL]
    ELSE LET text == m[at[1]]
             rest == at[2] .. Len(text)
             from == {i \in rest : text[i] # delim}
         IN  IF from = {} THEN [token |-> NULL, last |-> NULL]
             ELSE LET first == Min(from)
                      stops == {i \in rest : i > first /\ text[i] = delim}
                  IN  IF stops = {}
                      THEN [token |-> <<at[1], first, Len(text)>>, last |-> NULL]
                      ELSE [token |-> <<at[1], first, Min(stops) - 1>>,
                            last |-> <<at[1], Min(stops) + 1>>]

-----------------------------------------------------------------------------
(* Activations.                                                            *)

Top == stack[Len(stack)]
Below == SubSeq(stack, 1, Len(stack) - 1)
Running == ~harmed /\ stack # <<>> /\ loading = <<>> /\ Top.token # NULL
Finished == ~harmed /\ stack # <<>> /\ Top.token = NULL

\* The symbols of the current piece, without the blanks around the command.
Piece == SubSeq(mem[Top.token[1]], Top.token[2], Top.token[3])
Trimmed == SelectSeq(Piece, LAMBDA s : s # Blank)

\* strstr(token, "&&"): strtok has removed every `&' from the piece.
HasAndAnd ==
    \E i \in 1 .. Len(Trimmed) - 1 : Trimmed[i] = Amp /\ Trimmed[i + 1] = Amp

\* The piece is skipped: nothing but blanks; in a script, a line that begins
\* with `#'; in a list, a command with `&&' after it when one has failed.
Skipped ==
    \/ Trimmed = <<>>
    \/ Top.fn # "sh_exec" /\ Piece[1] = Comment
    \/ Top.fn = "sh_exec" /\ HasAndAnd /\ Top.status # 0

Runs == Running /\ ~Skipped

\* The piece is an assignment, which only exec_sh_script knows of.
Assigns == Runs /\ Top.fn = "exec_sh_script" /\ Trimmed[1].cmd = "="

get_env_var(n) ==
    LET hits == {i \in DOMAIN env_vars : env_vars[i].name = n}
    IN  IF hits = {} THEN "" ELSE env_vars[Min(hits)].value

\* The command handed to sh_exec_single; exec_sh_script expands variables.
Command ==
    LET s == Trimmed[1]
    IN  IF Top.fn = "exec_sh_script" /\ s.cmd = "$"
        THEN Word(get_env_var(s.arg)) ELSE s

\* sh_exec keeps the status of its last command, exec_sh_script that of the
\* last one that failed, sh_execute_script drops it.
StatusAfter(f, status) ==
    CASE f.fn = "sh_exec" -> status
      [] f.fn = "sh_execute_script" -> f.status
      [] f.fn = "exec_sh_script" -> IF status # 0 THEN status ELSE f.status

\* The innermost of frames gets `status' from its command; nested records
\* (history) that the command called strtok itself.
Returned(frames, status, nested) ==
    LET n == Len(frames)
        f == frames[n]
    IN  [frames EXCEPT ![n] = [f EXCEPT !.status = StatusAfter(f, status),
                                        !.nested = @ \/ nested]]

\* The innermost of frames calls strtok(NULL, ...); pos (history) is the end
\* of the last piece it got of its own text.
Advance(frames) ==
    LET n == Len(frames)
        f == frames[n]
        r == strtok(mem, last, Delimiter(f.fn))
    IN  /\ stack' = [frames EXCEPT ![n] =
                       [f EXCEPT !.token = r.token,
                                 !.pos = IF r.token # NULL /\ r.token[1] = f.buf
                                         THEN r.token[3] ELSE @]]
        /\ last' = r.last

-----------------------------------------------------------------------------
(* Memory: kmalloc may fail at any time, and does when MaxBufs are in use. *)

FreeBlocks == Blocks \ used

(* The stack: nothing checks its 8 KiB.  Every activation holds a frame of *)
(* sh_exec_single, with the 4 KiB buffer of `read' in it, for the command  *)
(* that it runs; cd lists the directory into an array of 17 KB.  Frames of *)
(* less than 1 KB that calls of other functions take are left out.         *)

Active(fn) == Cardinality({i \in DOMAIN stack : stack[i].fn = fn})

StackNeeded ==
    FrameSize["sh_exec"]
    + Len(stack) * FrameSize["sh_exec_single"]
    + Active("sh_execute_script") * FrameSize["sh_execute_script"]
    + Active("exec_sh_script") * FrameSize["exec_sh_script"]
    + IF Command.cmd = "cd" THEN FrameSize["fat32_resolve_path"] ELSE 0

\* sh_exec_single is called.  Past its end the stack runs over what lies below
\* it on the heap, which may do no harm -- down to StackLimit.
Executes == Runs /\ ~Assigns /\ StackNeeded <= StackLimit

-----------------------------------------------------------------------------
(* sh_exec.                                                                *)

Frame(fn, buf, entries, text, r) ==
    [fn |-> fn, buf |-> buf, entries |-> entries, token |-> r.token,
     pos |-> IF r.token = NULL THEN Len(text) ELSE r.token[3],
     status |-> IF fn = "sh_exec" THEN 0 ELSE 1,
     nested |-> FALSE]

\* The shell passes a line to sh_exec, which copies it and cuts it at `&'.
ShExec(line) ==
    /\ stack = <<>> /\ ~harmed
    /\ FreeBlocks # {}
    /\ LET b == Min(FreeBlocks)
           m == [mem EXCEPT ![b] = line]
           r == strtok(m, <<b, 1>>, Amp)
       IN  /\ used' = used \cup {b}
           /\ mem' = m
           /\ last' = r.last
           /\ stack' = <<Frame("sh_exec", b, b, line, r)>>
    /\ UNCHANGED <<loading, env_vars, assigned, end, harmed>>

\* The list is done.  What the blocks held is forgotten: the next call of
\* strtok is the one of sh_exec, with a text of its own.
ShExecEnd ==
    /\ Finished /\ Top.fn = "sh_exec"
    /\ used' = used \ {Top.buf}
    /\ mem' = [b \in Blocks |-> <<>>]
    /\ stack' = <<>>
    /\ UNCHANGED <<loading, last, env_vars, assigned, end, harmed>>

-----------------------------------------------------------------------------
(* One piece of the innermost activation.                                  *)

\* Blank pieces, comments, and commands held back by `&&'.
Skip ==
    /\ Running /\ Skipped
    /\ Advance(stack)
    /\ UNCHANGED <<loading, used, mem, env_vars, assigned, end, harmed>>

\* What sh_exec_single returns for a command that calls no script: the empty
\* one (an undefined variable), one that succeeds and exit give 0; one that
\* fails or is unknown gives 1 -- and `#', `=' and `$' are unknown to it.
Status == IF Command.cmd \in {"", "ok", "cd", "exit"} THEN 0 ELSE 1

\* Mutant of Simple: a script stops at exit.
SimpleExitBreaks ==
    /\ Executes
    /\ Command.cmd \notin {"sh", "exec"}
    /\ end' = (end \/ Command.cmd = "exit")
    /\ IF Command.cmd = "exit"
       THEN /\ stack' = [stack EXCEPT ![Len(stack)].token = NULL]
            /\ UNCHANGED last
       ELSE Advance(Returned(stack, Status, FALSE))
    /\ UNCHANGED <<loading, used, mem, env_vars, assigned, harmed>>

\* A command that calls no script.
Simple ==
    /\ Executes
    /\ Command.cmd \notin {"sh", "exec"}
    /\ end' = (end \/ Command.cmd = "exit")
    /\ Advance(Returned(stack, Status, FALSE))
    /\ UNCHANGED <<loading, used, mem, env_vars, assigned, harmed>>

\* The command's frames run over the end of the stack and destroy something
\* that is needed (a thread's record, another thread's stack, the heap's list):
\* what happens from then on is not defined by the code.
Overrun ==
    /\ Runs /\ ~Assigns
    /\ StackNeeded > StackSize
    /\ harmed' = TRUE
    /\ UNCHANGED <<stack, loading, used, mem, last, env_vars, assigned, end>>

-----------------------------------------------------------------------------
(* sh_execute_script and exec_sh_script, up to their first strtok: the     *)
(* directory is read into one block and the file into another.             *)

Interpreter == IF Command.cmd = "sh" THEN "sh_execute_script" ELSE "exec_sh_script"
Calls == Executes /\ Command.cmd \in {"sh", "exec"}

ReadsDirectory == ~harmed /\ Len(loading) = 1
ReadsFile      == ~harmed /\ Len(loading) = 2

\* The interpreter frees `blocks' and returns 1 without having called strtok.
GiveUp(blocks) ==
    /\ used' = used \ blocks
    /\ loading' = <<>>
    /\ Advance(Returned(stack, 1, FALSE))
    /\ UNCHANGED <<mem, env_vars, assigned, end, harmed>>

\* kmalloc gives the interpreter one more block.
Obtain ==
    /\ FreeBlocks # {}
    /\ used' = used \cup {Min(FreeBlocks)}
    /\ loading' = Append(loading, Min(FreeBlocks))
    /\ UNCHANGED <<stack, mem, last, env_vars, assigned, end, harmed>>

\* kmalloc gives no memory for the directory.
ScriptNoMemory == Calls /\ GiveUp({})

ScriptCalled == Calls /\ Obtain

\* The directory cannot be read, or has no such file.
ScriptNoDirectory == ReadsDirectory /\ GiveUp({loading[1]})
ScriptNotFound ==
    ReadsDirectory /\ Command.arg \notin DOMAIN Scripts /\ GiveUp({loading[1]})

\* Mutant of ScriptNoBuffer: the directory's block is forgotten.
ScriptNoBufferLeaks ==
    ReadsDirectory /\ Command.arg \in DOMAIN Scripts /\ GiveUp({})

\* The file is there, and kmalloc gives no memory for it or does.
ScriptNoBuffer ==
    ReadsDirectory /\ Command.arg \in DOMAIN Scripts /\ GiveUp({loading[1]})
ScriptFound ==
    ReadsDirectory /\ Command.arg \in DOMAIN Scripts /\ Obtain

\* fat32_read_file fails or returns 0.
ScriptNotRead == ReadsFile /\ GiveUp({loading[1], loading[2]})

\* The text is there, and strtok cuts off the first line.
ScriptStarts ==
    /\ ReadsFile
    /\ Command.arg \in DOMAIN Scripts /\ Scripts[Command.arg] # <<>>
    /\ LET text == Scripts[Command.arg]
           b    == loading[2]
           m    == [mem EXCEPT ![b] = text]
           r    == strtok(m, <<b, 1>>, Newline)
       IN  /\ mem' = m
           /\ last' = r.last
           /\ stack' = Append(stack, Frame(Interpreter, b, loading[1], text, r))
    /\ loading' = <<>>
    /\ UNCHANGED <<used, env_vars, assigned, end, harmed>>

\* The status a finished script returns: 0, whatever its commands returned.
ScriptStatus == 0

\* The script is done; its caller goes on with strtok(NULL, ...).
ScriptEnds ==
    /\ Finished /\ Top.fn # "sh_exec"
    /\ used' = used \ {Top.buf, Top.entries}
    /\ Advance(Returned(Below, ScriptStatus, TRUE))
    /\ UNCHANGED <<loading, mem, env_vars, assigned, end, harmed>>

\* Mutant of set_env_var: no search for a variable of that name.
SetAlwaysAdds(n, v) ==
    IF Len(env_vars) < MAX_ENV_VARS
    THEN Append(env_vars, [name |-> n, value |-> v])
    ELSE env_vars

\* The variables after set_env_var(n, v): a full table stays as it is.
set_env_var(n, v) ==
    LET hits == {i \in DOMAIN env_vars : env_vars[i].name = n}
    IN  IF hits # {} THEN [env_vars EXCEPT ![Min(hits)].value = v]
        ELSE IF Len(env_vars) < MAX_ENV_VARS
        THEN Append(env_vars, [name |-> n, value |-> v])
        ELSE env_vars

\* n=v in an exec script; it prints "Set n=v".
SetVariable ==
    /\ Assigns
    /\ LET n == Trimmed[1].arg
           v == Trimmed[1].val
       IN  /\ env_vars' = set_env_var(n, v)
           /\ assigned' = [x \in DOMAIN assigned \cup {n} |->
                             IF x = n THEN v ELSE assigned[x]]
    /\ Advance(stack)
    /\ UNCHANGED <<loading, used, mem, end, harmed>>

Interpret ==
    \/ ShExecEnd
    \/ Skip
    \/ Simple
    \/ Overrun
    \/ ScriptNoMemory
    \/ ScriptCalled
    \/ ScriptNoDirectory
    \/ ScriptNotFound
    \/ ScriptNoBuffer
    \/ ScriptFound
    \/ ScriptNotRead
    \/ ScriptStarts
    \/ ScriptEnds
    \/ SetVariable

Next ==
    \/ \E line \in Lines : ShExec(line)
    \/ Interpret

Spec == Init /\ [][Next]_vars

\* The interpreter runs on the shell's thread, which is never left READY for
\* ever (ReadyRuns in Threads).
FairSpec == Spec /\ WF_vars(Interpret)

-----------------------------------------------------------------------------
(* Properties.                                                             *)

\* The blocks in use are exactly those of the activations and of the script
\* being loaded: nothing is freed while it is still read, and at the prompt
\* nothing is left allocated, whichever of the exits the two interpreters took
\* (no memory for the directory or the text, directory error, no such file,
\* nothing read, done) and at whatever depth.
MemoryOwned ==
    used = (UNION {{stack[i].buf, stack[i].entries} : i \in DOMAIN stack})
           \cup Range(loading)

\* strtok's static pointer is never left pointing into a block that has been
\* freed: when it is not NULL it belongs to the innermost activation, although
\* inner activations used and freed blocks of their own in between.  And each
\* piece an activation works on is a piece of its own text.
StrtokOwned ==
    /\ last # NULL => stack # <<>> /\ last[1] = Top.buf /\ last[1] \in used
    /\ \A i \in DOMAIN stack :
          stack[i].token # NULL => stack[i].token[1] = stack[i].buf

\* The pieces of a text that begin with something to execute.
Executable(f) ==
    {i \in (f.pos + 1) .. Len(mem[f.buf]) :
        mem[f.buf][i].cmd \notin {"&", "newline", "blank", "#"}}

\* A list or script whose commands call no other script is executed to its
\* end: strtok loses none of its commands.
PlainTextExecuted ==
    Finished /\ ~Top.nested => Executable(Top) = {}

\* env_vars holds each name once, with the value assigned to it last, so
\* get_env_var's first hit is the right one.
EnvCurrent ==
    /\ Len(env_vars) <= MAX_ENV_VARS
    /\ \A i, j \in DOMAIN env_vars : env_vars[i].name = env_vars[j].name => i = j
    /\ \A i \in DOMAIN env_vars : env_vars[i].value = assigned[env_vars[i].name]

\* Every line comes back to the prompt, unless its commands have run over the
\* end of the stack and done harm.  That is how a script ends that calls
\* itself: each level takes 4.5 KB of the stack's 8 KiB, so the stack is used
\* up by the second, long before the heap.
LineEnds == (stack # <<>>) ~> (stack = <<>> \/ harmed)

-----------------------------------------------------------------------------
(* What the code's comments and messages say and the code does not do.     *)

\* "Split the file into lines and execute each": at the end of a script none
\* of its commands is left.
EachLineExecuted ==
    Finished /\ Top.fn # "sh_exec" => Executable(Top) = {}

=============================================================================
