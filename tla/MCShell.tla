------------------------------- MODULE MCShell -------------------------------
(* Texts for Shell: short ones that meet every branch of the interpreter.  *)
EXTENDS Shell

ok   == Word("ok")
fail == Word("fail")

\* a: plain; b: calls a and goes on; r: calls itself; v, w: variables, more of
\* them than slots; c: comments and blank lines; empty: nothing to read.
MCScripts ==
    [a |-> <<ok, Newline, Word("exit"), Newline, Newline, fail, Newline, ok>>,
     b |-> <<Call("sh", "a"), Newline, ok>>,
     r |-> <<Call("exec", "r"), Newline, ok, Newline, Call("sh", "r")>>,
     v |-> <<Assign("X", "ok"), Newline, Variable("X"), Newline, Variable("Y"),
             Newline, Assign("X", "fail"), Newline, Variable("X")>>,
     w |-> <<Assign("Y", "ok"), Newline, Assign("Z", "ok"), Newline, Variable("Z")>>,
     c |-> <<Comment, Newline, Blank, Comment, Blank, Newline, Blank, Newline, ok>>,
     empty |-> <<>>]

\* Every line of at most MaxLine symbols in which commands are separated, and
\* two with blanks and scripts that cannot be run.
MaxLine == 4
Typed == {Amp, ok, fail, Word("cd"), Call("sh", "b")}
         \cup {Call("exec", f) : f \in {"r", "v", "w"}}
MCLines ==
    {l \in UNION {[1 .. n -> Typed] : n \in 0 .. MaxLine} :
        \A i \in 1 .. Len(l) - 1 : Amp \in {l[i], l[i + 1]}}
    \cup {<<Blank, Amp, Amp, fail, Blank, Amp, Amp, Blank, ok>>,
          <<Call("exec", "c"), Amp, Call("sh", "empty"), Amp, Call("sh", "none"),
            Amp, Call("sh", "v")>>}

\* The frames as the compiler lays them out without optimisation; sh_exec with
\* what is below it on the stack, fat32_resolve_path with its caller.
MCFrameSize ==
    [sh_exec |-> 144, sh_execute_script |-> 128, exec_sh_script |-> 448,
     sh_exec_single |-> 4448, fat32_resolve_path |-> 17792]

=============================================================================
