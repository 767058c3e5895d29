----------------------------- MODULE MCConsole -----------------------------
(* An instance of Console for TLC. *)
EXTENDS Console

SmallPrompt == <<"0", ">">>

\* `ls: OOM' in lower-case hexadecimal, which is no tag.
SomeMessages == {Tag("0", "c") \o <<"o">> \o Tag("0", "f") \o <<"LF">>}

\* A usage, and an error that names a typed tag.
SomeErrors == {<<"e">>, Tag("0", "2")}

\* A name (or a word after xxd) with a tag, a line that leaves no room for the line feed, and one
\* that is too long.
SomeTexts == {Tag("0", "2") \o <<"n">>, [i \in 1 .. BufSize - 1 |-> "n"], [i \in 1 .. BufSize |-> "n"]}

SomeLogs == {<<"p", "LF">>}

\* Bytes that go back over the start of the row, and no line feed at the end.
SomeFiles == {<<"q", "BS", "BS", "q", "LF", "q">>}

=============================================================================
