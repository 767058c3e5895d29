----------------------------- MODULE MCThreads -----------------------------
(* Instances of Threads for TLC. *)
EXTENDS Threads

TimeShell == <<"systime", "shell">>

\* Both clock tasks with the shell.
ClockShell == <<"calctime", "systime", "shell">>

\* One thread more than a table of three entries has room for: the idle
\* thread has an entry too.
FullTable == <<"hatchui", "shell", "systime">>

=============================================================================
