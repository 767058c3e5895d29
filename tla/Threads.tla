------------------------------ MODULE Threads ------------------------------
(***************************************************************************)
(* The threads of the Hatcher kernel on its single CPU: the scheduler      *)
(* (kernel/thread.c, context_switch.S), the timer interrupt that enters it *)
(* (cpu/timer.c, cpu/idt.c, cpu/isr.asm, the 8259A in cpu/8259a.c), and    *)
(* the code of every thread as far as it calls the scheduler, waits on     *)
(* ticks or takes the console's spinlock: kernel_main (kernel/main.c), the *)
(* three status-bar tasks (kernel/tasks/gui.c) and the shell               *)
(* (kernel/tasks/sys.c, user/shell.c).                                     *)
(*                                                                         *)
(* Every thread owns a stack.  On it lie at most two frames of             *)
(* thread_schedule: one it called itself ("call") and, above it, one that  *)
(* the timer interrupt called ("irq").  task[t] is where t's own code will *)
(* go on once both are gone.  An interrupt may arrive between any two      *)
(* steps; whether it is taken is decided by iflag and by the 8259A.        *)
(* Local variables that are dead hold "none" or 0.                         *)
(***************************************************************************)
EXTENDS Naturals, Sequences

CONSTANTS
    MAX_THREADS,    \* size of threads[]
    Roles,          \* the names kernel_main passes to thread_create, in order
    TickMod,        \* number of values of uint32_t timer_ticks
    KB_BUF_SIZE,    \* size of the keyboard ring
    UiSleep,        \* argument of thread_sleep in ui_bar
    ClockSleep,     \* argument of thread_sleep in calc_time
    ShellSleeps,    \* arguments typed to the shell's sleep command
    BeepMs,         \* duration passed to pc_speaker_beep
    Beeps,          \* number of beeps at boot, and again at shutdown
    Commands        \* the shell commands the user may type

Tid == 0 .. MAX_THREADS - 1

RoleSet == {"hatchui", "calctime", "systime", "shell"}

CommandSet == {"exit", "sleep", "yield", "stop", "block", "unblock", "beep"}

ASSUME ThreadsAssumption ==
    /\ MAX_THREADS \in Nat \ {0}
    /\ Roles \in Seq(RoleSet)
    /\ TickMod \in Nat \ {0}
    /\ KB_BUF_SIZE \in Nat \ {0}
    /\ UiSleep \in 1 .. TickMod - 1
    /\ ClockSleep \in 1 .. TickMod - 1
    /\ ShellSleeps \subseteq 0 .. TickMod - 1
    /\ BeepMs \in Nat
    /\ Beeps \in Nat
    /\ Commands \subseteq CommandSet

VARIABLES
    state,          \* threads[t]->state; "UNUSED" where threads[t] is NULL
    sleep_until,    \* threads[t]->sleep_until
    context,        \* threads[t]->context: the saved stack and interrupt flag
    thread_count,
    current,        \* tid of *current
    cpu,            \* the thread whose stack the CPU is using
    iflag,          \* the CPU's interrupt flag
    frame,          \* frame[t][k]: how far t's k-frame of thread_schedule is
    prev,           \* prev[t][k]: that frame's local variable prev
    task,           \* where t's own code continues
    after,          \* where t's code continues after the kprintf it is in
    irr0,           \* 8259A: IRQ0 requested
    isr0,           \* 8259A: IRQ0 in service (no EOI yet)
    timer_ticks,
    start,          \* the local `start' of wait(), per thread
    step,           \* kernel_main's progress through its calls and its loop
    end,            \* the global end = 1
    vga_lock,
    keys,           \* characters in the keyboard ring
    keyboard,       \* IRQ1 goes to keyboard_handler, not to idle_irq1
    due             \* history: ticks a sleep begun by t has still to last

tcb  == <<state, sleep_until, context, thread_count, current>>
mach == <<cpu, iflag, irr0, isr0>>
code == <<task, after, start, step, end, vga_lock>>
kbd  == <<keys, keyboard>>
timer == <<timer_ticks, due>>
vars == <<tcb, mach, frame, prev, code, timer, kbd>>

States == {"UNUSED", "READY", "RUNNING", "BLOCKED", "SLEEPING", "TERMINATED"}
Locs   == {"none", "wake", "pick", "switch", "resumed", "eoi"}
Tasks  == {"none", "create", "beep", "spin", "stopall", "bye", "halted",
           "wait", "lock", "locked",
           "draw", "drawn", "clock", "show",
           "prompt", "getch", "exec", "stopself", "lastyield"}
Frames == {"call", "irq"}

\* The first line of the function each thread is created with.
Entry == [hatchui |-> "draw", calctime |-> "clock",
          systime |-> "show", shell |-> "prompt"]

\* thread_init, in kernel_main's straight-line start-up with interrupts off.
Init ==
    /\ state = [t \in Tid |-> IF t = 0 THEN "RUNNING" ELSE "UNUSED"]
    /\ sleep_until = [t \in Tid |-> 0]
    /\ context = [t \in Tid |-> [rsp |-> t, iflag |-> TRUE]]
    /\ thread_count = 1
    /\ current = 0
    /\ cpu = 0 /\ iflag = FALSE
    /\ frame = [t \in Tid |-> [k \in Frames |-> "none"]]
    /\ prev = [t \in Tid |-> [k \in Frames |-> 0]]
    /\ task = [t \in Tid |-> IF t = 0 THEN "create" ELSE "none"]
    /\ after = [t \in Tid |-> "none"]
    /\ irr0 = FALSE /\ isr0 = FALSE
    /\ timer_ticks = 0
    /\ start = [t \in Tid |-> 0]
    /\ step = 0
    /\ end = FALSE
    /\ vga_lock = FALSE
    /\ keys = 0 /\ keyboard = FALSE
    /\ due = [t \in Tid |-> 0]

-----------------------------------------------------------------------------
(* The scheduler. *)

\* The frame the CPU is executing, and whether it is executing one at all.
Top == IF frame[cpu]["irq"] # "none" THEN "irq" ELSE "call"
At(loc) == frame[cpu][Top] = loc
Goto(loc) == frame' = [frame EXCEPT ![cpu][Top] = loc]

\* Where thread_schedule returns to: the interrupt's EOI, or the caller.
Return == IF Top = "irq" THEN "eoi" ELSE "none"

InTask(t, loc) == cpu = t /\ At("none") /\ task[t] = loc

\* thread_yield() from t's own code, which goes on at loc afterwards.
Yield(t, loc) ==
    /\ frame' = [frame EXCEPT ![t]["call"] = "wake"]
    /\ task' = [task EXCEPT ![t] = loc]

\* thread_sleep(ms): state and deadline are written through current.
Sleep(t, ms, loc) ==
    \/ /\ ms = 0
       /\ task' = [task EXCEPT ![t] = loc]
       /\ UNCHANGED <<state, sleep_until, due, frame>>
    \/ /\ ms # 0
       /\ sleep_until' = [sleep_until EXCEPT ![current] = (timer_ticks + ms) % TickMod]
       /\ state' = [state EXCEPT ![current] = "SLEEPING"]
       /\ due' = [due EXCEPT ![current] = ms]
       /\ Yield(t, loc)

\* Wake, with the threads the first loop finds due.
WakeAll(ripe) ==
    /\ At("wake")
    /\ state' = [t \in Tid |->
                    IF state[t] = "SLEEPING" /\ t \in ripe THEN "READY" ELSE state[t]]
    /\ Goto("pick")
    /\ UNCHANGED <<sleep_until, context, thread_count, current, mach, code,
                   prev, timer, kbd>>

\* Mutants of Wake: `>' for `>=', and a tick early.
WakeLate == WakeAll({t \in Tid : timer_ticks > sleep_until[t]})
WakeEarly == WakeAll({t \in Tid : timer_ticks + 1 >= sleep_until[t]})

\* The first loop of thread_schedule: threads whose deadline has come.
Wake == WakeAll({t \in Tid : timer_ticks >= sleep_until[t]})

\* Mutant of Candidate: the search starts at threads[0] every time.
CandidateFromZero(i) == i % thread_count

\* The thread the second loop looks at in its i-th iteration.
Candidate(i) == (((current + 1) % thread_count) + i) % thread_count

\* The second loop finds a READY thread: it becomes current and RUNNING, and
\* the previous thread becomes READY unless its state is one of `kept'.
PickWith(kept) ==
    /\ At("pick")
    /\ \E i \in 0 .. thread_count - 1 :
          LET next == Candidate(i) IN
          /\ state[next] = "READY"
          /\ \A j \in 0 .. i - 1 : state[Candidate(j)] # "READY"
          /\ current' = next
          /\ LET chosen == [state EXCEPT ![next] = "RUNNING"] IN
             state' = [chosen EXCEPT ![current] = IF @ \in kept THEN @ ELSE "READY"]
    /\ Goto("switch")
    /\ prev' = [prev EXCEPT ![cpu][Top] = current]
    /\ UNCHANGED <<sleep_until, context, thread_count, mach, code, timer_ticks,
                   kbd, due>>

\* Mutant of Pick: only a RUNNING thread is made READY again.
PickDemoteRunning == PickWith(States \ {"RUNNING"})

\* The previous thread becomes READY unless it sleeps.
Pick == PickWith({"SLEEPING"})

\* No thread is READY: thread_schedule returns to its caller.
PickNone ==
    /\ At("pick")
    /\ \A i \in 0 .. thread_count - 1 : state[Candidate(i)] # "READY"
    /\ Goto(Return)
    /\ UNCHANGED <<tcb, mach, code, prev, timer, kbd>>

\* Mutant of Switch: without the local prev, the registers are saved into
\* the thread that is about to run.
SwitchNoPrev ==
    /\ At("switch")
    /\ context' = [context EXCEPT ![current] = [rsp |-> cpu, iflag |-> iflag]]
    /\ cpu' = context'[current].rsp
    /\ iflag' = context'[current].iflag
    /\ Goto("resumed")
    /\ prev' = [prev EXCEPT ![cpu][Top] = 0]
    /\ UNCHANGED <<state, sleep_until, thread_count, current, irr0, isr0, code,
                   timer_ticks, kbd, due>>

\* context_switch(&prev->context, &current->context): the stack pointer and
\* the flags are saved, then those of current are loaded.
Switch ==
    /\ At("switch")
    /\ context' = [context EXCEPT ![prev[cpu][Top]] = [rsp |-> cpu, iflag |-> iflag]]
    /\ cpu' = context'[current].rsp
    /\ iflag' = context'[current].iflag
    /\ Goto("resumed")
    /\ prev' = [prev EXCEPT ![cpu][Top] = 0]
    /\ UNCHANGED <<state, sleep_until, thread_count, current, irr0, isr0, code,
                   timer_ticks, kbd, due>>

\* context_switch returned on this stack: current is RUNNING again.
Resumed ==
    /\ At("resumed")
    /\ state' = [state EXCEPT ![current] = "RUNNING"]
    /\ Goto(Return)
    /\ UNCHANGED <<sleep_until, context, thread_count, current, mach, code,
                   prev, timer, kbd>>

Schedule == Wake \/ Pick \/ PickNone \/ Switch \/ Resumed

-----------------------------------------------------------------------------
(* Interrupts.  All gates are interrupt gates, so a handler runs with IF   *)
(* clear; the 8259A delivers neither IRQ0 nor IRQ1 while IRQ0 is in        *)
(* service.                                                                *)

\* The interval timer raises IRQ0; a second edge before the first is taken
\* is lost.
PitEdge ==
    /\ ~irr0
    /\ irr0' = TRUE
    /\ UNCHANGED <<tcb, cpu, iflag, isr0, frame, code, prev, timer, kbd>>

\* Mutant of TimerIrq: the EOI is sent before thread_yield.
TimerIrqEoiFirst ==
    /\ iflag /\ irr0 /\ ~isr0
    /\ irr0' = FALSE /\ isr0' = FALSE /\ iflag' = FALSE
    /\ timer_ticks' = (timer_ticks + 1) % TickMod
    /\ due' = [t \in Tid |-> IF due[t] > 0 THEN due[t] - 1 ELSE 0]
    /\ frame' = [frame EXCEPT ![cpu]["irq"] = "wake"]
    /\ UNCHANGED <<tcb, cpu, prev, code, kbd>>

\* IRQ0 is taken: isr_dispatch calls timer_isr_wrapper, which counts the
\* tick and enters thread_yield with the EOI still to come.
TimerIrq ==
    /\ iflag /\ irr0 /\ ~isr0
    /\ irr0' = FALSE /\ isr0' = TRUE /\ iflag' = FALSE
    /\ timer_ticks' = (timer_ticks + 1) % TickMod
    /\ due' = [t \in Tid |-> IF due[t] > 0 THEN due[t] - 1 ELSE 0]
    /\ frame' = [frame EXCEPT ![cpu]["irq"] = "wake"]
    /\ UNCHANGED <<tcb, cpu, prev, code, kbd>>

\* thread_yield returned into timer_isr_wrapper: EOI, EOI again from
\* isr_dispatch (nothing is in service any more), iretq restores IF = 1.
TimerReturn ==
    /\ At("eoi")
    /\ Goto("none")
    /\ isr0' = FALSE /\ iflag' = TRUE
    /\ UNCHANGED <<tcb, cpu, irr0, code, prev, timer, kbd>>

\* Mutant of KeyIrq: keyboard_buffer_push does not leave one cell empty.
KeyIrqOverfull ==
    /\ iflag /\ ~irr0 /\ ~isr0
    /\ keyboard /\ keys < KB_BUF_SIZE
    /\ keys' = keys + 1
    /\ UNCHANGED <<tcb, mach, frame, code, prev, timer, keyboard>>

\* IRQ1 is taken and handled to its end: the character is dropped before the
\* shell has registered keyboard_handler, and when the ring is full.
KeyIrq ==
    /\ iflag /\ ~irr0 /\ ~isr0
    /\ keyboard /\ keys < KB_BUF_SIZE - 1
    /\ keys' = keys + 1
    /\ UNCHANGED <<tcb, mach, frame, code, prev, timer, keyboard>>

-----------------------------------------------------------------------------
(* The console's spinlock and wait(), used by kernel_main and the shell.   *)

\* kprintf(...), continuing at loc: it ends in kprint, which takes vga_lock.
kprint(t, loc) ==
    /\ task' = [task EXCEPT ![t] = "lock"]
    /\ after' = [after EXCEPT ![t] = loc]

\* pc_speaker_beep(...), continuing at loc: wait() reads the tick counter.
Beep(t, loc) ==
    /\ task' = [task EXCEPT ![t] = "wait"]
    /\ after' = [after EXCEPT ![t] = loc]
    /\ start' = [start EXCEPT ![t] = timer_ticks]

\* `timer_ticks - start < ms' is false at last; wait() ends with kprintf("").
WaitDone(t) ==
    /\ InTask(t, "wait")
    /\ (timer_ticks + TickMod - start[t]) % TickMod >= BeepMs
    /\ kprint(t, after[t])
    /\ start' = [start EXCEPT ![t] = 0]
    /\ UNCHANGED <<tcb, mach, frame, step, end, vga_lock, prev, timer, kbd>>

\* spin_lock's test-and-set finds the lock free.
SpinLock(t) ==
    /\ InTask(t, "lock")
    /\ ~vga_lock
    /\ vga_lock' = TRUE
    /\ task' = [task EXCEPT ![t] = "locked"]
    /\ UNCHANGED <<tcb, mach, frame, after, start, step, end, prev, timer,
                   kbd>>

\* The text is on the screen: spin_unlock.
SpinUnlock(t) ==
    /\ InTask(t, "locked")
    /\ vga_lock' = FALSE
    /\ task' = [task EXCEPT ![t] = after[t]]
    /\ after' = [after EXCEPT ![t] = "none"]
    /\ UNCHANGED <<tcb, mach, frame, start, step, end, prev, timer, kbd>>

-----------------------------------------------------------------------------
(* kernel_main. *)

\* thread_create for the next of the kernel's threads; nothing is created
\* once threads[] is full.  Its kmalloc does not fail: it is called at boot
\* only, with 16 MB of heap that nothing else has been taken from.
ThreadCreate ==
    /\ InTask(0, "create")
    /\ step < Len(Roles)
    /\ step' = step + 1
    /\ \/ /\ thread_count >= MAX_THREADS
          /\ UNCHANGED <<tcb, task>>
       \/ /\ thread_count < MAX_THREADS
          /\ state' = [state EXCEPT ![thread_count] = "READY"]
          /\ sleep_until' = [sleep_until EXCEPT ![thread_count] = 0]
          /\ context' = [context EXCEPT ![thread_count] =
                            [rsp |-> thread_count, iflag |-> TRUE]]
          /\ task' = [task EXCEPT ![thread_count] = Entry[Roles[step + 1]]]
          /\ thread_count' = thread_count + 1
          /\ UNCHANGED current
    /\ UNCHANGED <<mach, frame, after, start, end, vga_lock, prev, timer, kbd>>

\* sti, and on to the beeps.
Sti ==
    /\ InTask(0, "create")
    /\ step = Len(Roles)
    /\ iflag' = TRUE
    /\ task' = [task EXCEPT ![0] = "beep"]
    /\ step' = 0
    /\ UNCHANGED <<tcb, cpu, irr0, isr0, frame, after, start, end, vga_lock,
                   prev, timer, kbd>>

\* A beep at boot ("beep") or at shutdown ("bye").
MainBeep ==
    /\ InTask(0, "beep") \/ InTask(0, "bye")
    /\ step < Beeps
    /\ step' = step + 1
    /\ Beep(0, task[0])
    /\ UNCHANGED <<tcb, mach, frame, end, vga_lock, prev, timer, kbd>>

\* The boot beeps are over: while (end != 1);
MainIdle ==
    /\ InTask(0, "beep")
    /\ step = Beeps
    /\ task' = [task EXCEPT ![0] = "spin"]
    /\ UNCHANGED <<tcb, mach, frame, after, start, step, end, vga_lock, prev,
                   timer, kbd>>

\* end == 1: the loop that stops every thread begins.
MainEnd ==
    /\ InTask(0, "spin")
    /\ end
    /\ task' = [task EXCEPT ![0] = "stopall"]
    /\ step' = 0
    /\ UNCHANGED <<tcb, mach, frame, after, start, end, vga_lock, prev, timer,
                   kbd>>

\* Mutant of ThreadStop: a sleeping thread is not stopped.
ThreadStopReady(pid) == state' = [state EXCEPT ![pid] =
    IF pid < thread_count /\ @ # "SLEEPING" THEN "TERMINATED" ELSE @]

\* thread_stop(pid), thread_block(pid), thread_unblock(pid): the new states.
ThreadStop(pid) == state' = [state EXCEPT ![pid] =
    IF pid < thread_count THEN "TERMINATED" ELSE @]

ThreadBlock(pid) == state' = [state EXCEPT ![pid] =
    IF pid < thread_count THEN "BLOCKED" ELSE @]

ThreadUnblock(pid) == state' = [state EXCEPT ![pid] =
    IF @ = "BLOCKED" THEN "READY" ELSE @]

\* One iteration of kernel_main's loop over all threads, itself included.
StopAll ==
    /\ InTask(0, "stopall")
    /\ step < thread_count
    /\ ThreadStop(step)
    /\ step' = step + 1
    /\ UNCHANGED <<sleep_until, context, thread_count, current, mach, frame,
                   task, after, start, end, vga_lock, prev, timer, kbd>>

\* The loop is over: "kernel_main: kernel end" is printed.
StopAllDone ==
    /\ InTask(0, "stopall")
    /\ step = thread_count
    /\ kprint(0, "bye")
    /\ step' = 0
    /\ UNCHANGED <<tcb, mach, frame, start, end, vga_lock, prev, timer, kbd>>

\* cli; for (;;) hlt.
Halt ==
    /\ InTask(0, "bye")
    /\ step = Beeps
    /\ iflag' = FALSE
    /\ task' = [task EXCEPT ![0] = "halted"]
    /\ UNCHANGED <<tcb, cpu, irr0, isr0, frame, after, start, step, end,
                   vga_lock, prev, timer, kbd>>

KernelMain == \/ ThreadCreate \/ Sti \/ MainBeep \/ MainIdle \/ MainEnd
              \/ StopAll \/ StopAllDone \/ Halt

-----------------------------------------------------------------------------
(* The status-bar tasks. *)

\* ui_bar: draw, thread_sleep(5), thread_yield().
UiBarSleep(t) ==
    /\ InTask(t, "draw")
    /\ Sleep(t, UiSleep, "drawn")
    /\ UNCHANGED <<context, thread_count, current, mach, after, start, step,
                   end, vga_lock, prev, timer_ticks, kbd>>

UiBarYield(t) ==
    /\ InTask(t, "drawn")
    /\ Yield(t, "draw")
    /\ UNCHANGED <<tcb, mach, after, start, step, end, vga_lock, prev, timer,
                   kbd>>

\* calc_time: advance the clock, thread_sleep(1000).
CalcTime(t) ==
    /\ InTask(t, "clock")
    /\ Sleep(t, ClockSleep, "clock")
    /\ UNCHANGED <<context, thread_count, current, mach, after, start, step,
                   end, vga_lock, prev, timer_ticks, kbd>>

\* sys_time: draw the clock, thread_yield().
SysTime(t) ==
    /\ InTask(t, "show")
    /\ Yield(t, "show")
    /\ UNCHANGED <<tcb, mach, after, start, step, end, vga_lock, prev, timer,
                   kbd>>

-----------------------------------------------------------------------------
(* The shell.  A line is one character here and one command. *)

\* print_prompt().
Prompt(t) ==
    /\ InTask(t, "prompt")
    /\ kprint(t, "getch")
    /\ UNCHANGED <<tcb, mach, frame, start, step, end, vga_lock, prev, timer,
                   kbd>>

\* Mutant of GetchYield: kgetch polls the ring without yielding.
GetchPoll(t) ==
    /\ InTask(t, "getch")
    /\ keys = 0
    /\ keyboard' = TRUE
    /\ UNCHANGED <<tcb, mach, frame, code, prev, timer, keys>>

\* kgetch with an empty ring: register the handler, thread_yield, try again.
GetchYield(t) ==
    /\ InTask(t, "getch")
    /\ keys = 0
    /\ keyboard' = TRUE
    /\ Yield(t, "getch")
    /\ UNCHANGED <<tcb, mach, after, start, step, end, vga_lock, prev, timer,
                   keys>>

\* kgetch with a character; kgets echoes it.
Getch(t) ==
    /\ InTask(t, "getch")
    /\ keys > 0
    /\ keyboard' = TRUE
    /\ keys' = keys - 1
    /\ kprint(t, "exec")
    /\ UNCHANGED <<tcb, mach, frame, start, step, end, vga_lock, prev, timer>>

\* thread_get_pid("shell") == pid
IsShell(pid) == pid \in 1 .. Len(Roles) /\ pid < thread_count /\ Roles[pid] = "shell"

ExecExit(t) ==
    /\ InTask(t, "exec") /\ "exit" \in Commands
    /\ end' = TRUE
    /\ task' = [task EXCEPT ![t] = "lastyield"]
    /\ UNCHANGED <<tcb, mach, frame, after, start, step, vga_lock, prev, timer,
                   kbd>>

ExecSleep(t) ==
    /\ InTask(t, "exec") /\ "sleep" \in Commands
    /\ \E ms \in ShellSleeps : Sleep(t, ms, "lastyield")
    /\ UNCHANGED <<context, thread_count, current, mach, after, start, step,
                   end, vga_lock, prev, timer_ticks, kbd>>

ExecYield(t) ==
    /\ InTask(t, "exec") /\ "yield" \in Commands
    /\ Yield(t, "lastyield")
    /\ UNCHANGED <<tcb, mach, after, start, step, end, vga_lock, prev, timer,
                   kbd>>

ExecBeep(t) ==
    /\ InTask(t, "exec") /\ "beep" \in Commands
    /\ Beep(t, "lastyield")
    /\ UNCHANGED <<tcb, mach, frame, step, end, vga_lock, prev, timer, kbd>>

\* stop <pid>: refused for pid 0; the shell itself is announced first.
ExecStop(t) ==
    /\ InTask(t, "exec") /\ "stop" \in Commands
    /\ \E pid \in Tid :
          \/ /\ pid = 0
             /\ kprint(t, "lastyield")
             /\ UNCHANGED state
          \/ /\ IsShell(pid)
             /\ kprint(t, "stopself")
             /\ UNCHANGED state
          \/ /\ pid # 0 /\ ~IsShell(pid)
             /\ ThreadStop(pid)
             /\ kprint(t, "lastyield")
    /\ UNCHANGED <<sleep_until, context, thread_count, current, mach, frame,
                   start, step, end, vga_lock, prev, timer, kbd>>

\* stop <pid of the shell>: end = 1; thread_stop(pid).
StopSelf(t) ==
    /\ InTask(t, "stopself")
    /\ end' = TRUE
    /\ \E pid \in Tid : IsShell(pid) /\ ThreadStop(pid)
    /\ task' = [task EXCEPT ![t] = "lastyield"]
    /\ UNCHANGED <<sleep_until, context, thread_count, current, mach, frame,
                   after, start, step, vga_lock, prev, timer, kbd>>

\* block <pid>: refused for pid 0.
ExecBlock(t) ==
    /\ InTask(t, "exec") /\ "block" \in Commands
    /\ \E pid \in Tid :
          \/ pid = 0 /\ UNCHANGED state
          \/ pid # 0 /\ ThreadBlock(pid)
    /\ kprint(t, "lastyield")
    /\ UNCHANGED <<sleep_until, context, thread_count, current, mach, frame,
                   start, step, end, vga_lock, prev, timer, kbd>>

ExecUnblock(t) ==
    /\ InTask(t, "exec") /\ "unblock" \in Commands
    /\ \E pid \in Tid : ThreadUnblock(pid)
    /\ kprint(t, "lastyield")
    /\ UNCHANGED <<sleep_until, context, thread_count, current, mach, frame,
                   start, step, end, vga_lock, prev, timer, kbd>>

\* sh_exec_single ends with thread_yield(); shell() prompts again.
LastYield(t) ==
    /\ InTask(t, "lastyield")
    /\ Yield(t, "prompt")
    /\ UNCHANGED <<tcb, mach, after, start, step, end, vga_lock, prev, timer,
                   kbd>>

Task(t) ==
    \/ WaitDone(t) \/ SpinLock(t) \/ SpinUnlock(t)
    \/ UiBarSleep(t) \/ UiBarYield(t) \/ CalcTime(t) \/ SysTime(t)
    \/ Prompt(t) \/ GetchYield(t) \/ Getch(t) \/ LastYield(t)
    \/ ExecExit(t) \/ ExecSleep(t) \/ ExecYield(t) \/ ExecBeep(t)
    \/ ExecStop(t) \/ StopSelf(t) \/ ExecBlock(t) \/ ExecUnblock(t)

-----------------------------------------------------------------------------

\* The CPU executes the next instructions of whatever it is running.
Cpu == Schedule \/ TimerReturn \/ KernelMain \/ \E t \in Tid : Task(t)

Next == Cpu \/ PitEdge \/ TimerIrq \/ KeyIrq

Spec == Init /\ [][Next]_vars

\* kernel_main's own instructions, outside the interrupt handler.
Idle == KernelMain \/ Task(0)

\* The CPU never stops executing, the timer keeps ticking and a deliverable
\* IRQ0 is delivered.  A tick is a millisecond, so kernel_main executes
\* instructions between two ticks: interrupted again and again, it still
\* advances.  Nothing is assumed of the user.
Fairness ==
    /\ WF_vars(Cpu) /\ SF_vars(Idle)
    /\ WF_vars(PitEdge) /\ WF_vars(TimerIrq)

FairSpec == Spec /\ Fairness

-----------------------------------------------------------------------------
(* Safety. *)

\* Every variable has its type: no thread_create, sleep or key leaves the
\* table, the counter or the ring.
TypeOK ==
    /\ state \in [Tid -> States]
    /\ sleep_until \in [Tid -> 0 .. TickMod - 1]
    /\ context \in [Tid -> [rsp : Tid, iflag : BOOLEAN]]
    /\ thread_count \in 1 .. MAX_THREADS
    /\ current \in Tid
    /\ cpu \in Tid
    /\ iflag \in BOOLEAN
    /\ frame \in [Tid -> [Frames -> Locs]]
    /\ prev \in [Tid -> [Frames -> Tid]]
    /\ task \in [Tid -> Tasks]
    /\ after \in [Tid -> Tasks]
    /\ irr0 \in BOOLEAN
    /\ isr0 \in BOOLEAN
    /\ timer_ticks \in 0 .. TickMod - 1
    /\ start \in [Tid -> 0 .. TickMod - 1]
    /\ step \in Nat
    /\ end \in BOOLEAN
    /\ vga_lock \in BOOLEAN
    /\ keys \in 0 .. KB_BUF_SIZE - 1
    /\ keyboard \in BOOLEAN
    /\ due \in [Tid -> 0 .. TickMod - 1]

\* timer_isr_wrapper yields before its EOI, so whenever another thread runs,
\* IRQ0 is in service and kernel_main sits in the handler: only kernel_main
\* is ever preempted, and what the other threads do between two calls of the
\* scheduler is atomic.
OnlyIdleIsPreempted ==
    /\ \A t \in Tid \ {0} : frame[t]["irq"] = "none"
    /\ cpu # 0 => isr0 /\ frame[0]["irq"] = "resumed"

\* context_switch never loads one thread's stack for another, and current is
\* the thread that executes, except between the choice of the next thread
\* and the switch to it.
ContextIntegrity ==
    /\ \A t \in Tid : context[t].rsp = t
    /\ IF At("switch") THEN prev[cpu][Top] = cpu ELSE current = cpu

\* thread_sleep returns only to a thread that was woken: there is always
\* another READY thread to switch to, kernel_main if no other, and this also
\* while kernel_main stops all threads including itself.
SleepTakesEffect == At("none") => state[cpu] # "SLEEPING"

\* No sleeper is left asleep past its deadline: the tick that ends its sleep
\* makes it READY before the interrupt handler does anything else.
NoOversleep ==
    \A t \in Tid : state[t] = "SLEEPING" /\ due[t] = 0 =>
        Top = "irq" /\ At("wake")

\* A sleeper is woken before its time only if its deadline lies past the
\* wrap of timer_ticks.
EarlyWakeOnlyAtWrap ==
    [][\A t \in Tid :
          state[t] = "SLEEPING" /\ state'[t] = "READY" /\ due[t] > 0
            => timer_ticks + due[t] >= TickMod]_vars

\* kernel_main past its stop loop.
Stopping == task[0] \in {"bye", "halted"} \/ after[0] = "bye"

\* When kernel_main has gone through its stop loop, no thread it created can
\* run again, whatever the threads did while the loop was preempted.  (With
\* block and unblock among the commands this fails: a stopped thread that is
\* blocked and unblocked is READY again.)
ShutdownStopsAll ==
    Stopping => \A t \in 1 .. thread_count - 1 : state[t] = "TERMINATED"

-----------------------------------------------------------------------------
(* What the shell offers and the kernel does not do. *)

\* "Usage: beep <frequency> <duration>" (shell.c): the beep ends.
BeepReturns == \A t \in Tid \ {0} : task[t] = "wait" ~> task[t] # "wait"

-----------------------------------------------------------------------------
(* Liveness. *)

\* The CPU makes no progress: a thread other than kernel_main spins on the
\* lock kernel_main was preempted with, or waits for ticks that are masked.
Hung == \E t \in Tid \ {0} :
           \/ InTask(t, "lock") /\ vga_lock
           \/ InTask(t, "wait")

Halted == task[0] = "halted"

\* Round robin starves nobody: a READY thread becomes current, unless the
\* shell stops or blocks it, the kernel halts, or the CPU hangs in one of the
\* two ways above.
ReadyRuns ==
    \A t \in Tid : state[t] = "READY" ~>
        (current = t \/ state[t] \in {"BLOCKED", "TERMINATED"} \/ Halted \/ Hung)

\* Every timer interrupt is completed: the threads it switched to hand the
\* CPU back to kernel_main, which sends the EOI.
TickCompletes == isr0 ~> (~isr0 \/ Hung)

\* After exit, kernel_main stops all threads and halts.
EndHalts == end ~> (Halted \/ Hung)

=============================================================================
