--------------------------- MODULE ThreadsProofs ---------------------------
(* Theorems about Threads, for any number of threads, commands and ticks.  *)
EXTENDS Threads, TLAPS

\* The locations of kernel_main's code.
MainTasks == {"none", "create", "beep", "spin", "stopall", "bye", "halted",
              "wait", "lock", "locked"}

\* What keeps interrupts away from the other threads.  A frame that the CPU
\* is not in waits inside context_switch; IRQ0 is in service exactly as long
\* as kernel_main is in the timer's handler; the handler runs, and is
\* resumed, with interrupts off; and kernel_main itself never yields.
SchedulerInv ==
    /\ \A t \in Tid : frame[t]["call"] # "eoi"
    /\ \A t \in Tid \ {cpu} : \A k \in Frames : frame[t][k] \in {"none", "resumed"}
    /\ frame[0]["call"] = "none"
    /\ task[0] \in MainTasks /\ after[0] \in MainTasks
    /\ isr0 <=> frame[0]["irq"] # "none"
    /\ cpu = 0 /\ isr0 => ~iflag
    /\ cpu # 0 => ~context[0].iflag

PreemptInv == OnlyIdleIsPreempted /\ ContextIntegrity /\ SchedulerInv

USE DEF Frames

\* A remainder lies below its divisor.
LEMMA ModRange ==
    ASSUME NEW a \in Nat, NEW n \in Nat \ {0}
    PROVE  a % n \in 0 .. n - 1
  OBVIOUS

\* The index computed by thread_schedule's second loop is that of a thread.
LEMMA CandidateIsThread ==
    ASSUME TypeOK, NEW i \in 0 .. thread_count - 1
    PROVE  Candidate(i) \in 0 .. thread_count - 1 /\ Candidate(i) \in Tid
  <1>1. thread_count \in Nat \ {0} /\ current + 1 \in Nat
    BY ThreadsAssumption DEF ThreadsAssumption, TypeOK, Tid
  <1>2. (current + 1) % thread_count \in 0 .. thread_count - 1
    BY <1>1, ModRange
  <1>3. ((current + 1) % thread_count) + i \in Nat
    BY <1>1, <1>2
  <1>4. Candidate(i) \in 0 .. thread_count - 1
    BY <1>1, <1>3, ModRange DEF Candidate
  <1> QED
    BY <1>4, ThreadsAssumption DEF ThreadsAssumption, TypeOK, Tid

\* The frames keep their shape when the executing one moves on.
LEMMA GotoType ==
    ASSUME TypeOK, NEW loc \in Locs, Goto(loc)
    PROVE  frame' \in [Tid -> [Frames -> Locs]]
  BY DEF TypeOK, Goto, Top

\* ... and when a thread enters thread_yield.
LEMMA YieldType ==
    ASSUME TypeOK, NEW t \in Tid, NEW loc \in Tasks, Yield(t, loc)
    PROVE  /\ frame' \in [Tid -> [Frames -> Locs]]
           /\ task' \in [Tid -> Tasks]
  BY DEF TypeOK, Yield, Locs

\* thread_sleep stores a deadline that fits the counter.
LEMMA SleepType ==
    ASSUME TypeOK, NEW t \in Tid, NEW loc \in Tasks,
           NEW ms \in 0 .. TickMod - 1, Sleep(t, ms, loc)
    PROVE  /\ frame' \in [Tid -> [Frames -> Locs]]
           /\ task' \in [Tid -> Tasks]
           /\ state' \in [Tid -> States]
           /\ sleep_until' \in [Tid -> 0 .. TickMod - 1]
           /\ due' \in [Tid -> 0 .. TickMod - 1]
  <1>1. CASE ms = 0
    <2>1. task' = [task EXCEPT ![t] = loc] /\ UNCHANGED <<state, sleep_until, due, frame>>
      BY <1>1, Zenon DEF Sleep
    <2>2. task' \in [Tid -> Tasks]
      BY <2>1 DEF TypeOK
    <2> QED
      BY <2>1, <2>2, Zenon DEF TypeOK
  <1>2. CASE ms # 0
    <2>1. (timer_ticks + ms) % TickMod \in 0 .. TickMod - 1
      <3>1. timer_ticks + ms \in Nat /\ TickMod \in Nat \ {0}
        BY ThreadsAssumption DEF ThreadsAssumption, TypeOK
      <3> QED  BY <3>1, ModRange
    <2>2. Yield(t, loc)
      BY <1>2 DEF Sleep
    <2>3. sleep_until' \in [Tid -> 0 .. TickMod - 1]
      <3>1. sleep_until' = [sleep_until EXCEPT ![current] = (timer_ticks + ms) % TickMod]
        BY <1>2, Zenon DEF Sleep
      <3>2. sleep_until \in [Tid -> 0 .. TickMod - 1] /\ current \in Tid
        BY Zenon DEF TypeOK
      <3> QED  BY <2>1, <3>1, <3>2
    <2>4. due' \in [Tid -> 0 .. TickMod - 1]
      <3>1. due' = [due EXCEPT ![current] = ms]
        BY <1>2, Zenon DEF Sleep
      <3>2. due \in [Tid -> 0 .. TickMod - 1] /\ current \in Tid
        BY Zenon DEF TypeOK
      <3> QED  BY <3>1, <3>2
    <2>5. state' = [state EXCEPT ![current] = "SLEEPING"]
      BY <1>2 DEF Sleep
    <2>6. state' \in [Tid -> States]
      BY <2>5 DEF TypeOK, States
    <2> QED
      BY <2>2, <2>3, <2>4, <2>6, YieldType
  <1> QED  BY <1>1, <1>2

LEMMA PrintType ==
    ASSUME TypeOK, NEW t \in Tid, NEW loc \in Tasks, kprint(t, loc)
    PROVE  task' \in [Tid -> Tasks] /\ after' \in [Tid -> Tasks]
  BY DEF TypeOK, kprint, Tasks

LEMMA StateChangeType ==
    ASSUME TypeOK, NEW pid \in Tid,
           ThreadStop(pid) \/ ThreadBlock(pid) \/ ThreadUnblock(pid)
    PROVE  state' \in [Tid -> States]
  BY DEF TypeOK, ThreadStop, ThreadBlock, ThreadUnblock, States

-----------------------------------------------------------------------------
(* Type correctness. *)

LEMMA ScheduleType == TypeOK /\ Schedule => TypeOK'
  <1> SUFFICES ASSUME TypeOK, Schedule PROVE TypeOK'
    OBVIOUS
  <1>1. CASE Wake
    <2>1. frame' \in [Tid -> [Frames -> Locs]]
      BY <1>1, GotoType DEF Wake, WakeAll, Locs
    <2> QED
      BY <1>1, <2>1 DEF Wake, WakeAll, TypeOK, States, mach, code, kbd, timer
  <1>2. CASE Pick
    <2>1. PICK i \in 0 .. thread_count - 1 :
             /\ current' = Candidate(i)
             /\ state' = [[state EXCEPT ![Candidate(i)] = "RUNNING"]
                            EXCEPT ![current] = IF @ = "SLEEPING" THEN @ ELSE "READY"]
      BY <1>2 DEF Pick, PickWith
    <2>2. current' \in Tid /\ state' \in [Tid -> States]
      BY <2>1, CandidateIsThread DEF TypeOK, States
    <2>3. frame' \in [Tid -> [Frames -> Locs]]
      BY <1>2, GotoType DEF Pick, PickWith, Locs
    <2>4. prev' \in [Tid -> [Frames -> Tid]]
      BY <1>2 DEF Pick, PickWith, TypeOK, Top
    <2> QED
      BY <1>2, <2>2, <2>3, <2>4 DEF Pick, PickWith, TypeOK, mach, code, kbd, timer
  <1>3. CASE PickNone
    <2>1. frame' \in [Tid -> [Frames -> Locs]]
      BY <1>3, GotoType DEF PickNone, Return, Locs
    <2> QED
      BY <1>3, <2>1 DEF PickNone, TypeOK, tcb, mach, code, kbd, timer
  <1>4. CASE Switch
    <2>1. frame' \in [Tid -> [Frames -> Locs]]
      BY <1>4, GotoType DEF Switch, Locs
    <2>5. 0 \in Tid
      BY ThreadsAssumption DEF ThreadsAssumption, Tid
    <2>6. prev' \in [Tid -> [Frames -> Tid]]
      BY <1>4, <2>5 DEF Switch, TypeOK, Top
    <2>2. prev[cpu][Top] \in Tid
      BY DEF TypeOK, Top
    <2>3. context' \in [Tid -> [rsp : Tid, iflag : BOOLEAN]]
      BY <1>4, <2>2 DEF Switch, TypeOK
    <2>4. cpu' \in Tid /\ iflag' \in BOOLEAN
      BY <1>4, <2>3 DEF Switch, TypeOK
    <2> QED
      BY <1>4, <2>1, <2>3, <2>4, <2>6 DEF Switch, TypeOK, code, kbd, timer
  <1>5. CASE Resumed
    <2>1. frame' \in [Tid -> [Frames -> Locs]]
      BY <1>5, GotoType DEF Resumed, Return, Locs
    <2> QED
      BY <1>5, <2>1 DEF Resumed, TypeOK, States, mach, code, kbd, timer
  <1> QED
    BY <1>1, <1>2, <1>3, <1>4, <1>5 DEF Schedule

LEMMA InterruptType ==
    TypeOK /\ (PitEdge \/ TimerIrq \/ TimerReturn \/ KeyIrq) => TypeOK'
  <1> SUFFICES ASSUME TypeOK, PitEdge \/ TimerIrq \/ TimerReturn \/ KeyIrq
               PROVE  TypeOK'
    OBVIOUS
  <1>1. CASE PitEdge
    BY <1>1 DEF PitEdge, TypeOK, tcb, code, kbd, timer
  <1>2. CASE TimerIrq
    <2>1. timer_ticks' \in 0 .. TickMod - 1
      <3>1. timer_ticks + 1 \in Nat /\ TickMod \in Nat \ {0}
        BY ThreadsAssumption DEF ThreadsAssumption, TypeOK
      <3> QED  BY <1>2, <3>1, ModRange DEF TimerIrq
    <2>2. due' \in [Tid -> 0 .. TickMod - 1]
      BY <1>2, ThreadsAssumption DEF TimerIrq, TypeOK, ThreadsAssumption
    <2>3. frame' \in [Tid -> [Frames -> Locs]]
      BY <1>2 DEF TimerIrq, TypeOK, Locs
    <2> QED
      BY <1>2, <2>1, <2>2, <2>3 DEF TimerIrq, TypeOK, tcb, code, kbd, timer
  <1>3. CASE TimerReturn
    <2>1. frame' \in [Tid -> [Frames -> Locs]]
      BY <1>3, GotoType DEF TimerReturn, Locs
    <2> QED
      BY <1>3, <2>1 DEF TimerReturn, TypeOK, tcb, code, kbd, timer
  <1>4. CASE KeyIrq
    <2>1. keys' \in 0 .. KB_BUF_SIZE - 1
      BY <1>4, ThreadsAssumption DEF KeyIrq, TypeOK, ThreadsAssumption
    <2> QED
      BY <1>4, <2>1 DEF KeyIrq, TypeOK, tcb, mach, code, timer
  <1> QED
    BY <1>1, <1>2, <1>3, <1>4

LEMMA KernelMainType == TypeOK /\ KernelMain => TypeOK'
  <1> SUFFICES ASSUME TypeOK, KernelMain PROVE TypeOK'
    OBVIOUS
  <1>0. 0 \in Tid
    BY ThreadsAssumption DEF ThreadsAssumption, Tid
  <1>1. CASE ThreadCreate
    <2>1. step' \in Nat
      BY <1>1 DEF ThreadCreate, TypeOK
    <2>2. CASE UNCHANGED <<tcb, task>>
      BY <1>1, <2>1, <2>2 DEF ThreadCreate, TypeOK, tcb, mach, timer, kbd
    <2>3. CASE
             /\ thread_count < MAX_THREADS
             /\ state' = [state EXCEPT ![thread_count] = "READY"]
             /\ sleep_until' = [sleep_until EXCEPT ![thread_count] = 0]
             /\ context' = [context EXCEPT ![thread_count] =
                               [rsp |-> thread_count, iflag |-> TRUE]]
             /\ task' = [task EXCEPT ![thread_count] = Entry[Roles[step + 1]]]
             /\ thread_count' = thread_count + 1
             /\ UNCHANGED current
      <3>1. thread_count \in Tid /\ thread_count' \in 1 .. MAX_THREADS
        <4>1. thread_count \in 1 .. MAX_THREADS /\ MAX_THREADS \in Nat
          BY ThreadsAssumption DEF TypeOK, ThreadsAssumption
        <4>2. thread_count < MAX_THREADS /\ thread_count' = thread_count + 1
          BY <2>3, Zenon
        <4> QED
          BY <4>1, <4>2 DEF Tid
      <3>2. Roles[step + 1] \in RoleSet
        <4>1. step \in Nat /\ step < Len(Roles) /\ Roles \in Seq(RoleSet)
          BY <1>1, ThreadsAssumption, Zenon DEF ThreadCreate, TypeOK, ThreadsAssumption
        <4>2. Len(Roles) \in Nat
          BY <4>1
        <4>3. step + 1 \in 1 .. Len(Roles)
          BY <4>1, <4>2
        <4> QED
          BY <4>1, <4>3
      <3>3. Entry[Roles[step + 1]] \in Tasks
        BY <3>2 DEF Entry, RoleSet, Tasks
      <3>4. task' \in [Tid -> Tasks]
        BY <2>3, <3>3 DEF TypeOK
      <3>5. state' \in [Tid -> States]
        BY <2>3 DEF TypeOK, States
      <3>6. sleep_until' \in [Tid -> 0 .. TickMod - 1]
        <4>1. 0 \in 0 .. TickMod - 1
          BY ThreadsAssumption DEF ThreadsAssumption
        <4> QED  BY <2>3, <4>1 DEF TypeOK
      <3>7. context' \in [Tid -> [rsp : Tid, iflag : BOOLEAN]]
        BY <2>3, <3>1 DEF TypeOK
      <3> QED
        BY <1>1, <2>1, <2>3, <3>1, <3>4, <3>5, <3>6, <3>7
        DEF ThreadCreate, TypeOK, mach, timer, kbd
    <2> QED
      BY <1>1, <2>2, <2>3 DEF ThreadCreate
  <1>2. CASE Sti
    BY <1>0, <1>2 DEF Sti, TypeOK, Tasks, tcb, timer, kbd
  <1>3. CASE MainBeep
    BY <1>0, <1>3 DEF MainBeep, Beep, TypeOK, Tasks, tcb, mach, timer, kbd
  <1>4. CASE MainIdle
    BY <1>0, <1>4 DEF MainIdle, TypeOK, Tasks, tcb, mach, timer, kbd
  <1>5. CASE MainEnd
    BY <1>0, <1>5 DEF MainEnd, TypeOK, Tasks, tcb, mach, timer, kbd
  <1>6. CASE StopAll
    <2>1. step \in Tid
      BY <1>6, ThreadsAssumption DEF StopAll, TypeOK, Tid, ThreadsAssumption
    <2>2. state' \in [Tid -> States]
      BY <1>6, <2>1, StateChangeType DEF StopAll
    <2> QED
      BY <1>6, <2>2 DEF StopAll, TypeOK, mach, timer, kbd
  <1>7. CASE StopAllDone
    BY <1>0, <1>7 DEF StopAllDone, kprint, TypeOK, Tasks, tcb, mach, timer, kbd
  <1>8. CASE Halt
    BY <1>0, <1>8 DEF Halt, TypeOK, Tasks, tcb, timer, kbd
  <1> QED
    BY <1>1, <1>2, <1>3, <1>4, <1>5, <1>6, <1>7, <1>8 DEF KernelMain

LEMMA TaskType == ASSUME NEW t \in Tid PROVE TypeOK /\ Task(t) => TypeOK'
  <1> SUFFICES ASSUME TypeOK, Task(t) PROVE TypeOK'
    OBVIOUS
  <1> USE DEF tcb, mach, timer, kbd
  <1>1. CASE WaitDone(t)
    <2>1. task' \in [Tid -> Tasks] /\ after' \in [Tid -> Tasks]
      <3>1. after[t] \in Tasks  BY DEF TypeOK
      <3> QED  BY <1>1, <3>1, PrintType DEF WaitDone
    <2>2. start' \in [Tid -> 0 .. TickMod - 1]
      BY <1>1, ThreadsAssumption DEF WaitDone, TypeOK, ThreadsAssumption
    <2> QED
      BY <1>1, <2>1, <2>2 DEF WaitDone, TypeOK
  <1>2. CASE SpinLock(t)
    BY <1>2 DEF SpinLock, TypeOK, Tasks
  <1>3. CASE SpinUnlock(t)
    BY <1>3 DEF SpinUnlock, TypeOK, Tasks
  <1>4. CASE UiBarSleep(t)
    <2>1. "drawn" \in Tasks /\ UiSleep \in 0 .. TickMod - 1
      BY ThreadsAssumption DEF ThreadsAssumption, Tasks
    <2> QED
      BY <1>4, <2>1, SleepType DEF UiBarSleep, TypeOK
  <1>5. CASE UiBarYield(t)
    BY <1>5, YieldType DEF UiBarYield, TypeOK, Tasks
  <1>6. CASE CalcTime(t)
    <2>1. "clock" \in Tasks /\ ClockSleep \in 0 .. TickMod - 1
      BY ThreadsAssumption DEF ThreadsAssumption, Tasks
    <2> QED
      BY <1>6, <2>1, SleepType DEF CalcTime, TypeOK
  <1>7. CASE SysTime(t)
    BY <1>7, YieldType DEF SysTime, TypeOK, Tasks
  <1>8. CASE Prompt(t)
    BY <1>8, PrintType DEF Prompt, TypeOK, Tasks
  <1>9. CASE GetchYield(t)
    BY <1>9, YieldType DEF GetchYield, TypeOK, Tasks
  <1>10. CASE Getch(t)
    <2>1. keys' \in 0 .. KB_BUF_SIZE - 1
      BY <1>10, ThreadsAssumption DEF Getch, TypeOK, ThreadsAssumption
    <2>2. task' \in [Tid -> Tasks] /\ after' \in [Tid -> Tasks]
      BY <1>10, PrintType DEF Getch, Tasks
    <2> QED
      BY <1>10, <2>1, <2>2 DEF Getch, TypeOK
  <1>11. CASE LastYield(t)
    BY <1>11, YieldType DEF LastYield, TypeOK, Tasks
  <1>12. CASE ExecExit(t)
    BY <1>12 DEF ExecExit, TypeOK, Tasks
  <1>13. CASE ExecSleep(t)
    <2>1. PICK ms \in ShellSleeps : Sleep(t, ms, "lastyield")
      BY <1>13 DEF ExecSleep
    <2>2. "lastyield" \in Tasks /\ ms \in 0 .. TickMod - 1
      BY ThreadsAssumption DEF ThreadsAssumption, Tasks
    <2> QED
      BY <1>13, <2>1, <2>2, SleepType DEF ExecSleep, TypeOK
  <1>14. CASE ExecYield(t)
    BY <1>14, YieldType DEF ExecYield, TypeOK, Tasks
  <1>15. CASE ExecBeep(t)
    BY <1>15 DEF ExecBeep, Beep, TypeOK, Tasks
  <1>16. CASE ExecStop(t)
    <2>1. state' \in [Tid -> States]
      BY <1>16, StateChangeType DEF ExecStop, TypeOK
    <2>2. task' \in [Tid -> Tasks] /\ after' \in [Tid -> Tasks]
      BY <1>16, PrintType DEF ExecStop, Tasks
    <2> QED
      BY <1>16, <2>1, <2>2 DEF ExecStop, TypeOK
  <1>17. CASE StopSelf(t)
    <2>1. state' \in [Tid -> States]
      BY <1>17, StateChangeType DEF StopSelf
    <2> QED
      BY <1>17, <2>1 DEF StopSelf, TypeOK, Tasks
  <1>18. CASE ExecBlock(t)
    <2>1. state' \in [Tid -> States]
      BY <1>18, StateChangeType DEF ExecBlock, TypeOK
    <2>2. task' \in [Tid -> Tasks] /\ after' \in [Tid -> Tasks]
      BY <1>18, PrintType DEF ExecBlock, Tasks
    <2> QED
      BY <1>18, <2>1, <2>2 DEF ExecBlock, TypeOK
  <1>19. CASE ExecUnblock(t)
    <2>1. state' \in [Tid -> States]
      BY <1>19, StateChangeType DEF ExecUnblock
    <2>2. task' \in [Tid -> Tasks] /\ after' \in [Tid -> Tasks]
      BY <1>19, PrintType DEF ExecUnblock, Tasks
    <2> QED
      BY <1>19, <2>1, <2>2 DEF ExecUnblock, TypeOK
  <1> QED
    BY <1>1, <1>2, <1>3, <1>4, <1>5, <1>6, <1>7, <1>8, <1>9, <1>10, <1>11,
       <1>12, <1>13, <1>14, <1>15, <1>16, <1>17, <1>18, <1>19 DEF Task

\* Every variable keeps its type: in particular the next thread that
\* thread_schedule computes is always an entry of threads[], and the keyboard
\* ring never holds more than KB_BUF_SIZE - 1 characters.
THEOREM TypeCorrect == Spec => []TypeOK
  <1>1. Init => TypeOK
    <2> SUFFICES ASSUME Init PROVE TypeOK
      OBVIOUS
    <2>1. /\ 0 \in Tid /\ 1 \in 1 .. MAX_THREADS
          /\ 0 \in 0 .. TickMod - 1 /\ 0 \in 0 .. KB_BUF_SIZE - 1
      BY ThreadsAssumption DEF ThreadsAssumption, Tid
    <2>2. /\ state \in [Tid -> States]
          /\ task \in [Tid -> Tasks] /\ after \in [Tid -> Tasks]
      BY DEF Init, States, Tasks
    <2>3. /\ context \in [Tid -> [rsp : Tid, iflag : BOOLEAN]]
          /\ frame \in [Tid -> [Frames -> Locs]]
          /\ prev \in [Tid -> [Frames -> Tid]]
      BY <2>1 DEF Init, Locs
    <2> QED
      BY <2>1, <2>2, <2>3 DEF Init, TypeOK
  <1>2. TypeOK /\ [Next]_vars => TypeOK'
    <2> SUFFICES ASSUME TypeOK, [Next]_vars PROVE TypeOK'
      OBVIOUS
    <2>1. CASE UNCHANGED vars
      BY <2>1 DEF vars, tcb, mach, code, timer, kbd, TypeOK
    <2>2. CASE Next
      BY <2>2, ScheduleType, InterruptType, KernelMainType, TaskType
      DEF Next, Cpu
    <2> QED
      BY <2>1, <2>2
  <1> QED
    BY <1>1, <1>2, PTL DEF Spec

-----------------------------------------------------------------------------
(* Only kernel_main is preempted. *)

\* A thread in its own code has no frame of thread_schedule on its stack.
LEMMA NoFrameInTask ==
    ASSUME NEW t \in Tid, NEW loc, InTask(t, loc)
    PROVE  /\ cpu = t /\ task[t] = loc /\ Top = "call"
           /\ frame[t]["call"] = "none" /\ frame[t]["irq"] = "none"
  BY DEF InTask, At, Top

\* A step that touches neither the scheduler nor the interrupt state.
LEMMA QuietStep ==
    ASSUME PreemptInv,
           UNCHANGED <<cpu, iflag, isr0, frame, prev, context, current>>,
           task'[0] \in MainTasks, after'[0] \in MainTasks
    PROVE  PreemptInv'
  BY DEF PreemptInv, OnlyIdleIsPreempted, ContextIntegrity, SchedulerInv, At, Top

\* A call of thread_yield by a thread other than kernel_main.
LEMMA YieldStep ==
    ASSUME TypeOK, PreemptInv, NEW t \in Tid \ {0}, cpu = t, At("none"),
           frame' = [frame EXCEPT ![t]["call"] = "wake"],
           UNCHANGED <<cpu, iflag, isr0, prev, context, current, after>>,
           task'[0] = task[0]
    PROVE  PreemptInv'
  <1>1. frame[t]["irq"] = "none" /\ current = cpu
    BY DEF PreemptInv, OnlyIdleIsPreempted, ContextIntegrity, At
  <1>2. /\ \A u \in Tid : frame'[u]["irq"] = frame[u]["irq"]
        /\ \A u \in Tid \ {t} : frame'[u] = frame[u]
        /\ frame'[t]["call"] = "wake"
    BY DEF TypeOK
  <1>3. OnlyIdleIsPreempted'
    BY <1>2, ThreadsAssumption
    DEF PreemptInv, OnlyIdleIsPreempted, ThreadsAssumption, Tid
  <1>4. ContextIntegrity'
    BY <1>1, <1>2 DEF PreemptInv, ContextIntegrity, At, Top
  <1>5. SchedulerInv'
    BY <1>2, ThreadsAssumption DEF PreemptInv, SchedulerInv, ThreadsAssumption, Tid
  <1> QED
    BY <1>3, <1>4, <1>5 DEF PreemptInv

LEMMA SchedulePreempt == TypeOK /\ PreemptInv /\ Schedule => PreemptInv'
  <1> SUFFICES ASSUME TypeOK, PreemptInv, Schedule PROVE PreemptInv'
    OBVIOUS
  <1>0. 0 \in Tid /\ cpu \in Tid /\ Top \in Frames
    BY ThreadsAssumption DEF ThreadsAssumption, TypeOK, Tid, Top
  <1>t. Top = "irq" => cpu = 0
    BY <1>0 DEF PreemptInv, OnlyIdleIsPreempted, Top
  <1>u. Top = "call" => cpu # 0 \/ At("none")
    BY DEF PreemptInv, SchedulerInv, At, Top
  <1>m. ASSUME NEW loc \in Locs, Goto(loc)
        PROVE  /\ frame'[cpu][Top] = loc
               /\ \A k \in Frames \ {Top} : frame'[cpu][k] = frame[cpu][k]
               /\ \A u \in Tid \ {cpu} : frame'[u] = frame[u]
    BY <1>m, <1>0 DEF Goto, TypeOK
  <1>1. CASE Wake
    <2>1. /\ Goto("pick")
          /\ UNCHANGED <<cpu, iflag, isr0, prev, context, current, task, after>>
          /\ At("wake")
      BY <1>1 DEF Wake, WakeAll, mach, code
    <2>2. /\ frame'[cpu][Top] = "pick"
          /\ \A k \in Frames \ {Top} : frame'[cpu][k] = frame[cpu][k]
          /\ \A u \in Tid \ {cpu} : frame'[u] = frame[u]
      BY <1>m, <2>1 DEF Locs
    <2>3. Top' = Top
      BY <2>1, <2>2 DEF Top, At
    <2>4. OnlyIdleIsPreempted'
      BY <1>0, <1>t, <2>1, <2>2 DEF PreemptInv, OnlyIdleIsPreempted, Top
    <2>5. ContextIntegrity'
      BY <2>1, <2>2, <2>3 DEF PreemptInv, ContextIntegrity, At
    <2>6. SchedulerInv'
      BY <1>0, <1>t, <1>u, <2>1, <2>2 DEF PreemptInv, SchedulerInv, At, Top
    <2> QED  BY <2>4, <2>5, <2>6 DEF PreemptInv
  <1>2. CASE Pick
    <2>1. /\ Goto("switch")
          /\ prev' = [prev EXCEPT ![cpu][Top] = current]
          /\ UNCHANGED <<cpu, iflag, isr0, context, task, after>>
          /\ At("pick")
      BY <1>2 DEF Pick, PickWith, mach, code
    <2>2. /\ frame'[cpu][Top] = "switch"
          /\ \A k \in Frames \ {Top} : frame'[cpu][k] = frame[cpu][k]
          /\ \A u \in Tid \ {cpu} : frame'[u] = frame[u]
      BY <1>m, <2>1 DEF Locs
    <2>3. Top' = Top /\ At("switch")'
      BY <2>1, <2>2 DEF Top, At
    <2>4. OnlyIdleIsPreempted'
      BY <1>0, <1>t, <2>1, <2>2 DEF PreemptInv, OnlyIdleIsPreempted, Top
    <2>5. ContextIntegrity'
      <3>1. current = cpu
        BY <2>1 DEF PreemptInv, ContextIntegrity, At
      <3>2. prev'[cpu][Top] = cpu
        BY <1>0, <2>1, <3>1 DEF TypeOK
      <3> QED  BY <2>1, <2>3, <3>2 DEF PreemptInv, ContextIntegrity
    <2>6. SchedulerInv'
      BY <1>0, <1>t, <1>u, <2>1, <2>2 DEF PreemptInv, SchedulerInv, At, Top
    <2> QED  BY <2>4, <2>5, <2>6 DEF PreemptInv
  <1>3. CASE PickNone \/ Resumed
    <2>1. /\ Goto(Return)
          /\ UNCHANGED <<cpu, iflag, isr0, prev, context, current, task, after>>
          /\ At("pick") \/ At("resumed")
      BY <1>3 DEF PickNone, Resumed, tcb, mach, code
    <2>2. /\ frame'[cpu][Top] = Return
          /\ \A k \in Frames \ {Top} : frame'[cpu][k] = frame[cpu][k]
          /\ \A u \in Tid \ {cpu} : frame'[u] = frame[u]
      BY <1>m, <2>1 DEF Locs, Return
    <2>3. Top' = Top
      BY <2>1, <2>2 DEF Top, At, Return
    <2>4. OnlyIdleIsPreempted'
      BY <1>0, <1>t, <2>1, <2>2 DEF PreemptInv, OnlyIdleIsPreempted, Top, Return
    <2>5. ContextIntegrity'
      BY <2>1, <2>2, <2>3 DEF PreemptInv, ContextIntegrity, At, Return
    <2>6. SchedulerInv'
      BY <1>0, <1>t, <1>u, <2>1, <2>2 DEF PreemptInv, SchedulerInv, At, Top, Return
    <2> QED  BY <2>4, <2>5, <2>6 DEF PreemptInv
  <1>4. CASE Switch
    <2>1. /\ Goto("resumed")
          /\ prev[cpu][Top] = cpu
          /\ context' = [context EXCEPT ![cpu] = [rsp |-> cpu, iflag |-> iflag]]
          /\ cpu' = context'[current].rsp
          /\ iflag' = context'[current].iflag
          /\ UNCHANGED <<isr0, current, task, after>>
          /\ At("switch")
      BY <1>4 DEF Switch, code, PreemptInv, ContextIntegrity
    <2>2. /\ frame'[cpu][Top] = "resumed"
          /\ \A k \in Frames \ {Top} : frame'[cpu][k] = frame[cpu][k]
          /\ \A u \in Tid \ {cpu} : frame'[u] = frame[u]
      BY <1>m, <2>1 DEF Locs
    <2>3. /\ context'[cpu] = [rsp |-> cpu, iflag |-> iflag]
          /\ \A u \in Tid \ {cpu} : context'[u] = context[u]
      BY <1>0, <2>1 DEF TypeOK
    <2>4. \A u \in Tid : context'[u].rsp = u
      BY <2>3 DEF PreemptInv, ContextIntegrity
    <2>5. cpu' = current /\ current \in Tid
      BY <2>1, <2>4 DEF TypeOK
    <2>6. \A u \in Tid : \A k \in Frames : frame'[u][k] \in {"none", "resumed"}
      <3>1. \A k \in Frames \ {Top} : frame[cpu][k] = "none"
        BY <1>0, <1>t, <1>u, <2>1
        DEF PreemptInv, SchedulerInv, OnlyIdleIsPreempted, At, Top
      <3> QED  BY <1>0, <2>2, <3>1 DEF PreemptInv, SchedulerInv
    <2>7. ContextIntegrity'
      <3>1. ~At("switch")'
        BY <2>5, <2>6 DEF At, Top
      <3> QED  BY <2>1, <2>4, <2>5, <3>1 DEF ContextIntegrity
    <2>8. frame'[0]["irq"] = "resumed" /\ isr0
      <3>1. CASE cpu = 0
        BY <1>0, <1>t, <1>u, <2>1, <2>2, <3>1
        DEF PreemptInv, SchedulerInv, At, Top
      <3>2. CASE cpu # 0
        BY <1>0, <2>2, <3>2 DEF PreemptInv, OnlyIdleIsPreempted
      <3> QED  BY <3>1, <3>2
    <2>9. OnlyIdleIsPreempted'
      BY <1>0, <1>t, <2>1, <2>2, <2>8
      DEF PreemptInv, OnlyIdleIsPreempted, Top
    <2>10. ~context'[0].iflag
      <3>1. CASE cpu = 0
        BY <2>3, <2>8, <3>1 DEF PreemptInv, SchedulerInv
      <3>2. CASE cpu # 0
        BY <1>0, <2>3, <3>2 DEF PreemptInv, SchedulerInv
      <3> QED  BY <3>1, <3>2
    <2>11. SchedulerInv'
      <3>1. frame'[0]["call"] = "none"
        BY <1>0, <1>t, <1>u, <2>1, <2>2 DEF PreemptInv, SchedulerInv, At, Top
      <3> QED
        BY <2>1, <2>5, <2>6, <2>8, <2>10, <3>1 DEF PreemptInv, SchedulerInv
    <2> QED  BY <2>7, <2>9, <2>11 DEF PreemptInv
  <1> QED
    BY <1>1, <1>2, <1>3, <1>4 DEF Schedule

LEMMA InterruptPreempt ==
    TypeOK /\ PreemptInv /\ (PitEdge \/ TimerIrq \/ TimerReturn \/ KeyIrq)
      => PreemptInv'
  <1> SUFFICES ASSUME TypeOK, PreemptInv,
                      PitEdge \/ TimerIrq \/ TimerReturn \/ KeyIrq
               PROVE  PreemptInv'
    OBVIOUS
  <1>0. 0 \in Tid /\ cpu \in Tid
    BY ThreadsAssumption DEF ThreadsAssumption, TypeOK, Tid
  <1>1. CASE PitEdge \/ KeyIrq
    BY <1>1, QuietStep
    DEF PitEdge, KeyIrq, tcb, mach, code, PreemptInv, SchedulerInv
  <1>2. CASE TimerIrq
    <2>1. cpu = 0 /\ frame[0]["irq"] = "none" /\ frame[0]["call"] = "none"
      BY <1>2 DEF TimerIrq, PreemptInv, OnlyIdleIsPreempted, SchedulerInv
    <2>2. /\ frame'[0]["irq"] = "wake" /\ frame'[0]["call"] = "none"
          /\ \A u \in Tid \ {0} : frame'[u] = frame[u]
      BY <1>0, <1>2, <2>1 DEF TimerIrq, TypeOK
    <2>3. ContextIntegrity'
      BY <1>2, <2>1, <2>2 DEF TimerIrq, tcb, PreemptInv, ContextIntegrity, At, Top
    <2> QED
      BY <1>0, <1>2, <2>1, <2>2, <2>3
      DEF TimerIrq, tcb, code, PreemptInv, OnlyIdleIsPreempted, SchedulerInv
  <1>3. CASE TimerReturn
    <2>1. cpu = 0 /\ Top = "irq" /\ frame[0]["call"] = "none" /\ current = cpu
      BY <1>0, <1>3
      DEF TimerReturn, At, Top, PreemptInv, SchedulerInv, OnlyIdleIsPreempted,
          ContextIntegrity
    <2>2. /\ frame'[0]["irq"] = "none" /\ frame'[0]["call"] = "none"
          /\ \A u \in Tid \ {0} : frame'[u] = frame[u]
      BY <1>0, <1>3, <2>1 DEF TimerReturn, Goto, TypeOK
    <2>3. ContextIntegrity'
      BY <1>3, <2>1, <2>2
      DEF TimerReturn, tcb, PreemptInv, ContextIntegrity, At, Top
    <2> QED
      BY <1>0, <1>3, <2>1, <2>2, <2>3
      DEF TimerReturn, tcb, code, PreemptInv, OnlyIdleIsPreempted, SchedulerInv
  <1> QED
    BY <1>1, <1>2, <1>3

LEMMA KernelMainPreempt == TypeOK /\ PreemptInv /\ KernelMain => PreemptInv'
  <1> SUFFICES ASSUME TypeOK, PreemptInv, KernelMain PROVE PreemptInv'
    OBVIOUS
  <1>0. 0 \in Tid
    BY ThreadsAssumption DEF ThreadsAssumption, Tid
  <1>a. task[0] \in MainTasks /\ after[0] \in MainTasks
    BY DEF PreemptInv, SchedulerInv
  <1>1. CASE ThreadCreate
    <2>1. /\ UNCHANGED <<cpu, iflag, isr0, frame, prev, current, after>>
          /\ InTask(0, "create")
      BY <1>1 DEF ThreadCreate, mach, tcb
    <2>b. \/ UNCHANGED <<context, task>>
          \/ /\ context' = [context EXCEPT ![thread_count] =
                               [rsp |-> thread_count, iflag |-> TRUE]]
             /\ task' = [task EXCEPT ![thread_count] = Entry[Roles[step + 1]]]
      BY <1>1 DEF ThreadCreate, tcb
    <2>2. \A t \in Tid : context'[t].rsp = t
      <3>1. \A t \in Tid \ {thread_count} : context'[t] = context[t]
        BY <2>b DEF TypeOK
      <3>2. thread_count \in Tid =>
              context'[thread_count].rsp \in {thread_count, context[thread_count].rsp}
        BY <2>b DEF TypeOK
      <3> QED  BY <3>1, <3>2 DEF PreemptInv, ContextIntegrity
    <2>c. thread_count # 0
      BY ThreadsAssumption DEF TypeOK, ThreadsAssumption
    <2>3. task'[0] = task[0]
      BY <1>0, <2>b, <2>c DEF TypeOK
    <2>4. cpu = 0
      BY <1>0, <2>1, NoFrameInTask
    <2> QED
      BY <1>a, <2>1, <2>2, <2>3, <2>4
      DEF PreemptInv, OnlyIdleIsPreempted, ContextIntegrity, SchedulerInv, At, Top
  <1>2. CASE Sti \/ Halt
    <2>1. /\ UNCHANGED <<cpu, isr0, frame, prev, context, current, after>>
          /\ cpu = 0 /\ frame[0]["irq"] = "none"
      BY <1>0, <1>2, NoFrameInTask DEF Sti, Halt, tcb
    <2>2. task'[0] \in MainTasks
      BY <1>0, <1>2 DEF Sti, Halt, TypeOK, MainTasks
    <2> QED
      BY <1>a, <2>1, <2>2
      DEF PreemptInv, OnlyIdleIsPreempted, ContextIntegrity, SchedulerInv, At, Top
  <1>3. CASE MainBeep \/ MainIdle \/ MainEnd \/ StopAll \/ StopAllDone
    <2>1. UNCHANGED <<cpu, iflag, isr0, frame, prev, context, current>>
      BY <1>3 DEF MainBeep, MainIdle, MainEnd, StopAll, StopAllDone, mach, tcb
    <2>2. task'[0] \in MainTasks
      BY <1>0, <1>3, <1>a
      DEF MainBeep, Beep, MainIdle, MainEnd, StopAll, StopAllDone, kprint,
          TypeOK, MainTasks
    <2>3. after'[0] \in MainTasks
      BY <1>0, <1>3, <1>a
      DEF MainBeep, Beep, MainIdle, MainEnd, StopAll, StopAllDone, kprint,
          TypeOK, MainTasks
    <2> QED
      BY <2>1, <2>2, <2>3, QuietStep
  <1> QED
    BY <1>1, <1>2, <1>3 DEF KernelMain

LEMMA TaskPreempt ==
    ASSUME NEW t \in Tid PROVE TypeOK /\ PreemptInv /\ Task(t) => PreemptInv'
  <1> SUFFICES ASSUME TypeOK, PreemptInv, Task(t) PROVE PreemptInv'
    OBVIOUS
  <1> USE DEF mach, tcb
  <1>0. 0 \in Tid
    BY ThreadsAssumption DEF ThreadsAssumption, Tid
  <1>a. task[0] \in MainTasks /\ after[0] \in MainTasks
    BY DEF PreemptInv, SchedulerInv
  <1>b. ASSUME NEW loc, InTask(t, loc), loc \notin MainTasks
        PROVE  t # 0 /\ cpu = t /\ At("none")
    BY <1>a, <1>b DEF InTask
  \* Printing, waiting and the lock: used by kernel_main too.
  <1>1. CASE WaitDone(t) \/ SpinLock(t) \/ SpinUnlock(t)
    <2>1. UNCHANGED <<cpu, iflag, isr0, frame, prev, context, current>>
      BY <1>1 DEF WaitDone, SpinLock, SpinUnlock
    <2>2. task'[0] \in MainTasks /\ after'[0] \in MainTasks
      BY <1>0, <1>1, <1>a
      DEF WaitDone, SpinLock, SpinUnlock, kprint, TypeOK, MainTasks
    <2> QED
      BY <2>1, <2>2, QuietStep
  \* Steps of the shell that do not enter the scheduler.
  <1>2. CASE \/ Prompt(t) \/ Getch(t) \/ ExecExit(t) \/ ExecBeep(t)
             \/ ExecStop(t) \/ StopSelf(t) \/ ExecBlock(t) \/ ExecUnblock(t)
    <2>1. UNCHANGED <<cpu, iflag, isr0, frame, prev, context, current>>
      BY <1>2 DEF Prompt, Getch, ExecExit, ExecBeep, ExecStop, StopSelf,
                  ExecBlock, ExecUnblock
    <2>2. t # 0
      BY <1>2, <1>b DEF Prompt, Getch, ExecExit, ExecBeep, ExecStop, StopSelf,
                        ExecBlock, ExecUnblock, MainTasks
    <2>3. task'[0] = task[0] /\ after'[0] = after[0]
      BY <1>0, <1>2, <2>2
      DEF Prompt, Getch, ExecExit, ExecBeep, ExecStop, StopSelf,
          ExecBlock, ExecUnblock, kprint, Beep, TypeOK
    <2> QED
      BY <1>a, <2>1, <2>3, QuietStep
  \* Calls of thread_yield and thread_sleep.
  <1>3. CASE \/ UiBarYield(t) \/ SysTime(t) \/ GetchYield(t) \/ LastYield(t)
             \/ ExecYield(t) \/ UiBarSleep(t) \/ CalcTime(t) \/ ExecSleep(t)
    <2>1. t # 0 /\ cpu = t /\ At("none")
      BY <1>3, <1>b DEF UiBarYield, SysTime, GetchYield, LastYield, ExecYield,
                        UiBarSleep, CalcTime, ExecSleep, MainTasks
    <2>2. UNCHANGED <<cpu, iflag, isr0, prev, context, current, after>>
      BY <1>3 DEF UiBarYield, SysTime, GetchYield, LastYield, ExecYield,
                  UiBarSleep, CalcTime, ExecSleep
    <2>3. \E loc : Yield(t, loc) \/ \E ms : Sleep(t, ms, loc)
      BY <1>3 DEF UiBarYield, SysTime, GetchYield, LastYield, ExecYield,
                  UiBarSleep, CalcTime, ExecSleep
    <2>4. task'[0] = task[0]
      BY <1>0, <2>1, <2>3 DEF Yield, Sleep, TypeOK
    <2>5. CASE frame' = [frame EXCEPT ![t]["call"] = "wake"]
      BY <2>1, <2>2, <2>4, <2>5, YieldStep
    <2>6. CASE frame' = frame
      BY <1>a, <2>2, <2>4, <2>6, QuietStep
    <2> QED
      BY <2>3, <2>5, <2>6 DEF Yield, Sleep
  <1> QED
    BY <1>1, <1>2, <1>3 DEF Task

LEMMA PreemptInductive == Spec => []PreemptInv
  <1>1. Init => PreemptInv
    BY ThreadsAssumption
    DEF Init, PreemptInv, OnlyIdleIsPreempted, ContextIntegrity, SchedulerInv,
        At, Top, MainTasks, Tid, ThreadsAssumption
  <1>2. TypeOK /\ PreemptInv /\ [Next]_vars => PreemptInv'
    <2> SUFFICES ASSUME TypeOK, PreemptInv, [Next]_vars PROVE PreemptInv'
      OBVIOUS
    <2>1. CASE UNCHANGED vars
      BY <2>1, QuietStep DEF vars, tcb, mach, code, PreemptInv, SchedulerInv
    <2>2. CASE Next
      BY <2>2, SchedulePreempt, InterruptPreempt, KernelMainPreempt, TaskPreempt
      DEF Next, Cpu
    <2> QED
      BY <2>1, <2>2
  <1> QED
    BY <1>1, <1>2, TypeCorrect, PTL DEF Spec

\* Whatever the number of threads and whatever the user types, the timer
\* interrupts kernel_main only: code of the other threads between two calls
\* of the scheduler is never interrupted.
THEOREM IdleOnlyPreempted == Spec => []OnlyIdleIsPreempted
  <1>1. PreemptInv => OnlyIdleIsPreempted
    BY DEF PreemptInv
  <1> QED
    BY <1>1, PreemptInductive, PTL

\* context_switch always resumes the thread it was asked for on its own
\* stack, and current names the thread that executes.
THEOREM ContextsIntact == Spec => []ContextIntegrity
  <1>1. PreemptInv => ContextIntegrity
    BY DEF PreemptInv
  <1> QED
    BY <1>1, PreemptInductive, PTL

-----------------------------------------------------------------------------
(* Sleeping. *)

\* Only created threads have a state, and current is one of them.
TableInv ==
    /\ current < thread_count
    /\ \A t \in Tid : t >= thread_count => state[t] = "UNUSED"

\* kernel_main never sleeps, and is READY as long as another thread is
\* current: thread_schedule always finds somebody to switch to.  The thread
\* it has just chosen is not asleep.
IdleInv ==
    /\ state[0] # "SLEEPING"
    /\ current # 0 => state[0] = "READY"
    /\ At("switch") => state[current] # "SLEEPING"

\* A sleeper's deadline is the tick that will be due[t] interrupts from now.
DeadlineInv ==
    \A t \in Tid : state[t] = "SLEEPING" =>
        sleep_until[t] = (timer_ticks + due[t]) % TickMod

SleepInv == TableInv /\ IdleInv /\ SleepTakesEffect /\ DeadlineInv /\ NoOversleep

\* The remainder of a number that has passed its divisor at most once.
LEMMA ModOnce ==
    ASSUME NEW n \in Nat \ {0}, NEW a \in 0 .. 2 * n - 1
    PROVE  a % n = IF a < n THEN a ELSE a - n
  OBVIOUS

\* A step that only takes threads out of their sleep, and lets kernel_main
\* alone while another thread is current.
LEMMA QuietSleep ==
    ASSUME SleepInv,
           UNCHANGED <<cpu, frame, current, thread_count, sleep_until, timer>>,
           \A t \in Tid : state'[t] = "SLEEPING" => state[t] = "SLEEPING",
           \A t \in Tid : t >= thread_count => state'[t] = state[t],
           current # 0 => state'[0] = state[0],
           0 \in Tid, cpu \in Tid, current \in Tid
    PROVE  SleepInv'
  <1>1. Top' = Top /\ \A loc : At(loc)' <=> At(loc)
    BY DEF Top, At
  <1>2. TableInv' /\ IdleInv'
    BY <1>1 DEF SleepInv, TableInv, IdleInv
  <1>3. SleepTakesEffect' /\ DeadlineInv' /\ NoOversleep'
    BY <1>1 DEF SleepInv, SleepTakesEffect, DeadlineInv, NoOversleep, timer
  <1> QED
    BY <1>2, <1>3 DEF SleepInv

\* A thread other than kernel_main enters thread_yield.
LEMMA YieldSleep ==
    ASSUME TypeOK, SleepInv, NEW t \in Tid \ {0}, cpu = t, At("none"),
           frame[t]["irq"] = "none",
           frame' = [frame EXCEPT ![t]["call"] = "wake"],
           UNCHANGED <<cpu, current, thread_count, state, sleep_until, timer>>
    PROVE  SleepInv'
  <1>1. frame'[t]["irq"] = "none" /\ frame'[t]["call"] = "wake"
    BY DEF TypeOK
  <1>2. ~At("none")' /\ ~At("switch")'
    BY <1>1 DEF At, Top
  <1>3. TableInv' /\ IdleInv' /\ SleepTakesEffect' /\ DeadlineInv'
    BY <1>2 DEF SleepInv, TableInv, IdleInv, SleepTakesEffect, DeadlineInv, timer
  <1>4. NoOversleep'
    BY DEF SleepInv, NoOversleep, At, timer
  <1> QED
    BY <1>3, <1>4 DEF SleepInv

\* ... or thread_sleep.
LEMMA SleepSleep ==
    ASSUME TypeOK, SleepInv, NEW t \in Tid \ {0}, cpu = t, current = t,
           At("none"), frame[t]["irq"] = "none",
           NEW ms \in 0 .. TickMod - 1, NEW loc, Sleep(t, ms, loc),
           UNCHANGED <<cpu, current, thread_count, timer_ticks>>
    PROVE  SleepInv'
  <1>0. 0 \in Tid
    BY ThreadsAssumption DEF ThreadsAssumption, Tid
  <1>1. CASE ms = 0
    BY <1>0, <1>1, QuietSleep DEF Sleep, timer
  <1>2. CASE ms # 0
    <2>1. /\ sleep_until' = [sleep_until EXCEPT ![t] = (timer_ticks + ms) % TickMod]
          /\ state' = [state EXCEPT ![t] = "SLEEPING"]
          /\ due' = [due EXCEPT ![t] = ms]
          /\ frame' = [frame EXCEPT ![t]["call"] = "wake"]
      BY <1>2 DEF Sleep, Yield
    <2>2. frame'[t]["irq"] = "none" /\ frame'[t]["call"] = "wake"
      BY <2>1 DEF TypeOK
    <2>3. ~At("none")' /\ ~At("switch")'
      BY <2>2 DEF At, Top
    <2>4. /\ sleep_until'[t] = (timer_ticks + ms) % TickMod /\ due'[t] = ms
          /\ \A u \in Tid \ {t} : /\ state'[u] = state[u]
                                  /\ due'[u] = due[u]
                                  /\ sleep_until'[u] = sleep_until[u]
      BY <2>1 DEF TypeOK
    <2>5. TableInv'
      BY <2>4 DEF SleepInv, TableInv, TypeOK, Tid
    <2>6. IdleInv' /\ SleepTakesEffect'
      BY <1>0, <2>3, <2>4 DEF SleepInv, IdleInv, SleepTakesEffect
    <2>7. DeadlineInv'
      BY <2>4 DEF SleepInv, DeadlineInv
    <2>8. NoOversleep'
      BY <1>2, <2>4 DEF SleepInv, NoOversleep, At
    <2> QED
      BY <2>5, <2>6, <2>7, <2>8 DEF SleepInv
  <1> QED
    BY <1>1, <1>2

\* thread_schedule's second loop looks at every thread: kernel_main too.
LEMMA CandidateReachesIdle ==
    ASSUME TypeOK, current < thread_count
    PROVE  \E i \in 0 .. thread_count - 1 : Candidate(i) = 0
  <1>1. thread_count \in Nat \ {0} /\ current \in 0 .. thread_count - 1
    BY ThreadsAssumption DEF ThreadsAssumption, TypeOK, Tid
  <1>2. CASE current + 1 = thread_count
    <2>1. (current + 1) % thread_count = 0
      BY <1>1, <1>2, ModOnce
    <2>2. Candidate(0) = 0
      BY <1>1, <2>1, ModOnce DEF Candidate
    <2> QED
      BY <1>1, <2>2
  <1>3. CASE current + 1 < thread_count
    <2>0. current + 1 \in 0 .. 2 * thread_count - 1
      BY <1>1, <1>3
    <2>1. (current + 1) % thread_count = current + 1
      BY <1>1, <1>3, <2>0, ModOnce
    <2> DEFINE i == thread_count - (current + 1)
    <2>2. i \in 0 .. thread_count - 1 /\ (current + 1) + i = thread_count
      BY <1>1, <1>3
    <2>3. thread_count % thread_count = 0
      BY <1>1, ModOnce
    <2>4. Candidate(i) = 0
      BY <2>1, <2>2, <2>3 DEF Candidate
    <2> QED
      BY <2>2, <2>4
  <1> QED
    BY <1>1, <1>2, <1>3

LEMMA ScheduleSleep == TypeOK /\ PreemptInv /\ SleepInv /\ Schedule => SleepInv'
  <1> SUFFICES ASSUME TypeOK, PreemptInv, SleepInv, Schedule PROVE SleepInv'
    OBVIOUS
  <1>0. 0 \in Tid /\ cpu \in Tid /\ current \in Tid /\ Top \in Frames
    BY ThreadsAssumption DEF ThreadsAssumption, TypeOK, Tid, Top
  <1>m. ASSUME NEW loc \in Locs, Goto(loc)
        PROVE  /\ frame'[cpu][Top] = loc
               /\ \A k \in Frames \ {Top} : frame'[cpu][k] = frame[cpu][k]
               /\ \A u \in Tid \ {cpu} : frame'[u] = frame[u]
    BY <1>m, <1>0 DEF Goto, TypeOK
  <1>1. CASE Wake
    <2>1. /\ Goto("pick") /\ At("wake")
          /\ UNCHANGED <<cpu, current, thread_count, sleep_until, timer>>
          /\ \A t \in Tid : state'[t] = IF /\ state[t] = "SLEEPING"
                                           /\ timer_ticks >= sleep_until[t]
                                        THEN "READY" ELSE state[t]
      BY <1>1 DEF Wake, WakeAll, mach
    <2>2. ~At("none")' /\ ~At("switch")' /\ ~At("wake")'
      BY <1>0, <1>m, <2>1 DEF At, Top, Locs
    <2>3. TableInv'
      BY <2>1 DEF SleepInv, TableInv
    <2>4. IdleInv' /\ SleepTakesEffect'
      BY <1>0, <2>1, <2>2 DEF SleepInv, IdleInv, SleepTakesEffect
    <2>5. DeadlineInv'
      BY <2>1 DEF SleepInv, DeadlineInv, timer
    <2>6. NoOversleep'
      <3> SUFFICES ASSUME NEW t \in Tid, state'[t] = "SLEEPING", due'[t] = 0
                   PROVE  FALSE
        BY DEF NoOversleep
      <3>1. state[t] = "SLEEPING" /\ due[t] = 0 /\ ~(timer_ticks >= sleep_until[t])
        BY <2>1 DEF timer
      <3>2. sleep_until[t] = timer_ticks % TickMod
        BY <3>1 DEF SleepInv, DeadlineInv, TypeOK
      <3>3. /\ TickMod \in Nat \ {0} /\ timer_ticks \in 0 .. 2 * TickMod - 1
            /\ timer_ticks < TickMod
        BY ThreadsAssumption DEF TypeOK, ThreadsAssumption
      <3>4. timer_ticks % TickMod = timer_ticks
        BY <3>3, ModOnce
      <3> QED
        BY <3>1, <3>2, <3>3, <3>4
    <2> QED  BY <2>3, <2>4, <2>5, <2>6 DEF SleepInv
  <1>2. CASE Pick
    <2>1. PICK i \in 0 .. thread_count - 1 :
             /\ current' = Candidate(i)
             /\ state' = [[state EXCEPT ![Candidate(i)] = "RUNNING"]
                            EXCEPT ![current] = IF @ = "SLEEPING" THEN @ ELSE "READY"]
             /\ state[Candidate(i)] = "READY"
      BY <1>2 DEF Pick, PickWith
    <2>2. /\ Goto("switch") /\ At("pick")
          /\ UNCHANGED <<cpu, thread_count, sleep_until, timer>>
      BY <1>2 DEF Pick, PickWith, mach, timer
    <2>3. Candidate(i) \in Tid /\ Candidate(i) < thread_count
      BY CandidateIsThread DEF TypeOK
    <2>4. ~At("none")' /\ ~At("wake")'
      BY <1>0, <1>m, <2>2 DEF At, Top, Locs
    <2>5. \A t \in Tid :
             state'[t] = IF t = current
                         THEN IF t # Candidate(i) /\ state[t] = "SLEEPING"
                              THEN "SLEEPING" ELSE "READY"
                         ELSE IF t = Candidate(i) THEN "RUNNING" ELSE state[t]
      BY <1>0, <2>1, <2>3 DEF TypeOK
    <2>6. TableInv'
      <3>1. current' < thread_count
        BY <2>1, <2>3
      <3>2. ASSUME NEW t \in Tid, t >= thread_count
            PROVE  state'[t] = "UNUSED"
        <4>1. t # current /\ t # Candidate(i)
          BY <1>0, <2>3, <3>2 DEF SleepInv, TableInv, TypeOK, Tid
        <4> QED
          BY <2>5, <3>2, <4>1 DEF SleepInv, TableInv
      <3> QED
        BY <2>2, <3>1, <3>2 DEF TableInv
    <2>7. IdleInv'
      <3>1. state'[0] # "SLEEPING"
        BY <1>0, <2>5 DEF SleepInv, IdleInv
      <3>2. current' # 0 => state'[0] = "READY"
        BY <1>0, <2>1, <2>5 DEF SleepInv, IdleInv
      <3>3. state'[current'] # "SLEEPING"
        <4>1. state'[Candidate(i)] # "SLEEPING"
          BY <2>3, <2>5
        <4> QED  BY <2>1, <4>1
      <3> QED
        BY <3>1, <3>2, <3>3 DEF IdleInv
    <2>8. \A t \in Tid : state'[t] = "SLEEPING" => state[t] = "SLEEPING"
      BY <2>5
    <2>9. SleepTakesEffect' /\ DeadlineInv'
      BY <2>2, <2>4, <2>8 DEF SleepInv, SleepTakesEffect, DeadlineInv, timer
    <2>10. NoOversleep'
      BY <2>2, <2>8 DEF SleepInv, NoOversleep, At, timer
    <2> QED  BY <2>6, <2>7, <2>9, <2>10 DEF SleepInv
  <1>3. CASE PickNone
    <2>1. /\ Goto(Return) /\ At("pick")
          /\ UNCHANGED <<cpu, state, current, thread_count, sleep_until, timer>>
      BY <1>3 DEF PickNone, tcb, mach
    \* With another thread current, kernel_main would have been found.
    <2>2. current = 0 /\ cpu = 0
      <3>1. state[0] # "READY"
        BY <1>3, CandidateReachesIdle DEF PickNone, SleepInv, TableInv
      <3> QED
        BY <2>1, <3>1
        DEF SleepInv, IdleInv, PreemptInv, ContextIntegrity, At
    <2>3. ~At("switch")'
      BY <1>0, <1>m, <2>1 DEF At, Top, Locs, Return
    <2>4. TableInv' /\ IdleInv' /\ SleepTakesEffect' /\ DeadlineInv'
      BY <2>1, <2>2, <2>3
      DEF SleepInv, TableInv, IdleInv, SleepTakesEffect, DeadlineInv, timer
    <2>5. NoOversleep'
      BY <2>1 DEF SleepInv, NoOversleep, At, timer
    <2> QED  BY <2>4, <2>5 DEF SleepInv
  <1>4. CASE Switch
    <2>1. /\ Goto("resumed") /\ At("switch")
          /\ prev[cpu][Top] = cpu
          /\ context' = [context EXCEPT ![cpu] = [rsp |-> cpu, iflag |-> iflag]]
          /\ cpu' = context'[current].rsp
          /\ UNCHANGED <<state, current, thread_count, sleep_until, timer>>
      BY <1>4 DEF Switch, timer, PreemptInv, ContextIntegrity
    <2>2. cpu' = current
      BY <1>0, <2>1 DEF TypeOK, PreemptInv, ContextIntegrity
    <2>3. TableInv' /\ DeadlineInv' /\ SleepTakesEffect'
      BY <2>1, <2>2
      DEF SleepInv, TableInv, IdleInv, SleepTakesEffect, DeadlineInv, timer
    <2>4. IdleInv'
      BY <2>1, <2>2 DEF SleepInv, IdleInv
    <2>5. NoOversleep'
      BY <2>1 DEF SleepInv, NoOversleep, At, timer
    <2> QED  BY <2>3, <2>4, <2>5 DEF SleepInv
  <1>5. CASE Resumed
    <2>1. /\ Goto(Return) /\ At("resumed")
          /\ UNCHANGED <<cpu, current, thread_count, sleep_until, timer>>
          /\ state' = [state EXCEPT ![current] = "RUNNING"]
      BY <1>5 DEF Resumed, mach
    <2>2. current = cpu
      BY <2>1 DEF PreemptInv, ContextIntegrity, At
    <2>3. /\ state'[cpu] = "RUNNING"
          /\ \A t \in Tid \ {cpu} : state'[t] = state[t]
      BY <1>0, <2>1, <2>2 DEF TypeOK
    <2>4. TableInv'
      BY <1>0, <2>1, <2>2, <2>3 DEF SleepInv, TableInv, TypeOK, Tid
    <2>5. IdleInv'
      BY <1>0, <2>1, <2>2, <2>3 DEF SleepInv, IdleInv
    <2>6. SleepTakesEffect' /\ DeadlineInv'
      BY <2>1, <2>3 DEF SleepInv, SleepTakesEffect, DeadlineInv, timer
    <2>7. NoOversleep'
      BY <2>1, <2>3 DEF SleepInv, NoOversleep, At, timer
    <2> QED  BY <2>4, <2>5, <2>6, <2>7 DEF SleepInv
  <1> QED
    BY <1>1, <1>2, <1>3, <1>4, <1>5 DEF Schedule

LEMMA InterruptSleep ==
    TypeOK /\ PreemptInv /\ SleepInv /\ (PitEdge \/ TimerIrq \/ TimerReturn \/ KeyIrq)
      => SleepInv'
  <1> SUFFICES ASSUME TypeOK, PreemptInv, SleepInv,
                      PitEdge \/ TimerIrq \/ TimerReturn \/ KeyIrq
               PROVE  SleepInv'
    OBVIOUS
  <1>0. 0 \in Tid /\ cpu \in Tid /\ current \in Tid
    BY ThreadsAssumption DEF ThreadsAssumption, TypeOK, Tid
  <1>1. CASE PitEdge \/ KeyIrq
    BY <1>0, <1>1, QuietSleep DEF PitEdge, KeyIrq, tcb, mach
  <1>2. CASE TimerIrq
    <2>1. /\ cpu = 0 /\ frame[0]["irq"] = "none" /\ current = 0
          /\ UNCHANGED <<state, sleep_until, thread_count, current, cpu>>
          /\ timer_ticks' = (timer_ticks + 1) % TickMod
          /\ due' = [t \in Tid |-> IF due[t] > 0 THEN due[t] - 1 ELSE 0]
      BY <1>2 DEF TimerIrq, tcb, PreemptInv, OnlyIdleIsPreempted, SchedulerInv,
                  ContextIntegrity, At, Top
    <2>2. frame'[0]["irq"] = "wake"
      BY <1>0, <1>2, <2>1 DEF TimerIrq, TypeOK
    <2>3. Top' = "irq" /\ At("wake")' /\ ~At("switch")' /\ ~At("none")'
      BY <2>1, <2>2 DEF At, Top
    <2>4. TableInv' /\ IdleInv' /\ SleepTakesEffect' /\ NoOversleep'
      BY <2>1, <2>3
      DEF SleepInv, TableInv, IdleInv, SleepTakesEffect, NoOversleep
    <2>5. DeadlineInv'
      <3> SUFFICES ASSUME NEW t \in Tid, state[t] = "SLEEPING"
                   PROVE  sleep_until[t] = (timer_ticks' + due'[t]) % TickMod
        BY <2>1 DEF DeadlineInv
      <3>1. /\ TickMod \in Nat \ {0} /\ timer_ticks \in 0 .. TickMod - 1
            /\ due[t] \in 0 .. TickMod - 1
        BY ThreadsAssumption DEF TypeOK, ThreadsAssumption
      <3>2. due[t] > 0 /\ due'[t] = due[t] - 1
        BY <2>1, <3>1 DEF SleepInv, NoOversleep, Top
      <3>3. sleep_until[t] = (timer_ticks + due[t]) % TickMod
        BY DEF SleepInv, DeadlineInv
      <3>4. timer_ticks' = IF timer_ticks + 1 < TickMod THEN timer_ticks + 1 ELSE 0
        <4>1. timer_ticks + 1 \in 0 .. 2 * TickMod - 1
          BY <3>1
        <4>2. (timer_ticks + 1) % TickMod = IF timer_ticks + 1 < TickMod
                                            THEN timer_ticks + 1
                                            ELSE (timer_ticks + 1) - TickMod
          BY <3>1, <4>1, ModOnce
        <4> QED  BY <2>1, <3>1, <4>2
      <3>5. CASE timer_ticks + 1 < TickMod
        BY <3>1, <3>2, <3>3, <3>4, <3>5
      <3>6. CASE ~(timer_ticks + 1 < TickMod)
        <4>1. timer_ticks + due[t] = TickMod + due'[t]
          BY <3>1, <3>2, <3>6
        <4>2. TickMod + due'[t] \in 0 .. 2 * TickMod - 1 /\ due'[t] \in 0 .. 2 * TickMod - 1
          BY <3>1, <3>2
        <4>3. (TickMod + due'[t]) % TickMod = due'[t]
          <5>1. ~(TickMod + due'[t] < TickMod) /\ (TickMod + due'[t]) - TickMod = due'[t]
            BY <3>1, <3>2
          <5> QED  BY <3>1, <4>2, <5>1, ModOnce
        <4>4. due'[t] % TickMod = due'[t]
          <5>1. due'[t] < TickMod
            BY <3>1, <3>2
          <5> QED  BY <3>1, <4>2, <5>1, ModOnce
        <4> QED  BY <3>1, <3>2, <3>3, <3>4, <3>6, <4>1, <4>3, <4>4
      <3> QED  BY <3>5, <3>6
    <2> QED  BY <2>4, <2>5 DEF SleepInv
  <1>3. CASE TimerReturn
    <2>1. /\ cpu = 0 /\ current = 0 /\ At("eoi")
          /\ UNCHANGED <<state, sleep_until, thread_count, current, cpu, timer>>
      BY <1>0, <1>3
      DEF TimerReturn, tcb, At, Top, PreemptInv, SchedulerInv, OnlyIdleIsPreempted,
          ContextIntegrity
    <2>2. /\ frame'[0]["irq"] = "none" /\ frame'[0]["call"] = "none"
      BY <1>0, <1>3, <2>1
      DEF TimerReturn, Goto, TypeOK, At, Top, PreemptInv, SchedulerInv
    <2>3. TableInv' /\ IdleInv' /\ SleepTakesEffect' /\ DeadlineInv'
      BY <2>1, <2>2
      DEF SleepInv, TableInv, IdleInv, SleepTakesEffect, DeadlineInv, timer, At, Top
    <2>4. NoOversleep'
      BY <2>1 DEF SleepInv, NoOversleep, At, timer
    <2> QED  BY <2>3, <2>4 DEF SleepInv
  <1> QED
    BY <1>1, <1>2, <1>3

LEMMA KernelMainSleep ==
    TypeOK /\ PreemptInv /\ SleepInv /\ KernelMain => SleepInv'
  <1> SUFFICES ASSUME TypeOK, PreemptInv, SleepInv, KernelMain PROVE SleepInv'
    OBVIOUS
  <1>0. 0 \in Tid /\ cpu \in Tid /\ current \in Tid
    BY ThreadsAssumption DEF ThreadsAssumption, TypeOK, Tid
  <1>1. CASE ThreadCreate
    <2>1. /\ UNCHANGED <<cpu, frame, current, timer>>
          /\ cpu = 0 /\ current = 0 /\ At("none")
      BY <1>0, <1>1, NoFrameInTask
      DEF ThreadCreate, mach, tcb, PreemptInv, ContextIntegrity, At, Top
    <2>2. CASE thread_count >= MAX_THREADS
      <3>1. UNCHANGED <<state, sleep_until, thread_count>>
        <4>1. thread_count \in Nat /\ MAX_THREADS \in Nat
          BY ThreadsAssumption DEF TypeOK, ThreadsAssumption
        <4>2. ~(thread_count < MAX_THREADS)
          BY <2>2, <4>1
        <4>3. UNCHANGED tcb
          BY <1>1, <4>2, Zenon DEF ThreadCreate
        <4> QED
          BY <4>3, Zenon DEF tcb
      <3> QED  BY <1>0, <2>1, <3>1, QuietSleep
    <2>3. CASE thread_count < MAX_THREADS
      <3>1. /\ state' = [state EXCEPT ![thread_count] = "READY"]
            /\ sleep_until' = [sleep_until EXCEPT ![thread_count] = 0]
            /\ thread_count' = thread_count + 1
        BY <1>1, <2>3, ThreadsAssumption
        DEF ThreadCreate, TypeOK, ThreadsAssumption
      <3>2. thread_count \in Tid \ {0} /\ thread_count \in Nat
        BY <2>3, ThreadsAssumption DEF TypeOK, ThreadsAssumption, Tid
      <3>3. /\ state'[thread_count] = "READY"
            /\ \A t \in Tid \ {thread_count} :
                  state'[t] = state[t] /\ sleep_until'[t] = sleep_until[t]
        BY <3>1, <3>2 DEF TypeOK
      <3>4. TableInv'
        BY <2>1, <3>1, <3>2, <3>3 DEF SleepInv, TableInv, Tid
      <3>5. IdleInv' /\ SleepTakesEffect'
        BY <1>0, <2>1, <3>2, <3>3
        DEF SleepInv, IdleInv, SleepTakesEffect, At, Top
      <3>6. DeadlineInv' /\ NoOversleep'
        BY <2>1, <3>3 DEF SleepInv, DeadlineInv, NoOversleep, At, Top, timer
      <3> QED  BY <3>4, <3>5, <3>6 DEF SleepInv
    <2> QED
      BY <2>2, <2>3, ThreadsAssumption DEF TypeOK, ThreadsAssumption
  <1>2. CASE StopAll
    <2>1. /\ UNCHANGED <<cpu, frame, current, thread_count, sleep_until, timer>>
          /\ step < thread_count /\ ThreadStop(step) /\ current = 0
      BY <1>0, <1>2, NoFrameInTask
      DEF StopAll, mach, PreemptInv, ContextIntegrity, At, Top
    <2>2. /\ \A t \in Tid : state'[t] = "SLEEPING" => state[t] = "SLEEPING"
          /\ \A t \in Tid : t >= thread_count => state'[t] = state[t]
      BY <2>1 DEF ThreadStop, TypeOK, Tid
    <2> QED
      BY <1>0, <2>1, <2>2, QuietSleep
  <1>3. CASE Sti \/ Halt \/ MainBeep \/ MainIdle \/ MainEnd \/ StopAllDone
    BY <1>0, <1>3, QuietSleep
    DEF Sti, Halt, MainBeep, MainIdle, MainEnd, StopAllDone, mach, tcb
  <1> QED
    BY <1>1, <1>2, <1>3 DEF KernelMain

LEMMA TaskSleep ==
    ASSUME NEW t \in Tid
    PROVE  TypeOK /\ PreemptInv /\ SleepInv /\ Task(t) => SleepInv'
  <1> SUFFICES ASSUME TypeOK, PreemptInv, SleepInv, Task(t) PROVE SleepInv'
    OBVIOUS
  <1> USE DEF mach, tcb
  <1>0. 0 \in Tid /\ cpu \in Tid /\ current \in Tid
    BY ThreadsAssumption DEF ThreadsAssumption, TypeOK, Tid
  <1>a. task[0] \in MainTasks
    BY DEF PreemptInv, SchedulerInv
  <1>b. ASSUME NEW loc, InTask(t, loc), loc \notin MainTasks
        PROVE  /\ t # 0 /\ cpu = t /\ current = t /\ At("none")
               /\ frame[t]["irq"] = "none"
    BY <1>a, <1>b, NoFrameInTask
    DEF InTask, PreemptInv, ContextIntegrity, At, Top
  \* The states of the threads stay as they are.
  <1>1. CASE \/ WaitDone(t) \/ SpinLock(t) \/ SpinUnlock(t) \/ Prompt(t)
             \/ Getch(t) \/ ExecExit(t) \/ ExecBeep(t)
    BY <1>0, <1>1, QuietSleep
    DEF WaitDone, SpinLock, SpinUnlock, Prompt, Getch, ExecExit, ExecBeep
  \* A thread other than kernel_main is stopped, blocked or unblocked.
  <1>2. CASE ExecStop(t) \/ StopSelf(t) \/ ExecBlock(t) \/ ExecUnblock(t)
    <2>1. UNCHANGED <<cpu, frame, current, thread_count, sleep_until, timer>>
      BY <1>2 DEF ExecStop, StopSelf, ExecBlock, ExecUnblock
    <2>2. current # 0
      BY <1>2, <1>b DEF ExecStop, StopSelf, ExecBlock, ExecUnblock, MainTasks
    <2>3. \/ UNCHANGED state
          \/ \E pid \in Tid \ {0} : ThreadStop(pid) \/ ThreadBlock(pid)
          \/ \E pid \in Tid : ThreadUnblock(pid)
      BY <1>0, <1>2 DEF ExecStop, StopSelf, ExecBlock, ExecUnblock, IsShell
    <2>4. \A u \in Tid : state'[u] = "SLEEPING" => state[u] = "SLEEPING"
      BY <2>3 DEF ThreadStop, ThreadBlock, ThreadUnblock, TypeOK
    <2>5. ASSUME NEW u \in Tid, u >= thread_count PROVE state'[u] = state[u]
      <3>1. state[u] = "UNUSED" /\ u \in Tid /\ ~(u < thread_count)
        BY <2>5 DEF SleepInv, TableInv, TypeOK, Tid
      <3> QED
        BY <2>3, <3>1 DEF ThreadStop, ThreadBlock, ThreadUnblock, TypeOK
    <2>6. state'[0] = state[0]
      <3>1. state[0] # "BLOCKED"
        BY <2>2 DEF SleepInv, IdleInv
      <3> QED
        BY <1>0, <2>3, <3>1 DEF ThreadStop, ThreadBlock, ThreadUnblock, TypeOK
    <2> QED
      BY <1>0, <2>1, <2>4, <2>5, <2>6, QuietSleep
  <1>3. CASE \/ UiBarYield(t) \/ SysTime(t) \/ GetchYield(t) \/ LastYield(t)
             \/ ExecYield(t)
    <2>1. t # 0 /\ cpu = t /\ At("none") /\ frame[t]["irq"] = "none"
      BY <1>3, <1>b DEF UiBarYield, SysTime, GetchYield, LastYield, ExecYield,
                        MainTasks
    <2>2. /\ UNCHANGED <<cpu, current, thread_count, state, sleep_until, timer>>
          /\ frame' = [frame EXCEPT ![t]["call"] = "wake"]
      BY <1>3 DEF UiBarYield, SysTime, GetchYield, LastYield, ExecYield, Yield
    <2> QED
      BY <2>1, <2>2, YieldSleep
  <1>4. CASE UiBarSleep(t) \/ CalcTime(t) \/ ExecSleep(t)
    <2>1. t # 0 /\ cpu = t /\ current = t /\ At("none") /\ frame[t]["irq"] = "none"
      BY <1>4, <1>b DEF UiBarSleep, CalcTime, ExecSleep, MainTasks
    <2>2. /\ UNCHANGED <<cpu, current, thread_count, timer_ticks>>
          /\ \E ms \in 0 .. TickMod - 1 : \E loc : Sleep(t, ms, loc)
      BY <1>4, ThreadsAssumption
      DEF UiBarSleep, CalcTime, ExecSleep, ThreadsAssumption
    <2> QED
      BY <2>1, <2>2, SleepSleep
  <1> QED
    BY <1>1, <1>2, <1>3, <1>4 DEF Task

LEMMA SleepInductive == Spec => []SleepInv
  <1>1. Init => SleepInv
    <2> SUFFICES ASSUME Init PROVE SleepInv
      OBVIOUS
    <2>1. 0 \in Tid /\ \A t \in Tid : t >= 1 => t # 0
      BY ThreadsAssumption DEF Tid, ThreadsAssumption
    <2>2. \A t \in Tid : state[t] = IF t = 0 THEN "RUNNING" ELSE "UNUSED"
      BY DEF Init
    <2> QED
      BY <2>1, <2>2
      DEF Init, SleepInv, TableInv, IdleInv, SleepTakesEffect, DeadlineInv,
          NoOversleep, At, Top
  <1>2. TypeOK /\ PreemptInv /\ SleepInv /\ [Next]_vars => SleepInv'
    <2> SUFFICES ASSUME TypeOK, PreemptInv, SleepInv, [Next]_vars
                 PROVE  SleepInv'
      OBVIOUS
    <2>1. CASE UNCHANGED vars
      <3>1. 0 \in Tid /\ cpu \in Tid /\ current \in Tid
        BY ThreadsAssumption DEF ThreadsAssumption, TypeOK, Tid
      <3> QED  BY <2>1, <3>1, QuietSleep DEF vars, tcb, mach
    <2>2. CASE Next
      BY <2>2, ScheduleSleep, InterruptSleep, KernelMainSleep, TaskSleep
      DEF Next, Cpu
    <2> QED
      BY <2>1, <2>2
  <1> QED
    BY <1>1, <1>2, TypeCorrect, PreemptInductive, PTL DEF Spec

\* thread_sleep returns to its caller only once the caller has been woken,
\* for any number of threads, all of which may sleep at once.
THEOREM SleepsTakeEffect == Spec => []SleepTakesEffect
  <1>1. SleepInv => SleepTakesEffect
    BY DEF SleepInv
  <1> QED
    BY <1>1, SleepInductive, PTL

\* Every sleeper is awake before the interrupt of its last tick returns,
\* wherever timer_ticks wraps.
THEOREM NobodyOversleeps == Spec => []NoOversleep
  <1>1. SleepInv => NoOversleep
    BY DEF SleepInv
  <1> QED
    BY <1>1, SleepInductive, PTL

\* Of all the steps of the system only the scheduler's first loop makes a
\* sleeping thread READY.
LEMMA OnlyWakeWakes ==
    ASSUME TypeOK, TableInv, [Next]_vars, NEW t \in Tid,
           state[t] = "SLEEPING", state'[t] = "READY"
    PROVE  Wake
  <1> SUFFICES ASSUME ~Wake PROVE FALSE
    OBVIOUS
  <1>0. current \in Tid
    BY DEF TypeOK
  <1>1. CASE UNCHANGED state
    BY <1>1
  <1>2. CASE Pick
    <2>1. PICK i \in 0 .. thread_count - 1 :
             /\ state' = [[state EXCEPT ![Candidate(i)] = "RUNNING"]
                            EXCEPT ![current] = IF @ = "SLEEPING" THEN @ ELSE "READY"]
             /\ state[Candidate(i)] = "READY"
      BY <1>2 DEF Pick, PickWith
    <2>2. Candidate(i) \in Tid /\ Candidate(i) # t
      BY <2>1, CandidateIsThread
    <2> QED
      BY <1>0, <2>1, <2>2 DEF TypeOK
  <1>3. CASE Resumed
    BY <1>0, <1>3 DEF Resumed, TypeOK
  <1>4. CASE ThreadCreate
    <2>1. UNCHANGED state \/ state' = [state EXCEPT ![thread_count] = "READY"]
      BY <1>4 DEF ThreadCreate, tcb
    <2>2. t # thread_count
      <3>1. thread_count >= thread_count
        BY DEF TypeOK
      <3> QED  BY <3>1 DEF TableInv
    <2> QED
      BY <2>1, <2>2 DEF TypeOK
  <1>5. CASE \E pid : ThreadStop(pid) \/ ThreadBlock(pid) \/ ThreadUnblock(pid)
    BY <1>5 DEF ThreadStop, ThreadBlock, ThreadUnblock, TypeOK
  <1>6. CASE \E u \in Tid : \E ms, loc : Sleep(u, ms, loc)
    BY <1>0, <1>6 DEF Sleep, TypeOK
  <1>7. CASE PickNone \/ Switch \/ TimerReturn \/ PitEdge \/ TimerIrq \/ KeyIrq
    BY <1>1, <1>7 DEF PickNone, Switch, TimerReturn, PitEdge, TimerIrq, KeyIrq, tcb
  <1>8. CASE KernelMain
    BY <1>1, <1>4, <1>5, <1>8
    DEF KernelMain, Sti, MainBeep, MainIdle, MainEnd, StopAll, StopAllDone, Halt,
        tcb
  <1>9. CASE \E u \in Tid : Task(u)
    <2>1. PICK u \in Tid : Task(u)
      BY <1>9
    <2>2. \/ UNCHANGED state
          \/ \E pid : ThreadStop(pid) \/ ThreadBlock(pid) \/ ThreadUnblock(pid)
          \/ \E ms, loc : Sleep(u, ms, loc)
      BY <2>1
      DEF Task, WaitDone, SpinLock, SpinUnlock, UiBarSleep, UiBarYield, CalcTime,
          SysTime, Prompt, GetchYield, Getch, LastYield, ExecExit, ExecSleep,
          ExecYield, ExecBeep, ExecStop, StopSelf, ExecBlock, ExecUnblock, tcb
    <2> QED
      BY <1>1, <1>5, <1>6, <2>2
  <1> QED
    BY <1>1, <1>2, <1>3, <1>7, <1>8, <1>9 DEF Next, Cpu, Schedule, vars, tcb

\* A thread sleeps its full time, unless the deadline lies past the wrap of
\* timer_ticks.
THEOREM NoEarlyWake == Spec => EarlyWakeOnlyAtWrap
  <1> DEFINE OnTime == \A t \in Tid :
                 state[t] = "SLEEPING" /\ state'[t] = "READY" /\ due[t] > 0
                   => timer_ticks + due[t] >= TickMod
  <1>1. TypeOK /\ SleepInv /\ [Next]_vars => OnTime
    <2> SUFFICES ASSUME TypeOK, SleepInv, [Next]_vars, NEW t \in Tid,
                        state[t] = "SLEEPING", state'[t] = "READY", due[t] > 0
                 PROVE  timer_ticks + due[t] >= TickMod
      OBVIOUS
    <2>1. Wake
      BY OnlyWakeWakes DEF SleepInv
    <2>2. timer_ticks >= sleep_until[t]
      BY <2>1 DEF Wake, WakeAll
    <2>3. /\ TickMod \in Nat \ {0} /\ timer_ticks \in Nat /\ due[t] \in Nat
          /\ timer_ticks + due[t] \in 0 .. 2 * TickMod - 1
      <3>1. /\ TickMod \in Nat \ {0} /\ timer_ticks \in 0 .. TickMod - 1
            /\ due[t] \in 0 .. TickMod - 1
        BY ThreadsAssumption DEF TypeOK, ThreadsAssumption
      <3> QED
        BY <3>1
    <2>4. timer_ticks + due[t] < TickMod => sleep_until[t] = timer_ticks + due[t]
      BY <2>3, ModOnce DEF SleepInv, DeadlineInv
    <2> QED
      BY <2>2, <2>3, <2>4
  <1>2. TypeOK /\ SleepInv /\ [Next]_vars => [OnTime]_vars
    BY <1>1
  <1> QED
    BY <1>2, TypeCorrect, SleepInductive, PTL DEF Spec, EarlyWakeOnlyAtWrap

-----------------------------------------------------------------------------
(* Shutdown. *)

\* A thread that kernel_main's loop has stopped: nobody will switch to it.
Gone(t) == state[t] = "TERMINATED" /\ current # t

\* How far kernel_main's loop has come is how many threads are gone.  It is
\* false when block is among the commands, and would not be preserved if a
\* stopped thread could still be current.
StopInv ==
    /\ after[0] \notin {"stopall", "halted"}
    /\ after[0] = "bye" => task[0] \in {"wait", "lock", "locked"}
    /\ task[0] = "stopall" => /\ step <= thread_count
                              /\ \A t \in 1 .. step - 1 : Gone(t)
    /\ Stopping => \A t \in 1 .. thread_count - 1 : Gone(t)

\* Unless the user blocks it, a thread that is gone stays gone.
LEMMA GoneStays ==
    ASSUME TypeOK, TableInv, [Next]_vars, "block" \notin Commands,
           NEW t \in 1 .. thread_count - 1, Gone(t)
    PROVE  Gone(t)'
  <1>0. t \in Tid /\ t # 0 /\ t < thread_count /\ current \in Tid
    BY ThreadsAssumption DEF TypeOK, ThreadsAssumption, Tid
  <1>1. CASE UNCHANGED <<state, current>>
    BY <1>1 DEF Gone
  <1>2. CASE Wake
    BY <1>0, <1>2 DEF Wake, WakeAll, Gone
  <1>3. CASE Pick
    <2>1. PICK i \in 0 .. thread_count - 1 :
             /\ current' = Candidate(i)
             /\ state' = [[state EXCEPT ![Candidate(i)] = "RUNNING"]
                            EXCEPT ![current] = IF @ = "SLEEPING" THEN @ ELSE "READY"]
             /\ state[Candidate(i)] = "READY"
      BY <1>3 DEF Pick, PickWith
    <2>2. Candidate(i) \in Tid /\ Candidate(i) # t
      BY <2>1, CandidateIsThread DEF Gone
    <2> QED
      BY <1>0, <2>1, <2>2 DEF TypeOK, Gone
  <1>4. CASE Resumed
    BY <1>0, <1>4 DEF Resumed, TypeOK, Gone
  <1>5. CASE ThreadCreate
    <2>1. /\ UNCHANGED current
          /\ UNCHANGED state \/ state' = [state EXCEPT ![thread_count] = "READY"]
      BY <1>5 DEF ThreadCreate, tcb
    <2>2. t # thread_count
      BY <1>0 DEF TypeOK
    <2> QED
      BY <1>0, <2>1, <2>2 DEF TypeOK, Gone
  <1>6. CASE /\ UNCHANGED current
             /\ \E pid \in Nat : ThreadStop(pid) \/ ThreadUnblock(pid)
    BY <1>0, <1>6 DEF ThreadStop, ThreadUnblock, TypeOK, Gone
  <1>7. CASE UNCHANGED current /\ \E u \in Tid : \E ms, loc : Sleep(u, ms, loc)
    BY <1>0, <1>7 DEF Sleep, TypeOK, Gone
  <1>8. CASE PickNone \/ Switch \/ TimerReturn \/ PitEdge \/ TimerIrq \/ KeyIrq
    BY <1>1, <1>8 DEF PickNone, Switch, TimerReturn, PitEdge, TimerIrq, KeyIrq, tcb
  <1>9. CASE KernelMain
    BY <1>1, <1>5, <1>6, <1>9
    DEF KernelMain, Sti, MainBeep, MainIdle, MainEnd, StopAll, StopAllDone, Halt,
        tcb, TypeOK
  <1>10. CASE \E u \in Tid : Task(u)
    <2>1. PICK u \in Tid : Task(u)
      BY <1>10
    <2>2. UNCHANGED current
      BY <2>1
      DEF Task, WaitDone, SpinLock, SpinUnlock, UiBarSleep, UiBarYield, CalcTime,
          SysTime, Prompt, GetchYield, Getch, LastYield, ExecExit, ExecSleep,
          ExecYield, ExecBeep, ExecStop, StopSelf, ExecBlock, ExecUnblock, tcb
    <2>3. \/ UNCHANGED state
          \/ \E pid \in Tid : ThreadStop(pid) \/ ThreadUnblock(pid)
          \/ \E ms, loc : Sleep(u, ms, loc)
      BY <2>1
      DEF Task, WaitDone, SpinLock, SpinUnlock, UiBarSleep, UiBarYield, CalcTime,
          SysTime, Prompt, GetchYield, Getch, LastYield, ExecExit, ExecSleep,
          ExecYield, ExecBeep, ExecStop, StopSelf, ExecBlock, ExecUnblock, tcb
    <2>4. Tid \subseteq Nat
      BY DEF Tid
    <2> QED
      BY <1>1, <1>6, <1>7, <2>2, <2>3, <2>4
  <1> QED
    BY <1>1, <1>2, <1>3, <1>4, <1>8, <1>9, <1>10
    DEF Next, Cpu, Schedule, vars, tcb

\* A step in which kernel_main's code does not move.
LEMMA QuietStop ==
    ASSUME TypeOK, StopInv, task'[0] = task[0], after'[0] = after[0],
           UNCHANGED <<step, thread_count>>,
           \A t \in 1 .. thread_count - 1 : Gone(t) => Gone(t)'
    PROVE  StopInv'
  <1>1. step \in Nat /\ thread_count \in Nat
    BY ThreadsAssumption DEF TypeOK, ThreadsAssumption
  <1>2. step <= thread_count => \A t \in 1 .. step - 1 : t \in 1 .. thread_count - 1
    BY <1>1
  <1> QED
    BY <1>2 DEF StopInv, Stopping

LEMMA StopStep ==
    ASSUME "block" \notin Commands, TypeOK, PreemptInv, TableInv, StopInv,
           [Next]_vars
    PROVE  StopInv'
  <1>0. 0 \in Tid /\ step \in Nat /\ thread_count \in Nat
    BY ThreadsAssumption DEF TypeOK, ThreadsAssumption, Tid
  <1>g. \A t \in 1 .. thread_count - 1 : Gone(t) => Gone(t)'
    BY GoneStays
  <1>1. CASE UNCHANGED vars
    BY <1>1, <1>g, QuietStop DEF vars, tcb, code
  <1>2. CASE Schedule \/ TimerReturn \/ PitEdge \/ TimerIrq \/ KeyIrq
    BY <1>2, <1>g, QuietStop
    DEF Schedule, Wake, WakeAll, Pick, PickWith, PickNone, Switch, Resumed,
        TimerReturn, PitEdge, TimerIrq, KeyIrq, tcb, code
  <1>3. CASE KernelMain
    <2>0. cpu = 0 /\ current = 0
      BY <1>3 DEF KernelMain, ThreadCreate, Sti, MainBeep, MainIdle, MainEnd,
                  StopAll, StopAllDone, Halt, InTask, At, PreemptInv,
                  ContextIntegrity
    <2>1. CASE ThreadCreate
      <3>1. task[0] = "create" /\ thread_count # 0
        BY <2>1 DEF ThreadCreate, InTask, TypeOK
      <3>2. task'[0] = "create" /\ after'[0] = after[0]
        BY <1>0, <2>1, <3>1 DEF ThreadCreate, TypeOK
      <3> QED
        BY <3>1, <3>2 DEF StopInv, Stopping
    <2>2. CASE Sti \/ MainIdle
      <3>1. /\ task[0] \in {"create", "beep"} /\ task'[0] \in {"beep", "spin"}
            /\ after' = after
        BY <1>0, <2>2 DEF Sti, MainIdle, InTask, TypeOK
      <3> QED
        BY <3>1 DEF StopInv, Stopping
    <2>3. CASE MainBeep
      <3>1. /\ task[0] \in {"beep", "bye"} /\ task'[0] = "wait"
            /\ after'[0] = task[0] /\ UNCHANGED thread_count
        BY <1>0, <2>3 DEF MainBeep, InTask, Beep, TypeOK, tcb
      <3> QED
        BY <1>g, <3>1 DEF StopInv, Stopping
    <2>4. CASE MainEnd
      <3>1. /\ task[0] = "spin" /\ task'[0] = "stopall" /\ after' = after
            /\ step' = 0 /\ UNCHANGED thread_count
        BY <1>0, <2>4 DEF MainEnd, InTask, TypeOK, tcb
      <3> QED
        BY <1>0, <3>1 DEF StopInv, Stopping
    <2>5. CASE StopAll
      <3>1. /\ task[0] = "stopall" /\ step < thread_count /\ ThreadStop(step)
            /\ step' = step + 1
            /\ UNCHANGED <<task, after, thread_count, current>>
        BY <2>5 DEF StopAll, InTask
      <3>2. step \in Tid /\ state'[step] = "TERMINATED"
        BY <1>0, <3>1, ThreadsAssumption
        DEF ThreadStop, TypeOK, ThreadsAssumption, Tid
      <3>3. ASSUME NEW t \in 1 .. step PROVE Gone(t)'
        <4>1. CASE t = step
          BY <2>0, <3>1, <3>2, <3>3, <4>1 DEF Gone
        <4>2. CASE t # step
          <5>1. t \in 1 .. step - 1 /\ t \in 1 .. thread_count - 1
            BY <1>0, <3>1, <4>2
          <5> QED  BY <1>g, <3>1, <5>1 DEF StopInv
        <4> QED  BY <4>1, <4>2
      <3>4. \A t \in 1 .. step' - 1 : Gone(t)'
        BY <1>0, <3>1, <3>3
      <3>5. ~Stopping /\ ~Stopping'
        BY <3>1 DEF StopInv, Stopping
      <3>6. step' <= thread_count'
        BY <1>0, <3>1
      <3> QED
        BY <3>1, <3>4, <3>5, <3>6 DEF StopInv, Stopping
    <2>6. CASE StopAllDone
      <3>1. /\ task[0] = "stopall" /\ task'[0] = "lock" /\ after'[0] = "bye"
            /\ step = thread_count /\ UNCHANGED thread_count
        BY <1>0, <2>6 DEF StopAllDone, InTask, kprint, TypeOK, tcb
      <3> QED
        BY <1>g, <3>1 DEF StopInv, Stopping
    <2>7. CASE Halt
      <3>1. /\ task[0] = "bye" /\ task'[0] = "halted" /\ after' = after
            /\ UNCHANGED thread_count
        BY <1>0, <2>7 DEF Halt, InTask, TypeOK, tcb
      <3> QED
        BY <1>g, <3>1 DEF StopInv, Stopping
    <2> QED
      BY <1>3, <2>1, <2>2, <2>3, <2>4, <2>5, <2>6, <2>7 DEF KernelMain
  <1>4. ASSUME NEW u \in Tid, Task(u) PROVE StopInv'
    <2>1. UNCHANGED <<step, thread_count>>
      BY <1>4
      DEF Task, WaitDone, SpinLock, SpinUnlock, UiBarSleep, UiBarYield, CalcTime,
          SysTime, Prompt, GetchYield, Getch, LastYield, ExecExit, ExecSleep,
          ExecYield, ExecBeep, ExecStop, StopSelf, ExecBlock, ExecUnblock, tcb
    <2>2. CASE u # 0
      <3>1. task'[0] = task[0]
        BY <1>0, <1>4, <2>2
        DEF Task, WaitDone, SpinLock, SpinUnlock, UiBarSleep, UiBarYield, CalcTime,
            SysTime, Prompt, GetchYield, Getch, LastYield, ExecExit, ExecSleep,
            ExecYield, ExecBeep, ExecStop, StopSelf, ExecBlock, ExecUnblock, Yield,
            Sleep, kprint, Beep, TypeOK
      <3>2. after'[0] = after[0]
        BY <1>0, <1>4, <2>2
        DEF Task, WaitDone, SpinLock, SpinUnlock, UiBarSleep, UiBarYield, CalcTime,
            SysTime, Prompt, GetchYield, Getch, LastYield, ExecExit, ExecSleep,
            ExecYield, ExecBeep, ExecStop, StopSelf, ExecBlock, ExecUnblock,
            kprint, Beep, TypeOK
      <3> QED
        BY <1>g, <2>1, <3>1, <3>2, QuietStop
    <2>3. CASE u = 0
      \* Of the code above kernel_main runs only wait() and kprintf.
      <3>1. WaitDone(0) \/ SpinLock(0) \/ SpinUnlock(0)
        BY <1>4, <2>3
        DEF Task, UiBarSleep, UiBarYield, CalcTime, SysTime, Prompt, GetchYield,
            Getch, LastYield, ExecExit, ExecSleep, ExecYield, ExecBeep, ExecStop,
            StopSelf, ExecBlock, ExecUnblock, InTask, PreemptInv, SchedulerInv,
            MainTasks
      <3>2. \/ /\ task[0] \in {"wait", "lock"} /\ task'[0] \in {"lock", "locked"}
               /\ after'[0] = after[0]
            \/ /\ task[0] = "locked" /\ task'[0] = after[0] /\ after'[0] = "none"
        BY <1>0, <3>1 DEF WaitDone, SpinLock, SpinUnlock, kprint, InTask, TypeOK
      <3> QED
        BY <1>g, <2>1, <3>2 DEF StopInv, Stopping
    <2> QED
      BY <2>2, <2>3
  <1> QED
    BY <1>1, <1>2, <1>3, <1>4 DEF Next, Cpu

\* As long as the user cannot block threads, kernel_main's loop stops them
\* all for good, however often it is preempted on its way.
THEOREM ShutdownWithoutBlock ==
    "block" \notin Commands => (Spec => []ShutdownStopsAll)
  <1> SUFFICES ASSUME "block" \notin Commands PROVE Spec => []ShutdownStopsAll
    OBVIOUS
  <1>1. Init => StopInv
    BY ThreadsAssumption DEF Init, StopInv, Stopping, Tid, ThreadsAssumption
  <1>2. /\ TypeOK /\ PreemptInv /\ SleepInv /\ StopInv /\ [Next]_vars => StopInv'
    BY StopStep DEF SleepInv
  <1>3. StopInv => ShutdownStopsAll
    BY DEF StopInv, ShutdownStopsAll, Gone
  <1> QED
    BY <1>1, <1>2, <1>3, TypeCorrect, PreemptInductive, SleepInductive, PTL
    DEF Spec

=============================================================================
