# A verification project for Hatcher

Hatcher is a small 64-bit kernel in C and assembly: a round-robin scheduler for
kernel threads, a heap, PS/2 keyboard, text console, ATA and FAT32 drivers, a
status bar and a shell. It has no tests. This directory holds TLA+ models of
its parts, the TLC runs that check them on small instances, and TLAPS proofs of
their main invariants for all instances.

To check a module: `tlc -config Fat32.cfg MCFat32`; to check its proofs:
`tlapm HeapProofs.tla`. `PROJECT.json` lists the runs, the mutants that show
each property can fail, the lines each definition stands for, the findings, the
hazards and the theorems.

## 1. Inventory

| Part | State | Operations | Talks to |
|---|---|---|---|
| Scheduler (`kernel/thread.c`, `context_switch.S`) | `threads[]`, `current`, `thread_count`; per thread: state, `sleep_until`, saved context | create, yield, sleep, stop, block, unblock, schedule | called by every thread and by the timer interrupt |
| Timer, interrupts (`cpu/timer.c`, `idt.c`, `8259a.c`) | `timer_ticks`, the PIC's in-service bits | IRQ0, IRQ1, EOI, `wait` | schedules *before* its EOI |
| `kernel_main` | progress of boot and shutdown, `end` | create threads, idle, stop all, halt | is thread 0 |
| Status bar (`tasks/gui.c`) | clock, CPU usage | draw, sleep, yield | scheduler, console |
| Console (`video/vga_default.c`, `kernel/debug.c`) | cells, cursor, colour, `vga_lock` | `putchar`, `kprint`, `kprintf`, `kvprintf`, `snprintf`, `kclear`, `kdbg`, drawing of the bar | the shell, the keyboard's echo, the status bar and boot write on one screen, under a spinlock |
| PC speaker | none of its own | beep, for a number of ticks | `wait` |
| Keyboard (`in/ps2.c`) | ring, shift and caps flags, line buffer | IRQ1 handler, `kgetch`, `kgets` | interrupt writes, shell reads |
| Heap (`mem/heap.c`) | doubly linked list of blocks | `kmalloc`, `kfree`, `krealloc`, `kcalloc` | everyone |
| Shell (`user/shell.c`, `tasks/sys.c`) | `env_vars`, `strtok`'s static pointer | command lists, two script interpreters, about 20 commands | all of the above |
| FAT32 (`fs/fat32.c`) | boot record, geometry, current directory, one cached FAT sector | mount, list, read, cd, format; a write path that nothing calls | ATA; shell; prompt |
| ATA (`storage/ata.c`) | `drives[4]` | detection, read and write of a sector by polling | FAT32, shell; the disks |
| C library (`libc/string.c`) | static buffers of `strtok`, `split`, `itoa` | string functions | shell |
| Boot, GDT, TSS, paging, PCI, USB, graphics card | set once | straight-line port and memory writes | |

What is hard in this system:

* **Interrupts against threads.** The timer handler switches threads inside the
  interrupt and acknowledges it only when the interrupted thread comes back.
  Which code can be preempted, and what can wait for a tick, follows from that
  and is written down nowhere.
* **One state for several callers.** `current` is changed before the stacks are;
  `strtok` has one position for all levels of nested scripts; FAT32 has one set
  of globals for two drives; `vga_lock` is a spinlock on one CPU.
* **Counters and limits.** The tick counter wraps, the ring, the heap, the table
  of threads and the table of variables fill up, directories are longer than
  the arrays they are read into.
* **Steps that fail.** Any disk read and any allocation may fail halfway.
* **Devices that answer late.** The ATA driver polls with a limit; a disk that
  answers after it meets the next call.

The properties that make each part correct are those of the runs in section 3.
Hazards that no property covers yet carry a note in `PROJECT.json`.

## 2. Modules and how they correspond to the code

### Threads

One CPU, the stacks of all threads, IRQ0 with its request and in-service bits.
Each thread owns at most two frames of `thread_schedule`: one it called and one
the interrupt called. `Schedule` runs them in the steps of the code: wake
sleepers, pick the next thread (assigning `current`), switch stacks, return.
Between any two steps the timer edge (`PitEdge`), the interrupts (`TimerIrq`,
`KeyIrq`) may come; `iflag` and `isr0` decide whether they are taken.
`KernelMain` and `Task(t)` are the code of each thread as far as it calls the
scheduler, waits for ticks or takes the console's lock. The several `kprint`
calls of one message are one critical section of the model.

### Heap

The block list as a function from the address of a header to the header. The
search of `kmalloc` is one step per block (`Advance`, `Take`, `Fail`); `kfree`,
which neither loops nor yields, is one step. `krealloc` that must move keeps
the old block while it searches. `ALIGN16` is computed modulo `WordMod`, the
range of `size_t`. Payload bytes are not modelled. `kfree` is called for live
blocks only (see the hazard on `cat`).

### TypedInput and Keyboard

`TypedInput` is what the keyboard promises: a bounded queue of characters and a
line edited by Backspace up to Enter. `Keyboard` is the ring with head and
tail, the handler as one step (IF is clear in it), the pop of `kgetch` cut at
each access of shared state, `kgets` editing in place. `ImplementsTypedInput`
is the refinement. Of the 128 scancodes one of each kind that the handler or
`kgets` treats differently is kept: a character, Backspace, Enter, a key without
character, the modifiers.

### Shell

The activations of `sh_exec`, `sh_execute_script` and `exec_sh_script`, their
heap blocks, and `strtok`'s pointer. A text is a sequence of symbols (a command
is one symbol, so are `&`, newline, blanks). `strtok` is modelled as it is,
including where it leaves its pointer; instead of the NUL it writes, a piece
carries its end. A simple command is known by the status it returns.

A script interpreter, before it comes to its text, has the blocks in `loading`:
the directory's, then the text's. Each way out of it is an action with its own
`kfree` calls: no memory for the directory (`ScriptNoMemory`), a directory error
(`ScriptNoDirectory`), no such file (`ScriptNotFound`), no memory for the text
(`ScriptNoBuffer`), nothing read (`ScriptNotRead`), or the script runs
(`ScriptStarts`) to its end (`ScriptEnds`).

The shell's stack has 8 KiB (`thread.c:44`) and nothing checks it. `StackNeeded`
counts the bytes of the large frames: `sh_exec_single`, which holds the 4 KiB
buffer of the command `read` whatever the command is, the two interpreters, and
the array of 17 KB that `cd` lists a directory into. Past the end of the stack
lies the heap; a call that goes there either destroys something that is needed
(`Overrun`, then `harmed`, where the model stops) or does no harm, down to
`StackLimit`, where it must. The sizes are constants (`FrameSize`).

### Fat32

Disks are functions from LBA to sectors; a sector has a view for each way the
driver looks at it (boot record, FAT, directory, data), so that a sector found
at a wrong address is read for what it is. `MountOk`/`MountFails` are
`fat32_mount`, called for drives 0 and 1. A directory is scanned one sector and
one slot at a time (`ScanSector`, `ScanSlot`, `ScanNext`), for
`fat32_list_dir` with its long names as for `fat32_read_dir`; a file is read
by `FileSector` and `FileNext`. `PathSelf`, `PathParent` are `build_path`, which
the prompt runs after every command. Each read and each allocation may fail. A
read either fails or delivers the sector: that is `Disk`, which `Ata` implements.
The definitions from `Volume` to `Cwd` say what is on the volume by the rules of
FAT32; they are used only by properties and by the history variable `trail`,
which is void (`lost`) until drive 0 is mounted, after `mkfs.fat32`, after a
`cd ..` in the root, where the code takes the second entry for the parent, and
after a `cd` into a deleted directory.

A deleted slot keeps all but its first byte, 0xE5 (`Erased`). `LooksDeleted` is the
driver's test for it, `SignedChar` the conversion that makes it fail: slots are
listed, read and matched by `cd` whether they are deleted or not. In a part of a long
name that byte held its number; 0xE5 reads as number 5, the last, so what is left
of a deleted long name is its first part. The field `deleted` of an entry is
history. A boot record with 0 sectors a cluster makes `fat32_mount` divide by zero
(`fat32.c:182`), an exception that ends the kernel; `MountOk` has no step for it. The
prefix `X:\` of a path (`fat32.c:460`) only shortens the text and is left out.
`DirTree`, `ReadableDirs` and `FilesSound` say of which volumes the theorems of
section 4 speak.

### Disk and Ata

`Disk` is what `fat32.c` and the shell rely on: a call that returns 0 has moved
exactly the sector asked for, one that returns -1 has at most written that
sector. `Ata` is the driver at the grain of its register accesses: selection of
the unit (`Select`, `Ready`), the address in two parts (`OutLow`, `OutHead`), the
command, the wait, the transfer; `ata_init` tries the four positions in order.
The disks are external: between any two steps of the driver a unit may become
ready, fail, or stay busy for ever. A failure shows in the bit ERR; a disk that
shows one in DF alone, which the driver never looks at, is not modelled. Writes to the registers are lost while the
selected unit is busy, and an unfinished transfer either yields to a new command
or blocks the registers; both kinds of disk are checked (`stubborn`), as are both
readings of an empty channel (`floats`). A polling loop may give up whenever its
condition does not hold, which includes every number of polls.

`ImplementsDisk` is the refinement. `Disk` promises nothing for a call that is
not `sound`: `ata_wait` gave up in it without telling its caller, the channel was
still at work on an abandoned command when it began, or no disk is attached where
the drive number points. `ReadSettles` bounds what such a call leaves behind.

### Console

The screen (cells with attributes, cursor, the static colour of `kprint`) and all
who write on it. A thread gives the CPU up only where it yields
(`OnlyIdleIsPreempted` of Threads), so what the shell prints between two yields
is one step; the bar's tasks come in while the shell waits for a key or after a
command. `putchar` is `NextRow`, `PutBackspace`, `PutGlyph`; `kprint` goes through
a text with colour tags, one `PrintAt` per character. Offsets are 16 bits wide.
A text is given as the conversions of `kprintf` leave it; they are pure functions.
Commands are told apart by what they print: an error in red, which sets the colour
back (`Error`; the answer to an unknown word is one), messages without a tag,
texts that are repeated with no colour around them (`Repeat`: names and lines from
the disk, values, the word after `xxd`), `kdbg` messages, the bytes of a file,
`clear`, nothing. History variables: `start`, where the echo of the line begins,
`stuck`, Backspace was hit in column 0, and `tinted`, the colour comes from a tag in
a text that was repeated. If such a text does not fit its buffer, `kprintf` writes
past its frame; the model then stops in `overrun`.

### MC modules

`MCThreads` chooses which threads are created; `MCHeap` and `MCKeyboard` small
constants; `MCShell` the scripts and lines; `MCFat32` a disk; `MCAta` which
units are attached and which calls are made; `MCConsole` the messages and files.

## 3. Runs

Passing runs.

| Run | Shows |
|---|---|
| `threads_safety` | With a full thread table, all commands of the shell that reach the scheduler and a beep: only `kernel_main` is ever preempted; stacks are never mixed up; sleeps take effect, are not overslept and end early only at a wrap of the counter. |
| `threads_liveness` | After `exit` or `stop` of the shell, when the stop loop has passed, all threads are TERMINATED, though the loop is preempted and also stops `kernel_main`. No READY thread starves, every timer interrupt is completed, `exit` halts the machine; or else the CPU hangs in one of the two ways `Hung` names (a thread spins on the lock `kernel_main` was preempted with; a thread waits for ticks that are masked). |
| `heap` | The list tiles the heap, free neighbours are merged, allocations are exactly what was handed out, `kmalloc` fails only if nothing fits. |
| `keyboard` | Refinement of `TypedInput`, keys hit inside a pop included; lines are terminated; Enter reaches the shell; with no shift key held shift is off, over the hand-over from the idle handler. |
| `shell` | Every allocation of the interpreters is freed exactly once, on each of their exits; `strtok`'s pointer never outlives its text and pieces never come from another text; scripts that call no script lose no line; variables are current; every line comes back to the prompt or has run over the end of the 8 KiB stack, as a script that calls itself does. |
| `fat32` | Arrays and buffers hold; the cached FAT sector is the disk's; `cd` and the prompt agree with the volume after any sequence of commands and failures; the slots of directories of one cluster, deleted ones too, are listed in order with their own names; the first cluster of a file is read right; commands on a mounted volume end. |
| `ata` | The register protocol implements `Disk`; a read in which `ata_wait` does not give up leaves a quiet channel, whatever was abandoned before, an abandoned write excepted; `ata_init` finds exactly the disks of the primary channel, if the secondary one has none and no `ata_wait` gives up; every call returns, dead disks included. |
| `console` | Nothing is stored past the screen; the line typed so far and the prompt before it are on the screen, whole, across wrapped rows, scrolling, Backspace and the bar; errors set the colour back whatever word they name; only a tag in a text that is repeated without that stays. |

Runs that find a disagreement between the code and what its comments or
messages say (details under "findings"):

| Run | Disagreement |
|---|---|
| `threads_beep` | `beep` in the shell waits for ticks that are masked while it runs. |
| `shell_script` | A script that runs a script loses its remaining lines. |
| `fat32_chain` | The second cluster of a file comes from a wrong place: the driver looks for the FAT outside of the partition. |
| `fat32_deleted` | Deleted slots of a directory are returned like any other: the mark 0xE5 is compared with a signed `char`. |

More of the same kind was met while modelling. The models contain each of these
behaviours, no run states the rule it breaks:

* `a && b` executes `b` although `a` failed: the comment at `shell.c:800` wants
  it to stop, but `strtok` has removed every `&` already (`shell.c:786`);
* long names of several parts are put together in reverse: the parts are stored
  by their order number, and the loop at `fat32.c:253` takes the last one first,
  where its comment says "in the right order";
* a disk on the secondary channel is recorded as `drives[0]` or `drives[1]`
  (`ata.c:58`), while the messages print `drives[2]` and `drives[3]`
  (`ata.c:168`, `ata.c:173`); calls for it go to the primary channel, so
  `PrimaryFound` is stated for disks on the primary channel and `Sound` asks for
  a disk where the call looks;
* `serial[20] = 0` is one past the entry (`ata.c:81`) and may clear the next
  `present`; with disks on the primary channel alone it does no harm, as the next
  position is tried afterwards;
* Backspace in the first column of a wrapped row leaves the cursor there, though
  `kgets` drops a character (`vga_default.c:58`); doing it again and again takes
  a new row each time;
* a failed line of a script that is longer than 235 characters is written past
  the buffer of `kprintf` (`shell.c:753`, `vga_default.c:398`); words of a command
  are not, for `split` cuts them at 63;
* a colour tag in a file's name, in a variable's value or in the word after `xxd`
  colours what follows, the prompt included (`shell.c:211`, `shell.c:418`,
  `shell.c:487`);
* `cd` enters the old cluster of a deleted directory when it is given what is left
  of its long name (`fat32.c:500`), and the prompt shows the deleted name of a
  directory that was renamed (`utils.c`, `build_path`), with the byte 0xE5 in it;
* `cd` at the prompt, and any command in a script, need more than the 8 KiB of the
  shell's stack (`shell.c:616`, `fat32.c:495`, `thread.c:44`);
* the CPU usage shown is 100 or 0, for the thread that asks who is running is the
  bar's own (`gui.c:31`);
* `block` of the running shell is undone by the next `thread_schedule`, which
  makes every previous thread READY that does not sleep (`thread.c:116`);
* a stopped thread runs again after `block` and `unblock`, for
  `thread_block` does not look at the state it overwrites (`thread.c:78`);
* a sleep whose deadline lies past the wrap of `timer_ticks` ends at the next
  schedule (`thread.c:90`, `thread.c:101`); `EarlyWakeOnlyAtWrap` shows it is the
  only way to wake early;
* `Set n=v` is printed although the table of variables is full and nothing was
  set (`shell.c:54`, `shell.c:211`);
* `exec` returns success for a script with failed lines (`shell.c:229`);
* `cd ..` in the root takes the second entry of the root for the parent, a
  file's cluster for instance (`fat32.c:487`); `CwdOnTrail` and `PromptIsTrail`
  hold until then (`lost`);
* a disk made by `mkfs.fat32` is refused by `fat32_mount` (`fat32.c:790`);
* `ls` without a mounted volume follows a chain of zeros for ever
  (`fat32.c:222`); `CommandEnds` is stated for mounted volumes.

### Bounds

* Threads: three threads (`kernel_main`, one status task, the shell) are the
  least with a choice in the round robin. `threads_safety` creates one thread
  more than its table holds; `threads_liveness` has four.
  `TickMod` is 2 to 4, so that the counter wraps many times and deadlines fall
  on both sides of it; sleeps are shorter than a turn. The ring holds one key,
  which is enough: Threads only needs to know if there is one.
* Heap: 28 bytes, headers of 4, alignment 2 give up to four blocks, so that a
  block has both neighbours free or taken in all combinations; requests of 0
  (which wraps through -1 and back in `ALIGN16`), odd ones and the largest that
  does not wrap (`62` of `WordMod` 64) are included. The assumption on `Requests`
  leaves out the 15 sizes at the top of `size_t` that `ALIGN16` rounds to 0; no
  caller asks for them.
* Keyboard: a ring of 3 and a line of 3 fill up and wrap, with a key of every
  kind that the handler or `kgets` treats differently.
* Shell: lines of up to 4 symbols, 7 scripts, 2 variables for 3 names, 9 heap
  blocks (the line and four nested scripts). Frames have the sizes of the compiled
  code; `StackLimit` is 23000, which lets `cd` and four levels of scripts run past the
  end of the stack unharmed, so that each command is both executed and fatal
  there. In the code the limit is about 1 MB, where the kernel's image begins; more
  levels repeat the same steps.
* Fat32: 22 sectors, 4 FAT entries, 2 bytes a sector; a renamed directory whose old
  slot comes first, a deleted one with a long name of two parts, one that is full to the last slot, three levels of
  directories with a prompt of at most 2 names, a file of one and one of two
  clusters, a label, a boot loader between the partition table and the
  partition; arrays of 5 entries, smaller than one of the directories as `ls` sees it.
* Ata: four ways to attach units (one disk with a CD drive on the other channel,
  two disks, disks on both channels, none), two values for each part of the
  address, a call that needs the high part, calls for both units and for a drive
  number out of range; any number of calls.
* Console: 4 rows of 6 columns, so that a line of 7 characters wraps, and wraps
  while the screen scrolls; a buffer of 20, which the answer to the longest word
  fills and a repeated text fits, fills or overruns; the cursor starts anywhere.

No run uses symmetry. `CHECK_DEADLOCK FALSE` is given for Threads, as the
kernel ends in `cli; hlt`, and for Shell and Console, as nothing is said of the
kernel after an overrun of the stack or of a buffer.

### Fairness

* Threads: the CPU never stops executing (`WF Cpu`); the PIT keeps ticking
  (`WF PitEdge`) and a deliverable IRQ0 is delivered (`WF TimerIrq`). A tick is
  a millisecond, so `kernel_main` executes some of its own instructions between
  two ticks: it advances although the interrupt comes again and again
  (`SF Idle`). Nothing is assumed of the user: no key need ever be hit.
* Keyboard (`WF` of the shell), Shell (`WF Interpret`), Fat32 (`WF Work`): the
  shell's thread keeps running, which is `ReadyRuns` of Threads. Nothing says
  that a command is typed, that an allocation or a read succeeds.
* Ata (`WF Driver`): the driver polls without yielding. Nothing is assumed of the
  disks, which may never answer, nor of the callers.

## 4. Proofs

All theorems hold for every value of the constants that satisfies the named
assumption of the module.

* **ThreadsProofs** (`ThreadsAssumption`: at least one slot, sleeps shorter
  than a turn of the counter). `TypeCorrect`; `IdleOnlyPreempted` and
  `ContextsIntact`. Neither is inductive alone: that only `kernel_main` is
  preempted holds because IRQ0 stays in service as long as `kernel_main` is in
  its handler, because the handler runs and is resumed with interrupts off, and
  because frames the CPU is not in wait inside `context_switch`. `PreemptInv`
  adds these facts (`SchedulerInv`), and each step of the scheduler, of the
  interrupts and of the threads is shown to keep them.
  `SleepsTakeEffect` and `NobodyOversleeps` rest on `SleepInv`: `kernel_main` never
  sleeps and is READY whenever another thread is current, so `thread_schedule`
  finds somebody (`IdleInv`), and a sleeper's deadline, modulo the counter, is the
  tick that is `due` interrupts away (`DeadlineInv`). `NoEarlyWake`, an action
  property, follows from the same invariant. `ShutdownWithoutBlock` has the
  hypothesis `"block" \notin Commands`: with the two commands a stopped thread can
  be made READY again, and the property is false. `StopInv` counts the threads that
  are gone by the progress of `kernel_main`'s loop.
* **HeapProofs** (`HeapAssumption`: header and alignment sizes, requests that
  do not wrap when rounded up). The inductive invariant `HeapInv` says the list
  is well formed (tiles the heap, links undo each other, headers apart), is
  coalesced, that what is allocated is what was handed out, and what a search
  under way may rely on. Splitting, absorbing a neighbour and releasing a block
  have lemmas of their own; `ListTilesHeap`, `BlocksDisjoint`, `FreeCoalesced`,
  `AllocationsKept`, `ReallocCopiesLess`, `SearchIsFirstFit` and `TypeCorrect`
  follow.
* **KeyboardProofs** (`KeyboardAssumption`: both buffers have at least two
  cells). `KeyboardInv` says what holds in the middle of a pop: the cell that
  is being read is not written by the handler, for the ring keeps one cell
  free. `KeyboardRefines` shows that `Keyboard` implements `TypedInput` under
  the mapping in `Keyboard`, with the lemmas `PushAppends`, `PopTakesHead` and
  `LineEdits` on the three kinds of steps.
* **ShellProofs** (`ShellAssumption`: lines and scripts are texts, frames have
  sizes). `ShellInv` adds to `MemoryOwned` and `StrtokOwned` that two activations share no block, that
  only the outermost one is `sh_exec`, that `strtok`'s pointer is NULL when an
  activation is finished (otherwise the caller would go on in a freed text), and
  what `strtok` has left of the innermost text (`TextInv`), and that a script being
  loaded has blocks of its own and a caller that waits for it (`LoadInv`): without
  it an exit could free a block of an activation below. From it
  `NoLeakNoUseAfterFree`, `StrtokNeverDangles` and `PlainTextsExecuted`. `EnvInv` is
  a second invariant, for `VariablesCurrent`.
* **AtaProofs** (`AtaAssumption`: non-empty address parts, disks with an image,
  calls with a drive and an LBA, error values that are no contents). `SoundInv`
  follows a sound call through the registers: what it has written is there, the
  command under way is its own. `AtaRefinesDisk` maps each step to a step of
  `Disk` or a stutter with it. `ReadInv` says what a channel does during a read and
  gives `ReadsSettle`; `IdentifyInv` says which positions `ata_init` has recorded
  and gives `PrimaryDisksFound`.
* **Fat32Proofs** (`Fat32Assumption`: the image is made of sectors, of any
  contents and not necessarily a FAT32 volume; no sector has the number that
  stands for an empty cache). `Fat32Inv` adds to `BuffersHold` and `CacheCoherent`
  the types of the driver's state and of the call under way, and that each sector
  is as it was at boot or as `mkfs.fat32` writes it: the cache is coherent because
  the one writer writes what is in `Formatted`. `NoBufferOverrun` and
  `FatCacheCoherent` follow.
* **Fat32VolumeProofs** compares what the driver gives the shell with what is on
  the volume. Its theorems have hypotheses on the volume, which `MCFat32` assumes
  of its disk, so that TLC evaluates them:
  * `DirTree(dirs)`: there is one disk; each directory that `cd` can reach is one
    cluster, all there, and ends with an end mark or where the driver sees its end;
    its long names are complete, or deleted with their entry; a subdirectory begins with `.` and `..`. Further
    clusters of a directory are out: the driver looks for the FAT at a wrong place
    (the finding of `fat32_chain`). A second disk is out: mounting it replaces the
    geometry of the first, under which `cd` and `ls` then go on.
  * `ReadableDirs(dirs)`: no directory has more slots than `build_path` reads.
  * `FilesSound(dirs, onward)`: the files that `cat` opens are whole, and where the
    driver goes on from one of more than a cluster it meets no end (`onward` are
    the clusters it may meet there; in the small instance 5 and 0).

  What a chain of clusters is (`ChainOf`, with `SelectSeq`) cannot be expanded by the
  provers, so that `Chain[d] = <<d>>` and `Head(Chain[f]) = f` are parts of the
  hypotheses.

  `ScanInv` says what a scan under way holds: the array has the entries of the first
  slots, in their order (`Matched`; `Rank` counts the slots that count); the rest of
  the sector in hand is the rest of the directory (`InCluster`, along the sectors
  laid end to end, `FlatTo`); of the long name under way all parts passed are there,
  or, of a deleted one, the last of them, and none of an earlier one (`LfnHeld`);
  behind the cluster the driver meets an end mark at once (`Beyond`). It is kept by `ScanSector`, `ScanSlot` and `ScanNext`,
  failing reads included. `VolInv` (`VolumeAlways`) adds the addresses (`GeoInv`),
  that each directory of the trail holds the next one, and that the current
  directory is the last; without the entry of the subdirectory in its parent
  `cd ..` could not be shown to come back. `CwdFollowsTrail` and `LsListsDirectory`
  follow. `PromptInv` follows `build_path` up the trail: the names found are the
  last ones, and the directory at hand is the one they lead up to;
  `PromptShowsTrail` follows. `CatInv` says that the bytes copied are those of the
  file as far as the first cluster goes, sector by sector, that the end of the
  chain is met only when all bytes that were asked for are there, and gives
  `CatReadsFirstCluster`.
* **ConsoleProofs** (`ConsoleAssumption`: at least three rows and two columns,
  positions fit the cursor registers, the prompt and the longest line fit below
  the bar's row, `kprintf`'s buffer holds the messages and the answer to the
  longest word; `MessagesAssumption`: what is in `Messages` has no tag, for what has
  one is in `Errors` or in `Texts`). `kprint`, the bar
  and `cat` are loops over a text, written as recursive functions; `PrintedSteps`,
  `DrawnSteps` and `BytesSteps` show that these functions exist and satisfy their
  equations, by induction over the positions of the text (`UpTo`, from the
  well-foundedness of `<`). `ConsoleInv` says that after boot the cursor is always
  below the bar: without it a Backspace at position 0 would leave the screen.
  `NothingPastScreen` and `PromptColour` follow. `LineEchoed` and `PromptStands`
  count the columns that text fills (`Linear`, `Position`); `GlyphMove` says what a
  character does to all text before it, whether it wraps, scrolls or neither, and
  `Rubbing` that a rubout changes one cell. A line that scrolls begins in the third
  row or below, so it is not scrolled into the bar. `PromptStands` has the
  hypothesis `PlainPrompt`: a tag in the name of a directory is not shown.

`BlocksDisjoint`, `ReallocCopiesLess`, `TypeCorrect` of Heap and Keyboard, and the
lemmas on pops state definitions that no run checks: they are proved for every
instance.

Only model-checked:

* everything under fairness: liveness and `ENABLED` are out of the prover's reach;
* the four runs that show a disagreement with a comment or a document.

## 5. Not modelled

Boot code, descriptor tables, paging, PCI and USB probes, graphics card: set up
once, by straight-line code. CPU exceptions end the kernel. Of the shell's
commands not the raw sector commands, `xxd`, `lspid` and those that only print.
The digits that the conversions of `kprintf`, `kvprintf` and `snprintf` write, the
sizes of string buffers outside of `kprintf`, and stack frames of less than
1 KB other than those of the interpreters.

Code that nothing calls, so that no state of the running kernel shows what it
does: the FAT32 write path (`fat32.c:333`-`447` and `515`-`721`; `mkfs.fat32`, which
is called, is modelled), `read_device_info` and `ata_identify_device` of `ata.c`,
`kprint_hex`, `kprintc`, `kprintci`, `kprinti`, `kprinti_vidmem`, `kprint_hex_w`,
`get_cursor_x`, `get_cursor_y`, `set_cursor_xy` and `disable_cursor` of
`vga_default.c`, the sums `heap_used` and `heap_free`. The strings IDENTIFY
delivers, and the carries of the clock in `calc_time`.

## 6. Plan

1. Threads, Heap, Keyboard with TypedInput, Shell, Fat32, Ata with Disk, Console:
   done.
2. Proofs of the safety invariants of Threads, Heap, Keyboard, Shell, Ata, Fat32
   and Console, and of the refinements of `TypedInput` and `Disk`: done.
3. An abstract scheduler (a set of runnable threads, one of which runs), and
   Threads shown to implement it.
4. If the FAT32 write path gets callers: allocation of clusters and FAT updates
   with failing writes, on the sectors of Fat32.
