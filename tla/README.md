# Verification of Snoop-Diggity-dOS

Snoop-Diggity-dOS is a small x86 kernel (`src/student-distrib`): three text
terminals, up to six processes, a round-robin scheduler, a keyboard, an RTC and a
read-only file system. This directory holds TLA+ models of the kernel, TLC
configurations that check them on small instances, and TLAPS proofs for instances
of every size. Paths below are relative to `src/student-distrib`; those that begin
with `ece391` are in `src/syscalls`.

## 1. Inventory

The kernel runs on one CPU. Interrupts and exceptions enter through interrupt gates
(interrupts off), system calls through a trap gate (interrupts on). What makes it
hard is therefore not parallelism but interruption: handlers nest, two of them
leave the CPU to another process in the middle (the timer's when it switches, the
keyboard's when it launches a terminal), and the state they share has no lock but
the interrupt flag.

| Component (code) | State | Operations | Interacts with | Hard behaviour | Correct when |
|---|---|---|---|---|---|
| Process management (`syscalls.c`, `scheduling.c`) | pid bitmap, PCB fields at the base of each kernel stack, `tss.esp0` | `execute`, `halt`, `halt_excep` | scheduler (saved contexts), terminals (`terminals[].pid`), paging | return through a frame another process left; replacement of a first shell; reuse of pids | no pid leaks, every jump goes to a context that is there, each terminal has one first shell |
| Scheduler (`scheduling.c`, `IRQ0_handler_sub`) | `terminal_being_serviced`, `eip`/`esp_k`/`ebp_k` of the PCBs | timer tick, context switch | all handlers, through `IN_INTERRUPT_FLAG` | a tick inside another handler | a process resumed has the saved context its stack holds; no terminal starves |
| Terminals (`devices/keyboard.c`) | `terminal_state`, `terminals_launched`, saved screen positions | Alt+F1..F3: switch, launch, refuse | processes, paging, console | a launch suspends the handler (and what it interrupted) on the stack | a process sees its own terminal only |
| Keyboard input (`devices/keyboard.c`) | `stdin`, `stdin_index`, `allowed_to_read`, `read_waiting` per terminal | key, Enter, Backspace, `read_terminal` | scheduler | the reader looks many keys after the Enter that released it | no old input in a later line, copies stay in the buffer, reads return |
| Console output (`lib.c`, `write_terminal`) | video memory, backing stores, `screen_x`/`screen_y`, cursor | output, echo, Ctrl+L, switch, `vidmap` drawing | terminals, paging | one position and one video memory for all terminals | each terminal looks as if it had a screen of its own |
| RTC driver (`devices/rtc.c`, `IRQ8_handler_sub`) | `rtc_flag`, `been_inited`, the chip's index register and rate | open, close, read, write, interrupt | scheduler, keyboard | select and access are two steps; one flag for all readers | a read waits for an interrupt of its own time and returns; the rate is the one asked for |
| Files (`filesystem.c`, `syscalls.c`) | descriptor table in each PCB | open, close, read of files and directories | process management (a PCB outlives its process) | reads cut at block boundaries; a full table | reads give the file's bytes in order; descriptors are accounted for |
| Interrupt controller and dispatch (`devices/i8259.c`, `interrupt_handler*`) | masks, in-service bits, handlers' frames | request, accept, EOI, return | all handlers | EOI of a suspended handler, sent twice | every EOI ends the right handler's service; no line is blocked |
| Paging (`paging.c`, `paging_asm.S`, `vidmap`) | page directories and base page tables by pid, `cr3`, the TLB | set-up at `execute`, remapping at a terminal switch, `vidmap`, loading a directory | process management, terminals | tables outlive their process; an entry rewritten in two steps; cached translations | a program reaches its own block and its own screen only, and the screen only after its `vidmap` |
| Commands (`internal_execute`, `getargs`, `halt`, `ece391shell.c`) | `commandstring` on the parent's stack, `args`, `ret_val` | run a line, `getargs`, end, fault | process management | the argument is read through a pointer into another stack; -1, 256 and a byte share one return value | each program gets its own argument, each shell its own command's fate |
| Boot (`kernel.c`, `boot.S`, `x86_desc.*`) | IDT, TSS, GDT | `entry`, once | all | interrupts are on before the first shell exists | its result is each `Init`; the window is in `Paging` |
| User programs (`ece391*.c`) | their own memory | `grep`, the tests of `ece391syserr.c` | all system calls | a buffer that cuts lines; a test that assumes a fresh table | `grep` prints the matching lines; the tests pass after any history |
| Scancode table, PS/2 set-up, other library helpers, image tools | | | | | not modelled (section 8) |

`PROJECT.json` lists the hazards one by one, each at its line, with the properties
that would catch it.

## 2. Modules

| Module | Models | Lines of code it stands for |
|---|---|---|
| `Processes` | execute/halt/exceptions, terminal switch and launch, timer, RTC handler's frame | `syscalls.c`, `scheduling.c`, `keyboard.c:231-387`, `interrupt_handler.c` |
| `Sessions` | the abstract specification: independent sessions, each a chain of processes | none: a promise |
| `ProcessesRefinement` | `Processes` with the mapping onto `Sessions` | |
| `ProcessesProofs` | theorems about `Processes` and the refinement | |
| `TerminalInput`, `TerminalInputProofs` | line buffers and `read_terminal` | `keyboard.c:76-180, 278-498` |
| `Rtc`, `RtcProofs` | RTC driver, handler and chip | `rtc.c`, `interrupt_handler.c:461-483` |
| `Files`, `FilesProofs` (theorems about `SysErr` too) | descriptors, `read_data`, directory reads | `filesystem.c`, `syscalls.c:335-480` |
| `SysErr` (extends `Files`) | the tests of `ece391syserr.c`, name matching | `ece391syserr.c`, `lib.c:900-918`, `filesystem.c:20-34` |
| `Paging` (extends `Processes`) | page tables, TLB, `vidmap`, the boot window, composed with the process layer | `paging.c`, `paging_asm.S`, `syscalls.c:523-548`, `kernel.c:264-284` |
| `Commands` (extends `Processes`) | command lines, arguments, statuses and the shell, composed with the process layer | `syscalls.c:63-217, 261-262, 491-513`, `ece391shell.c` |
| `CompositionProofs` | theorems about `Paging` and `Commands`, on top of `ProcessesProofs` | |
| `Grep`, `GrepProofs` | the program `ece391grep.c` on top of what `Files` promises | `ece391grep.c`, `ece391support.c` |
| `Console`, `ConsoleProofs` | screen, stores, positions, cursor | `lib.c:52-272`, `keyboard.c:194-266` |
| `Interrupts`, `InterruptsProofs` | the two 8259s and the handlers' frames | `i8259.c`, `interrupt_handler.c`, `scheduling.c` |
| `MC*` | instances for TLC | |

The modules share variables by name (`terminal_state`, `terminal_being_serviced`)
and rely on each other where noted: `Console`, `TerminalInput` and `Rtc` take "the
serviced terminal changes now and then" from `Processes`, which shows it;
`Interrupts` takes "the flag is set exactly inside a handler" from `FlagMeansHandler`.

### How the models stand for the code

*Granularity.* What runs with interrupts off is one action. `execute` and `halt` are
(`cli_and_save` to the `iret`), so is the Alt+Fn part of the keyboard handler, the
timer handler and `write_terminal`. The rest of the keyboard handler runs with
interrupts on; up to its EOI only the timer has a higher priority and returns at
once (`IN_INTERRUPT_FLAG`), so it is one action too. After the EOI only the flags'
restoring and the `iret` are left; a handler that nests there finds the same state
as one that comes right after. `Interrupts` does split that tail. The RTC handler
can be interrupted by a key press that launches a terminal, and is split into its
steps (`RtcEnter`, `RtcSendEoi`, `RtcExit`; four steps in `Rtc`).

*Processes.* A kernel stack and the PCB at its base are named by the pid: the code
finds the PCB by masking `tss.esp0`. `kstack[p]` is what the stack really holds, while
`eip[p]` and `esp_k[p]` are what the PCB says; the difference is what the code must get
right. A jump to a context that is not on the stack sets `crashed`. Locals that matter
after a suspension (`pid` of `internal_execute`, `flags` of the handlers) are variables.
The page table is `video[p]`, the page the pid's VIDEO entry maps. Two constants describe
the environment: `BackgroundExec` (may a process whose terminal is not displayed run
`execute`, or its first shell halt?) and `FirstShellFaults` (may a first shell raise an
exception?). Both FALSE is `ExecInForeground`; with either TRUE the code is wrong, as
section 6 says.

*TerminalInput.* `reader` is "spinning" inside `read_terminal`'s loop. The loop's body is
the one step `ReadFinish`, taken when the terminal has the CPU.

*Rtc.* `pending` is the chip's interrupt flag; it raises no interrupt until register C
has been read through the shared index register `creg`. `wanted` and `seen` are history
variables. Any number of processes may be in `read_rtc` at once. `LaunchInIrq` describes
the environment.

*Files.* The image is a constant. Addresses wrap (`ADDRESSES`), because `get_inode_ptr`
scales the index twice; `get_inode_num` is its inverse only for fewer than 128 inodes,
which `ImageAssumption` states, with what else `createfs` ensures (a regular file
has an inode). `got`, `size`, `at_end` and `held` are history variables.

*SysErr.* Each test is an operator on a descriptor table with the value the C function
returns. `Files` gives it the tables: every one that a history of opens, closes, reads and
turnovers of a pid can leave to a process that holds nothing. `read` and `write` are
modelled by when they must refuse; names are sequences of characters because the test
is about names that differ by one, and `FILE_NAME_SIZE` is small so that one name has no
terminator.

*Paging.* Every step of `Processes` is taken together with what it does to the tables and
the TLB (`PExecute` is `Execute` and `StartsProcess`, and so on). `video[p]` of `Processes` is the
page in the VIDEO entry; `pte_user` and `page_directory` hold the access bits and the
4MB frames. `tlb` is the one translation that may be cached and that the kernel changes.
`vidmap` is three steps, because it runs with interrupts on and the Makefile asks for no
optimisation: the `|=` on the table entry is a load and a store. `SwitchInVidmap` says
whether a terminal switch may come between them. Before `booted`, `BootKey` is a key
press between `sti` and the first shell: the handler loads pid 0's empty directory and
the CPU resets the machine (`Reset`).

*Commands.* `string[p]` is what the `commandstring` in the last `internal_execute` frame on
p's stack holds; it becomes `Garbage` when the stack runs above it again. `args[p]` names
the stack the PCB points into. `given`, `caller` and `outcome` are history variables: what
was on the line, who ran it, what became of it. A word is one element of a line.

*Grep.* One action per turn of the inner loop. The buffer starts full of an arbitrary
byte, `garbage`, as the stack does. The directory yields any file, any number of times.

*Console.* Cells hold characters; `own[t]` is a history variable: text and position of
terminal t if every operation had been applied to a screen of its own. Echo lets the
user delete any character, also where the code's `stdin_index` has reached 0: more
behaviours than the code has. Nothing sets the hardware cursor before the first character
is printed: until then it is `UNSET`. `BackgroundRefusal` describes the environment.

*Interrupts.* `irr` and `isr` are the controllers' registers, `stack[t]` the handlers'
frames on the kernel stack of the process in front of terminal t, each with its
progress. System calls count as user code: interrupts are on. `Accept` is the
interrupt gate up to the handler's `sti`.

## 3. Runs

| Run | Asks | Bounds | Distinct states |
|---|---|---|---|
| `processes` | all safety properties of the process layer, that it implements `Sessions`, that every terminal gets the CPU again and a suspended RTC handler its EOI | 4 pids, 3 terminals | 202,969 |
| `processes_background` | is a process filed under the terminal that started it? (no) | 3 pids, 2 terminals | |
| `paging` | memory isolation, access rights, TLB, kernel mapping | 3 pids, 3 terminals, 7 directory entries | 671,243 |
| `paging_vidmap` | does a remapping survive a `vidmap` under way? (no) | 3 pids, 2 terminals | |
| `commands` | does each program get its argument, each shell the right answer? | 3 pids, 2 terminals, 7 lines, 3 statuses | 1,214,418 |
| `input` | line buffers and reads | 2 terminals, a buffer of 4 slots, one character | 51,180 |
| `rtc` | rate, waiting, liveness of reads | 3 terminals, 11 frequencies | 21,064 |
| `rtc_launch` | do reads return when a terminal is launched in the handler? (no) | 3 terminals, 1 frequency | |
| `files` | descriptors, reads, the tests of `ece391syserr.c` | 1 pid, 5 descriptors, 6 entries, blocks of 2 bytes | 255,103 |
| `grep` | are exactly the matching lines printed? | a buffer of 3 bytes, all files of up to 7 bytes over 4 byte values, 2 patterns | 1,671,012 |
| `console` | each terminal its own screen | 2 terminals, 2x2 cells | 35,680 |
| `interrupts` | EOIs, priorities, nesting | 3 terminals, 2 frames per stack | 73,408 |

Why the bounds are enough to be interesting:

- `processes`: with 4 pids and 3 terminals the pids can run out both for `execute` and
  for a launch, a pid is reused by another terminal, a first shell is replaced on another
  pid, and an RTC handler is suspended by a launch while other terminals run on.
- `input`: the buffer can be filled, emptied and filled again around an Enter, on a
  terminal that is not displayed and one that is. One printable character is enough: the
  buffer's code tells characters apart only as printable, newline or neither.
- `rtc`: the frequencies are the limits, their neighbours and values that are no power
  of two; three terminals let two others read while a read waits, and come between a
  handler's steps.
- `files`: files that end inside and at the end of a block, an empty one, one with a
  wrong block number, the directory itself; requests of 0, 1, more than a
  block, and a negative one. One pid is enough: descriptors of two pids never meet,
  and the pid's turnover is what could carry something over.
- `paging`: three pids are enough for a pid to be freed and reused by another terminal
  after its process has called `vidmap`; three terminals for one that is neither switched
  from nor to. The directory has one entry of each kind: base table, kernel, a block per
  pid, the program image, and one that is not present.
- `commands`: three pids give a chain of two programs below a shell, or a chain and a
  launch; the lines have no argument, one, two spaces, a leading space, a name that is
  no program and one character too many; the statuses are -1, 0 and 256, which meet the
  two special answers and 0 modulo 256.
- `grep`: with a buffer of 3 and files of 7 bytes a line can be cut, fill the buffer
  exactly, end at its end, and be cut again after it has been moved down.
- `console`: output that wraps, ends in a newline, erases across a row and scrolls,
  all fit on 2x2. A page has 5 cells for 4 visible ones, as 2048 for 2000. The `VIEW`
  leaves out the displayed terminal's backing store and saved position; both are
  overwritten (`change_terminal_state` saves before it loads) before anything reads them.
- `interrupts`: two frames give every pair (timer in keyboard, keyboard in RTC, launch
  in either, a second interrupt in the tail of the first); three terminals give two
  suspended launches at once.

Deadlock is checked in every run but `grep`: the program ends. The other models may not stop.

## 4. Properties

Each is commented at its definition, with the code it is about. The central ones:

- `Processes`: `NoWildJump` (neither the timer's nor `halt`'s goto is wild),
  `EveryPidAccountedFor` and `ParentWaits` (no pid leaks; a parent waits for exactly its
  child), `OneFirstShell`, `FlagMeansHandler`, `VideoFollowsDisplay`, `TerminalIsolation`, the
  refinement `ImplementsSessions`, and the liveness properties `EveryTerminalServiced` and
  `RtcNotBlocked`. `CpuServesTerminal`, `FrontProcess` and `SavedFlagsRight` are the parts
  of the inductive invariant that the proofs need besides.
- `Paging`: `MemoryIsolated`, `AccessAsGranted` (the right to draw belongs to the process that
  called `vidmap`, through switches and reuse of its pid), `TlbCoherent`, `KernelAlwaysMapped`.
- `Commands`: `ArgumentsOwn`, `AnswerTrue`.
- `TerminalInput`: `NoStaleInput`, `AllowedIsFresh`, `EnterStillFits`,
  `CopyStaysInBuffer`, and `ReadReturns`.
- `Rtc`: what is left of a read's promise when all readers share one flag: `ReadSawInterrupt`
  (no read returns early), `ArmedFlagAwaited` (a read that has had its interrupt is delayed
  only by one begun later) and `ReadReturns` (it returns unless others begin reads again and
  again); `NextInterruptComes`, `RateAsRequested`. `InterruptNotLost` is the promise itself,
  which the code does not keep (finding 5).
- `Files`: `DescriptorsAccountedFor`, `SequentialReads` against the reference `ByteAt`,
  `ZeroMeansEnd`; `SysErrPasses` of `SysErr`.
- `Grep`: `GrepExact` against the reference `Grepped`, `NothingUnread`.
- `Console`: `EachItsOwnScreen`, `CursorShown`.
- `Interrupts`: `InServiceAccounted`, `Resumable`, `EveryInterruptTaken`.

Every property of a passing run has a mutant in `PROJECT.json`: a plausible mistake in the code, defined
next to the operator it changes, that violates it.

### Fairness

- `Processes`: the timer ticks for ever and is not always caught inside a handler, and an
  RTC handler whose process has the CPU runs on. The PIT is programmed as a rate
  generator; handlers last microseconds, a period milliseconds.
- `TerminalInput`, `Rtc`: the round robin serves every terminal (shown in `Processes`) and
  leaves it the CPU long enough for one turn of a spinning loop, again and again: a
  turn is a few instructions. The RTC ticks; its handler runs on when it has the CPU.
- `Interrupts`: a tick comes now and then in user code, and a request that could be taken
  again and again is taken. `EveryInterruptTaken` is conditional: it speaks of a line for
  which user code runs again and again without a request of a higher priority. Without
  that, keys that come faster than they are handled keep the RTC waiting for ever, by
  the controller's design.

## 5. Proofs

All are for every value of the constants, from the named `ASSUME`s only: at least one
pid and one terminal; a buffer of more than two slots; the special characters are not
printable; a page that holds the visible cells; a pattern that is not empty; an image that `createfs` could make (`ImageAssumption`, `NamesAssumption`); a
page directory that has an entry for the program image. Where a theorem also needs
something of the environment it says so in its own `ASSUME`. There are five such
conditions. Without the first four the code is wrong, as the findings of section 6 show;
the last is about a user program's test:

| Condition | Says | Without it |
|---|---|---|
| `ExecInForeground` | `execute` runs in the displayed terminal, first shells do not fault | findings 1, 7 |
| `~SwitchInVidmap` | no terminal switch between the load and the store of `vidmap` | finding 3 |
| `~LaunchInIrq` | no terminal is launched inside the RTC handler | finding 2 |
| `~BackgroundRefusal` | no launch is refused while a background terminal has the CPU | finding 8 |
| `MAX_FD_PER_PROCESS <= BIG` | the table is no larger than the descriptor that `ece391syserr` calls too big | the test itself is wrong |

`ProcessesProofs`:

- `TypeCorrect` and `VideoCorrect` hold without any assumption on the environment.
- Under `ExecInForeground`, `IInv` is inductive. Its parts need each other: that a jump is
  not wild (`NoWildJump`) needs that what can be resumed is on the stack (`ReadyToResume`)
  and that a parent waits (`ParentWaits`); that a parent waits after another process has
  halted needs that no two children share a waiting parent, which is
  `EveryPidAccountedFor` and `pid_local`; that a terminal's front process is its own
  (`FrontProcess`, `CpuServesTerminal`) keeps the executes of two terminals apart; that
  a handler never has its flags mixed up (`SavedFlagsRight`) keeps `FlagMeansHandler` and, as
  the first-shell bit is in the same word, `OneFirstShell`. One lemma per action shows
  that it preserves `IInv`.
- `Safety`, `ResumeSound`, `NoPidLeaks`, `ParentsWait`, `ShellPerTerminal`, `FlagDiscipline` and
  `Isolation` follow.

The refinement (`ProcessesProofs`): `Refinement`, `Spec => ImplementsSessions` under
`ExecInForeground`: every action maps to a step of `Sessions` or to a stutter. A process's
waiter is its parent, a first shell's itself; the mapping works because `IInv` says
that the parent of what is in front of the serviced terminal is in that terminal.

Paging (`CompositionProofs`): `Isolated`, `Granted`, `Coherent` and `KernelMapped`, under
`ExecInForeground` and `~SwitchInVidmap`. The invariant is `ProcessInv` (`IInv`, the types and
`VideoFollowsDisplay`, taken over from `ProcessesProofs` for every step that is one of
`Processes`) and `PagingInv`. `MemoryIsolated` alone is not inductive, as the tables of a
pid outlive its process: `TablesInv` says what the directory and the access bits of every
*used* pid are (nothing is said of a free one, and `execute` must make it true), `VidmapInv`
that the entry a `vidmap` under way has loaded is still the one in the table, so that its
store writes what is there. `UserTablesLoaded` says that the kernel's own directory is not
loaded again after boot, and `NothingBeforeBoot` covers the boot window.

Commands (`CompositionProofs`): `ArgumentsAreOwn` and `AnswersAreTrue`, under `ExecInForeground`. The
argument is read through a pointer into the parent's stack, so `ArgumentInv` says that
this stack still holds the line: the pointer of every process leads to its parent
(`args`, `caller`, `parentPCB` agree), and the parent's last `commandstring` is the line the
process was started with. It holds because a parent that waits runs nothing, which is
`ParentWaits` of `IInv`. `ArgumentFound` shows that the split of a line by `internal_execute`
is the reference `ArgumentGiven`, for every line.

`InterruptsProofs`: `TypeCorrect`, `ServiceAccountedFor` and `AlwaysResumable`, with no
assumption on the environment and for every depth of nesting. `InServiceAccounted` needs
the shape of the stacks (`Shape`): which handlers can be nested in which on the stack that
runs (`Active`), and what a stack looks like that a launch or the timer has left
(`Suspended`): only an RTC handler below a launch still owes its EOI. `PicOK` keeps the
master's cascade bit and the slave's register together, `Accounted` is the property in the
form that a step preserves: each line in service has exactly one frame that owes its EOI.

`RtcProofs`: `RateIsTheOneAskedFor` without assumption: `RateInv` adds that the one open that
programs the chip comes before any write, and `Shifts`, the loop of `write_rtc`, is
shown to be the logarithm, which is written out (`Log2`) and satisfies the recursion. `ReadWaitsForInterrupt` and
`ChipNeverSilent` under `~LaunchInIrq`, for any number of readers: `HandlerInv` says that the
handler that has the CPU is the only one, which is what keeps register C selected
from its select to its read. `FlagAwaited` (`ArmedFlagAwaited`) without assumption, launches
included.

`FilesProofs`: `DescriptorsExact`, `ReadsAreSequential`, `ZeroIsTheEnd`, and for `SysErr`
`SysErrAlwaysPasses`. A read's position is not enough to know what was read: `ReadInv`
relates each descriptor in use to the pieces that were read through it (`got`), the size
asked for and the file, and `read_data`'s walk through the blocks is shown to yield
`ByteAt` of every position. `SysErrAlwaysPasses` runs the tests on any table that `Holds` no
descriptor: opening until the table is full takes exactly as many opens as it has
free slots, and what the tests leave is again such a table.

`TerminalInputProofs`: `InputCorrect` (types, `NoStaleInput`, `AllowedIsFresh`), `EnterIsFresh`,
`CopyInBounds` and `EnterFits`, for every buffer size, number of terminals and alphabet.

`ConsoleProofs`: `TypeCorrect` and `CursorFollows` with no assumption on the environment,
`OwnScreens` under `~BackgroundRefusal`. `put_t` is a recursive function on the positions of
the string; `TurnsExist` shows that there is such a function and `PutScreen`, by induction on
the position, that a string printed on a screen leaves a screen. `Written` is what
`write_terminal` does once its detour through the saved positions has been undone
(`WriteExact`). With the types, `EachItsOwnScreen` says that `own[t]` equals `Shown(t)`, the page
and the position that belong to t now (`ShownIsOwn`); in that form each operation either
applies the same function to both sides (`ShownWritten`, `ShownPut`) or moves t's page and
position without changing them (`ShownChange`). The invariant adds that the displayed
terminal has been launched: a launch that showed the terminal already displayed would
load its stale backing store.

`GrepProofs`: `AllIsRead` for files of any bytes, `ExactOnText` for text files (`Plain`) and a
stack byte behind the buffer that is not a newline. `Ranges` holds for every file: a pass is
over a nonempty rest of the buffer or begins at its start, and a buffer that is not full
after a read, or a read of nothing, means the end of the file. `Tracks` holds for text files:
the bytes of the buffer from the line to search next on are the file's behind its first
`Done` bytes, `printed` holds the matching lines that begin in those (`Hits` at `Done`), and the
search goes on where a line begins, at the end, or at the newline of a line that filled the
buffer and has been searched without it (`Resumes`: without this third case the invariant is
not inductive). `WholeLine` is the heart: what is searched ends at a newline or at the
end of the file, although the code decides that by looking at a byte that may be stale.
`FoundIs` and `OccursWithin` carry the search from the buffer to the reference `Occurs`.

Induction over data. Some of these lemmas are about loops (`read_data`'s walk through the
blocks, the opens and closes of `ece391syserr`, the scan of a line, the printing of a string,
`grep`'s reference). The library's induction rules take an
operator, which the provers cannot instantiate; these lemmas are proved instead by the
least counterexample: the set of the numbers for which the claim fails has a
least element (`WFMin` of `WellFoundedInduction`), and that one cannot be.

Only model-checked: liveness (`EveryTerminalServiced`, `RtcNotBlocked`, `ReadReturns` of `Rtc`
and of `TerminalInput`, `EveryInterruptTaken`), as fairness is beyond the prover. Every other
property of a passing run is also a theorem.

## 6. Findings

Three are shown by a run that expects a violation.

1. `processes_background`: `internal_execute` files a child under the displayed terminal,
   not under the caller's (`syscalls.c:162`; `syscalls.h:87` says "terminal from which this
   process started"). A user who types a command, presses Enter and switches terminals
   before the shell has its turn gets the program in the wrong terminal.
2. `rtc_launch`: a terminal launched between the handler's register select and its read
   lets another process select another register; register C is never read, the chip
   falls silent and reads hang (`interrupt_handler.c:474`).
3. `paging_vidmap`: a terminal switch between the load and the store of `vidmap`'s page
   table entry is undone by the store (`paging.c:220`); the program draws on the other
   terminal's screen (`keyboard.c:253` and 258 say what the switch is for).

The others are hazards whose property is stated and can be put into a configuration:

4. `read_terminal` ignores `nbytes` (`keyboard.c:163`; the comment at 128 says it stops
   there): `ReadRespectsNbytes` of `TerminalInput`.
5. `rtc_flag` is shared by all readers; a read that begins sets it again before another has
   seen it cleared (`rtc.c:65`), which then waits for one interrupt more:
   `InterruptNotLost` of `Rtc`. What holds in spite of it are `ReadSawInterrupt`,
   `ArmedFlagAwaited` and `ReadReturns`, which run `rtc` checks with any number of readers.
6. The loop that clears the backing stores counts visible cells, not pages, and ends 144
   cells before the end of the last store (`lib.c:72`): `StoresCleared` of `Console`.
7. `halt_excep` has no case for a first shell (`halt` has): with `FirstShellFaults` TRUE,
   `NoWildJump` is violated by the first fault of one. The shipped shell raises none.
8. A refused Alt+Fn prints at the serviced terminal's position: with `BackgroundRefusal`
   TRUE, `EachItsOwnScreen` is violated.
9. A key pressed during boot, between `sti` and the first shell, resets the machine
   (`kernel.c:264`, `BootKey` and `Reset` of `Paging`).
10. `grep` looks at `data[BUFSIZE]` before it has written it (`ece391grep.c:33`): if that
    stack byte is a newline, a line cut by the first buffer's end is searched in two
    pieces. `GrepExact` without its condition on `garbage` is violated. In a binary file a
    cut line with a NUL in it is moved down only up to the NUL.

## 7. What the bounds do not cover

`MAX_DEPTH` bounds the frames on a kernel stack; the code has no such bound but the 8KB
of the stack, and a depth at which it overflows is not reached by the model. One RTC
handler per kernel stack is modelled in `Processes` and `Rtc`: a second one can enter only
in the tail of the first, after its EOI.

## 8. Not modelled

- The length returned by `read_directory`; the terminator that `getargs` leaves out when an
  argument fills the buffer exactly (`syscalls.c:506`).
- A CPU that uses a cached translation of VIDEO without the user bit after `vidmap` has
  granted it (`vidmap` does not flush): `TlbCoherent` claims the other direction only.
- The programming of the timer chip (`scheduling.c:239-246`, where `outb`'s arguments are
  in the other order than `outb` takes them): the models only need that it ticks.
- Attribute bytes of the screen; `printf`'s formatting.
- `disable_irq`, which nothing calls, and the handlers of the masked lines, but for the
  fact that they send no EOI.
- The scancode table (data), `ps2.c` (not called), memory functions and number formatting
  (sequential code without state), descriptor tables, the image tools. User programs but
  the shell, `grep` and `ece391syserr` are the environment: any sequence of system calls.
- `grep`'s path for an open that fails: it opens only names that the directory has just
  yielded, and has one file open at a time. An empty pattern finds nothing.

## 9. Plan

The order puts what every user program depends on first.

1. Done: `Processes`, `Sessions` and the refinement; `TerminalInput`; `Rtc`; `Files`;
   `Console`; `Interrupts`; proofs of the first two; `Paging` and `Commands` on top of
   `Processes`; `SysErr` on top of `Files`; `Grep`.
2. Done: the proofs about `Paging`, `Commands`, `Interrupts`, `Rtc`, `Files` and `SysErr`
   (section 5), each from an invariant that TLC checked first.
3. Done: the proofs about `Console` and `Grep`.
4. Further models: a composition of `TerminalInput` with `Commands` (a command typed in one
   terminal runs there).
