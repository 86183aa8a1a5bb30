------------------------------ MODULE Processes ------------------------------
(***************************************************************************)
(* The process and terminal management of Snoop-Diggity-dOS: the pid       *)
(* bitmap, the process control blocks, the execute and halt system calls,  *)
(* the keyboard handler's terminal switching and the timer's round robin   *)
(* (scheduling.c, syscalls.c, devices/keyboard.c, interrupt_handler.c).    *)
(*                                                                         *)
(* The machine has one CPU.  Exceptions and IRQs enter through interrupt   *)
(* gates (interrupts off), system calls through a trap gate (interrupts    *)
(* on).  execute and halt run with interrupts off, and so does the Alt+Fn  *)
(* part of the keyboard handler; the rest of the keyboard handler can, up  *)
(* to its EOI, only be interrupted by the timer, which returns at once     *)
(* because the handler has set IN_INTERRUPT_FLAG; what nests after the EOI *)
(* is taken to come after the handler, which only restores flags and       *)
(* returns (Interrupts splits it).  Each is therefore one action.  The     *)
(* RTC handler (IRQ8, lower priority than the keyboard) really can be      *)
(* interrupted by a key press that launches a terminal, and is split into  *)
(* its interruptible steps.                                                *)
(*                                                                         *)
(* A kernel stack (and the PCB at its base) is named by the pid it belongs *)
(* to: the kernel finds the current PCB by masking tss.esp0.  The boot     *)
(* stack is the stack of pid 0.                                            *)
(***************************************************************************)
EXTENDS Naturals

CONSTANTS
    MAX_NUM_PROCS,     \* number of pids (scheduling.h: 6)
    NUM_TERMINALS,     \* number of terminals (keyboard.h: 3)
    BackgroundExec,    \* may a process run execute, or its first shell halt,
                       \* while another terminal is displayed?
    FirstShellFaults   \* may the first shell of a terminal raise an exception?

ASSUME ProcsAssumption == MAX_NUM_PROCS \in Nat \ {0}
ASSUME TerminalsAssumption == NUM_TERMINALS \in Nat \ {0}
ASSUME EnvironmentAssumption ==
    /\ BackgroundExec \in BOOLEAN
    /\ FirstShellFaults \in BOOLEAN

Pid == 0 .. MAX_NUM_PROCS - 1
Terminal == 0 .. NUM_TERMINALS - 1

FIRST_TERM_SHELL == "first_term_shell"        \* bit 0 of pcb_t.flags
IN_INTERRUPT_FLAG == "in_interrupt_flag"      \* bit 1 of pcb_t.flags
Flag == {FIRST_TERM_SHELL, IN_INTERRUPT_FLAG}

\* Where a context saved in a PCB continues: after the timer's switch
\* (SWITCH_CONTEXT), after a terminal launch in the keyboard handler
\* (SWITCH_TERMINAL_CONTEXT), in internal_execute waiting for the child
\* (JMP_POS_HALT), or nowhere yet (the BSS zero).
Context == {"none", "switch", "keyboard", "execute"}

VARIABLES
    pid_avail,                 \* the pids marked used in the bitmap
    parentPCB, esp0, flags,    \* fields of pcb_t, by pid
    owned_by_terminal,
    eip, esp_k,
    terminals,                 \* terminals[t].pid
    terminals_launched,
    terminal_state,            \* the displayed terminal
    terminal_being_serviced,   \* the terminal whose process has the CPU
    tss,                       \* whose stack tss.esp0 names
    cr3,                       \* whose page directory is loaded
    video,                     \* the page each pid's VIDEO entry maps
    kstack,                    \* what the pid's kernel stack really holds
    pid_local,                 \* the local `pid' of internal_execute's frame
    kbd_flags, rtc_flags,      \* the local `flags' of the IRQ handlers' frames
                               \* (locals of a frame that is gone are cleared)
    rtc,                       \* progress of an RTC handler on the pid's stack
    crashed                    \* control went to a context that is not there

pcbVars == <<parentPCB, esp0, owned_by_terminal>>
cpuVars == <<tss, cr3, eip, esp_k, kstack, crashed>>
termVars == <<terminals, terminals_launched, terminal_state, terminal_being_serviced>>
irqVars == <<flags, kbd_flags, rtc_flags, rtc>>
vars == <<pid_avail, video, pid_local, pcbVars, cpuVars, termVars, irqVars>>

\* The 4KB pages from VIDEO on: video memory itself, then the terminals' backing
\* stores, VIDEO + (t+1)*4KB.
Page == 0 .. NUM_TERMINALS
VIDEO == 0
Backing(t) == t + 1

TypeOK ==
    /\ pid_avail \subseteq Pid
    /\ parentPCB \in [Pid -> Pid]
    /\ esp0 \in [Pid -> Pid]
    /\ flags \in [Pid -> SUBSET Flag]
    /\ owned_by_terminal \in [Pid -> Terminal]
    /\ eip \in [Pid -> Context]
    /\ esp_k \in [Pid -> Context]
    /\ terminals \in [Terminal -> Pid]
    /\ terminals_launched \subseteq Terminal
    /\ terminal_state \in Terminal
    /\ terminal_being_serviced \in Terminal
    /\ tss \in Pid
    /\ cr3 \in Pid
    /\ video \in [Pid -> Page]
    /\ kstack \in [Pid -> Context \cup {"running"}]
    /\ pid_local \in [Pid -> Pid]
    /\ kbd_flags \in [Pid -> SUBSET Flag]
    /\ rtc_flags \in [Pid -> SUBSET Flag]
    /\ rtc \in [Pid -> {"idle", "in_service", "eoi_sent"}]
    /\ crashed \in BOOLEAN

-----------------------------------------------------------------------------
(***************************************************************************)
(* The state after entry() has started the first shell: pid 0, whose PCB   *)
(* lies on the boot stack, so that it is its own parent.                   *)
(***************************************************************************)
Init ==
    /\ pid_avail = {0}
    /\ parentPCB = [p \in Pid |-> 0]
    /\ esp0 = [p \in Pid |-> 0]
    /\ flags = [p \in Pid |-> IF p = 0 THEN {FIRST_TERM_SHELL} ELSE {}]
    /\ owned_by_terminal = [p \in Pid |-> 0]
    /\ eip = [p \in Pid |-> "none"]
    /\ esp_k = [p \in Pid |-> "none"]
    /\ terminals = [t \in Terminal |-> 0]
    /\ terminals_launched = {0}
    /\ terminal_state = 0
    /\ terminal_being_serviced = 0
    /\ tss = 0
    /\ cr3 = 0
    /\ video = [p \in Pid |-> VIDEO]
    /\ kstack = [p \in Pid |-> IF p = 0 THEN "running" ELSE "none"]
    /\ pid_local = [p \in Pid |-> 0]
    /\ kbd_flags = [p \in Pid |-> {}]
    /\ rtc_flags = [p \in Pid |-> {}]
    /\ rtc = [p \in Pid |-> "idle"]
    /\ crashed = FALSE

\* The pid bitmap: a pid's bit set and cleared.
mark_pid_used(used, pid) == used \cup {pid}
MarkFreeForgotten(used, pid) == used    \* mutant: the bit stays set
mark_pid_free(used, pid) == used \ {pid}

\* get_available_pid: the lowest pid whose bit is clear in `used'.
AvailableIgnoresBitmap(used, pid) == pid = 0    \* mutant: no bit is looked at
Available(used, pid) ==
    /\ pid \notin used
    /\ \A q \in Pid : q < pid => q \in used

\* The running process is in its own code, with no IRQ handler below it, so
\* that it can make a system call or raise an exception.
InUserCode == rtc[tss] = "idle"

\* execute and the first shell's halt use the displayed terminal for the
\* serviced one; BackgroundExec says whether the two may differ then.
MayExec == BackgroundExec \/ terminal_state = terminal_being_serviced

-----------------------------------------------------------------------------
(***************************************************************************)
(* internal_execute up to the iret: the child `pid' is set up from the PCB *)
(* `curr' that tss.esp0 names, for the displayed terminal `shown'.  The    *)
(* child's eip and esp_k keep what the PCB's last user left there.         *)
(***************************************************************************)
StartChild(pid, curr, shown, used) ==
    /\ parentPCB' = [parentPCB EXCEPT ![pid] = curr]
    /\ esp0' = [esp0 EXCEPT ![pid] = curr]
    /\ owned_by_terminal' = [owned_by_terminal EXCEPT ![pid] = shown]
    /\ terminals' = [terminals EXCEPT ![shown] = pid]
    /\ tss' = pid
    /\ cr3' = pid
    /\ pid_avail' = mark_pid_used(used, pid)

\* execute(command) finding an executable, for the available pid.  A command
\* that is too long, missing or not executable, or a full bitmap, changes nothing.
Execute(pid) ==
    /\ ~crashed
    /\ InUserCode
    /\ MayExec
    /\ Available(pid_avail, pid)
    /\ StartChild(pid, tss, terminal_state, pid_avail)
    /\ flags' = [flags EXCEPT ![pid] = {}]
    /\ video' = [video EXCEPT ![pid] = VIDEO]
    /\ esp_k' = [esp_k EXCEPT ![tss] = "execute"]
    /\ kstack' = [kstack EXCEPT ![tss] = "execute", ![pid] = "running"]
    /\ pid_local' = [pid_local EXCEPT ![tss] = pid]
    /\ UNCHANGED <<eip, terminals_launched, terminal_state, terminal_being_serviced,
                   kbd_flags, rtc_flags, rtc, crashed>>

\* The common end of halt and halt_excep: back onto the parent's stack as the
\* parent's PCB remembers it, to JMP_POS_HALT, which frees the pid its own
\* frame holds and returns from execute.
ReturnToParent(p) ==
    LET parent == parentPCB[p] IN
    /\ tss' = esp0[p]
    /\ cr3' = parent
    /\ terminals' = [terminals EXCEPT ![owned_by_terminal[parent]] = parent]
    /\ IF esp_k[parent] = "execute" /\ kstack[parent] = "execute"
       THEN /\ pid_avail' = mark_pid_free(pid_avail, pid_local[parent])
            /\ kstack' = [kstack EXCEPT ![parent] = "running", ![p] = "none"]
            /\ pid_local' = [pid_local EXCEPT ![parent] = 0]
            /\ UNCHANGED crashed
       ELSE /\ crashed' = TRUE
            /\ UNCHANGED <<pid_avail, kstack, pid_local>>
    /\ UNCHANGED <<eip, esp_k, video, pcbVars, irqVars,
                   terminals_launched, terminal_state, terminal_being_serviced>>

\* mutant: no case for the first shell.
HaltEveryProcess ==
    /\ ~crashed
    /\ InUserCode
    /\ ReturnToParent(tss)

\* halt of a process that some execute waits for.
Halt ==
    /\ ~crashed
    /\ InUserCode
    /\ flags[tss] # {FIRST_TERM_SHELL}
    /\ ReturnToParent(tss)

\* halt of the first shell of a terminal: its pid is freed and a new shell
\* started in the displayed terminal, on whatever pid is lowest now.
HaltFirstShell(pid) ==
    /\ ~crashed
    /\ InUserCode
    /\ MayExec
    /\ flags[tss] = {FIRST_TERM_SHELL}
    /\ Available(mark_pid_free(pid_avail, tss), pid)
    /\ StartChild(pid, esp0[tss], terminal_state, mark_pid_free(pid_avail, tss))
    /\ flags' = [flags EXCEPT ![pid] = {FIRST_TERM_SHELL}]
    /\ video' = [video EXCEPT ![pid] = VIDEO]
    /\ kstack' = [kstack EXCEPT ![tss] = "none", ![pid] = "running"]
    /\ UNCHANGED <<eip, esp_k, pid_local, terminals_launched, terminal_state,
                   terminal_being_serviced, kbd_flags, rtc_flags, rtc, crashed>>

\* halt_excep, called by every exception handler: it has no case for the first
\* shell of a terminal.
HaltExcep ==
    /\ ~crashed
    /\ InUserCode
    /\ FirstShellFaults \/ flags[tss] # {FIRST_TERM_SHELL}
    /\ ReturnToParent(tss)

-----------------------------------------------------------------------------
(***************************************************************************)
(* The keyboard (IRQ1).                                                    *)
(***************************************************************************)
\* A key that switches no terminal, the failed launch included: the handler
\* loads the displayed terminal's page directory for its output and, before it
\* returns, the serviced one's.
KeyTyped ==
    /\ ~crashed
    /\ cr3' = terminals[terminal_being_serviced]
    /\ UNCHANGED <<pid_avail, video, pid_local, tss, eip, esp_k, kstack, crashed,
                   pcbVars, termVars, irqVars>>

\* mutant: only the processes in front are remapped.
RemappedInFront(from, to) ==
    [p \in Pid |-> IF p = terminals[to] THEN VIDEO
                  ELSE IF p = terminals[from] THEN Backing(from) ELSE video[p]]

\* change_terminal_state(from, to): every used pid of the two terminals has its
\* VIDEO entry remapped.
Remapped(from, to) ==
    [p \in Pid |->
        IF p \in pid_avail /\ owned_by_terminal[p] = to THEN VIDEO
        ELSE IF p \in pid_avail /\ owned_by_terminal[p] = from THEN Backing(from)
        ELSE video[p]]

\* Alt+Fn for a terminal that has its shell already.
SwitchTerminal(t) ==
    /\ ~crashed
    /\ t # terminal_state
    /\ t \in terminals_launched
    /\ video' = Remapped(terminal_state, t)
    /\ terminal_state' = t
    /\ cr3' = terminals[terminal_being_serviced]
    /\ UNCHANGED <<pid_avail, pid_local, tss, eip, esp_k, kstack, crashed, pcbVars,
                   terminals, terminals_launched, terminal_being_serviced, irqVars>>

\* Alt+Fn for a terminal without a shell: the interrupted process keeps the
\* keyboard handler on its stack, to be finished when the timer resumes it.
LaunchTerminal(t, pid) ==
    /\ ~crashed
    /\ t # terminal_state
    /\ t \notin terminals_launched
    /\ terminals_launched' = terminals_launched \cup {t}
    /\ terminal_state' = t
    /\ terminal_being_serviced' = t
    /\ Available(pid_avail, pid)
    /\ StartChild(pid, tss, t, pid_avail)
    /\ kbd_flags' = [kbd_flags EXCEPT ![tss] = flags[tss]]
    /\ flags' = [flags EXCEPT ![tss] = @ \cup {IN_INTERRUPT_FLAG},
                              ![pid] = {FIRST_TERM_SHELL}]
    /\ video' = [Remapped(terminal_state, t) EXCEPT ![pid] = VIDEO]
    /\ eip' = [eip EXCEPT ![tss] = "keyboard"]
    /\ esp_k' = [esp_k EXCEPT ![tss] = "keyboard"]
    /\ kstack' = [kstack EXCEPT ![tss] = "keyboard", ![pid] = "running"]
    /\ UNCHANGED <<pid_local, rtc_flags, rtc, crashed>>

-----------------------------------------------------------------------------
(***************************************************************************)
(* The timer (IRQ0).                                                       *)
(***************************************************************************)
\* mutants: a terminal without a shell is not skipped; the search starts at
\* terminal 0 every time.
NextUnchecked(t) == t = (terminal_being_serviced + 1) % NUM_TERMINALS
NextFromZero(t) ==
    /\ t \in terminals_launched \ {terminal_being_serviced}
    /\ \A u \in terminals_launched \ {terminal_being_serviced} : t <= u

\* round_robin_scheduler's loop stops at t: the first launched terminal after
\* the one being serviced, wrapping around.
NextToService(t) ==
    /\ t \in terminals_launched
    /\ \E i \in 1 .. NUM_TERMINALS :
        /\ t = (terminal_being_serviced + i) % NUM_TERMINALS
        /\ \A j \in 1 .. i - 1 :
            (terminal_being_serviced + j) % NUM_TERMINALS \notin terminals_launched

\* save_and_switch_process_context(pid).  The context saved for `pid' resumes
\* it if both halves of it describe what its stack holds; SWITCH_CONTEXT goes
\* back to user code, SWITCH_TERMINAL_CONTEXT first ends the keyboard handler,
\* which restores the flags it had saved.
SwitchContext(pid) ==
    LET saved == [kstack EXCEPT ![tss] = "switch"]
        resumable == /\ saved[pid] \in {"switch", "keyboard"}
                     /\ eip'[pid] = saved[pid]
                     /\ esp_k'[pid] = saved[pid]
    IN
    /\ eip' = [eip EXCEPT ![tss] = "switch"]
    /\ esp_k' = [esp_k EXCEPT ![tss] = "switch"]
    /\ tss' = pid
    /\ cr3' = pid
    /\ kstack' = IF resumable THEN [saved EXCEPT ![pid] = "running"] ELSE saved
    /\ crashed' = ~resumable
    /\ IF resumable /\ saved[pid] = "keyboard"
       THEN /\ flags' = [flags EXCEPT ![pid] = kbd_flags[pid]]
            /\ kbd_flags' = [kbd_flags EXCEPT ![pid] = {}]
       ELSE UNCHANGED <<flags, kbd_flags>>

\* IRQ0_handler_sub.  It returns at once inside another handler, and when only
\* the first terminal has been launched.
Timer(t) ==
    /\ ~crashed
    /\ IN_INTERRUPT_FLAG \notin flags[tss]
    /\ terminals_launched # {0}
    /\ NextToService(t)
    /\ terminal_being_serviced' = t
    /\ SwitchContext(terminals[t])
    /\ UNCHANGED <<pid_avail, video, pid_local, pcbVars, terminals,
                   terminals_launched, terminal_state, rtc_flags, rtc>>

-----------------------------------------------------------------------------
(***************************************************************************)
(* The real time clock (IRQ8).  The interrupt controller delivers no other *)
(* RTC interrupt before the EOI.  Bound: one RTC handler per stack.        *)
(***************************************************************************)
\* mutant: the flags are saved after IN_INTERRUPT_FLAG has been set.
RtcEnterSavesLate ==
    /\ ~crashed
    /\ \A p \in Pid : rtc[p] # "in_service"
    /\ rtc[tss] = "idle"
    /\ flags' = [flags EXCEPT ![tss] = @ \cup {IN_INTERRUPT_FLAG}]
    /\ rtc_flags' = [rtc_flags EXCEPT ![tss] = flags'[tss]]
    /\ rtc' = [rtc EXCEPT ![tss] = "in_service"]
    /\ UNCHANGED <<pid_avail, video, pid_local, pcbVars, cpuVars, termVars, kbd_flags>>

\* Entry to sti(): the flags are saved in the frame, IN_INTERRUPT_FLAG set.
RtcEnter ==
    /\ ~crashed
    /\ \A p \in Pid : rtc[p] # "in_service"
    /\ rtc[tss] = "idle"
    /\ rtc_flags' = [rtc_flags EXCEPT ![tss] = flags[tss]]
    /\ flags' = [flags EXCEPT ![tss] = @ \cup {IN_INTERRUPT_FLAG}]
    /\ rtc' = [rtc EXCEPT ![tss] = "in_service"]
    /\ UNCHANGED <<pid_avail, video, pid_local, pcbVars, cpuVars, termVars, kbd_flags>>

\* send_eoi(RTC_LINE_NO), interrupts on: the next RTC interrupt may come.
RtcSendEoi ==
    /\ ~crashed
    /\ rtc[tss] = "in_service"
    /\ rtc' = [rtc EXCEPT ![tss] = "eoi_sent"]
    /\ UNCHANGED <<pid_avail, video, pid_local, pcbVars, cpuVars, termVars,
                   flags, kbd_flags, rtc_flags>>

\* mutant: the flags are cleared, not restored.
RtcExitClears ==
    /\ ~crashed
    /\ rtc[tss] = "eoi_sent"
    /\ rtc' = [rtc EXCEPT ![tss] = "idle"]
    /\ flags' = [flags EXCEPT ![tss] = {}]
    /\ rtc_flags' = [rtc_flags EXCEPT ![tss] = {}]
    /\ UNCHANGED <<pid_avail, video, pid_local, pcbVars, cpuVars, termVars, kbd_flags>>

\* The flags in the frame go back to the PCB.
RtcExit ==
    /\ ~crashed
    /\ rtc[tss] = "eoi_sent"
    /\ rtc' = [rtc EXCEPT ![tss] = "idle"]
    /\ flags' = [flags EXCEPT ![tss] = rtc_flags[tss]]
    /\ rtc_flags' = [rtc_flags EXCEPT ![tss] = {}]
    /\ UNCHANGED <<pid_avail, video, pid_local, pcbVars, cpuVars, termVars, kbd_flags>>

-----------------------------------------------------------------------------
Next ==
    \/ \E pid \in Pid : Execute(pid)
    \/ Halt
    \/ \E pid \in Pid : HaltFirstShell(pid)
    \/ HaltExcep
    \/ KeyTyped
    \/ \E t \in Terminal : SwitchTerminal(t)
    \/ \E t \in Terminal, pid \in Pid : LaunchTerminal(t, pid)
    \/ \E t \in Terminal : Timer(t)
    \/ RtcEnter
    \/ RtcSendEoi
    \/ RtcExit

Spec == Init /\ [][Next]_vars

(***************************************************************************)
(* The timer keeps ticking, and ticks do not all fall inside RTC handlers  *)
(* (strong fairness: a handler lasts microseconds of a tick); an RTC       *)
(* handler on the running process's stack runs on (weak fairness).         *)
(***************************************************************************)
Fairness ==
    /\ SF_vars(\E t \in Terminal : Timer(t))
    /\ WF_vars(RtcSendEoi)
    /\ WF_vars(RtcExit)

FairSpec == Spec /\ Fairness
-----------------------------------------------------------------------------
(***************************************************************************)
(* Properties.  Those marked (E) need ExecInForeground: without it execute *)
(* (syscalls.c:162-164) files the child under the wrong terminal.          *)
(***************************************************************************)
ExecInForeground == ~BackgroundExec /\ ~FirstShellFaults

\* (E) The CPU belongs to the serviced terminal: tss.esp0, the page directory
\* and terminals[].pid name the same process, whose stack is the live one.
CpuServesTerminal ==
    /\ 0 \in terminals_launched
    /\ terminal_being_serviced \in terminals_launched
    /\ terminal_state \in terminals_launched
    /\ tss = terminals[terminal_being_serviced]
    /\ cr3 = tss
    /\ kstack[tss] = "running"

\* (E) Every launched terminal has a live process of its own in front.
FrontProcess ==
    \A t \in terminals_launched :
        terminals[t] \in pid_avail /\ owned_by_terminal[terminals[t]] = t

\* (E) The process in front of each terminal that has not the CPU can be resumed
\* by the timer: the eip and esp_k in its PCB both belong to the context its
\* kernel stack holds (save_process_context is the only writer of that pair).
ReadyToResume ==
    \A t \in terminals_launched \ {terminal_being_serviced} :
        LET p == terminals[t] IN
        /\ kstack[p] \in {"switch", "keyboard"}
        /\ eip[p] = kstack[p]
        /\ esp_k[p] = kstack[p]

\* (E) No pid leaks: a used pid is in front of its terminal, or waits in execute
\* for a child that is alive, is its own, and is not a first shell.
EveryPidAccountedFor ==
    \A p \in pid_avail :
        /\ owned_by_terminal[p] \in terminals_launched
        /\ \/ p = terminals[owned_by_terminal[p]]
           \/ /\ kstack[p] = "execute"
              /\ esp_k[p] = "execute"
              /\ pid_local[p] \in pid_avail
              /\ parentPCB[pid_local[p]] = p
              /\ FIRST_TERM_SHELL \notin flags[pid_local[p]]

\* (E) What halt relies on: the parent of every process but the first shells is
\* alive in the same terminal, waits in execute for this very process, and owns
\* the stack that halt puts back into tss.esp0.
ParentWaits ==
    \A p \in pid_avail : FIRST_TERM_SHELL \notin flags[p] =>
        LET parent == parentPCB[p] IN
        /\ parent \in pid_avail
        /\ kstack[parent] = "execute"
        /\ esp_k[parent] = "execute"
        /\ pid_local[parent] = p
        /\ owned_by_terminal[parent] = owned_by_terminal[p]
        /\ esp0[p] = parent

\* (E) A launched terminal never loses its first shell and never gets two:
\* halt of a first shell starts another one (syscalls.c:246-251).
OneFirstShell ==
    \A t \in terminals_launched :
        \E p \in pid_avail :
            /\ owned_by_terminal[p] = t
            /\ FIRST_TERM_SHELL \in flags[p]
            /\ \A q \in pid_avail :
                owned_by_terminal[q] = t /\ FIRST_TERM_SHELL \in flags[q] => q = p

\* (E) IN_INTERRUPT_FLAG is set exactly while the pid's stack holds an IRQ
\* handler, nested or suspended ones included; if it stayed set the timer would
\* never take the CPU from the process again (scheduling.c:158).
FlagMeansHandler ==
    \A p \in pid_avail :
        IN_INTERRUPT_FLAG \in flags[p] <=> rtc[p] # "idle" \/ kstack[p] = "keyboard"

\* The frames of the handlers hold the flags that their ends will restore: the
\* inner one (keyboard) leaves the outer one's (RTC) interrupt flag set.
SavedFlagsRight ==
    /\ \A p \in Pid : rtc[p] # "idle" =>
        /\ p \in pid_avail
        /\ kstack[p] # "execute"
        /\ IN_INTERRUPT_FLAG \notin rtc_flags[p]
        /\ FIRST_TERM_SHELL \in rtc_flags[p] <=> FIRST_TERM_SHELL \in flags[p]
    /\ \A p \in pid_avail : kstack[p] = "keyboard" =>
        /\ IN_INTERRUPT_FLAG \in kbd_flags[p] <=> rtc[p] # "idle"
        /\ FIRST_TERM_SHELL \in kbd_flags[p] <=> FIRST_TERM_SHELL \in flags[p]

\* Every process writes to video memory exactly while its terminal is displayed,
\* and to its terminal's backing store otherwise (keyboard.c:246-261), whatever
\* the order of execute, halt, terminal switches and pid reuse.
VideoFollowsDisplay ==
    \A p \in pid_avail :
        video[p] = IF owned_by_terminal[p] = terminal_state
                   THEN VIDEO ELSE Backing(owned_by_terminal[p])

\* (E) Control never reaches a context that is not on the stack: neither the
\* timer's goto *jmp_addr nor halt's goto *execute_jmp_loc is wild.
NoWildJump == ~crashed

\* The invariant that is inductive: each of the parts needs the others.
IInv ==
    /\ CpuServesTerminal
    /\ FrontProcess
    /\ ReadyToResume
    /\ EveryPidAccountedFor
    /\ ParentWaits
    /\ OneFirstShell
    /\ FlagMeansHandler
    /\ SavedFlagsRight
    /\ NoWildJump

\* (E) Steps of the process that has the CPU leave the front process of every
\* other terminal alone, and no terminal is ever closed.
TerminalIsolation ==
    [][\A t \in terminals_launched :
        /\ t \in terminals_launched'
        /\ t # terminal_being_serviced => terminals'[t] = terminals[t]]_vars

\* A process is filed under the terminal whose process started it: syscalls.h:87,
\* "terminal from which this process started".
OwnedByStartingTerminal ==
    [][\A p \in pid_avail' \ pid_avail :
        owned_by_terminal'[p] = terminal_being_serviced']_vars

\* The round robin starves no terminal: each launched one is serviced again.
EveryTerminalServiced ==
    \A t \in Terminal : [](t \in terminals_launched => <>(terminal_being_serviced = t))

\* An RTC handler that a terminal launch suspended is resumed and sends its EOI:
\* until then the interrupt controller holds back every RTC interrupt.
RtcNotBlocked ==
    (\E p \in Pid : rtc[p] = "in_service") ~> (\A p \in Pid : rtc[p] # "in_service")
=============================================================================
