-------------------------------- MODULE Paging --------------------------------
(***************************************************************************)
(* The page tables and the TLB under the process layer (paging.c,          *)
(* paging_asm.S, vidmap of syscalls.c), composed with Processes: every     *)
(* step of the process layer is taken together with what it does to the    *)
(* tables and the TLB.  `video' of Processes is the page in the VIDEO      *)
(* entry of each process's base page table; here are the access bits of    *)
(* that table, the page directories and the one translation that the CPU   *)
(* may cache and the kernel changes, that of VIDEO.                        *)
(*                                                                         *)
(* vidmap is a system call and runs with interrupts on.  The kernel is     *)
(* built without optimisation: the `|=' on the page table entry is a load, *)
(* an or and a store, and an interrupt may come between them.              *)
(*                                                                         *)
(* The module starts where entry() turns interrupts on, before the first   *)
(* shell has been started.                                                 *)
(***************************************************************************)
EXTENDS Processes

CONSTANTS
    PD_ENTRIES,          \* entries of a page directory, 4MB each (1024)
    TASK_PDE_ENTRY,      \* the entry of TASK_VIRTUAL_BASE_ADDRESS (32)
    SwitchInVidmap       \* may a terminal be switched or launched between the
                         \* load and the store of a vidmap?

PROCESS_BLOCKS_START == 2
NOT_PRESENT_MEMORY_START == PROCESS_BLOCKS_START + MAX_NUM_PROCS
KERNEL_PDE_ENTRY == 1

ASSUME DirectoryAssumption ==
    /\ PD_ENTRIES \in Nat
    /\ TASK_PDE_ENTRY \in NOT_PRESENT_MEMORY_START .. PD_ENTRIES - 1
ASSUME VidmapAssumption == SwitchInVidmap \in BOOLEAN

VARIABLES
    page_directory,    \* user_level_page_directories, by pid
    pte_user,          \* the pages of the base page table that user code may access
    kernel_loaded,     \* cr3 holds kernel_page_directory, not that of the pid `cr3'
    booted,            \* the first shell has been started
    tlb,               \* the cached translation of VIDEO, if there is one
    vidmap,            \* progress of a vidmap call on the pid's stack
    pte_local,         \* the page in the register between its load and its store
    mapped             \* history: the processes whose vidmap has returned

tableVars == <<page_directory, pte_user>>
vidmapVars == <<vidmap, pte_local, mapped>>
pagingVars == <<tableVars, kernel_loaded, booted, tlb, vidmapVars>>
allPagingVars == <<vars, pagingVars>>

(***************************************************************************)
(* Page directories.  A frame is a 4MB block of physical memory; block 0   *)
(* is reached through the base page table.                                 *)
(***************************************************************************)
PdIndex == 0 .. PD_ENTRIES - 1
Entry(frame, present, user) == [frame |-> frame, present |-> present, user |-> user]
NotSetUp == [i \in PdIndex |-> Entry(0, FALSE, FALSE)]

\* 8MB + 4MB*pid, as a frame.  The mutant is one block off.
block_address_one_off(pid) == KERNEL_PDE_ENTRY + pid
block_address_for_process(pid) == PROCESS_BLOCKS_START + pid

\* init_kernel_pages: everything up to the process blocks, for the kernel only.
kernel_page_directory ==
    [i \in PdIndex |-> Entry(i, i < NOT_PRESENT_MEMORY_START, FALSE)]

\* setup_task_paging: the kernel's entries, and the program's own block at the
\* virtual address of the program image.  The mutant forgets the kernel.
TaskDirectoryWithoutKernel(pid) ==
    [kernel_page_directory EXCEPT
        ![KERNEL_PDE_ENTRY] = Entry(KERNEL_PDE_ENTRY, FALSE, FALSE),
        ![TASK_PDE_ENTRY] = Entry(block_address_for_process(pid), TRUE, TRUE)]
TaskDirectory(pid) ==
    [kernel_page_directory EXCEPT
        ![TASK_PDE_ENTRY] = Entry(block_address_for_process(pid), TRUE, TRUE)]

\* setup_task_paging with setup_base_page_table: all entries are written, so that
\* nothing is left of the pid's last process (StartChild sets `video').
setup_task_paging(pid) ==
    /\ page_directory' = [page_directory EXCEPT ![pid] = TaskDirectory(pid)]
    /\ pte_user' = [pte_user EXCEPT ![pid] = {}]

\* The directory in cr3, and whether a directory gives user code the page `v' of
\* the base page table.
Loaded == IF kernel_loaded THEN kernel_page_directory ELSE page_directory[cr3]
UserPage(p, v) ==
    page_directory[p][0].present /\ page_directory[p][0].user /\ v \in pte_user[p]

PagingTypeOK ==
    /\ page_directory \in [Pid -> [PdIndex -> [frame : 0 .. PD_ENTRIES, present : BOOLEAN,
                                               user : BOOLEAN]]]
    /\ pte_user \in [Pid -> SUBSET Page]
    /\ kernel_loaded \in BOOLEAN
    /\ booted \in BOOLEAN
    /\ tlb \in SUBSET [page : Page, user : BOOLEAN]
    /\ vidmap \in [Pid -> {"idle", "granted_pde", "loaded_pte"}]
    /\ pte_local \in [Pid -> Page]
    /\ mapped \subseteq Pid

PagingInit ==
    /\ Init
    /\ page_directory = [p \in Pid |-> NotSetUp]
    /\ pte_user = [p \in Pid |-> {}]
    /\ kernel_loaded = TRUE
    /\ booted = FALSE
    /\ tlb = {}
    /\ vidmap = [p \in Pid |-> "idle"]
    /\ pte_local = [p \in Pid |-> VIDEO]
    /\ mapped = {}

-----------------------------------------------------------------------------
(***************************************************************************)
(* Boot: from sti() to the end of the first internal_execute, whose effect *)
(* on the process layer is Init.                                           *)
(***************************************************************************)
BootShell ==
    /\ ~booted
    /\ kernel_loaded
    /\ booted' = TRUE
    /\ setup_task_paging(0)
    /\ kernel_loaded' = FALSE
    /\ tlb' = {}
    /\ UNCHANGED <<vars, vidmapVars>>

\* A key: the handler loads the page directory of terminals[0].pid, which is 0 and
\* has not been set up.
BootKey ==
    /\ ~booted
    /\ kernel_loaded
    /\ kernel_loaded' = FALSE
    /\ tlb' = {}
    /\ UNCHANGED <<vars, booted, tableVars, vidmapVars>>

\* The next instruction cannot be fetched, nor can those of the fault handlers:
\* the CPU resets the machine, which boots again.
Reset ==
    /\ ~booted
    /\ ~kernel_loaded
    /\ kernel_loaded' = TRUE
    /\ UNCHANGED <<vars, booted, tlb, tableVars, vidmapVars>>

-----------------------------------------------------------------------------
(***************************************************************************)
(* The process layer's steps.                                              *)
(***************************************************************************)
\* The running process is not inside vidmap, so that it can do something else.
NotInVidmap == vidmap[tss] = "idle"
MaySwitch == SwitchInVidmap \/ \A p \in Pid : vidmap[p] # "loaded_pte"

\* set_new_page_directory: every cached translation goes.  The mutant flushes only
\* when the directory changes, and by no invlpg.
FlushedIfChanged == IF cr3' = cr3 THEN tlb ELSE {}
Flushed == {}

\* internal_execute for `pid', whoever calls it.
StartsProcess(pid) ==
    /\ setup_task_paging(pid)
    /\ tlb' = Flushed
    /\ mapped' = mapped \ {pid}
    /\ UNCHANGED <<kernel_loaded, booted, vidmap, pte_local>>

\* change_table_mapping keeps the low bits of each entry it remaps.  The mutant
\* writes a fresh entry.
remap_drops_access(from, to) ==
    [p \in Pid |-> IF p \in pid_avail /\ owned_by_terminal[p] \in {from, to}
                   THEN pte_user[p] \ {VIDEO} ELSE pte_user[p]]
change_table_mapping(from, to) == pte_user

PExecute == NotInVidmap /\ \E pid \in Pid : Execute(pid) /\ StartsProcess(pid)
PHaltFirstShell == NotInVidmap /\ \E pid \in Pid : HaltFirstShell(pid) /\ StartsProcess(pid)

PHalt ==
    /\ NotInVidmap
    /\ Halt \/ HaltExcep
    /\ tlb' = Flushed
    /\ UNCHANGED <<tableVars, kernel_loaded, booted, vidmapVars>>

\* The terminal switch flushes VIDEO by itself too (vm_flush_page, keyboard.c:263).
PSwitchTerminal ==
    /\ MaySwitch
    /\ \E t \in Terminal :
        /\ SwitchTerminal(t)
        /\ pte_user' = change_table_mapping(terminal_state, t)
    /\ tlb' = Flushed
    /\ UNCHANGED <<page_directory, kernel_loaded, booted, vidmapVars>>

PLaunchTerminal ==
    /\ MaySwitch
    /\ \E t \in Terminal, pid \in Pid : LaunchTerminal(t, pid) /\ StartsProcess(pid)

PKeyOrTimer ==
    /\ KeyTyped \/ \E t \in Terminal : Timer(t)
    /\ tlb' = Flushed
    /\ UNCHANGED <<tableVars, kernel_loaded, booted, vidmapVars>>

PRtc ==
    /\ RtcEnter \/ RtcSendEoi \/ RtcExit
    /\ UNCHANGED pagingVars

-----------------------------------------------------------------------------
(***************************************************************************)
(* vidmap.  A pointer outside the program's block is refused and changes   *)
(* nothing.                                                                *)
(***************************************************************************)
\* setup_user_access_pde: nobody else writes this entry.
VidmapPde ==
    /\ ~crashed
    /\ InUserCode
    /\ NotInVidmap
    /\ page_directory' = [page_directory EXCEPT ![tss][0].user = TRUE]
    /\ vidmap' = [vidmap EXCEPT ![tss] = "granted_pde"]
    /\ UNCHANGED <<vars, pte_user, kernel_loaded, booted, tlb, pte_local, mapped>>

\* setup_user_access_pte: the load.
VidmapLoad ==
    /\ ~crashed
    /\ InUserCode
    /\ vidmap[tss] = "granted_pde"
    /\ pte_local' = [pte_local EXCEPT ![tss] = video[tss]]
    /\ vidmap' = [vidmap EXCEPT ![tss] = "loaded_pte"]
    /\ UNCHANGED <<vars, tableVars, kernel_loaded, booted, tlb, mapped>>

\* setup_user_access_pte: the store, and vidmap's return.  No flush follows.
VidmapStore ==
    /\ ~crashed
    /\ InUserCode
    /\ vidmap[tss] = "loaded_pte"
    /\ video' = [video EXCEPT ![tss] = pte_local[tss]]
    /\ pte_user' = [pte_user EXCEPT ![tss] = @ \cup {VIDEO}]
    /\ vidmap' = [vidmap EXCEPT ![tss] = "idle"]
    /\ pte_local' = [pte_local EXCEPT ![tss] = VIDEO]
    /\ mapped' = mapped \cup {tss}
    /\ UNCHANGED <<pid_avail, pid_local, pcbVars, cpuVars, termVars, irqVars,
                   page_directory, kernel_loaded, booted, tlb>>

\* The CPU walks the tables for VIDEO, whenever it likes.
TlbFill ==
    /\ booted
    /\ ~crashed
    /\ tlb = {}
    /\ tlb' = {[page |-> video[cr3], user |-> UserPage(cr3, VIDEO)]}
    /\ UNCHANGED <<vars, tableVars, kernel_loaded, booted, vidmapVars>>

-----------------------------------------------------------------------------
ProcessStep ==
    \/ PExecute
    \/ PHalt
    \/ PHaltFirstShell
    \/ PSwitchTerminal
    \/ PLaunchTerminal
    \/ PKeyOrTimer
    \/ PRtc

VidmapStep == VidmapPde \/ VidmapLoad \/ VidmapStore

PagingNext ==
    \/ BootShell
    \/ BootKey
    \/ Reset
    \/ booted /\ ProcessStep
    \/ booted /\ VidmapStep
    \/ TlbFill

PagingSpec == PagingInit /\ [][PagingNext]_allPagingVars

-----------------------------------------------------------------------------
(***************************************************************************)
(* Properties.  They need ExecInForeground of Processes.                   *)
(***************************************************************************)
\* The page a process's output belongs on.
OwnScreen(p) ==
    IF owned_by_terminal[p] = terminal_state THEN VIDEO ELSE Backing(owned_by_terminal[p])

\* What user code of p reaches: 4MB frames, and pages of the base page table.
UserFrames(p) ==
    {page_directory[p][i].frame : i \in {j \in PdIndex \ {0} :
        page_directory[p][j].present /\ page_directory[p][j].user}}
UserPages(p) ==
    {IF v = VIDEO THEN video[p] ELSE v : v \in {w \in Page : UserPage(p, w)}}

\* User code of a process reaches its own block and, of all the pages below 4MB,
\* at most the screen of its own terminal: never the kernel, another process's
\* block, the displayed screen of another terminal or its backing store
\* (setup_task_paging, change_table_mapping, setup_user_access_pte).  And it runs
\* in its own address space: a handler that has loaded another directory for its
\* output has loaded this one again.
MemoryIsolated ==
    booted =>
    /\ cr3 = tss
    /\ \A p \in pid_avail :
        /\ UserFrames(p) = {block_address_for_process(p)}
        /\ block_address_for_process(p) \in
             PROCESS_BLOCKS_START .. NOT_PRESENT_MEMORY_START - 1
        /\ \A q \in pid_avail \ {p} :
            block_address_for_process(q) # block_address_for_process(p)
        /\ UserPages(p) \subseteq {OwnScreen(p)}

\* A process can draw on its screen exactly if it has called vidmap itself: the
\* right survives every terminal switch (the low bits of change_table_mapping),
\* and is not left to the next process with its pid.
AccessAsGranted ==
    booted => \A p \in pid_avail : UserPage(p, VIDEO) <=> p \in mapped

\* A cached translation never leads elsewhere than the tables do, nor gives a
\* right that they do not: every change of the VIDEO entry of the loaded
\* directory is followed by a flush before anyone uses it.
TlbCoherent ==
    \A e \in tlb :
        /\ e.page = video[cr3]
        /\ e.user => UserPage(cr3, VIDEO)

\* Once the first shell has been started, whatever directory an interrupt handler,
\* execute or halt loads has the kernel and the base page table in it; otherwise
\* the next instruction would fault, as it does after BootKey.
KernelAlwaysMapped ==
    booted /\ ~crashed => Loaded[KERNEL_PDE_ENTRY].present /\ Loaded[0].present
=============================================================================
