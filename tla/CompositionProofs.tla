-------------------------- MODULE CompositionProofs --------------------------
(***************************************************************************)
(* Theorems about the two modules that are composed with Processes: Paging *)
(* and Commands, for every number of pids, terminals and page directory    *)
(* entries, all lines, statuses and buffer sizes.  The steps they compose  *)
(* are steps of Processes, whose invariants hold here too.                 *)
(***************************************************************************)
EXTENDS Paging, Commands, ProcessesProofs, SequenceTheorems, WellFoundedInduction

-----------------------------------------------------------------------------
(***************************************************************************)
(* Paging: the invariant.                                                  *)
(***************************************************************************)
\* The directory d gives process p the kernel's entries and its own block; the access
\* bit of the base page table's entry is vidmap's.
DirectoryOf(p, d) ==
    /\ d[0].present
    /\ \A i \in PdIndex \ {0} : d[i] = TaskDirectory(p)[i]

\* Before the first shell nothing but kernel_loaded changes.
NothingBeforeBoot ==
    ~booted =>
        /\ Init
        /\ tlb = {}
        /\ mapped = {}
        /\ \A p \in Pid : vidmap[p] = "idle" /\ pte_user[p] = {}

UserTablesLoaded == booted => ~kernel_loaded

\* A process inside vidmap is alive and has been given the directory entry; no one
\* has changed the page table entry since it was loaded.
VidmapInv ==
    \A p \in Pid : vidmap[p] # "idle" =>
        /\ booted
        /\ p \in pid_avail
        /\ page_directory[p][0].user
        /\ vidmap[p] = "loaded_pte" => pte_local[p] = video[p]

\* The tables of a process that is alive are its own.
TablesInv ==
    booted => \A p \in pid_avail :
        /\ DirectoryOf(p, page_directory[p])
        /\ pte_user[p] \subseteq {VIDEO}
        /\ VIDEO \in pte_user[p] <=> p \in mapped
        /\ p \in mapped => page_directory[p][0].user

PagingInv ==
    /\ PagingTypeOK
    /\ NothingBeforeBoot
    /\ UserTablesLoaded
    /\ VidmapInv
    /\ TablesInv
    /\ TlbCoherent

ProcessInv == TypeOK /\ IInv /\ VideoFollowsDisplay

-----------------------------------------------------------------------------
(***************************************************************************)
(* Directories.                                                            *)
(***************************************************************************)
LEMMA Entries ==
  /\ 0 \in PdIndex /\ KERNEL_PDE_ENTRY \in PdIndex \ {0} /\ TASK_PDE_ENTRY \in PdIndex \ {0}
  /\ KERNEL_PDE_ENTRY < NOT_PRESENT_MEMORY_START /\ TASK_PDE_ENTRY # KERNEL_PDE_ENTRY
  /\ 0 < NOT_PRESENT_MEMORY_START
  BY ProcsAssumption, DirectoryAssumption
     DEF PdIndex, KERNEL_PDE_ENTRY, NOT_PRESENT_MEMORY_START, PROCESS_BLOCKS_START

LEMMA Blocks ==
  \A p \in Pid :
    /\ block_address_for_process(p) \in PROCESS_BLOCKS_START .. NOT_PRESENT_MEMORY_START - 1
    /\ block_address_for_process(p) \in 0 .. PD_ENTRIES
    /\ \A q \in Pid : block_address_for_process(q) = block_address_for_process(p) => q = p
  BY ProcsAssumption, DirectoryAssumption
     DEF Pid, block_address_for_process, PROCESS_BLOCKS_START, NOT_PRESENT_MEMORY_START

PageEntry == [frame : 0 .. PD_ENTRIES, present : BOOLEAN, user : BOOLEAN]

\* What setup_task_paging writes.
LEMMA TaskDirectoryEntries ==
  ASSUME NEW p \in Pid
  PROVE  /\ TaskDirectory(p) \in [PdIndex -> PageEntry]
         /\ TaskDirectory(p)[0].present
         /\ TaskDirectory(p)[KERNEL_PDE_ENTRY].present
         /\ TaskDirectory(p)[TASK_PDE_ENTRY]
              = Entry(block_address_for_process(p), TRUE, TRUE)
         /\ \A i \in PdIndex \ {TASK_PDE_ENTRY} : TaskDirectory(p)[i].user = FALSE
  <1> DEFINE e == Entry(block_address_for_process(p), TRUE, TRUE)
             k(i) == Entry(i, i < NOT_PRESENT_MEMORY_START, FALSE)
  <1>1. e \in PageEntry
    BY Blocks DEF Entry, PageEntry
  <1>2. ASSUME NEW i \in PdIndex
        PROVE  /\ k(i) \in PageEntry
               /\ k(i).present = (i < NOT_PRESENT_MEMORY_START)
               /\ k(i).user = FALSE
    BY DirectoryAssumption DEF Entry, PageEntry, PdIndex
  <1>3. kernel_page_directory = [i \in PdIndex |-> k(i)]
    BY DEF kernel_page_directory
  <1> HIDE DEF k
  <1>4. TaskDirectory(p) = [[i \in PdIndex |-> k(i)] EXCEPT ![TASK_PDE_ENTRY] = e]
    BY <1>3 DEF TaskDirectory
  <1> HIDE DEF e
  <1>5. TaskDirectory(p) \in [PdIndex -> PageEntry]
    BY <1>1, <1>2, <1>4
  <1>6. TaskDirectory(p)[TASK_PDE_ENTRY] = e
    BY <1>4, Entries
  <1>7. \A i \in PdIndex \ {TASK_PDE_ENTRY} : TaskDirectory(p)[i] = k(i)
    BY <1>4
  <1> QED
    BY <1>2, <1>5, <1>6, <1>7, Entries DEF e

LEMMA SetupTypes ==
  ASSUME PagingTypeOK, NEW pid \in Pid, setup_task_paging(pid)
  PROVE  /\ page_directory' \in [Pid -> [PdIndex -> PageEntry]]
         /\ pte_user' \in [Pid -> SUBSET Page]
         /\ page_directory'[pid] = TaskDirectory(pid)
         /\ pte_user'[pid] = {}
         /\ \A q \in Pid \ {pid} : /\ page_directory'[q] = page_directory[q]
                                   /\ pte_user'[q] = pte_user[q]
  <1>1. TaskDirectory(pid) \in [PdIndex -> PageEntry]
    BY TaskDirectoryEntries
  <1> QED
    BY <1>1 DEF setup_task_paging, PagingTypeOK, PageEntry

-----------------------------------------------------------------------------
(***************************************************************************)
(* The two kinds of steps of the process layer.                            *)
(***************************************************************************)
\* Steps that start a process: its tables are written, those of the others are not.
LEMMA StartStep ==
  ASSUME PagingInv, booted, NEW pid \in Pid, StartsProcess(pid),
         TypeOK,
         vidmap[pid] = "idle",
         pid_avail' \subseteq pid_avail \cup {pid},
         \A p \in Pid : vidmap[p] # "idle" => p \in pid_avail',
         \A p \in Pid : vidmap[p] = "loaded_pte" => video'[p] = video[p]
  PROVE  PagingInv'
  <1>1. UNCHANGED <<kernel_loaded, booted, vidmap, pte_local>>
    BY DEF StartsProcess
  <1>2. tlb' = {} /\ mapped' = mapped \ {pid}
    BY DEF StartsProcess, Flushed
  <1>3. /\ page_directory' \in [Pid -> [PdIndex -> PageEntry]]
        /\ pte_user' \in [Pid -> SUBSET Page]
        /\ page_directory'[pid] = TaskDirectory(pid)
        /\ pte_user'[pid] = {}
        /\ \A q \in Pid \ {pid} : /\ page_directory'[q] = page_directory[q]
                                  /\ pte_user'[q] = pte_user[q]
    BY SetupTypes DEF StartsProcess, PagingInv
  <1>4. PagingTypeOK'
    BY <1>1, <1>2, <1>3 DEF PagingInv, PagingTypeOK, PageEntry
  <1>5. NothingBeforeBoot' /\ UserTablesLoaded' /\ TlbCoherent'
    BY <1>1, <1>2 DEF PagingInv, NothingBeforeBoot, UserTablesLoaded, TlbCoherent
  <1>6. VidmapInv'
    BY <1>1, <1>3 DEF PagingInv, VidmapInv
  <1>7. TablesInv'
    <2> SUFFICES ASSUME NEW p \in pid_avail'
                 PROVE  /\ DirectoryOf(p, page_directory'[p])
                        /\ pte_user'[p] \subseteq {VIDEO}
                        /\ VIDEO \in pte_user'[p] <=> p \in mapped'
                        /\ p \in mapped' => page_directory'[p][0].user
      BY DEF TablesInv, DirectoryOf
    <2>1. CASE p = pid
      BY <1>2, <1>3, <2>1, TaskDirectoryEntries DEF DirectoryOf
    <2>2. CASE p # pid
      <3>1. p \in pid_avail /\ p \in Pid
        BY <2>2 DEF TypeOK
      <3> QED
        BY <1>2, <1>3, <2>2, <3>1 DEF PagingInv, TablesInv
    <2> QED
      BY <2>1, <2>2
  <1> QED
    BY <1>4, <1>5, <1>6, <1>7 DEF PagingInv

\* Steps that leave the tables alone, and flush the TLB or do not touch what it holds.
LEMMA OtherStep ==
  ASSUME PagingInv, booted,
         UNCHANGED <<tableVars, kernel_loaded, booted, vidmapVars>>,
         tlb' = {} \/ UNCHANGED <<tlb, cr3, video>>,
         pid_avail' \subseteq pid_avail,
         \A p \in Pid : vidmap[p] # "idle" => p \in pid_avail',
         \A p \in Pid : vidmap[p] = "loaded_pte" => video'[p] = video[p]
  PROVE  PagingInv'
  <1>1. UNCHANGED <<page_directory, pte_user, kernel_loaded, booted, vidmap, pte_local, mapped>>
    BY DEF tableVars, vidmapVars
  <1>2. TlbCoherent'
    BY <1>1 DEF PagingInv, TlbCoherent, UserPage
  <1>3. PagingTypeOK'
    BY <1>1 DEF PagingInv, PagingTypeOK
  <1>4. NothingBeforeBoot' /\ UserTablesLoaded' /\ VidmapInv'
    BY <1>1 DEF PagingInv, NothingBeforeBoot, UserTablesLoaded, VidmapInv
  <1>5. TablesInv'
    BY <1>1 DEF PagingInv, TablesInv, DirectoryOf
  <1> QED
    BY <1>2, <1>3, <1>4, <1>5 DEF PagingInv

\* Every step of the process layer, if no terminal is switched inside vidmap.
LEMMA ProcessStepInv ==
  ASSUME ExecInForeground, ~SwitchInVidmap, ProcessInv, PagingInv, booted, ProcessStep
  PROVE  PagingInv'
  <1> USE DEF ProcessInv
  <1>0. tss \in pid_avail /\ tss \in Pid
    BY DEF IInv, CpuServesTerminal, FrontProcess, TypeOK
  <1>1. \A p \in Pid : vidmap[p] # "idle" => p \in pid_avail
    BY DEF PagingInv, VidmapInv
  <1>2. CASE PExecute
    <2>1. PICK pid \in Pid : Execute(pid) /\ StartsProcess(pid)
      BY <1>2 DEF PExecute
    <2>2. /\ pid \notin pid_avail /\ pid_avail' = pid_avail \cup {pid}
          /\ video' = [video EXCEPT ![pid] = VIDEO]
      BY <2>1 DEF Execute, Available, StartChild, mark_pid_used
    <2>3. vidmap[pid] = "idle"
      BY <1>1, <2>2
    <2>4. \A p \in Pid : vidmap[p] # "idle" => p \in pid_avail'
      BY <1>1, <2>2
    <2>5. \A p \in Pid : vidmap[p] = "loaded_pte" => video'[p] = video[p]
      BY <2>2, <2>3 DEF TypeOK
    <2> QED
      BY <2>1, <2>2, <2>3, <2>4, <2>5, StartStep
  <1>3. CASE PHaltFirstShell
    <2>1. PICK pid \in Pid : HaltFirstShell(pid) /\ StartsProcess(pid)
      BY <1>3 DEF PHaltFirstShell
    <2>2. /\ pid \notin pid_avail \/ pid = tss
          /\ pid_avail' = (pid_avail \ {tss}) \cup {pid}
          /\ video' = [video EXCEPT ![pid] = VIDEO]
      BY <2>1 DEF HaltFirstShell, Available, StartChild, mark_pid_used, mark_pid_free
    <2>3. vidmap[tss] = "idle" /\ vidmap[pid] = "idle"
      BY <1>1, <1>3, <2>2 DEF PHaltFirstShell, NotInVidmap
    <2>4. \A p \in Pid : vidmap[p] # "idle" => p \in pid_avail'
      BY <1>1, <2>2, <2>3
    <2>5. \A p \in Pid : vidmap[p] = "loaded_pte" => video'[p] = video[p]
      BY <2>2, <2>3 DEF TypeOK
    <2>6. pid_avail' \subseteq pid_avail \cup {pid}
      BY <2>2
    <2> QED
      BY <2>1, <2>3, <2>4, <2>5, <2>6, StartStep
  <1>4. CASE PLaunchTerminal
    <2>1. PICK t \in Terminal, pid \in Pid : LaunchTerminal(t, pid) /\ StartsProcess(pid)
      BY <1>4 DEF PLaunchTerminal
    <2>2. pid \notin pid_avail /\ pid_avail' = pid_avail \cup {pid}
      BY <2>1 DEF LaunchTerminal, Available, StartChild, mark_pid_used
    <2>3. \A p \in Pid : vidmap[p] # "loaded_pte"
      BY <1>4 DEF PLaunchTerminal, MaySwitch
    <2>4. \A p \in Pid : vidmap[p] # "idle" => p \in pid_avail'
      BY <1>1, <2>2
    <2>5. vidmap[pid] = "idle"
      BY <1>1, <2>2
    <2> QED
      BY <2>1, <2>2, <2>3, <2>4, <2>5, StartStep
  <1>5. CASE PHalt
    <2>1. pid_avail' = pid_avail \ {tss} /\ video' = video
      <3>1. InUserCode /\ flags[tss] # {FIRST_TERM_SHELL} /\ ReturnToParent(tss)
        BY <1>5 DEF PHalt, Halt, HaltExcep, ExecInForeground
      <3> QED
        BY <3>1, ReturnFacts
    <2>2. vidmap[tss] = "idle" /\ tlb' = {}
          /\ UNCHANGED <<tableVars, kernel_loaded, booted, vidmapVars>>
      BY <1>5 DEF PHalt, NotInVidmap, Flushed
    <2>3. \A p \in Pid : vidmap[p] # "idle" => p \in pid_avail'
      BY <1>1, <2>1, <2>2
    <2> QED
      BY <2>1, <2>2, <2>3, OtherStep
  <1>6. CASE PSwitchTerminal
    <2>1. PICK t \in Terminal : /\ SwitchTerminal(t)
                                /\ pte_user' = change_table_mapping(terminal_state, t)
      BY <1>6 DEF PSwitchTerminal
    <2>2. pid_avail' = pid_avail
      BY <2>1 DEF SwitchTerminal
    <2>3. tlb' = {} /\ UNCHANGED <<tableVars, kernel_loaded, booted, vidmapVars>>
      BY <1>6, <2>1 DEF PSwitchTerminal, change_table_mapping, tableVars, Flushed
    <2>4. \A p \in Pid : vidmap[p] # "loaded_pte"
      BY <1>6 DEF PSwitchTerminal, MaySwitch
    <2> QED
      BY <1>1, <2>2, <2>3, <2>4, OtherStep
  <1>7. CASE PKeyOrTimer
    <2>1. pid_avail' = pid_avail /\ video' = video
      BY <1>7 DEF PKeyOrTimer, KeyTyped, Timer
    <2>2. tlb' = {} /\ UNCHANGED <<tableVars, kernel_loaded, booted, vidmapVars>>
      BY <1>7 DEF PKeyOrTimer, Flushed
    <2> QED
      BY <1>1, <2>1, <2>2, OtherStep
  <1>8. CASE PRtc
    <2>1. pid_avail' = pid_avail /\ video' = video /\ cr3' = cr3
      BY <1>8 DEF PRtc, RtcEnter, RtcSendEoi, RtcExit, cpuVars
    <2>2. tlb' = tlb /\ UNCHANGED <<tableVars, kernel_loaded, booted, vidmapVars>>
      BY <1>8 DEF PRtc, pagingVars
    <2> QED
      BY <1>1, <2>1, <2>2, OtherStep
  <1> QED
    BY <1>2, <1>3, <1>4, <1>5, <1>6, <1>7, <1>8 DEF ProcessStep

-----------------------------------------------------------------------------
(***************************************************************************)
(* Boot, vidmap and the TLB.                                               *)
(***************************************************************************)
LEMMA BootStepInv ==
  ASSUME PagingInv, BootShell \/ BootKey \/ Reset
  PROVE  PagingInv'
  <1>1. /\ Init /\ tlb = {} /\ mapped = {}
        /\ \A p \in Pid : vidmap[p] = "idle" /\ pte_user[p] = {}
    BY DEF PagingInv, NothingBeforeBoot, BootShell, BootKey, Reset
  <1>2. pid_avail' = {0} /\ UNCHANGED <<vars, vidmapVars>> /\ tlb' = {}
    BY <1>1 DEF BootShell, BootKey, Reset, vars, Init
  <1>3. UNCHANGED <<vidmap, pte_local, mapped>>
    BY <1>2 DEF vidmapVars
  <1>4. CASE BootShell
    <2>1. setup_task_paging(0) /\ booted' = TRUE /\ kernel_loaded' = FALSE
      BY <1>4 DEF BootShell
    <2>2. /\ page_directory' \in [Pid -> [PdIndex -> PageEntry]]
          /\ pte_user' \in [Pid -> SUBSET Page]
          /\ page_directory'[0] = TaskDirectory(0)
          /\ pte_user'[0] = {}
      BY <2>1, SetupTypes, ZeroInRange DEF PagingInv
    <2>3. PagingTypeOK'
      BY <1>2, <1>3, <2>1, <2>2 DEF PagingInv, PagingTypeOK, PageEntry
    <2>4. NothingBeforeBoot' /\ UserTablesLoaded' /\ VidmapInv' /\ TlbCoherent'
      BY <1>1, <1>2, <1>3, <2>1
      DEF NothingBeforeBoot, UserTablesLoaded, VidmapInv, TlbCoherent
    <2>5. TablesInv'
      BY <1>1, <1>2, <1>3, <2>2, TaskDirectoryEntries, ZeroInRange DEF TablesInv, DirectoryOf
    <2> QED
      BY <2>3, <2>4, <2>5 DEF PagingInv
  <1>5. CASE BootKey \/ Reset
    <2>1. ~booted' /\ UNCHANGED <<booted, page_directory, pte_user>>
      BY <1>5 DEF BootKey, Reset, tableVars
    <2>0. kernel_loaded' \in BOOLEAN
      BY <1>5, Zenon DEF BootKey, Reset
    <2>2. PagingTypeOK'
      BY <1>2, <1>3, <2>0, <2>1 DEF PagingInv, PagingTypeOK
    <2>3. Init'
      BY <1>1, <1>2 DEF Init, vars, pcbVars, cpuVars, termVars, irqVars
    <2>4. NothingBeforeBoot' /\ UserTablesLoaded' /\ VidmapInv' /\ TlbCoherent' /\ TablesInv'
      BY <1>1, <1>2, <1>3, <2>1, <2>3
      DEF NothingBeforeBoot, UserTablesLoaded, VidmapInv, TlbCoherent, TablesInv
    <2> QED
      BY <2>2, <2>4 DEF PagingInv
  <1> QED
    BY <1>4, <1>5

LEMMA VidmapStepInv ==
  ASSUME ProcessInv, PagingInv, booted, VidmapStep \/ TlbFill
  PROVE  PagingInv' /\ (UNCHANGED vars \/ VidmapStore)
  <1>0. tss \in pid_avail /\ tss \in Pid /\ cr3 = tss
    BY DEF ProcessInv, IInv, CpuServesTerminal, FrontProcess, TypeOK
  <1>1. CASE VidmapPde
    <2>1. /\ UNCHANGED <<pid_avail, video, cr3, pte_user, kernel_loaded, booted, tlb,
                         pte_local, mapped>>
          /\ page_directory' = [page_directory EXCEPT ![tss][0].user = TRUE]
          /\ vidmap' = [vidmap EXCEPT ![tss] = "granted_pde"]
          /\ UNCHANGED vars
      BY <1>1 DEF VidmapPde, vars, cpuVars
    <2>2. page_directory[tss] \in [PdIndex -> PageEntry]
      BY <1>0 DEF PagingInv, PagingTypeOK, PageEntry
    <2>3. \A p \in Pid \ {tss} : page_directory'[p] = page_directory[p]
      BY <2>1 DEF PagingInv, PagingTypeOK
    <2>4. page_directory'[tss] = [page_directory[tss] EXCEPT ![0].user = TRUE]
      BY <1>0, <2>1 DEF PagingInv, PagingTypeOK
    <2>5. /\ page_directory'[tss] \in [PdIndex -> PageEntry]
          /\ page_directory'[tss][0].user
          /\ page_directory'[tss][0].present = page_directory[tss][0].present
          /\ \A i \in PdIndex \ {0} : page_directory'[tss][i] = page_directory[tss][i]
      BY <2>2, <2>4, Entries DEF PageEntry
    <2>6. page_directory' \in [Pid -> [PdIndex -> PageEntry]]
      <3>1. page_directory' = [page_directory EXCEPT ![tss] = page_directory'[tss]]
        BY <1>0, <2>1, <2>4 DEF PagingInv, PagingTypeOK
      <3> QED
        BY <2>5, <3>1 DEF PagingInv, PagingTypeOK, PageEntry
    <2>7. PagingTypeOK'
      BY <2>1, <2>6 DEF PagingInv, PagingTypeOK, PageEntry
    <2>8. NothingBeforeBoot' /\ UserTablesLoaded'
      BY <2>1 DEF PagingInv, NothingBeforeBoot, UserTablesLoaded
    <2>9. VidmapInv'
      BY <1>0, <2>1, <2>3, <2>5 DEF PagingInv, VidmapInv, PagingTypeOK
    <2>10. TablesInv'
      <3> SUFFICES ASSUME NEW p \in pid_avail
                   PROVE  /\ DirectoryOf(p, page_directory'[p])
                          /\ pte_user[p] \subseteq {VIDEO}
                          /\ VIDEO \in pte_user[p] <=> p \in mapped
                          /\ p \in mapped => page_directory'[p][0].user
        BY <2>1 DEF TablesInv, DirectoryOf
      <3>1. p \in Pid
        BY DEF ProcessInv, TypeOK
      <3>2. CASE p = tss
        BY <2>5, <3>2 DEF PagingInv, TablesInv, DirectoryOf
      <3>3. CASE p # tss
        BY <2>3, <3>1, <3>3 DEF PagingInv, TablesInv
      <3> QED
        BY <3>2, <3>3
    <2>11. TlbCoherent'
      BY <1>0, <2>1, <2>5 DEF PagingInv, TlbCoherent, UserPage
    <2> QED
      BY <2>1, <2>7, <2>8, <2>9, <2>10, <2>11 DEF PagingInv
  <1>2. CASE VidmapLoad
    <2>1. /\ UNCHANGED <<pid_avail, video, cr3, page_directory, pte_user, kernel_loaded, booted,
                         tlb, mapped>>
          /\ pte_local' = [pte_local EXCEPT ![tss] = video[tss]]
          /\ vidmap' = [vidmap EXCEPT ![tss] = "loaded_pte"]
          /\ vidmap[tss] = "granted_pde"
          /\ UNCHANGED vars
      BY <1>2 DEF VidmapLoad, vars, cpuVars, tableVars
    <2>2. PagingTypeOK'
      BY <1>0, <2>1 DEF PagingInv, PagingTypeOK, ProcessInv, TypeOK
    <2>3. NothingBeforeBoot' /\ UserTablesLoaded' /\ TlbCoherent'
      BY <2>1 DEF PagingInv, NothingBeforeBoot, UserTablesLoaded, TlbCoherent, UserPage
    <2>4. VidmapInv'
      BY <1>0, <2>1 DEF PagingInv, VidmapInv, PagingTypeOK
    <2>5. TablesInv'
      BY <2>1 DEF PagingInv, TablesInv, DirectoryOf
    <2> QED
      BY <2>1, <2>2, <2>3, <2>4, <2>5 DEF PagingInv
  <1>3. CASE VidmapStore
    <2>1. /\ UNCHANGED <<pid_avail, cr3, page_directory, kernel_loaded, booted, tlb>>
          /\ video' = [video EXCEPT ![tss] = pte_local[tss]]
          /\ pte_user' = [pte_user EXCEPT ![tss] = @ \cup {VIDEO}]
          /\ vidmap' = [vidmap EXCEPT ![tss] = "idle"]
          /\ pte_local' = [pte_local EXCEPT ![tss] = VIDEO]
          /\ mapped' = mapped \cup {tss}
          /\ vidmap[tss] = "loaded_pte"
      BY <1>3 DEF VidmapStore, cpuVars
    <2>2. video' = video
      BY <1>0, <2>1 DEF PagingInv, VidmapInv, ProcessInv, TypeOK
    <2>3. PagingTypeOK'
      BY <1>0, <2>1, PageRange DEF PagingInv, PagingTypeOK
    <2>4. NothingBeforeBoot' /\ UserTablesLoaded'
      BY <2>1 DEF PagingInv, NothingBeforeBoot, UserTablesLoaded
    <2>5. VidmapInv'
      BY <1>0, <2>1, <2>2 DEF PagingInv, VidmapInv, PagingTypeOK
    <2>6. TablesInv'
      <3> SUFFICES ASSUME NEW p \in pid_avail
                   PROVE  /\ DirectoryOf(p, page_directory[p])
                          /\ pte_user'[p] \subseteq {VIDEO}
                          /\ VIDEO \in pte_user'[p] <=> p \in mapped'
                          /\ p \in mapped' => page_directory[p][0].user
        BY <2>1 DEF TablesInv, DirectoryOf
      <3>1. p \in Pid
        BY DEF ProcessInv, TypeOK
      <3>2. CASE p = tss
        BY <1>0, <2>1, <3>2 DEF PagingInv, TablesInv, VidmapInv, PagingTypeOK
      <3>3. CASE p # tss
        BY <2>1, <3>1, <3>3 DEF PagingInv, TablesInv, PagingTypeOK
      <3> QED
        BY <3>2, <3>3
    <2>7. TlbCoherent'
      BY <1>0, <2>1, <2>2 DEF PagingInv, TlbCoherent, UserPage, PagingTypeOK
    <2> QED
      BY <1>3, <2>3, <2>4, <2>5, <2>6, <2>7 DEF PagingInv
  <1>4. CASE TlbFill
    <2>1. /\ UNCHANGED <<pid_avail, video, cr3, page_directory, pte_user, kernel_loaded, booted,
                         vidmap, pte_local, mapped>>
          /\ tlb' = {[page |-> video[cr3], user |-> UserPage(cr3, VIDEO)]}
          /\ UNCHANGED vars
      BY <1>4 DEF TlbFill, vars, cpuVars, tableVars, vidmapVars
    <2>2. UserPage(cr3, VIDEO) \in BOOLEAN
      BY DEF UserPage
    <2>3. PagingTypeOK'
      BY <1>0, <2>1, <2>2 DEF PagingInv, PagingTypeOK, ProcessInv, TypeOK
    <2>4. NothingBeforeBoot' /\ UserTablesLoaded' /\ VidmapInv'
      BY <2>1 DEF PagingInv, NothingBeforeBoot, UserTablesLoaded, VidmapInv
    <2>5. TablesInv'
      BY <2>1 DEF PagingInv, TablesInv, DirectoryOf
    <2>6. UserPage(cr3, VIDEO)' = UserPage(cr3, VIDEO)
      BY <2>1 DEF UserPage
    <2>7. TlbCoherent'
      BY <2>1, <2>6 DEF TlbCoherent
    <2> QED
      BY <2>1, <2>3, <2>4, <2>5, <2>7 DEF PagingInv
  <1> QED
    BY <1>1, <1>2, <1>3, <1>4 DEF VidmapStep

-----------------------------------------------------------------------------
(***************************************************************************)
(* The theorems.                                                           *)
(***************************************************************************)
LEMMA PagingInvInit == PagingInit => ProcessInv /\ PagingInv
  <1> SUFFICES ASSUME PagingInit PROVE ProcessInv /\ PagingInv
    OBVIOUS
  <1>1. ProcessInv
    BY TypeInit, IInvInit, VideoInit DEF PagingInit, ProcessInv
  <1>2. NotSetUp \in [PdIndex -> PageEntry]
    BY DirectoryAssumption, Entries DEF NotSetUp, Entry, PageEntry
  <1>3. PagingTypeOK
    BY <1>2, PageRange DEF PagingInit, PagingTypeOK, PageEntry
  <1>4. NothingBeforeBoot /\ UserTablesLoaded /\ VidmapInv /\ TlbCoherent /\ TablesInv
    BY DEF PagingInit, NothingBeforeBoot, UserTablesLoaded, VidmapInv, TlbCoherent, TablesInv
  <1> QED
    BY <1>1, <1>3, <1>4 DEF PagingInv

\* The steps of Paging are steps of Processes, except that vidmap's store writes the
\* page back that it has loaded.
LEMMA PagingStep ==
  ASSUME ExecInForeground, ~SwitchInVidmap, ProcessInv, PagingInv, [PagingNext]_allPagingVars
  PROVE  ProcessInv' /\ PagingInv'
  <1>1. ASSUME [Next]_vars PROVE ProcessInv'
    BY <1>1, TypeStep, IInvStep, VideoStep DEF ProcessInv
  <1>2. CASE BootShell \/ BootKey \/ Reset
    <2>1. UNCHANGED vars
      BY <1>2 DEF BootShell, BootKey, Reset
    <2> QED
      BY <1>1, <1>2, <2>1, BootStepInv
  <1>3. CASE booted /\ ProcessStep
    <2>1. Next
      BY <1>3 DEF ProcessStep, PExecute, PHalt, PHaltFirstShell, PSwitchTerminal,
                  PLaunchTerminal, PKeyOrTimer, PRtc, Next
    <2> QED
      BY <1>1, <1>3, <2>1, ProcessStepInv
  <1>4. CASE (booted /\ VidmapStep) \/ TlbFill
    <2>1. booted
      BY <1>4 DEF TlbFill
    <2>2. PagingInv' /\ (UNCHANGED vars \/ VidmapStore)
      BY <1>4, <2>1, VidmapStepInv
    <2>3. CASE VidmapStore
      <3>1. video' = [video EXCEPT ![tss] = pte_local[tss]] /\ tss \in Pid
            /\ vidmap[tss] = "loaded_pte"
        BY <2>3 DEF VidmapStore, ProcessInv, TypeOK
      <3>2. video' = video
        BY <3>1 DEF PagingInv, VidmapInv, ProcessInv, TypeOK
      <3>3. UNCHANGED vars
        BY <2>3, <3>2 DEF VidmapStore, vars
      <3> QED
        BY <1>1, <2>2, <3>3
    <2> QED
      BY <1>1, <2>2, <2>3
  <1>5. CASE UNCHANGED allPagingVars
    <2>1. /\ UNCHANGED vars
          /\ UNCHANGED <<page_directory, pte_user, kernel_loaded, booted, tlb, vidmap,
                         pte_local, mapped>>
      BY <1>5 DEF allPagingVars, pagingVars, tableVars, vidmapVars
    <2>2. UNCHANGED <<pid_avail, video, cr3>>
      BY <2>1 DEF vars, cpuVars
    <2>3. Init => Init'
      BY <2>1 DEF Init, vars, pcbVars, cpuVars, termVars, irqVars
    <2>4. PagingTypeOK' /\ UserTablesLoaded' /\ VidmapInv'
      BY <2>1, <2>2 DEF PagingInv, PagingTypeOK, UserTablesLoaded, VidmapInv
    <2>5. TablesInv' /\ TlbCoherent'
      BY <2>1, <2>2 DEF PagingInv, TablesInv, DirectoryOf, TlbCoherent, UserPage
    <2>6. NothingBeforeBoot'
      BY <2>1, <2>3 DEF PagingInv, NothingBeforeBoot
    <2> QED
      BY <1>1, <2>1, <2>4, <2>5, <2>6 DEF PagingInv
  <1> QED
    BY <1>2, <1>3, <1>4, <1>5 DEF PagingNext

LEMMA PagingAlways ==
  ASSUME ExecInForeground, ~SwitchInVidmap
  PROVE  PagingSpec => [](ProcessInv /\ PagingInv)
  <1>1. (ProcessInv /\ PagingInv) /\ [PagingNext]_allPagingVars => (ProcessInv /\ PagingInv)'
    BY PagingStep
  <1> QED
    BY <1>1, PagingInvInit, PTL DEF PagingSpec

\* If no terminal is switched inside vidmap, user code of a process reaches its own
\* 4MB block and at most the screen of its own terminal, whatever the order of
\* execute, halt, vidmap, launches and switches, and it runs in its own directory.
THEOREM Isolated ==
  ASSUME ExecInForeground, ~SwitchInVidmap
  PROVE  PagingSpec => []MemoryIsolated
  <1>1. ProcessInv /\ PagingInv => MemoryIsolated
    <2> SUFFICES ASSUME ProcessInv, PagingInv, booted PROVE MemoryIsolated
      BY DEF MemoryIsolated
    <2>1. cr3 = tss
      BY DEF ProcessInv, IInv, CpuServesTerminal
    <2>2. ASSUME NEW p \in pid_avail
          PROVE  /\ UserFrames(p) = {block_address_for_process(p)}
                 /\ UserPages(p) \subseteq {OwnScreen(p)}
      <3>1. p \in Pid
        BY DEF ProcessInv, TypeOK
      <3>2. /\ \A i \in PdIndex \ {0} : page_directory[p][i] = TaskDirectory(p)[i]
            /\ pte_user[p] \subseteq {VIDEO}
        BY DEF PagingInv, TablesInv, DirectoryOf
      <3>3. /\ \A i \in PdIndex \ {0, TASK_PDE_ENTRY} : page_directory[p][i].user = FALSE
            /\ page_directory[p][TASK_PDE_ENTRY]
                 = [frame |-> block_address_for_process(p), present |-> TRUE, user |-> TRUE]
        <4>1. /\ \A i \in PdIndex \ {TASK_PDE_ENTRY} : TaskDirectory(p)[i].user = FALSE
              /\ TaskDirectory(p)[TASK_PDE_ENTRY]
                   = Entry(block_address_for_process(p), TRUE, TRUE)
          BY <3>1, TaskDirectoryEntries
        <4> QED
          BY <3>2, <4>1, Entries DEF Entry
      <3>4. {j \in PdIndex \ {0} : page_directory[p][j].present /\ page_directory[p][j].user}
              = {TASK_PDE_ENTRY}
        BY <3>3, Entries
      <3>5. UserFrames(p) = {block_address_for_process(p)}
        BY <3>3, <3>4 DEF UserFrames
      <3>6. video[p] = OwnScreen(p)
        BY DEF ProcessInv, VideoFollowsDisplay, OwnScreen
      <3> QED
        BY <3>2, <3>5, <3>6 DEF UserPages, UserPage
    <2>3. pid_avail \subseteq Pid
      BY DEF ProcessInv, TypeOK
    <2> QED
      BY <2>1, <2>2, <2>3, Blocks DEF MemoryIsolated
  <1> QED
    BY <1>1, PagingAlways, PTL

\* If no terminal is switched inside vidmap, a process can draw on its screen exactly
\* if it has called vidmap itself.
THEOREM Granted ==
  ASSUME ExecInForeground, ~SwitchInVidmap
  PROVE  PagingSpec => []AccessAsGranted
  <1>1. PagingInv => AccessAsGranted
    BY DEF PagingInv, TablesInv, DirectoryOf, AccessAsGranted, UserPage
  <1> QED
    BY <1>1, PagingAlways, PTL

\* If no terminal is switched inside vidmap, no cached translation of VIDEO is stale.
THEOREM Coherent ==
  ASSUME ExecInForeground, ~SwitchInVidmap
  PROVE  PagingSpec => []TlbCoherent
  <1>1. PagingInv => TlbCoherent
    BY DEF PagingInv
  <1> QED
    BY <1>1, PagingAlways, PTL

\* Once the first shell has been started, every directory that is loaded has the
\* kernel and the base page table in it.
THEOREM KernelMapped ==
  ASSUME ExecInForeground, ~SwitchInVidmap
  PROVE  PagingSpec => []KernelAlwaysMapped
  <1>1. ProcessInv /\ PagingInv => KernelAlwaysMapped
    <2> SUFFICES ASSUME ProcessInv, PagingInv, booted
                 PROVE  Loaded[KERNEL_PDE_ENTRY].present /\ Loaded[0].present
      BY DEF KernelAlwaysMapped
    <2>1. cr3 \in pid_avail /\ cr3 \in Pid
      BY DEF ProcessInv, IInv, CpuServesTerminal, FrontProcess, TypeOK
    <2>2. Loaded = page_directory[cr3]
      BY DEF PagingInv, UserTablesLoaded, Loaded
    <2> QED
      BY <2>1, <2>2, TaskDirectoryEntries, Entries DEF PagingInv, TablesInv, DirectoryOf
  <1> QED
    BY <1>1, PagingAlways, PTL

-----------------------------------------------------------------------------
(***************************************************************************)
(* Commands: the invariant.                                                *)
(***************************************************************************)
\* The provers do not know of a string that it is one.
Word == STRING \cup {EMPTY_SPACE, "garbage"}
Text == Seq(Word)
Answer == {None, FAILURE} \cup 0 .. EXCEPTION

TypesInv ==
    /\ CommandsTypeOK
    /\ string \in [Pid -> Text]
    /\ argbuf \in [Pid -> Text]
    /\ given \in [Pid -> Text]
    /\ outcome \in [Pid -> Answer]

\* The argument of p lies where the PCB says: on the stack of the parent, in execute.
ArgumentAt(p) ==
    /\ args[p] = parentPCB[p]
    /\ caller[p] = parentPCB[p]
    /\ string[parentPCB[p]] = given[p]

\* A first shell has no argument on any stack and asks for none.
ArgumentInv ==
    \A p \in pid_avail :
        /\ argbuf[p] \in {Garbage, given[p]}
        /\ FIRST_TERM_SHELL \in flags[p] => program[p] = "shell"
        /\ FIRST_TERM_SHELL \notin flags[p] => ArgumentAt(p)

CommandsInv ==
    /\ TypeOK
    /\ IInv
    /\ TypesInv
    /\ ArgumentInv
    /\ answer = outcome

-----------------------------------------------------------------------------
(***************************************************************************)
(* The command line.                                                       *)
(***************************************************************************)
LEMMA Texts ==
  /\ \A line \in Line : line \in Text
  /\ EMPTY_SPACE \in Word /\ <<EMPTY_SPACE>> \in Text
  /\ Garbage \in Text /\ << >> \in Text
  <1>1. EMPTY_SPACE \in Word /\ "garbage" \in Word
    BY DEF Word
  <1>2. ASSUME NEW w \in Word PROVE <<w>> \in Text
    BY DEF Text
  <1>3. ASSUME NEW line \in Line PROVE line \in Text
    <2>1. line \in Seq(STRING) /\ STRING \subseteq Word
      BY LinesAssumption, Zenon DEF Word
    <2> QED
      BY <2>1, SeqMonotonic DEF Text
  <1>4. << >> \in Text
    BY DEF Text
  <1> QED
    BY <1>1, <1>2, <1>3, <1>4 DEF Garbage

IsJoin(s, t, r) ==
    /\ r \in Text /\ Len(r) = Len(s) + Len(t) /\ Len(s) \in Nat /\ Len(t) \in Nat
    /\ \A i \in 1 .. Len(s) + Len(t) : r[i] = IF i <= Len(s) THEN s[i] ELSE t[i - Len(s)]

LEMMA Joined ==
  ASSUME NEW s \in Text, NEW t \in Text, NEW r, r = s \o t
  PROVE  IsJoin(s, t, r)
  BY DEF Text, IsJoin

LEMMA WithSpace ==
  ASSUME NEW s \in Text, NEW r, r = s \o <<EMPTY_SPACE>>
  PROVE  /\ r \in Text /\ Len(s) \in Nat /\ Len(r) = Len(s) + 1
         /\ r[Len(s) + 1] = EMPTY_SPACE
         /\ \A i \in 1 .. Len(s) : r[i] = s[i]
  <1>1. PICK e : e = <<EMPTY_SPACE>>
    OBVIOUS
  <1>2. e \in Text /\ Len(e) = 1 /\ e[1] = EMPTY_SPACE
    BY <1>1, Texts
  <1>3. IsJoin(s, e, r)
    BY <1>1, <1>2, Joined
  <1> QED
    BY <1>2, <1>3 DEF IsJoin

LEMMA LeastOf ==
  ASSUME NEW S, S \subseteq Nat, S # {}
  PROVE  \E x \in S : \A y \in S : x <= y
  <1> DEFINE R == {ss \in Nat \X Nat : ss[1] < ss[2]}
  <1>1. IsWellFoundedOn(R, Nat)
    BY NatLessThanWellFounded DEF OpToRel
  <1> HIDE DEF R
  <1>2. PICK x \in S : \A y \in S : ~(<<y, x>> \in R)
    BY <1>1, WFMin
  <1>3. ASSUME NEW y \in S PROVE x <= y
    <2>1. x \in Nat /\ y \in Nat
      OBVIOUS
    <2>2. <<y, x>> \in Nat \X Nat /\ <<y, x>>[1] = y /\ <<y, x>>[2] = x
      BY <2>1
    <2>3. y < x => <<y, x>> \in R
      BY <2>2, Zenon DEF R
    <2> QED
      BY <1>2, <2>1, <2>3
  <1> QED
    BY <1>3

\* i is the place of the first space of the line, or one beyond its end.
IsFirstSpace(line, i) ==
    /\ i \in 1 .. Len(line) + 1
    /\ i = Len(line) + 1 \/ line[i] = EMPTY_SPACE
    /\ \A j \in 1 .. i - 1 : line[j] # EMPTY_SPACE

LEMMA OneFirstSpace ==
  ASSUME NEW line \in Text, NEW i, NEW j, IsFirstSpace(line, i), IsFirstSpace(line, j)
  PROVE  i = j
  <1>1. Len(line) \in Nat
    BY DEF Text
  <1>2. i \in Nat /\ j \in Nat
    BY <1>1 DEF IsFirstSpace
  <1>3. ~(i < j)
    <2>1. SUFFICES ASSUME i < j PROVE FALSE
      OBVIOUS
    <2>2. i \in 1 .. j - 1 /\ i # Len(line) + 1
      BY <1>1, <1>2, <2>1 DEF IsFirstSpace
    <2> QED
      BY <2>2 DEF IsFirstSpace
  <1>4. ~(j < i)
    <2>1. SUFFICES ASSUME j < i PROVE FALSE
      OBVIOUS
    <2>2. j \in 1 .. i - 1 /\ j # Len(line) + 1
      BY <1>1, <1>2, <2>1 DEF IsFirstSpace
    <2> QED
      BY <2>2 DEF IsFirstSpace
  <1> QED
    BY <1>2, <1>3, <1>4

LEMMA FirstSpaceFound ==
  ASSUME NEW line \in Text
  PROVE  IsFirstSpace(line, FirstSpace(line))
  <1>1. Len(line) \in Nat
    BY DEF Text
  <1> DEFINE S == {i \in 1 .. Len(line) + 1 : i = Len(line) + 1 \/ line[i] = EMPTY_SPACE}
  <1>2. S \subseteq Nat /\ Len(line) + 1 \in S
    BY <1>1
  <1>3. \E x \in S : \A y \in S : x <= y
    <2> HIDE DEF S
    <2> QED
      BY <1>2, LeastOf
  <1>4. PICK x \in S : \A y \in S : x <= y
    BY <1>3
  <1>5. x \in 1 .. Len(line) + 1 /\ (x = Len(line) + 1 \/ line[x] = EMPTY_SPACE)
    OBVIOUS
  <1>6. ASSUME NEW j \in 1 .. x - 1 PROVE line[j] # EMPTY_SPACE
    <2>1. j \in 1 .. Len(line) + 1 /\ j < x
      BY <1>1, <1>5
    <2> QED
      BY <1>4, <1>1, <1>5, <2>1
  <1>7. /\ x \in 1 .. Len(line) + 1
        /\ x = Len(line) + 1 \/ line[x] = EMPTY_SPACE
        /\ \A j \in 1 .. x - 1 : line[j] # EMPTY_SPACE
    BY <1>5, <1>6
  <1> HIDE DEF S
  <1>8. \E i \in 1 .. Len(line) + 1 :
           /\ i = Len(line) + 1 \/ line[i] = EMPTY_SPACE
           /\ \A j \in 1 .. i - 1 : line[j] # EMPTY_SPACE
    BY <1>7
  <1> QED
    BY <1>8, Zenon DEF FirstSpace, IsFirstSpace

\* Whatever split of a line the reference has, its argument is what execute finds.
LEMMA SplitFound ==
  ASSUME NEW line \in Text, NEW n \in 0 .. Len(line), NEW a \in Text,
         IsSplit(line, SubSeq(line, 1, n), a)
  PROVE  a = ArgumentOf(line)
  <1>1. Len(line) \in Nat /\ n \in Nat /\ n <= Len(line)
    BY DEF Text
  <1>2. PICK name : name = SubSeq(line, 1, n)
    OBVIOUS
  <1>3. name \in Text /\ Len(name) = n /\ \A i \in 1 .. n : name[i] = line[i]
    BY <1>1, <1>2 DEF Text
  <1>4. \A i \in 1 .. n : line[i] # EMPTY_SPACE
    BY <1>2, <1>3 DEF IsSplit
  <1>5. IsFirstSpace(line, FirstSpace(line))
    BY FirstSpaceFound
  <1>6. CASE line = name /\ a = << >>
    <2>1. n = Len(line)
      BY <1>3, <1>6
    <2>2. IsFirstSpace(line, Len(line) + 1)
      BY <1>1, <1>4, <2>1 DEF IsFirstSpace
    <2>3. FirstSpace(line) = Len(line) + 1
      BY <1>5, <2>2, OneFirstSpace
    <2>4. SubSeq(line, Len(line) + 1 + 1, Len(line)) = << >>
      BY <1>1 DEF Text
    <2> QED
      BY <1>6, <2>3, <2>4 DEF ArgumentOf
  <1>7. CASE line = name \o <<EMPTY_SPACE>> \o a
    <2>1. Len(a) \in Nat
      BY DEF Text
    <2>2. /\ Len(line) = n + 1 + Len(a) /\ line[n + 1] = EMPTY_SPACE
          /\ \A i \in 1 .. Len(a) : line[n + 1 + i] = a[i]
      <3>1. PICK m : m = name \o <<EMPTY_SPACE>>
        OBVIOUS
      <3>3. m \in Text /\ Len(m) = n + 1 /\ m[n + 1] = EMPTY_SPACE
        BY <1>3, <3>1, WithSpace
      <3>4. line = m \o a
        BY <1>7, <3>1
      <3>5. IsJoin(m, a, line)
        BY <3>3, <3>4, Joined
      <3>6. /\ Len(line) = Len(m) + Len(a)
            /\ \A i \in 1 .. Len(m) + Len(a) :
                  line[i] = IF i <= Len(m) THEN m[i] ELSE a[i - Len(m)]
        BY <3>5 DEF IsJoin
      <3>7. line[n + 1] = EMPTY_SPACE
        BY <1>1, <2>1, <3>3, <3>6
      <3>8. ASSUME NEW i \in 1 .. Len(a) PROVE line[n + 1 + i] = a[i]
        BY <1>1, <2>1, <3>3, <3>6
      <3> QED
        BY <3>3, <3>6, <3>7, <3>8
    <2>3. IsFirstSpace(line, n + 1)
      BY <1>1, <1>4, <2>1, <2>2 DEF IsFirstSpace
    <2>4. FirstSpace(line) = n + 1
      BY <1>5, <2>3, OneFirstSpace
    <2>5. PICK b : b = SubSeq(line, n + 1 + 1, Len(line))
      OBVIOUS
    <2>6. b \in Text /\ Len(b) = Len(a) /\ \A i \in 1 .. Len(b) : b[i] = line[n + 1 + i]
      <3>1. n + 1 + 1 \in 1 .. Len(line) + 1 /\ Len(line) \in Nat
            /\ Len(line) - (n + 1 + 1) + 1 = Len(a)
        BY <1>1, <2>1, <2>2 DEF Text
      <3>2. b \in Text
        BY <2>5, <3>1, SubSeqProperties DEF Text
      <3>3. Len(b) = Len(a)
        BY <2>5, <3>1, SubSeqProperties DEF Text
      <3>4. ASSUME NEW i \in 1 .. Len(b) PROVE b[i] = line[n + 1 + i]
        BY <2>5, <3>1, <3>3, SubSeqProperties DEF Text
      <3> QED
        BY <3>2, <3>3, <3>4
    <2>7. a = b
      <3>1. ASSUME NEW i \in 1 .. Len(a) PROVE a[i] = b[i]
        BY <2>1, <2>2, <2>6
      <3> QED
        BY <2>1, <2>6, <3>1, SeqEqual DEF Text
    <2> QED
      BY <2>4, <2>5, <2>7 DEF ArgumentOf
  <1> QED
    BY <1>2, <1>6, <1>7 DEF IsSplit

\* execute's scan for the first space (syscalls.c:69-95) finds the argument that the
\* reference gives the line.
LEMMA ArgumentFound ==
  ASSUME NEW line \in Text
  PROVE  ArgumentOf(line) = ArgumentGiven(line) /\ ArgumentOf(line) \in Text
  <1>1. Len(line) \in Nat
    BY DEF Text
  <1>2. PICK f : f = FirstSpace(line)
    OBVIOUS
  <1>3. /\ f \in 1 .. Len(line) + 1 /\ (f = Len(line) + 1 \/ line[f] = EMPTY_SPACE)
        /\ \A j \in 1 .. f - 1 : line[j] # EMPTY_SPACE
    BY <1>2, FirstSpaceFound DEF IsFirstSpace
  <1>4. PICK n : n = f - 1
    OBVIOUS
  <1>5. n \in 0 .. Len(line) /\ n \in Nat /\ f = n + 1
    BY <1>1, <1>3, <1>4
  <1>6. PICK name : name = SubSeq(line, 1, n)
    OBVIOUS
  <1>7. name \in Text /\ Len(name) = n /\ \A i \in 1 .. n : name[i] = line[i]
    BY <1>1, <1>5, <1>6 DEF Text
  <1>8. \A i \in 1 .. Len(name) : name[i] # EMPTY_SPACE
    BY <1>3, <1>4, <1>7
  <1>9. PICK a : a = ArgumentOf(line)
    OBVIOUS
  <1> DEFINE Suffixes == {SubSeq(line, i, Len(line)) : i \in 1 .. Len(line) + 1}
  <1>10. \A b \in Suffixes : b \in Text
    <2>1. ASSUME NEW i \in 1 .. Len(line) + 1 PROVE SubSeq(line, i, Len(line)) \in Text
      BY <1>1 DEF Text
    <2> QED
      BY <2>1
  <1>11. a \in Suffixes /\ IsSplit(line, name, a)
    <2>1. CASE f = Len(line) + 1
      <3>1. a = << >>
        BY <1>1, <1>2, <1>9, <2>1 DEF ArgumentOf, Text
      <3>2. SubSeq(line, Len(line) + 1, Len(line)) = << >>
        BY <1>1 DEF Text
      <3>3. line = name
        BY <1>1, <1>4, <1>7, <2>1 DEF Text
      <3>4. a \in Suffixes
        BY <1>1, <3>1, <3>2
      <3> QED
        BY <1>8, <3>1, <3>3, <3>4 DEF IsSplit
    <2>2. CASE f # Len(line) + 1
      <3>1. f \in 1 .. Len(line) /\ f + 1 \in 1 .. Len(line) + 1 /\ line[f] = EMPTY_SPACE
        BY <1>1, <1>3, <2>2
      <3>2. a = SubSeq(line, f + 1, Len(line))
        BY <1>2, <1>9 DEF ArgumentOf
      <3>3. a \in Suffixes
        BY <3>1, <3>2
      <3>4. /\ a \in Text /\ Len(a) = Len(line) - f
            /\ \A i \in 1 .. Len(a) : a[i] = line[f + i]
        BY <1>1, <3>1, <3>2 DEF Text
      <3>5. PICK m : m = name \o <<EMPTY_SPACE>>
        OBVIOUS
      <3>7. m \in Text /\ Len(m) = f /\ m[f] = EMPTY_SPACE /\ \A i \in 1 .. n : m[i] = name[i]
        BY <1>5, <1>7, <3>5, WithSpace
      <3>8. PICK l : l = m \o a
        OBVIOUS
      <3>9. /\ l \in Text /\ Len(l) = Len(line)
            /\ \A i \in 1 .. Len(l) : l[i] = IF i <= f THEN m[i] ELSE a[i - f]
        <4>1. IsJoin(m, a, l)
          BY <3>4, <3>7, <3>8, Joined
        <4> QED
          BY <1>1, <3>1, <3>4, <3>7, <4>1 DEF IsJoin
      <3>10. ASSUME NEW i \in 1 .. Len(line) PROVE l[i] = line[i]
        <4>1. CASE i <= n
          BY <1>1, <1>5, <1>7, <3>1, <3>7, <3>9, <4>1
        <4>2. CASE i = f
          BY <1>1, <1>5, <3>1, <3>7, <3>9, <4>2
        <4>3. CASE i > f
          <5>1. i - f \in 1 .. Len(a) /\ f + (i - f) = i
            BY <1>1, <3>1, <3>4, <4>3
          <5>2. a[i - f] = line[f + (i - f)]
            BY <3>4, <5>1
          <5> QED
            BY <1>1, <3>1, <3>9, <4>3, <5>1, <5>2
        <4> QED
          BY <1>1, <1>5, <3>1, <4>1, <4>2, <4>3
      <3>11. l = line
        BY <1>1, <3>9, <3>10 DEF Text
      <3> QED
        BY <1>8, <3>3, <3>5, <3>8, <3>11 DEF IsSplit
    <2> QED
      BY <2>1, <2>2
  <1> HIDE DEF Suffixes
  <1> DEFINE P(b) == \E k \in 0 .. Len(line) : IsSplit(line, SubSeq(line, 1, k), b)
  <1>12. P(a)
    BY <1>5, <1>6, <1>11
  <1>13. \A b \in Suffixes : P(b) => b = a
    BY <1>9, <1>10, SplitFound
  <1> HIDE DEF P
  <1>14. (CHOOSE b \in Suffixes : P(b)) = a
    BY <1>11, <1>12, <1>13
  <1> QED
    BY <1>9, <1>10, <1>11, <1>14 DEF ArgumentGiven, P, Suffixes

-----------------------------------------------------------------------------
(***************************************************************************)
(* The invariant.                                                          *)
(***************************************************************************)
\* The part of ArgumentInv about p.
ArgumentsOf(p) ==
    /\ argbuf[p] \in {Garbage, given[p]}
    /\ FIRST_TERM_SHELL \in flags[p] => program[p] = "shell"
    /\ FIRST_TERM_SHELL \notin flags[p] => ArgumentAt(p)

LEMMA OverwrittenStacks ==
  ASSUME TypesInv
  PROVE  /\ Overwritten \in [Pid -> Text]
         /\ \A p \in Pid : kstack'[p] = "execute" => Overwritten[p] = string[p]
  BY Texts DEF TypesInv, Overwritten

\* What a step leaves to a process that was there before: its parent is still in
\* execute, so that its argument has not been overwritten.
LEMMA ArgumentsKept ==
  ASSUME CommandsInv, IInv', TypeOK', NEW p \in pid_avail, p \in pid_avail',
         FIRST_TERM_SHELL \in flags'[p] <=> FIRST_TERM_SHELL \in flags[p],
         parentPCB'[p] = parentPCB[p],
         program'[p] = program[p], args'[p] = args[p], caller'[p] = caller[p],
         given'[p] = given[p], argbuf'[p] \in {argbuf[p], Garbage, given[p]},
         FIRST_TERM_SHELL \notin flags[p] =>
            string'[parentPCB[p]] = Overwritten[parentPCB[p]]
  PROVE  ArgumentsOf(p)'
  <1>1. ArgumentsOf(p)
    BY DEF CommandsInv, ArgumentInv, ArgumentsOf
  <1>2. ASSUME FIRST_TERM_SHELL \notin flags[p] PROVE ArgumentAt(p)'
    <2>1. kstack'[parentPCB'[p]] = "execute" /\ parentPCB[p] \in Pid
      BY <1>2 DEF IInv, ParentWaits, TypeOK, CommandsInv
    <2>2. string'[parentPCB[p]] = string[parentPCB[p]]
      BY <1>2, <2>1, OverwrittenStacks DEF CommandsInv
    <2> QED
      BY <1>1, <1>2, <2>2 DEF ArgumentsOf, ArgumentAt
  <1> QED
    BY <1>1, <1>2 DEF ArgumentsOf

LEMMA CommandsInvInit == CommandsInit => CommandsInv
  <1> SUFFICES ASSUME CommandsInit PROVE CommandsInv
    OBVIOUS
  <1>1. TypeOK /\ IInv
    BY TypeInit, IInvInit DEF CommandsInit
  <1>2. TypesInv
    <2>1. "shell" \in Executable
      BY LinesAssumption
    <2> QED
      BY <2>1, Texts, ZeroInRange DEF CommandsInit, TypesInv, CommandsTypeOK, Answer, EXCEPTION
  <1>3. ArgumentInv
    BY ZeroInRange DEF CommandsInit, Init, ArgumentInv
  <1>4. answer = outcome
    BY DEF CommandsInit
  <1> QED
    BY <1>1, <1>2, <1>3, <1>4 DEF CommandsInv

\* Interrupts that start no process leave the first shells what they are.
LEMMA InterruptKeeps ==
  ASSUME TypeOK, IInv, Interrupt
  PROVE  /\ pid_avail' = pid_avail /\ parentPCB' = parentPCB
         /\ \A p \in pid_avail : FIRST_TERM_SHELL \in flags'[p] <=> FIRST_TERM_SHELL \in flags[p]
  <1> USE DEF pcbVars, irqVars, termVars, cpuVars
  <1>1. ASSUME KeyTyped \/ \E t \in Terminal : SwitchTerminal(t)
        PROVE  pid_avail' = pid_avail /\ parentPCB' = parentPCB /\ flags' = flags
    BY <1>1 DEF KeyTyped, SwitchTerminal
  <1>2. ASSUME NEW t \in Terminal, Timer(t)
        PROVE  /\ pid_avail' = pid_avail /\ parentPCB' = parentPCB
               /\ \A p \in pid_avail :
                    FIRST_TERM_SHELL \in flags'[p] <=> FIRST_TERM_SHELL \in flags[p]
    <2>1. /\ t \in terminals_launched /\ terminals[t] \in pid_avail /\ terminals[t] \in Pid
          /\ tss \in Pid
      BY <1>2 DEF Timer, NextToService, IInv, FrontProcess, TypeOK
    <2>2. PICK pid : pid = terminals[t]
      OBVIOUS
    <2>3. \/ flags' = flags
          \/ flags' = [flags EXCEPT ![pid] = kbd_flags[pid]] /\ kstack[pid] = "keyboard"
      BY <1>2, <2>1, <2>2 DEF Timer, SwitchContext, TypeOK
    <2>4. kstack[pid] = "keyboard" =>
            (FIRST_TERM_SHELL \in kbd_flags[pid] <=> FIRST_TERM_SHELL \in flags[pid])
      BY <2>1, <2>2 DEF IInv, SavedFlagsRight
    <2>5. pid_avail' = pid_avail /\ parentPCB' = parentPCB
      BY <1>2 DEF Timer
    <2> QED
      BY <2>3, <2>4, <2>5 DEF TypeOK
  <1>3. ASSUME RtcEnter \/ RtcSendEoi
        PROVE  /\ pid_avail' = pid_avail /\ parentPCB' = parentPCB
               /\ \A p \in pid_avail :
                    FIRST_TERM_SHELL \in flags'[p] <=> FIRST_TERM_SHELL \in flags[p]
    <2>1. /\ pid_avail' = pid_avail /\ parentPCB' = parentPCB
          /\ \/ flags' = flags
             \/ flags' = [flags EXCEPT ![tss] = @ \cup {IN_INTERRUPT_FLAG}]
      BY <1>3 DEF RtcEnter, RtcSendEoi
    <2>2. FIRST_TERM_SHELL # IN_INTERRUPT_FLAG
      BY DEF FIRST_TERM_SHELL, IN_INTERRUPT_FLAG
    <2>3. flags \in [Pid -> SUBSET Flag] /\ pid_avail \subseteq Pid
      BY DEF TypeOK
    <2>4. CASE flags' = flags
      BY <2>1, <2>4
    <2>5. CASE flags' = [flags EXCEPT ![tss] = @ \cup {IN_INTERRUPT_FLAG}]
      <3>1. ASSUME NEW p \in pid_avail
            PROVE  flags'[p] = flags[p] \/ flags'[p] = flags[p] \cup {IN_INTERRUPT_FLAG}
        BY <2>3, <2>5
      <3> QED
        BY <2>1, <2>2, <3>1
    <2> QED
      BY <2>1, <2>4, <2>5
  <1>4. ASSUME RtcExit
        PROVE  /\ pid_avail' = pid_avail /\ parentPCB' = parentPCB
               /\ \A p \in pid_avail :
                    FIRST_TERM_SHELL \in flags'[p] <=> FIRST_TERM_SHELL \in flags[p]
    <2>1. FIRST_TERM_SHELL \in rtc_flags[tss] <=> FIRST_TERM_SHELL \in flags[tss]
      BY <1>4 DEF RtcExit, TypeOK, IInv, SavedFlagsRight
    <2>2. flags' = [flags EXCEPT ![tss] = rtc_flags[tss]]
          /\ pid_avail' = pid_avail /\ parentPCB' = parentPCB
      BY <1>4 DEF RtcExit
    <2> QED
      BY <2>1, <2>2 DEF TypeOK
  <1> QED
    BY <1>1, <1>2, <1>3, <1>4 DEF Interrupt

LEMMA InterruptInv ==
  ASSUME CommandsInv, TypeOK', IInv', Interrupt
  PROVE  CommandsInv'
  <1>0. UNCHANGED <<program, args, ret_val, answer, argbuf, given, caller, outcome>>
        /\ string' = Overwritten
    BY DEF Interrupt, historyVars
  <1>1. /\ pid_avail' = pid_avail /\ parentPCB' = parentPCB
        /\ \A p \in pid_avail : FIRST_TERM_SHELL \in flags'[p] <=> FIRST_TERM_SHELL \in flags[p]
    BY InterruptKeeps DEF CommandsInv
  <1>2. \A p \in pid_avail : ArgumentsOf(p)'
    BY <1>0, <1>1, ArgumentsKept
  <1>3. TypesInv'
    BY <1>0, OverwrittenStacks DEF CommandsInv, TypesInv, CommandsTypeOK
  <1>4. ArgumentInv'
    BY <1>1, <1>2 DEF ArgumentInv, ArgumentsOf
  <1>5. answer' = outcome'
    BY <1>0 DEF CommandsInv
  <1> QED
    BY <1>3, <1>4, <1>5 DEF CommandsInv

\* A program ends, by halt or by an exception: its status reaches the process that ran
\* it, which is its parent.
LEMMA EndInv ==
  ASSUME CommandsInv, TypeOK', IInv', InUserCode, flags[tss] # {FIRST_TERM_SHELL},
         ReturnToParent(tss), NEW status \in 0 .. EXCEPTION, Delivers(tss, status),
         outcome' = [outcome EXCEPT ![caller[tss]] = status],
         string' = Overwritten, UNCHANGED <<program, args, argbuf, given, caller>>
  PROVE  CommandsInv'
  <1>1. PICK parent : parent = parentPCB[tss]
    OBVIOUS
  <1>2. /\ tss \in pid_avail /\ FIRST_TERM_SHELL \notin flags[tss] /\ parent \in Pid
        /\ pid_local[parent] = tss /\ tss' = parent /\ pid_avail' = pid_avail \ {tss}
        /\ parentPCB' = parentPCB /\ flags' = flags
    BY <1>1, ReturnFacts DEF CommandsInv
  <1>3. caller[tss] = parent /\ tss \in Pid
    BY <1>1, <1>2 DEF CommandsInv, ArgumentInv, ArgumentAt, TypeOK
  <1>4. /\ ret_val' = [ret_val EXCEPT ![tss] = status]
        /\ ret_val'[tss] = status
        /\ answer' = [answer EXCEPT ![parent] = status]
    BY <1>2, <1>3 DEF Delivers, CommandsInv, TypesInv, CommandsTypeOK
  <1>5. answer' = outcome'
    BY <1>3, <1>4 DEF CommandsInv
  <1>6. \A p \in pid_avail' : ArgumentsOf(p)'
    BY <1>2, ArgumentsKept
  <1>7. ArgumentInv'
    BY <1>6 DEF ArgumentInv, ArgumentsOf
  <1>8. TypesInv'
    <2>1. string' \in [Pid -> Text]
      BY OverwrittenStacks DEF CommandsInv
    <2>2. status \in Answer
      BY DEF Answer
    <2>3. answer' \in [Pid -> Answer]
      BY <1>2, <1>4, <2>2 DEF CommandsInv, TypesInv, CommandsTypeOK, Answer
    <2>4. ret_val' \in [Pid -> 0 .. EXCEPTION]
      BY <1>3, <1>4 DEF CommandsInv, TypesInv, CommandsTypeOK
    <2> QED
      BY <1>5, <2>1, <2>3, <2>4 DEF CommandsInv, TypesInv, CommandsTypeOK, Answer
  <1> QED
    BY <1>5, <1>7, <1>8 DEF CommandsInv

\* A process is started: what is stored for it has the right types.
LEMMA StartTypes ==
  ASSUME TypesInv, TypeOK, NEW pid \in Pid, NEW name \in Executable, NEW a \in Text,
         StartProgram(pid, name, a, tss), string' \in [Pid -> Text]
  PROVE  TypesInv'
  <1>1. Garbage \in Text /\ tss \in Pid
    BY Texts DEF TypeOK
  <1> QED
    BY <1>1 DEF StartProgram, TypesInv, CommandsTypeOK

LEMMA RunInv ==
  ASSUME CommandsInv, TypeOK', IInv', NEW line \in Line, NEW pid \in Pid, Run(line, pid)
  PROVE  CommandsInv'
  <1> DEFINE a == ArgumentOf(line)
             name == NameOf(line)[1]
  <1>1. a = ArgumentGiven(line) /\ a \in Text
    BY Texts, ArgumentFound
  <1>2. name \in Executable
    BY DEF Run, Runs
  <1>3. StartProgram(pid, name, a, tss) /\ string' = [Overwritten EXCEPT ![tss] = a]
    BY <1>1 DEF Run, Put
  <1> HIDE DEF a, name
  <1>4. /\ pid \notin pid_avail /\ pid_avail' = pid_avail \cup {pid}
        /\ parentPCB' = [parentPCB EXCEPT ![pid] = tss]
        /\ flags' = [flags EXCEPT ![pid] = {}]
        /\ tss \in Pid /\ tss \in pid_avail /\ kstack[tss] = "running"
    BY DEF Run, Execute, Available, StartChild, mark_pid_used, CommandsInv, IInv, FrontProcess,
           CpuServesTerminal, TypeOK
  <1>5. Overwritten \in [Pid -> Text]
    BY OverwrittenStacks DEF CommandsInv
  <1>6. TypesInv'
    <2>1. string' \in [Pid -> Text]
      BY <1>1, <1>3, <1>5
    <2> QED
      BY <1>1, <1>2, <1>3, <2>1, StartTypes DEF CommandsInv
  <1>7. /\ program' = [program EXCEPT ![pid] = name]
        /\ args' = [args EXCEPT ![pid] = tss] /\ argbuf' = [argbuf EXCEPT ![pid] = Garbage]
        /\ given' = [given EXCEPT ![pid] = a] /\ caller' = [caller EXCEPT ![pid] = tss]
        /\ answer' = answer /\ outcome' = outcome
    BY <1>3 DEF StartProgram
  <1>8. ArgumentsOf(pid)'
    <2>1. flags'[pid] = {} /\ parentPCB'[pid] = tss
      BY <1>4 DEF CommandsInv, TypeOK
    <2>2. args'[pid] = tss /\ argbuf'[pid] = Garbage /\ given'[pid] = a /\ caller'[pid] = tss
      BY <1>7 DEF CommandsInv, TypesInv, CommandsTypeOK
    <2>3. string'[tss] = a
      BY <1>3, <1>4, <1>5
    <2> QED
      BY <2>1, <2>2, <2>3 DEF ArgumentsOf, ArgumentAt
  <1>9. ASSUME NEW p \in pid_avail PROVE ArgumentsOf(p)'
    <2>1. p # pid /\ p \in Pid /\ p \in pid_avail'
      BY <1>4 DEF CommandsInv, TypeOK
    <2>2. flags'[p] = flags[p] /\ parentPCB'[p] = parentPCB[p]
      BY <1>4, <2>1 DEF CommandsInv, TypeOK
    <2>3. /\ program'[p] = program[p] /\ args'[p] = args[p] /\ caller'[p] = caller[p]
          /\ given'[p] = given[p] /\ argbuf'[p] = argbuf[p]
      BY <1>7, <2>1 DEF CommandsInv, TypesInv, CommandsTypeOK
    <2>4. FIRST_TERM_SHELL \notin flags[p] => parentPCB[p] # tss
      BY <1>4 DEF CommandsInv, IInv, ParentWaits
    <2>5. FIRST_TERM_SHELL \notin flags[p] =>
             string'[parentPCB[p]] = Overwritten[parentPCB[p]]
      BY <1>3, <1>5, <2>1, <2>4 DEF CommandsInv, TypeOK
    <2> QED
      BY <2>1, <2>2, <2>3, <2>5, ArgumentsKept
  <1>10. ArgumentInv'
    BY <1>4, <1>8, <1>9 DEF ArgumentInv, ArgumentsOf
  <1> QED
    BY <1>6, <1>7, <1>10 DEF CommandsInv

\* A first shell is started, by a terminal launch or in place of one that ends.
LEMMA FirstShellInv ==
  ASSUME CommandsInv, TypeOK', IInv', NEW pid \in Pid, StartProgram(pid, "shell", << >>, tss),
         string' \in [Pid -> Text],
         \A p \in Pid \ {tss} : string'[p] = Overwritten[p],
         NEW gone, pid_avail' = (pid_avail \ gone) \cup {pid}, pid \notin pid_avail \ gone,
         \A p \in Pid \ {pid} : parentPCB'[p] = parentPCB[p],
         FIRST_TERM_SHELL \in flags'[pid],
         \A p \in Pid \ {pid} :
            FIRST_TERM_SHELL \in flags'[p] <=> FIRST_TERM_SHELL \in flags[p]
  PROVE  CommandsInv'
  <1>1. /\ program' = [program EXCEPT ![pid] = "shell"]
        /\ args' = [args EXCEPT ![pid] = tss] /\ argbuf' = [argbuf EXCEPT ![pid] = Garbage]
        /\ given' = [given EXCEPT ![pid] = << >>] /\ caller' = [caller EXCEPT ![pid] = tss]
        /\ answer' = answer /\ outcome' = outcome
    BY DEF StartProgram
  <1>2. TypesInv'
    <2>1. "shell" \in Executable /\ << >> \in Text
      BY Texts, LinesAssumption
    <2> QED
      BY <2>1, StartTypes DEF CommandsInv
  <1>3. ArgumentsOf(pid)'
    <2>1. argbuf'[pid] = Garbage /\ program'[pid] = "shell"
      BY <1>1 DEF CommandsInv, TypesInv, CommandsTypeOK
    <2> QED
      BY <2>1 DEF ArgumentsOf
  <1>4. ASSUME NEW p \in pid_avail \ gone PROVE ArgumentsOf(p)'
    <2>1. p # pid /\ p \in Pid /\ p \in pid_avail' /\ p \in pid_avail
      BY DEF CommandsInv, TypeOK
    <2>2. parentPCB'[p] = parentPCB[p]
          /\ (FIRST_TERM_SHELL \in flags'[p] <=> FIRST_TERM_SHELL \in flags[p])
      BY <2>1
    <2>3. /\ program'[p] = program[p] /\ args'[p] = args[p] /\ caller'[p] = caller[p]
          /\ given'[p] = given[p] /\ argbuf'[p] = argbuf[p]
      BY <1>1, <2>1 DEF CommandsInv, TypesInv, CommandsTypeOK
    <2>4. FIRST_TERM_SHELL \notin flags[p] => parentPCB[p] \in Pid \ {tss}
      <3>1. kstack[tss] = "running"
        BY DEF CommandsInv, IInv, CpuServesTerminal
      <3>2. FIRST_TERM_SHELL \notin flags[p] => kstack[parentPCB[p]] = "execute"
        BY <2>1 DEF CommandsInv, IInv, ParentWaits
      <3>3. parentPCB[p] \in Pid
        BY <2>1 DEF CommandsInv, TypeOK
      <3> QED
        BY <3>1, <3>2, <3>3
    <2>5. FIRST_TERM_SHELL \notin flags[p] =>
             string'[parentPCB[p]] = Overwritten[parentPCB[p]]
      BY <2>4
    <2> QED
      BY <2>1, <2>2, <2>3, <2>5, ArgumentsKept
  <1>5. ArgumentInv'
    BY <1>3, <1>4 DEF ArgumentInv, ArgumentsOf
  <1> QED
    BY <1>1, <1>2, <1>5 DEF CommandsInv

LEMMA EndFirstShellInv ==
  ASSUME CommandsInv, TypeOK', IInv', NEW pid \in Pid, EndFirstShell(pid)
  PROVE  CommandsInv'
  <1>1. /\ pid \notin pid_avail \ {tss} /\ pid_avail' = (pid_avail \ {tss}) \cup {pid}
        /\ parentPCB' = [parentPCB EXCEPT ![pid] = esp0[tss]]
        /\ flags' = [flags EXCEPT ![pid] = {FIRST_TERM_SHELL}]
    BY DEF EndFirstShell, HaltFirstShell, Available, StartChild, mark_pid_used, mark_pid_free
  <1>2. string' = Overwritten /\ StartProgram(pid, "shell", << >>, tss)
    BY DEF EndFirstShell
  <1>3. string' \in [Pid -> Text] /\ \A p \in Pid \ {tss} : string'[p] = Overwritten[p]
    BY <1>2, OverwrittenStacks DEF CommandsInv
  <1>4. /\ \A p \in Pid \ {pid} : parentPCB'[p] = parentPCB[p]
        /\ FIRST_TERM_SHELL \in flags'[pid]
        /\ \A p \in Pid \ {pid} :
             FIRST_TERM_SHELL \in flags'[p] <=> FIRST_TERM_SHELL \in flags[p]
    BY <1>1 DEF CommandsInv, TypeOK
  <1> QED
    BY <1>1, <1>2, <1>3, <1>4, FirstShellInv

LEMMA LaunchInv ==
  ASSUME CommandsInv, TypeOK', IInv', NEW t \in Terminal, NEW pid \in Pid, Launch(t, pid)
  PROVE  CommandsInv'
  <1>0. FIRST_TERM_SHELL # IN_INTERRUPT_FLAG /\ tss \in Pid
    BY DEF FIRST_TERM_SHELL, IN_INTERRUPT_FLAG, CommandsInv, TypeOK
  <1>1. /\ pid \notin pid_avail \ {} /\ pid_avail' = (pid_avail \ {}) \cup {pid}
        /\ parentPCB' = [parentPCB EXCEPT ![pid] = tss]
        /\ flags' = [flags EXCEPT ![tss] = @ \cup {IN_INTERRUPT_FLAG},
                                  ![pid] = {FIRST_TERM_SHELL}]
    BY DEF Launch, LaunchTerminal, Available, StartChild, mark_pid_used
  <1>2. string' = [Overwritten EXCEPT ![tss] = << >>]
        /\ StartProgram(pid, "shell", << >>, tss)
    BY DEF Launch, Put
  <1>3. string' \in [Pid -> Text] /\ \A p \in Pid \ {tss} : string'[p] = Overwritten[p]
    <2>1. Overwritten \in [Pid -> Text] /\ << >> \in Text
      BY OverwrittenStacks, Texts DEF CommandsInv
    <2> QED
      BY <1>2, <2>1
  <1>4. /\ \A p \in Pid \ {pid} : parentPCB'[p] = parentPCB[p]
        /\ FIRST_TERM_SHELL \in flags'[pid]
        /\ \A p \in Pid \ {pid} :
             FIRST_TERM_SHELL \in flags'[p] <=> FIRST_TERM_SHELL \in flags[p]
    <2>1. flags \in [Pid -> SUBSET Flag] /\ parentPCB \in [Pid -> Pid]
      BY DEF CommandsInv, TypeOK
    <2>2. flags'[pid] = {FIRST_TERM_SHELL}
      BY <1>1, <2>1
    <2>3. ASSUME NEW p \in Pid \ {pid}
          PROVE  /\ parentPCB'[p] = parentPCB[p]
                 /\ flags'[p] = IF p = tss THEN flags[p] \cup {IN_INTERRUPT_FLAG} ELSE flags[p]
      BY <1>0, <1>1, <2>1
    <2> QED
      BY <1>0, <2>2, <2>3
  <1> QED
    BY <1>1, <1>2, <1>3, <1>4, FirstShellInv

LEMMA GetArgsInv ==
  ASSUME CommandsInv, TypeOK', IInv', NEW n \in BufferSize, GetArgs(n)
  PROVE  CommandsInv'
  <1>1. /\ UNCHANGED <<program, string, args, ret_val, answer, given, caller, outcome>>
        /\ UNCHANGED <<pid_avail, parentPCB, flags>> /\ program[tss] # "shell"
    BY DEF GetArgs, historyVars, vars, pcbVars, irqVars
  <1>2. tss \in pid_avail /\ tss \in Pid
    BY DEF CommandsInv, IInv, CpuServesTerminal, FrontProcess, TypeOK
  <1>3. string[args[tss]] = given[tss] /\ given[tss] \in Text
    BY <1>1, <1>2 DEF CommandsInv, ArgumentInv, ArgumentAt, TypesInv
  <1>4. \/ argbuf' = [argbuf EXCEPT ![tss] = given[tss]]
        \/ argbuf' = [argbuf EXCEPT ![tss] = argbuf[tss]]
    BY <1>3 DEF GetArgs
  <1>5. /\ argbuf' \in [Pid -> Text]
        /\ \A p \in pid_avail : argbuf'[p] \in {argbuf[p], given[p]}
    <2>1. argbuf \in [Pid -> Text] /\ pid_avail \subseteq Pid
      BY DEF CommandsInv, TypesInv, TypeOK
    <2>2. CASE argbuf' = [argbuf EXCEPT ![tss] = given[tss]]
      BY <1>2, <1>3, <2>1, <2>2
    <2>3. CASE argbuf' = [argbuf EXCEPT ![tss] = argbuf[tss]]
      BY <2>1, <2>3
    <2> QED
      BY <1>4, <2>2, <2>3
  <1>6. TypesInv'
    BY <1>1, <1>5 DEF CommandsInv, TypesInv, CommandsTypeOK
  <1>7. ArgumentInv'
    BY <1>1, <1>5 DEF CommandsInv, ArgumentInv, ArgumentAt
  <1> QED
    BY <1>1, <1>6, <1>7 DEF CommandsInv

\* Execute fails, or the program looks at the answer: answer and outcome change alike.
LEMMA AnswerInv ==
  ASSUME CommandsInv, TypeOK', IInv', NEW rval \in Answer,
         answer' = [answer EXCEPT ![tss] = rval], outcome' = [outcome EXCEPT ![tss] = rval],
         UNCHANGED <<vars, program, string, args, ret_val, argbuf, given, caller>>
  PROVE  CommandsInv'
  <1>1. UNCHANGED <<pid_avail, parentPCB, flags>>
    BY DEF vars, pcbVars, irqVars
  <1>2. answer' = outcome'
    BY DEF CommandsInv
  <1>3. answer' \in [Pid -> Answer]
    BY DEF CommandsInv, TypesInv, CommandsTypeOK, Answer, TypeOK
  <1>4. TypesInv'
    BY <1>2, <1>3 DEF CommandsInv, TypesInv, CommandsTypeOK, Answer
  <1>5. ArgumentInv'
    BY <1>1 DEF CommandsInv, ArgumentInv, ArgumentAt
  <1> QED
    BY <1>2, <1>4, <1>5 DEF CommandsInv

\* A step of Commands is one of Processes, or leaves its variables alone.
LEMMA ProcessesStep == [CommandsNext]_allCommandVars => [Next]_vars
  <1> SUFFICES ASSUME [CommandsNext]_allCommandVars PROVE [Next]_vars
    OBVIOUS
  <1>1. CASE UNCHANGED allCommandVars
    BY <1>1 DEF allCommandVars
  <1>2. CASE CommandsNext
    <2>1. ASSUME NEW line \in Line, NEW pid \in Pid, Run(line, pid) PROVE [Next]_vars
      BY <2>1 DEF Run, Next
    <2>2. ASSUME (\E line \in Line : Refuse(line)) \/ (\E n \in BufferSize : GetArgs(n)) \/ Look
          PROVE  [Next]_vars
      BY <2>2 DEF Refuse, GetArgs, Look
    <2>3. ASSUME (\E status \in Status : End(status)) \/ Fault PROVE [Next]_vars
      BY <2>3 DEF End, Fault, Next
    <2>4. ASSUME NEW pid \in Pid, EndFirstShell(pid) PROVE [Next]_vars
      BY <2>4 DEF EndFirstShell, Next
    <2>5. ASSUME NEW t \in Terminal, NEW pid \in Pid, Launch(t, pid) PROVE [Next]_vars
      BY <2>5 DEF Launch, Next
    <2>6. CASE Interrupt
      BY <2>6 DEF Interrupt, Next
    <2> QED
      BY <1>2, <2>1, <2>2, <2>3, <2>4, <2>5, <2>6 DEF CommandsNext
  <1> QED
    BY <1>1, <1>2

LEMMA CommandsStep == ExecInForeground /\ CommandsInv /\ [CommandsNext]_allCommandVars => CommandsInv'
  <1> SUFFICES ASSUME ExecInForeground, CommandsInv, [CommandsNext]_allCommandVars PROVE CommandsInv'
    OBVIOUS
  <1>1. TypeOK' /\ IInv'
    BY ProcessesStep, TypeStep, IInvStep DEF CommandsInv
  <1>2. CASE UNCHANGED allCommandVars
    BY <1>1, <1>2 DEF allCommandVars, vars, commandVars, historyVars, pcbVars, irqVars, CommandsInv,
                      TypesInv, CommandsTypeOK, ArgumentInv, ArgumentAt
  <1>3. ASSUME NEW status \in Status, End(status) PROVE CommandsInv'
    <2>1. status \in Int
      BY LinesAssumption
    <2>2. PICK rval : rval = status % 256
      OBVIOUS
    <2>3. rval \in 0 .. EXCEPTION
      BY <2>1, <2>2 DEF EXCEPTION
    <2>4. /\ InUserCode /\ flags[tss] # {FIRST_TERM_SHELL} /\ ReturnToParent(tss)
          /\ Delivers(tss, rval) /\ outcome' = [outcome EXCEPT ![caller[tss]] = rval]
          /\ string' = Overwritten /\ UNCHANGED <<program, args, argbuf, given, caller>>
      BY <1>3, <2>2 DEF End, Halt, ByteStatus
    <2> QED
      BY <1>1, <2>3, <2>4, EndInv
  <1>4. CASE Fault
    <2>1. EXCEPTION \in 0 .. EXCEPTION
      BY DEF EXCEPTION
    <2>2. /\ InUserCode /\ flags[tss] # {FIRST_TERM_SHELL} /\ ReturnToParent(tss)
          /\ Delivers(tss, EXCEPTION) /\ outcome' = [outcome EXCEPT ![caller[tss]] = EXCEPTION]
          /\ string' = Overwritten /\ UNCHANGED <<program, args, argbuf, given, caller>>
      BY <1>4 DEF Fault, HaltExcep, ExecInForeground
    <2> QED
      BY <1>1, <2>1, <2>2, EndInv
  <1>5. ASSUME NEW line \in Line, Refuse(line) PROVE CommandsInv'
    <2>1. FAILURE \in Answer
      BY DEF Answer
    <2> QED
      BY <1>1, <1>5, <2>1, AnswerInv DEF Refuse
  <1>6. CASE Look
    <2>1. None \in Answer
      BY DEF Answer
    <2> QED
      BY <1>1, <1>6, <2>1, AnswerInv DEF Look
  <1> QED
    BY <1>1, <1>2, <1>3, <1>4, <1>5, <1>6, RunInv, GetArgsInv, EndFirstShellInv, LaunchInv,
       InterruptInv DEF CommandsNext

LEMMA CommandsAlways == ASSUME ExecInForeground PROVE CommandsSpec => []CommandsInv
  <1>1. CommandsInv /\ [CommandsNext]_allCommandVars => CommandsInv'
    BY CommandsStep
  <1> QED
    BY <1>1, CommandsInvInit, PTL DEF CommandsSpec

-----------------------------------------------------------------------------
\* getargs (syscalls.c) never hands out another program's argument: the pointer that
\* internal_execute leaves in the child's PCB leads, for as long as the child lives, to
\* the argument on the line the child was started with.
THEOREM ArgumentsAreOwn == ASSUME ExecInForeground PROVE CommandsSpec => []ArgumentsOwn
  <1>1. CommandsInv => ArgumentsOwn
    BY DEF CommandsInv, ArgumentInv, ArgumentAt, ArgumentsOwn
  <1> QED
    BY <1>1, CommandsAlways, PTL

\* What the shell says of the command it ran (ece391shell.c:28-33) is true of that
\* command: execute returns the status of the very process it started, whatever has
\* run on the other terminals in between.
THEOREM AnswersAreTrue == ASSUME ExecInForeground PROVE CommandsSpec => []AnswerTrue
  <1>1. CommandsInv => AnswerTrue
    BY DEF CommandsInv, AnswerTrue
  <1> QED
    BY <1>1, CommandsAlways, PTL
=============================================================================
