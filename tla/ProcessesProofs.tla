--------------------------- MODULE ProcessesProofs ---------------------------
(***************************************************************************)
(* Theorems about Processes, for every number of pids and terminals.       *)
(***************************************************************************)
EXTENDS ProcessesRefinement, TLAPS

\* Pid and Terminal are intervals of naturals that contain 0.
LEMMA ZeroInRange == 0 \in Pid /\ 0 \in Terminal
  BY ProcsAssumption, TerminalsAssumption DEF Pid, Terminal

\* Every terminal's backing store is one of the pages.
LEMMA PageRange == VIDEO \in Page /\ \A t \in Terminal : Backing(t) \in Page
  BY TerminalsAssumption DEF VIDEO, Page, Backing, Terminal

\* The state keeps its types: every step of the kernel writes pids, terminals,
\* flags and contexts where the code declares them.
LEMMA TypeInit == Init => TypeOK
  <1> SUFFICES ASSUME Init PROVE TypeOK
    OBVIOUS
  <1> QED
    BY ZeroInRange, PageRange DEF Init, TypeOK, Flag, Context, FIRST_TERM_SHELL

LEMMA TypeStep == TypeOK /\ [Next]_vars => TypeOK'
  <1> SUFFICES ASSUME TypeOK, [Next]_vars PROVE TypeOK'
    OBVIOUS
  <1> USE DEF TypeOK, pcbVars, cpuVars, termVars, irqVars
  <1>1. ASSUME NEW pid \in Pid, Execute(pid) PROVE TypeOK'
    <2>1. kstack' \in [Pid -> Context \cup {"running"}] /\ esp_k' \in [Pid -> Context]
      BY <1>1 DEF Execute, Context
    <2>2. flags' \in [Pid -> SUBSET Flag] /\ video' \in [Pid -> Page] /\ pid_local' \in [Pid -> Pid]
      BY <1>1, PageRange DEF Execute
    <2>3. /\ pid_avail' \subseteq Pid /\ parentPCB' \in [Pid -> Pid] /\ esp0' \in [Pid -> Pid]
          /\ owned_by_terminal' \in [Pid -> Terminal] /\ terminals' \in [Terminal -> Pid]
          /\ tss' \in Pid /\ cr3' \in Pid
      BY <1>1 DEF Execute, StartChild, mark_pid_used
    <2> QED
      BY <1>1, <2>1, <2>2, <2>3 DEF Execute
  <1>2. ASSUME ReturnToParent(tss) PROVE TypeOK'
    <2>1. parentPCB[tss] \in Pid /\ esp0[tss] \in Pid /\ owned_by_terminal[parentPCB[tss]] \in Terminal
      OBVIOUS
    <2>2. pid_avail' \subseteq Pid /\ pid_local' \in [Pid -> Pid]
      <3>1. \/ UNCHANGED <<pid_avail, pid_local>>
            \/ /\ pid_avail' \subseteq pid_avail
               /\ pid_local' = [pid_local EXCEPT ![parentPCB[tss]] = 0]
        BY <1>2 DEF ReturnToParent, mark_pid_free
      <3>2. pid_avail' \subseteq Pid
        BY <3>1
      <3>3. pid_local' \in [Pid -> Pid]
        BY <2>1, <3>1, ZeroInRange
      <3> QED
        BY <3>2, <3>3
    <2>5. crashed' \in BOOLEAN
      BY <1>2, Zenon DEF ReturnToParent
    <2>3. kstack' \in [Pid -> Context \cup {"running"}]
      BY <1>2, <2>1 DEF ReturnToParent, Context
    <2>4. terminals' \in [Terminal -> Pid]
      BY <1>2, <2>1 DEF ReturnToParent
    <2> QED
      BY <1>2, <2>1, <2>2, <2>3, <2>4, <2>5 DEF ReturnToParent
  <1>3. CASE Halt
    BY <1>2, <1>3 DEF Halt
  <1>4. ASSUME NEW pid \in Pid, HaltFirstShell(pid) PROVE TypeOK'
    <2>1. kstack' \in [Pid -> Context \cup {"running"}]
      BY <1>4 DEF HaltFirstShell, Context
    <2>2. flags' \in [Pid -> SUBSET Flag]
      BY <1>4 DEF HaltFirstShell, Flag
    <2> QED
      BY <1>4, <2>1, <2>2, PageRange DEF HaltFirstShell, StartChild, mark_pid_used, mark_pid_free
  <1>5. CASE HaltExcep
    BY <1>2, <1>5 DEF HaltExcep
  <1>6. CASE KeyTyped
    BY <1>6 DEF KeyTyped
  <1>7. ASSUME NEW t \in Terminal, SwitchTerminal(t) PROVE TypeOK'
    BY <1>7, PageRange DEF SwitchTerminal, Remapped
  <1>8. ASSUME NEW t \in Terminal, NEW pid \in Pid, LaunchTerminal(t, pid) PROVE TypeOK'
    <2>1. flags' \in [Pid -> SUBSET Flag] /\ kbd_flags' \in [Pid -> SUBSET Flag]
      BY <1>8 DEF LaunchTerminal, Flag
    <2>2. video' \in [Pid -> Page]
      BY <1>8, PageRange DEF LaunchTerminal, Remapped
    <2>3. kstack' \in [Pid -> Context \cup {"running"}]
      BY <1>8 DEF LaunchTerminal, Context
    <2>4. eip' \in [Pid -> Context] /\ esp_k' \in [Pid -> Context]
      BY <1>8 DEF LaunchTerminal, Context
    <2> QED
      BY <1>8, <2>1, <2>2, <2>3, <2>4 DEF LaunchTerminal, StartChild, mark_pid_used
  <1>9. ASSUME NEW t \in Terminal, Timer(t) PROVE TypeOK'
    <2>1. kstack' \in [Pid -> Context \cup {"running"}]
      BY <1>9 DEF Timer, SwitchContext, Context
    <2>2. eip' \in [Pid -> Context] /\ esp_k' \in [Pid -> Context]
      BY <1>9 DEF Timer, SwitchContext, Context
    <2>3. flags' \in [Pid -> SUBSET Flag] /\ kbd_flags' \in [Pid -> SUBSET Flag]
      BY <1>9 DEF Timer, SwitchContext
    <2>4. crashed' \in BOOLEAN
      BY <1>9, Zenon DEF Timer, SwitchContext
    <2> QED
      BY <1>9, <2>1, <2>2, <2>3, <2>4 DEF Timer, SwitchContext
  <1>10. CASE RtcEnter
    BY <1>10 DEF RtcEnter, Flag
  <1>11. CASE RtcSendEoi
    BY <1>11 DEF RtcSendEoi
  <1>12. CASE RtcExit
    BY <1>12 DEF RtcExit
  <1>13. CASE UNCHANGED vars
    BY <1>13 DEF vars
  <1> QED
    BY <1>1, <1>3, <1>4, <1>5, <1>6, <1>7, <1>8, <1>9, <1>10, <1>11, <1>12, <1>13
    DEF Next

THEOREM TypeCorrect == Spec => []TypeOK
  BY TypeInit, TypeStep, PTL DEF Spec

\* execute keeps the invariant: the child takes the front of the serviced
\* terminal, which is the displayed one, and the caller waits for it.
LEMMA IInvExecute ==
  ASSUME TypeOK, IInv, ExecInForeground, NEW pid \in Pid, Execute(pid)
  PROVE  IInv'
  <1> USE DEF IInv, TypeOK, FIRST_TERM_SHELL, IN_INTERRUPT_FLAG
  <1>1. /\ tss \in pid_avail
        /\ owned_by_terminal[tss] = terminal_being_serviced
        /\ pid \notin pid_avail
        /\ terminal_state = terminal_being_serviced
        /\ rtc[tss] = "idle"
        /\ rtc[pid] = "idle"
    BY DEF Execute, Available, MayExec, ExecInForeground, InUserCode,
           CpuServesTerminal, FrontProcess, SavedFlagsRight
  <1>2. CpuServesTerminal'
    BY <1>1 DEF Execute, StartChild, CpuServesTerminal, mark_pid_used
  <1>3. FrontProcess'
    BY <1>1 DEF Execute, StartChild, FrontProcess, mark_pid_used
  <1>4. ReadyToResume'
    BY <1>1 DEF Execute, StartChild, FrontProcess, ReadyToResume, mark_pid_used
  <1>5. EveryPidAccountedFor'
    BY <1>1 DEF Execute, StartChild, CpuServesTerminal, EveryPidAccountedFor, mark_pid_used
  <1>6. ParentWaits'
    BY <1>1 DEF Execute, StartChild, CpuServesTerminal, ParentWaits, mark_pid_used
  <1>7. OneFirstShell'
    <2> SUFFICES ASSUME NEW t \in terminals_launched
                 PROVE  \E p \in pid_avail' :
                          /\ owned_by_terminal'[p] = t
                          /\ FIRST_TERM_SHELL \in flags'[p]
                          /\ \A q \in pid_avail' :
                               owned_by_terminal'[q] = t /\ FIRST_TERM_SHELL \in flags'[q] => q = p
      BY DEF Execute, OneFirstShell
    <2>1. PICK p \in pid_avail :
            /\ owned_by_terminal[p] = t
            /\ FIRST_TERM_SHELL \in flags[p]
            /\ \A q \in pid_avail :
                 owned_by_terminal[q] = t /\ FIRST_TERM_SHELL \in flags[q] => q = p
      BY DEF OneFirstShell
    <2>2. /\ pid_avail' = pid_avail \cup {pid} /\ flags'[pid] = {}
          /\ \A q \in pid_avail :
               owned_by_terminal'[q] = owned_by_terminal[q] /\ flags'[q] = flags[q]
      BY <1>1 DEF Execute, StartChild, mark_pid_used
    <2>3. p \in pid_avail' /\ owned_by_terminal'[p] = t /\ FIRST_TERM_SHELL \in flags'[p]
      BY <2>1, <2>2
    <2>4. ASSUME NEW q \in pid_avail', owned_by_terminal'[q] = t, FIRST_TERM_SHELL \in flags'[q]
          PROVE  q = p
      <3>1. q \in pid_avail
        BY <2>2, <2>4
      <3> QED
        BY <2>1, <2>2, <2>4, <3>1
    <2> QED
      BY <2>3, <2>4, Zenon
  <1>8. FlagMeansHandler'
    BY <1>1 DEF Execute, StartChild, CpuServesTerminal, FlagMeansHandler, mark_pid_used
  <1>9. SavedFlagsRight'
    BY <1>1 DEF Execute, StartChild, SavedFlagsRight, mark_pid_used
  <1>10. NoWildJump'
    BY DEF Execute, NoWildJump
  <1> QED
    BY <1>2, <1>3, <1>4, <1>5, <1>6, <1>7, <1>8, <1>9, <1>10

\* What halt and halt_excep do to a process that is not a first shell: its parent
\* waits for it, so that the goto reaches the parent's own frame, which frees the pid
\* of this very process.
LEMMA ReturnFacts ==
  ASSUME TypeOK, IInv, InUserCode, flags[tss] # {FIRST_TERM_SHELL}, ReturnToParent(tss),
         NEW parent, parent = parentPCB[tss]
  PROVE  /\ tss \in pid_avail
         /\ owned_by_terminal[tss] = terminal_being_serviced
         /\ FIRST_TERM_SHELL \notin flags[tss]
         /\ parent \in pid_avail
         /\ parent \in Pid
         /\ parent # tss
         /\ kstack[parent] = "execute"
         /\ esp_k[parent] = "execute"
         /\ pid_local[parent] = tss
         /\ owned_by_terminal[parent] = terminal_being_serviced
         /\ esp0[tss] = parent
         /\ tss' = parent
         /\ cr3' = parent
         /\ terminals' = [terminals EXCEPT ![terminal_being_serviced] = parent]
         /\ pid_avail' = pid_avail \ {tss}
         /\ kstack' = [kstack EXCEPT ![parent] = "running", ![tss] = "none"]
         /\ pid_local' = [pid_local EXCEPT ![parent] = 0]
         /\ UNCHANGED <<crashed, eip, esp_k, video, parentPCB, esp0, owned_by_terminal, flags,
                        kbd_flags, rtc_flags, rtc, terminals_launched, terminal_state,
                        terminal_being_serviced>>
  <1> USE DEF IInv, TypeOK, FIRST_TERM_SHELL, IN_INTERRUPT_FLAG
  <1>1. tss \in pid_avail /\ owned_by_terminal[tss] = terminal_being_serviced
    BY DEF CpuServesTerminal, FrontProcess
  <1>2. FIRST_TERM_SHELL \notin flags[tss]
    <2>1. IN_INTERRUPT_FLAG \notin flags[tss]
      BY <1>1 DEF InUserCode, FlagMeansHandler, CpuServesTerminal
    <2> QED
      BY <2>1 DEF Flag
  <1>3. /\ parent \in pid_avail
        /\ parent \in Pid
        /\ parent # tss
        /\ kstack[parent] = "execute"
        /\ esp_k[parent] = "execute"
        /\ pid_local[parent] = tss
        /\ owned_by_terminal[parent] = terminal_being_serviced
        /\ esp0[tss] = parent
    BY <1>1, <1>2 DEF ParentWaits, CpuServesTerminal
  <1>4. /\ tss' = parent
        /\ cr3' = parent
        /\ terminals' = [terminals EXCEPT ![terminal_being_serviced] = parent]
        /\ pid_avail' = pid_avail \ {tss}
        /\ kstack' = [kstack EXCEPT ![parent] = "running", ![tss] = "none"]
        /\ pid_local' = [pid_local EXCEPT ![parent] = 0]
        /\ UNCHANGED <<crashed, eip, esp_k, video, parentPCB, esp0, owned_by_terminal, flags,
                       kbd_flags, rtc_flags, rtc, terminals_launched, terminal_state,
                       terminal_being_serviced>>
    BY <1>3 DEF ReturnToParent, pcbVars, irqVars, mark_pid_free
  <1> QED
    BY <1>1, <1>2, <1>3, <1>4, Zenon

\* halt and halt_excep keep the invariant.
LEMMA IInvReturn ==
  ASSUME TypeOK, IInv, InUserCode, flags[tss] # {FIRST_TERM_SHELL}, ReturnToParent(tss)
  PROVE  IInv'
  <1> DEFINE parent == parentPCB[tss]
  <1>1. tss \in pid_avail /\ owned_by_terminal[tss] = terminal_being_serviced
    BY ReturnFacts
  <1>2. FIRST_TERM_SHELL \notin flags[tss]
    BY ReturnFacts
  <1>3. /\ parent \in pid_avail
        /\ parent \in Pid
        /\ parent # tss
        /\ kstack[parent] = "execute"
        /\ esp_k[parent] = "execute"
        /\ pid_local[parent] = tss
        /\ owned_by_terminal[parent] = terminal_being_serviced
        /\ esp0[tss] = parent
    BY ReturnFacts
  <1>4. /\ tss' = parent
        /\ cr3' = parent
        /\ terminals' = [terminals EXCEPT ![terminal_being_serviced] = parent]
        /\ pid_avail' = pid_avail \ {tss}
        /\ kstack' = [kstack EXCEPT ![parent] = "running", ![tss] = "none"]
        /\ pid_local' = [pid_local EXCEPT ![parent] = 0]
        /\ UNCHANGED <<crashed, eip, esp_k, parentPCB, esp0, owned_by_terminal, flags,
                       kbd_flags, rtc_flags, rtc, terminals_launched, terminal_state,
                       terminal_being_serviced>>
    BY ReturnFacts
  <1> USE DEF IInv, TypeOK, FIRST_TERM_SHELL, IN_INTERRUPT_FLAG
  <1> HIDE DEF parent
  <1>5. CpuServesTerminal'
    BY <1>1, <1>3, <1>4 DEF CpuServesTerminal
  <1>6. FrontProcess'
    BY <1>1, <1>3, <1>4 DEF FrontProcess, CpuServesTerminal
  <1>7. ReadyToResume'
    BY <1>1, <1>3, <1>4 DEF ReadyToResume, FrontProcess
  <1>8. EveryPidAccountedFor'
    BY <1>1, <1>2, <1>3, <1>4
    DEF EveryPidAccountedFor, ParentWaits, CpuServesTerminal, parent
  <1>9. ParentWaits'
    BY <1>1, <1>3, <1>4 DEF ParentWaits, CpuServesTerminal
  <1>10. OneFirstShell'
    <2> SUFFICES ASSUME NEW t \in terminals_launched
                 PROVE  \E p \in pid_avail \ {tss} :
                          /\ owned_by_terminal[p] = t
                          /\ FIRST_TERM_SHELL \in flags[p]
                          /\ \A q \in pid_avail \ {tss} :
                               owned_by_terminal[q] = t /\ FIRST_TERM_SHELL \in flags[q] => q = p
      BY <1>4 DEF OneFirstShell
    <2> QED
      BY <1>2 DEF OneFirstShell
  <1>11. FlagMeansHandler'
    BY <1>3, <1>4 DEF FlagMeansHandler
  <1>12. SavedFlagsRight'
    BY <1>1, <1>3, <1>4 DEF SavedFlagsRight, InUserCode
  <1>13. NoWildJump'
    BY <1>4 DEF NoWildJump
  <1> QED
    BY <1>5, <1>6, <1>7, <1>8, <1>9, <1>10, <1>11, <1>12, <1>13

\* The first shell's halt keeps the invariant, whichever pid its successor gets:
\* the parent of a first shell is never used.
LEMMA IInvHaltFirstShell ==
  ASSUME TypeOK, IInv, ExecInForeground, NEW pid \in Pid, HaltFirstShell(pid)
  PROVE  IInv'
  <1> USE DEF IInv, TypeOK, FIRST_TERM_SHELL, IN_INTERRUPT_FLAG
  <1>1. /\ tss \in pid_avail
        /\ owned_by_terminal[tss] = terminal_being_serviced
        /\ pid \notin pid_avail \/ pid = tss
        /\ terminal_state = terminal_being_serviced
        /\ FIRST_TERM_SHELL \in flags[tss]
        /\ rtc[tss] = "idle"
        /\ rtc[pid] = "idle"
    BY DEF HaltFirstShell, Available, MayExec, ExecInForeground, InUserCode, mark_pid_free,
           CpuServesTerminal, FrontProcess, SavedFlagsRight
  <1>2. CpuServesTerminal'
    BY <1>1 DEF HaltFirstShell, StartChild, CpuServesTerminal, mark_pid_used, mark_pid_free
  <1>3. FrontProcess'
    BY <1>1 DEF HaltFirstShell, StartChild, FrontProcess, mark_pid_used, mark_pid_free
  <1>4. ReadyToResume'
    BY <1>1 DEF HaltFirstShell, StartChild, FrontProcess, ReadyToResume, mark_pid_used, mark_pid_free
  <1>5. EveryPidAccountedFor'
    BY <1>1 DEF HaltFirstShell, StartChild, CpuServesTerminal, EveryPidAccountedFor, mark_pid_used, mark_pid_free
  <1>6. ParentWaits'
    BY <1>1 DEF HaltFirstShell, StartChild, CpuServesTerminal, ParentWaits, mark_pid_used, mark_pid_free
  <1>7. OneFirstShell'
    <2> SUFFICES ASSUME NEW t \in terminals_launched
                 PROVE  \E p \in pid_avail' :
                          /\ owned_by_terminal'[p] = t
                          /\ FIRST_TERM_SHELL \in flags'[p]
                          /\ \A q \in pid_avail' :
                               owned_by_terminal'[q] = t /\ FIRST_TERM_SHELL \in flags'[q] => q = p
      BY DEF HaltFirstShell, OneFirstShell, mark_pid_free
    <2>3. /\ pid_avail' = (pid_avail \ {tss}) \cup {pid}
          /\ owned_by_terminal' = [owned_by_terminal EXCEPT ![pid] = terminal_being_serviced]
          /\ flags' = [flags EXCEPT ![pid] = {FIRST_TERM_SHELL}]
      BY <1>1 DEF HaltFirstShell, StartChild, mark_pid_used, mark_pid_free
    <2>4. PICK p \in pid_avail :
            /\ owned_by_terminal[p] = t
            /\ FIRST_TERM_SHELL \in flags[p]
            /\ \A q \in pid_avail :
                owned_by_terminal[q] = t /\ FIRST_TERM_SHELL \in flags[q] => q = p
      BY DEF OneFirstShell
    <2>1. CASE t = terminal_being_serviced
      <3>1. p = tss
        BY <1>1, <2>1, <2>4
      <3>2. \A q \in pid_avail' :
              owned_by_terminal'[q] = t /\ FIRST_TERM_SHELL \in flags'[q] => q = pid
        BY <1>1, <2>3, <2>4, <3>1
      <3> QED
        BY <2>1, <2>3, <3>2
    <2>2. CASE t # terminal_being_serviced
      BY <1>1, <2>2, <2>3, <2>4
    <2> QED
      BY <2>1, <2>2
  <1>8. FlagMeansHandler'
    BY <1>1 DEF HaltFirstShell, StartChild, FlagMeansHandler, mark_pid_used, mark_pid_free
  <1>9. SavedFlagsRight'
    BY <1>1 DEF HaltFirstShell, StartChild, SavedFlagsRight, mark_pid_used, mark_pid_free
  <1>10. NoWildJump'
    BY DEF HaltFirstShell, NoWildJump
  <1> QED
    BY <1>2, <1>3, <1>4, <1>5, <1>6, <1>7, <1>8, <1>9, <1>10

\* A key that launches no terminal changes the page directory and the displayed
\* terminal at most.
LEMMA IInvKeys ==
  ASSUME TypeOK, IInv,
         KeyTyped \/ \E t \in Terminal : SwitchTerminal(t)
  PROVE  IInv'
  <1>1. /\ cr3' = terminals[terminal_being_serviced]
        /\ terminal_state' \in terminals_launched
        /\ UNCHANGED <<pid_avail, pid_local, tss, eip, esp_k, kstack, crashed, parentPCB, esp0,
                       owned_by_terminal, terminals, terminals_launched,
                       terminal_being_serviced, flags, kbd_flags, rtc_flags, rtc>>
    BY DEF KeyTyped, SwitchTerminal, IInv, CpuServesTerminal, pcbVars, termVars, irqVars
  <1>2. CpuServesTerminal'
    BY <1>1 DEF IInv, CpuServesTerminal
  <1>3. FrontProcess' /\ ReadyToResume' /\ EveryPidAccountedFor' /\ ParentWaits'
    BY <1>1 DEF IInv, FrontProcess, ReadyToResume, EveryPidAccountedFor, ParentWaits
  <1>4. OneFirstShell' /\ FlagMeansHandler' /\ SavedFlagsRight' /\ NoWildJump'
    BY <1>1 DEF IInv, OneFirstShell, FlagMeansHandler, SavedFlagsRight, NoWildJump
  <1> QED
    BY <1>2, <1>3, <1>4 DEF IInv

\* Launching a terminal keeps the invariant: the interrupted process is left with
\* a context the timer can resume, and the new shell is alone in its terminal.
LEMMA IInvLaunch ==
  ASSUME TypeOK, IInv, NEW t \in Terminal, NEW pid \in Pid, LaunchTerminal(t, pid)
  PROVE  IInv'
  <1> USE DEF IInv, TypeOK, FIRST_TERM_SHELL, IN_INTERRUPT_FLAG
  <1>1. /\ tss \in pid_avail
        /\ owned_by_terminal[tss] = terminal_being_serviced
        /\ pid \notin pid_avail
        /\ pid # tss
        /\ t \notin terminals_launched
        /\ t # terminal_being_serviced
        /\ rtc[pid] = "idle"
    BY DEF LaunchTerminal, Available, CpuServesTerminal, FrontProcess, SavedFlagsRight
  <1>2. CpuServesTerminal'
    BY <1>1 DEF LaunchTerminal, StartChild, CpuServesTerminal, mark_pid_used
  <1>3. FrontProcess'
    BY <1>1 DEF LaunchTerminal, StartChild, FrontProcess, mark_pid_used
  <1>4. ReadyToResume'
    BY <1>1 DEF LaunchTerminal, StartChild, CpuServesTerminal, FrontProcess, ReadyToResume, mark_pid_used
  <1>5. EveryPidAccountedFor'
    <2>1. /\ pid_avail' = pid_avail \cup {pid}
          /\ terminals_launched' = terminals_launched \cup {t}
          /\ terminals' = [terminals EXCEPT ![t] = pid]
          /\ owned_by_terminal' = [owned_by_terminal EXCEPT ![pid] = t]
          /\ parentPCB' = [parentPCB EXCEPT ![pid] = tss]
          /\ esp_k' = [esp_k EXCEPT ![tss] = "keyboard"]
          /\ kstack' = [kstack EXCEPT ![tss] = "keyboard", ![pid] = "running"]
          /\ pid_local' = pid_local
          /\ flags' = [flags EXCEPT ![tss] = @ \cup {IN_INTERRUPT_FLAG},
                                    ![pid] = {FIRST_TERM_SHELL}]
      BY <1>1 DEF LaunchTerminal, StartChild, mark_pid_used
    <2>2. ASSUME NEW p \in pid_avail
          PROVE  /\ owned_by_terminal'[p] = owned_by_terminal[p]
                 /\ terminals'[owned_by_terminal[p]] = terminals[owned_by_terminal[p]]
                 /\ p # tss => kstack'[p] = kstack[p] /\ esp_k'[p] = esp_k[p]
                 /\ parentPCB'[p] = parentPCB[p]
                 /\ FIRST_TERM_SHELL \in flags'[p] <=> FIRST_TERM_SHELL \in flags[p]
      BY <1>1, <2>1 DEF EveryPidAccountedFor
    <2>3. tss = terminals[terminal_being_serviced]
      BY DEF CpuServesTerminal
    <2> DEFINE Accounted(p) ==
          /\ owned_by_terminal[p] \in terminals_launched
          /\ \/ p = terminals[owned_by_terminal[p]]
             \/ /\ kstack[p] = "execute"
                /\ esp_k[p] = "execute"
                /\ pid_local[p] \in pid_avail
                /\ parentPCB[pid_local[p]] = p
                /\ FIRST_TERM_SHELL \notin flags[pid_local[p]]
    <2>4. ASSUME NEW p \in pid_avail PROVE Accounted(p)'
      <3>1. Accounted(p)
        BY DEF EveryPidAccountedFor
      <3>4. /\ owned_by_terminal'[p] = owned_by_terminal[p]
            /\ owned_by_terminal'[p] \in terminals_launched'
        BY <2>1, <2>2, <3>1
      <3>2. CASE p = terminals[owned_by_terminal[p]]
        <4>1. p = terminals'[owned_by_terminal'[p]]
          BY <2>2, <3>2, <3>4
        <4> QED
          BY <3>4, <4>1
      <3>3. CASE p # terminals[owned_by_terminal[p]]
        <4> DEFINE child == pid_local[p]
        <4>1. p # tss
          BY <1>1, <2>3, <3>3
        <4>2. /\ kstack[p] = "execute"
              /\ esp_k[p] = "execute"
              /\ child \in pid_avail
              /\ parentPCB[child] = p
              /\ FIRST_TERM_SHELL \notin flags[child]
          BY <3>1, <3>3
        <4> HIDE DEF child
        <4>3. /\ kstack'[p] = "execute"
              /\ esp_k'[p] = "execute"
          BY <2>2, <4>1, <4>2
        <4>4. /\ child \in pid_avail'
              /\ parentPCB'[child] = p
              /\ FIRST_TERM_SHELL \notin flags'[child]
          BY <2>1, <2>2, <4>2
        <4>5. pid_local'[p] = child
          BY <2>1 DEF child
        <4> QED
          BY <3>4, <4>3, <4>4, <4>5
      <3> QED
        BY <3>2, <3>3
    <2>5. Accounted(pid)'
      BY <2>1
    <2> QED
      BY <2>1, <2>4, <2>5 DEF EveryPidAccountedFor
  <1>12. \A q \in pid_avail : FIRST_TERM_SHELL \in flags'[q] <=> FIRST_TERM_SHELL \in flags[q]
    BY <1>1 DEF LaunchTerminal
  <1>6. ParentWaits'
    <2>1. /\ pid_avail' = pid_avail \cup {pid}
          /\ FIRST_TERM_SHELL \in flags'[pid]
          /\ UNCHANGED pid_local
          /\ \A q \in pid_avail : /\ owned_by_terminal'[q] = owned_by_terminal[q]
                                  /\ parentPCB'[q] = parentPCB[q]
                                  /\ esp0'[q] = esp0[q]
          /\ \A q \in pid_avail \ {tss} : kstack'[q] = kstack[q] /\ esp_k'[q] = esp_k[q]
      BY <1>1 DEF LaunchTerminal, StartChild, mark_pid_used
    <2> QED
      BY <1>12, <2>1 DEF CpuServesTerminal, ParentWaits
  <1>7. OneFirstShell'
    <2> SUFFICES ASSUME NEW u \in terminals_launched'
                 PROVE  \E p \in pid_avail' :
                          /\ owned_by_terminal'[p] = u
                          /\ FIRST_TERM_SHELL \in flags'[p]
                          /\ \A q \in pid_avail' :
                               owned_by_terminal'[q] = u /\ FIRST_TERM_SHELL \in flags'[q] => q = p
      BY DEF OneFirstShell
    <2>2. /\ pid_avail' = pid_avail \cup {pid}
          /\ owned_by_terminal'[pid] = t
          /\ FIRST_TERM_SHELL \in flags'[pid]
          /\ \A q \in pid_avail : owned_by_terminal'[q] = owned_by_terminal[q]
      BY <1>1 DEF LaunchTerminal, StartChild, mark_pid_used
    <2>3. \A q \in pid_avail : owned_by_terminal[q] # t
      BY <1>1 DEF EveryPidAccountedFor
    <2>4. CASE u = t
      BY <2>2, <2>3, <2>4
    <2>5. CASE u # t
      <3>1. u \in terminals_launched
        BY <2>5 DEF LaunchTerminal
      <3>2. PICK p \in pid_avail :
              /\ owned_by_terminal[p] = u
              /\ FIRST_TERM_SHELL \in flags[p]
              /\ \A q \in pid_avail :
                   owned_by_terminal[q] = u /\ FIRST_TERM_SHELL \in flags[q] => q = p
        BY <3>1 DEF OneFirstShell
      <3>3. p \in pid_avail'
        BY <2>2
      <3> QED
        BY <1>12, <2>2, <2>5, <3>2, <3>3
    <2> QED
      BY <2>4, <2>5
  <1>8. FlagMeansHandler'
    BY <1>1 DEF LaunchTerminal, StartChild, CpuServesTerminal, FlagMeansHandler, mark_pid_used
  <1>9. SavedFlagsRight'
    <2>1. /\ flags'[tss] = flags[tss] \cup {IN_INTERRUPT_FLAG}
          /\ kbd_flags'[tss] = flags[tss]
          /\ kstack'[tss] = "keyboard"
          /\ kstack'[pid] = "running"
          /\ pid_avail' = pid_avail \cup {pid}
          /\ UNCHANGED <<rtc, rtc_flags>>
          /\ \A p \in Pid \ {tss, pid} : /\ flags'[p] = flags[p]
                                         /\ kstack'[p] = kstack[p]
                                         /\ kbd_flags'[p] = kbd_flags[p]
      BY <1>1 DEF LaunchTerminal, StartChild, mark_pid_used
    <2>2. IN_INTERRUPT_FLAG \in flags[tss] <=> rtc[tss] # "idle"
      BY <1>1 DEF FlagMeansHandler, CpuServesTerminal
    <2>3. ASSUME NEW p \in Pid, rtc'[p] # "idle"
          PROVE  /\ p \in pid_avail'
                 /\ kstack'[p] # "execute"
                 /\ IN_INTERRUPT_FLAG \notin rtc_flags'[p]
                 /\ FIRST_TERM_SHELL \in rtc_flags'[p] <=> FIRST_TERM_SHELL \in flags'[p]
      BY <1>1, <2>1, <2>3 DEF SavedFlagsRight
    <2>4. ASSUME NEW p \in pid_avail', kstack'[p] = "keyboard"
          PROVE  /\ IN_INTERRUPT_FLAG \in kbd_flags'[p] <=> rtc'[p] # "idle"
                 /\ FIRST_TERM_SHELL \in kbd_flags'[p] <=> FIRST_TERM_SHELL \in flags'[p]
      BY <1>1, <2>1, <2>2, <2>4 DEF SavedFlagsRight
    <2> QED
      BY <2>3, <2>4 DEF SavedFlagsRight
  <1>10. NoWildJump'
    BY DEF LaunchTerminal, NoWildJump
  <1> QED
    BY <1>2, <1>3, <1>4, <1>5, <1>6, <1>7, <1>8, <1>9, <1>10

\* The timer keeps the invariant: the context it resumes is the one the stack of
\* the next terminal's front process holds.
LEMMA IInvTimer ==
  ASSUME TypeOK, IInv, NEW t \in Terminal, Timer(t)
  PROVE  IInv'
  <1> DEFINE next == terminals[t]
  <1> USE DEF IInv, TypeOK, FIRST_TERM_SHELL, IN_INTERRUPT_FLAG
  <1>1. /\ t \in terminals_launched
        /\ tss \in pid_avail
        /\ next \in pid_avail
        /\ next \in Pid
        /\ owned_by_terminal[tss] = terminal_being_serviced
        /\ owned_by_terminal[next] = t
        /\ rtc[tss] = "idle"
    BY DEF Timer, NextToService, CpuServesTerminal, FrontProcess, FlagMeansHandler
  <1>2. \/ next = tss
        \/ /\ t # terminal_being_serviced
           /\ next # tss
           /\ kstack[next] \in {"switch", "keyboard"}
           /\ eip[next] = kstack[next]
           /\ esp_k[next] = kstack[next]
    BY <1>1 DEF CpuServesTerminal, ReadyToResume
  <1>3. /\ tss' = next
        /\ cr3' = next
        /\ terminal_being_serviced' = t
        /\ eip' = [eip EXCEPT ![tss] = "switch"]
        /\ esp_k' = [esp_k EXCEPT ![tss] = "switch"]
        /\ kstack' = [kstack EXCEPT ![tss] = "switch", ![next] = "running"]
        /\ UNCHANGED <<pid_avail, pid_local, parentPCB, esp0, owned_by_terminal, terminals,
                       terminals_launched, terminal_state, rtc_flags, rtc>>
    BY <1>1, <1>2 DEF Timer, SwitchContext, pcbVars
  <1>4. NoWildJump'
    BY <1>1, <1>2 DEF Timer, SwitchContext, NoWildJump
  <1>5. IF next # tss /\ kstack[next] = "keyboard"
        THEN /\ flags' = [flags EXCEPT ![next] = kbd_flags[next]]
             /\ kbd_flags' = [kbd_flags EXCEPT ![next] = {}]
        ELSE UNCHANGED <<flags, kbd_flags>>
    BY <1>1, <1>2 DEF Timer, SwitchContext
  <1>6. \A p \in Pid : FIRST_TERM_SHELL \in flags'[p] <=> FIRST_TERM_SHELL \in flags[p]
    <2>1. CASE next # tss /\ kstack[next] = "keyboard"
      <3>1. FIRST_TERM_SHELL \in kbd_flags[next] <=> FIRST_TERM_SHELL \in flags[next]
        BY <1>1, <2>1 DEF SavedFlagsRight
      <3>2. flags' = [flags EXCEPT ![next] = kbd_flags[next]]
        BY <1>5, <2>1
      <3>3. ASSUME NEW p \in Pid
            PROVE  flags'[p] = IF p = next THEN kbd_flags[next] ELSE flags[p]
        BY <3>2
      <3> QED
        BY <3>1, <3>3
    <2>2. CASE ~(next # tss /\ kstack[next] = "keyboard")
      BY <1>5, <2>2
    <2> QED
      BY <2>1, <2>2
  <1>7. CpuServesTerminal'
    BY <1>1, <1>3 DEF CpuServesTerminal
  <1>8. FrontProcess'
    BY <1>3 DEF FrontProcess
  <1>9. ReadyToResume'
    <2> SUFFICES ASSUME NEW u \in terminals_launched, u # t
                 PROVE  /\ kstack'[terminals[u]] \in {"switch", "keyboard"}
                        /\ eip'[terminals[u]] = kstack'[terminals[u]]
                        /\ esp_k'[terminals[u]] = kstack'[terminals[u]]
      BY <1>3 DEF ReadyToResume
    <2>1. terminals[u] \in Pid /\ terminals[u] # next
      BY <1>1 DEF FrontProcess
    <2>2. CASE u = terminal_being_serviced
      BY <1>3, <2>1, <2>2 DEF CpuServesTerminal
    <2>3. CASE u # terminal_being_serviced
      <3>1. terminals[u] # tss
        BY <1>1, <2>3 DEF FrontProcess
      <3> QED
        BY <1>3, <2>1, <2>3, <3>1 DEF ReadyToResume
    <2> QED
      BY <2>2, <2>3
  <1> HIDE DEF next
  <1>10. EveryPidAccountedFor'
    BY <1>1, <1>2, <1>3, <1>6 DEF EveryPidAccountedFor, CpuServesTerminal, next
  <1>11. ParentWaits'
    BY <1>1, <1>2, <1>3, <1>6 DEF ParentWaits, CpuServesTerminal
  <1>12. OneFirstShell'
    <2> SUFFICES ASSUME NEW u \in terminals_launched
                 PROVE  \E p \in pid_avail :
                          /\ owned_by_terminal[p] = u
                          /\ FIRST_TERM_SHELL \in flags'[p]
                          /\ \A q \in pid_avail :
                               owned_by_terminal[q] = u /\ FIRST_TERM_SHELL \in flags'[q] => q = p
      BY <1>3 DEF OneFirstShell
    <2> QED
      BY <1>6 DEF OneFirstShell
  <1>13. FlagMeansHandler'
    BY <1>1, <1>2, <1>3, <1>5 DEF FlagMeansHandler, SavedFlagsRight, CpuServesTerminal
  <1>14. SavedFlagsRight'
    <2>1. ASSUME NEW p \in Pid, rtc'[p] # "idle"
          PROVE  /\ p \in pid_avail'
                 /\ kstack'[p] # "execute"
                 /\ IN_INTERRUPT_FLAG \notin rtc_flags'[p]
                 /\ FIRST_TERM_SHELL \in rtc_flags'[p] <=> FIRST_TERM_SHELL \in flags'[p]
      BY <1>1, <1>3, <1>6, <2>1 DEF SavedFlagsRight
    <2>2. ASSUME NEW p \in pid_avail', kstack'[p] = "keyboard"
          PROVE  /\ IN_INTERRUPT_FLAG \in kbd_flags'[p] <=> rtc'[p] # "idle"
                 /\ FIRST_TERM_SHELL \in kbd_flags'[p] <=> FIRST_TERM_SHELL \in flags'[p]
      <3>1. p \in pid_avail /\ p # next /\ p # tss /\ kstack[p] = "keyboard"
        BY <1>1, <1>3, <2>2
      <3>2. kbd_flags'[p] = kbd_flags[p]
        BY <1>1, <1>5, <3>1
      <3> QED
        BY <1>3, <1>6, <3>1, <3>2 DEF SavedFlagsRight
    <2> QED
      BY <2>1, <2>2 DEF SavedFlagsRight
  <1> QED
    BY <1>4, <1>7, <1>8, <1>9, <1>10, <1>11, <1>12, <1>13, <1>14

\* The steps of the RTC handler keep the invariant: they only touch the flags of
\* the running process and the frame that holds them.
LEMMA IInvRtc ==
  ASSUME TypeOK, IInv, RtcEnter \/ RtcSendEoi \/ RtcExit
  PROVE  IInv'
  <1> USE DEF IInv, TypeOK, FIRST_TERM_SHELL, IN_INTERRUPT_FLAG
  <1>1. UNCHANGED <<pid_avail, pid_local, parentPCB, esp0, owned_by_terminal, tss, cr3, eip,
                    esp_k, kstack, crashed, terminals, terminals_launched, terminal_state,
                    terminal_being_serviced, kbd_flags>>
    BY DEF RtcEnter, RtcSendEoi, RtcExit, pcbVars, cpuVars, termVars
  <1>2. tss \in pid_avail /\ kstack[tss] = "running"
    BY DEF CpuServesTerminal, FrontProcess
  <1>3. \A p \in Pid : FIRST_TERM_SHELL \in flags'[p] <=> FIRST_TERM_SHELL \in flags[p]
    <2>1. CASE RtcEnter
      BY <2>1 DEF RtcEnter
    <2>2. CASE RtcSendEoi
      BY <2>2 DEF RtcSendEoi
    <2>3. CASE RtcExit
      BY <2>3 DEF RtcExit, SavedFlagsRight
    <2> QED
      BY <2>1, <2>2, <2>3
  <1>4. CpuServesTerminal' /\ FrontProcess' /\ ReadyToResume' /\ NoWildJump'
    BY <1>1 DEF CpuServesTerminal, FrontProcess, ReadyToResume, NoWildJump
  <1>5. EveryPidAccountedFor' /\ ParentWaits'
    BY <1>1, <1>3 DEF EveryPidAccountedFor, ParentWaits
  <1>6. OneFirstShell'
    <2> SUFFICES ASSUME NEW u \in terminals_launched
                 PROVE  \E p \in pid_avail :
                          /\ owned_by_terminal[p] = u
                          /\ FIRST_TERM_SHELL \in flags'[p]
                          /\ \A q \in pid_avail :
                               owned_by_terminal[q] = u /\ FIRST_TERM_SHELL \in flags'[q] => q = p
      BY <1>1 DEF OneFirstShell
    <2> QED
      BY <1>3 DEF OneFirstShell
  <1>7. FlagMeansHandler'
    <2>1. CASE RtcEnter
      BY <1>1, <2>1 DEF RtcEnter, FlagMeansHandler
    <2>2. CASE RtcSendEoi
      BY <1>1, <2>2 DEF RtcSendEoi, FlagMeansHandler
    <2>3. CASE RtcExit
      BY <1>1, <1>2, <2>3 DEF RtcExit, FlagMeansHandler, SavedFlagsRight
    <2> QED
      BY <2>1, <2>2, <2>3
  <1>8. SavedFlagsRight'
    <2>1. CASE RtcEnter
      BY <1>1, <1>2, <2>1 DEF RtcEnter, FlagMeansHandler, SavedFlagsRight
    <2>2. CASE RtcSendEoi
      BY <1>1, <2>2 DEF RtcSendEoi, SavedFlagsRight
    <2>3. CASE RtcExit
      BY <1>1, <1>2, <2>3 DEF RtcExit, SavedFlagsRight
    <2> QED
      BY <2>1, <2>2, <2>3
  <1> QED
    BY <1>4, <1>5, <1>6, <1>7, <1>8

LEMMA IInvInit == Init => IInv
  <1> SUFFICES ASSUME Init PROVE IInv
    OBVIOUS
  <1> USE ZeroInRange DEF Init, FIRST_TERM_SHELL, IN_INTERRUPT_FLAG
  <1>1. CpuServesTerminal /\ FrontProcess /\ ReadyToResume /\ NoWildJump
    BY DEF CpuServesTerminal, FrontProcess, ReadyToResume, NoWildJump
  <1>2. EveryPidAccountedFor /\ ParentWaits
    BY DEF EveryPidAccountedFor, ParentWaits
  <1>3. OneFirstShell /\ FlagMeansHandler /\ SavedFlagsRight
    BY DEF OneFirstShell, FlagMeansHandler, SavedFlagsRight
  <1> QED
    BY <1>1, <1>2, <1>3 DEF IInv

\* Every step keeps the invariant, if execute is only called in the foreground.
LEMMA IInvStep == ExecInForeground /\ TypeOK /\ IInv /\ [Next]_vars => IInv'
  <1> SUFFICES ASSUME ExecInForeground, TypeOK, IInv, [Next]_vars PROVE IInv'
    OBVIOUS
  <1>1. ASSUME NEW pid \in Pid, Execute(pid) PROVE IInv'
    BY <1>1, IInvExecute
  <1>2. CASE Halt
    BY <1>2, IInvReturn DEF Halt
  <1>3. ASSUME NEW pid \in Pid, HaltFirstShell(pid) PROVE IInv'
    BY <1>3, IInvHaltFirstShell
  <1>4. CASE HaltExcep
    BY <1>4, IInvReturn DEF HaltExcep, ExecInForeground
  <1>5. CASE KeyTyped \/ \E t \in Terminal : SwitchTerminal(t)
    BY <1>5, IInvKeys
  <1>6. ASSUME NEW t \in Terminal, NEW pid \in Pid, LaunchTerminal(t, pid) PROVE IInv'
    BY <1>6, IInvLaunch
  <1>7. ASSUME NEW t \in Terminal, Timer(t) PROVE IInv'
    BY <1>7, IInvTimer
  <1>8. CASE RtcEnter \/ RtcSendEoi \/ RtcExit
    BY <1>8, IInvRtc
  <1>9. CASE UNCHANGED vars
    BY <1>9 DEF vars, pcbVars, cpuVars, termVars, irqVars, IInv, CpuServesTerminal,
                FrontProcess, ReadyToResume, EveryPidAccountedFor, ParentWaits, OneFirstShell,
                FlagMeansHandler, SavedFlagsRight, NoWildJump
  <1> QED
    BY <1>1, <1>2, <1>3, <1>4, <1>5, <1>6, <1>7, <1>8, <1>9 DEF Next

LEMMA IInvAlways == ASSUME ExecInForeground PROVE Spec => []IInv
  <1>1. TypeOK /\ IInv /\ [Next]_vars => IInv'
    BY IInvStep
  <1> QED
    BY <1>1, IInvInit, TypeCorrect, PTL DEF Spec


-----------------------------------------------------------------------------
(***************************************************************************)
(* The theorems.                                                           *)
(***************************************************************************)
\* In the foreground no goto of the kernel is wild: the timer (scheduling.c:215)
\* and halt (syscalls.c:271) only ever reach contexts that are on the stack.
THEOREM Safety == ASSUME ExecInForeground PROVE Spec => []NoWildJump
  <1>1. IInv => NoWildJump
    BY DEF IInv
  <1> QED
    BY <1>1, IInvAlways, PTL

\* In the foreground what the timer may resume is resumable: the eip and esp_k in
\* its PCB are those of the context on its stack.
THEOREM ResumeSound == ASSUME ExecInForeground PROVE Spec => []ReadyToResume
  <1>1. IInv => ReadyToResume
    BY DEF IInv
  <1> QED
    BY <1>1, IInvAlways, PTL

\* In the foreground no pid leaks: every used pid is in front of its terminal or
\* waits in execute for a living child of its own.
THEOREM NoPidLeaks == ASSUME ExecInForeground PROVE Spec => []EveryPidAccountedFor
  <1>1. IInv => EveryPidAccountedFor
    BY DEF IInv
  <1> QED
    BY <1>1, IInvAlways, PTL

\* In the foreground the parent that halt and halt_excep return to is alive and
\* waits for this very child.
THEOREM ParentsWait == ASSUME ExecInForeground PROVE Spec => []ParentWaits
  <1>1. IInv => ParentWaits
    BY DEF IInv
  <1> QED
    BY <1>1, IInvAlways, PTL

\* In the foreground a terminal keeps exactly one first shell.
THEOREM ShellPerTerminal == ASSUME ExecInForeground PROVE Spec => []OneFirstShell
  <1>1. IInv => OneFirstShell
    BY DEF IInv
  <1> QED
    BY <1>1, IInvAlways, PTL

\* In the foreground IN_INTERRUPT_FLAG is set exactly inside IRQ handlers.
THEOREM FlagDiscipline == ASSUME ExecInForeground PROVE Spec => []FlagMeansHandler
  <1>1. IInv => FlagMeansHandler
    BY DEF IInv
  <1> QED
    BY <1>1, IInvAlways, PTL

LEMMA VideoInit == Init => VideoFollowsDisplay
  BY ZeroInRange DEF Init, VideoFollowsDisplay

LEMMA VideoStep == TypeOK /\ VideoFollowsDisplay /\ [Next]_vars => VideoFollowsDisplay'
  <1> SUFFICES ASSUME TypeOK, VideoFollowsDisplay, [Next]_vars PROVE VideoFollowsDisplay'
    OBVIOUS
  <1> USE DEF TypeOK, VideoFollowsDisplay, pcbVars, cpuVars, termVars, irqVars
  <1>1. ASSUME NEW pid \in Pid, Execute(pid) PROVE VideoFollowsDisplay'
    BY <1>1 DEF Execute, StartChild, mark_pid_used
  <1>2. CASE Halt \/ HaltExcep
    BY <1>2 DEF Halt, HaltExcep, ReturnToParent, mark_pid_free
  <1>3. ASSUME NEW pid \in Pid, HaltFirstShell(pid) PROVE VideoFollowsDisplay'
    BY <1>3 DEF HaltFirstShell, StartChild, mark_pid_used, mark_pid_free
  <1>4. ASSUME NEW t \in Terminal, SwitchTerminal(t) PROVE VideoFollowsDisplay'
    BY <1>4 DEF SwitchTerminal, Remapped
  <1>5. ASSUME NEW t \in Terminal, NEW pid \in Pid, LaunchTerminal(t, pid)
        PROVE  VideoFollowsDisplay'
    BY <1>5 DEF LaunchTerminal, StartChild, Remapped, mark_pid_used
  <1>6. ASSUME NEW t \in Terminal, Timer(t) PROVE VideoFollowsDisplay'
    BY <1>6 DEF Timer
  <1>7. CASE KeyTyped \/ RtcEnter \/ RtcSendEoi \/ RtcExit \/ UNCHANGED vars
    BY <1>7 DEF KeyTyped, RtcEnter, RtcSendEoi, RtcExit, vars
  <1> QED
    BY <1>1, <1>2, <1>3, <1>4, <1>5, <1>6, <1>7 DEF Next

\* With no assumption on who calls execute: every process writes to video memory
\* exactly while the terminal it is filed under is displayed.
THEOREM VideoCorrect == Spec => []VideoFollowsDisplay
  BY VideoInit, VideoStep, TypeCorrect, PTL DEF Spec

\* In the foreground no step disturbs the front process of another terminal.
THEOREM Isolation == ASSUME ExecInForeground PROVE Spec => TerminalIsolation
  <1> DEFINE Isolated == \A t \in terminals_launched :
                /\ t \in terminals_launched'
                /\ t # terminal_being_serviced => terminals'[t] = terminals[t]
  <1>1. TypeOK /\ IInv /\ [Next]_vars => Isolated \/ UNCHANGED vars
    <2> SUFFICES ASSUME TypeOK, IInv, [Next]_vars, ~UNCHANGED vars PROVE Isolated
      OBVIOUS
    <2> USE DEF TypeOK, pcbVars, cpuVars, termVars, irqVars
    <2>1. ASSUME NEW pid \in Pid, Execute(pid) PROVE Isolated
      BY <2>1 DEF Execute, StartChild, MayExec, ExecInForeground, mark_pid_used
    <2>2. CASE Halt \/ HaltExcep
      <3>1. /\ tss \in pid_avail
            /\ owned_by_terminal[tss] = terminal_being_serviced
            /\ IN_INTERRUPT_FLAG \notin flags[tss]
        BY <2>2 DEF Halt, HaltExcep, InUserCode, IInv, CpuServesTerminal, FrontProcess,
                    FlagMeansHandler
      <3>2. FIRST_TERM_SHELL \notin flags[tss]
        BY <2>2, <3>1 DEF Halt, HaltExcep, ExecInForeground, Flag, FIRST_TERM_SHELL,
                          IN_INTERRUPT_FLAG
      <3>3. owned_by_terminal[parentPCB[tss]] = terminal_being_serviced
        BY <3>1, <3>2 DEF IInv, ParentWaits
      <3> QED
        BY <2>2, <3>3 DEF Halt, HaltExcep, ReturnToParent, mark_pid_free
    <2>3. ASSUME NEW pid \in Pid, HaltFirstShell(pid) PROVE Isolated
      BY <2>3 DEF HaltFirstShell, StartChild, MayExec, ExecInForeground, mark_pid_used, mark_pid_free
    <2>4. ASSUME NEW t \in Terminal, SwitchTerminal(t) PROVE Isolated
      BY <2>4 DEF SwitchTerminal
    <2>5. ASSUME NEW t \in Terminal, NEW pid \in Pid, LaunchTerminal(t, pid) PROVE Isolated
      BY <2>5 DEF LaunchTerminal, StartChild, mark_pid_used
    <2>6. ASSUME NEW t \in Terminal, Timer(t) PROVE Isolated
      BY <2>6 DEF Timer
    <2>7. CASE KeyTyped \/ RtcEnter \/ RtcSendEoi \/ RtcExit
      BY <2>7 DEF KeyTyped, RtcEnter, RtcSendEoi, RtcExit
    <2> QED
      BY <2>1, <2>2, <2>3, <2>4, <2>5, <2>6, <2>7 DEF Next
  <1> HIDE DEF Isolated
  <1>2. Spec => [][Isolated]_vars
    BY <1>1, TypeCorrect, IInvAlways, PTL DEF Spec
  <1> QED
    BY <1>2 DEF TerminalIsolation, Isolated

-----------------------------------------------------------------------------
(***************************************************************************)
(* Processes implements Sessions: the initial states map to an initial     *)
(* state, and every step to a step of one session or to a stutter.         *)
(***************************************************************************)
LEMMA RefineInit == Init => Sess!SessionsInit
  <1> SUFFICES ASSUME Init PROVE Sess!SessionsInit
    OBVIOUS
  <1>1. /\ pid_avail = {0}
        /\ terminals_launched = {0}
        /\ [t \in terminals_launched |-> terminals[t]] = [t \in {0} |-> 0]
        /\ [p \in pid_avail |-> owned_by_terminal[p]] = [q \in {0} |-> 0]
        /\ waiterOf = [q \in {0} |-> 0]
        /\ terminal_state = 0
        /\ terminal_being_serviced = 0
    BY ZeroInRange DEF Init, waiterOf, FIRST_TERM_SHELL
  <1> QED
    BY <1>1, ZeroInRange DEF Sess!SessionsInit

\* execute starts a process in the session that has the CPU.
LEMMA RefineExecute ==
  ASSUME TypeOK, IInv, ExecInForeground, NEW pid \in Pid, Execute(pid)
  PROVE  Sess!Start(pid)
  <1> USE DEF TypeOK
  <1>1. /\ pid \notin pid_avail
        /\ terminal_state = terminal_being_serviced
        /\ terminal_being_serviced \in terminals_launched
        /\ tss = terminals[terminal_being_serviced]
    BY DEF Execute, Available, MayExec, ExecInForeground, IInv, CpuServesTerminal
  <1>2. [t \in terminals_launched |-> terminals[t]]' =
          [[t \in terminals_launched |-> terminals[t]] EXCEPT ![terminal_being_serviced] = pid]
    BY <1>1 DEF Execute, StartChild, mark_pid_used
  <1>3. [p \in pid_avail |-> owned_by_terminal[p]]' =
          Sess!With([p \in pid_avail |-> owned_by_terminal[p]], pid, terminal_being_serviced)
    BY <1>1 DEF Execute, StartChild, Sess!With, mark_pid_used
  <1>4. waiterOf' = Sess!With(waiterOf, pid, tss)
    BY <1>1 DEF Execute, StartChild, Sess!With, waiterOf, FIRST_TERM_SHELL, mark_pid_used
  <1>5. [t \in terminals_launched |-> terminals[t]][terminal_being_serviced] = tss
    BY <1>1
  <1> QED
    BY <1>1, <1>2, <1>3, <1>4, <1>5 DEF Execute, StartChild, Sess!Start, mark_pid_used

\* halt and halt_excep end the process in front.
LEMMA RefineReturn ==
  ASSUME TypeOK, IInv, InUserCode, flags[tss] # {FIRST_TERM_SHELL}, ReturnToParent(tss)
  PROVE  Sess!End
  <1> USE DEF TypeOK, FIRST_TERM_SHELL, IN_INTERRUPT_FLAG
  <1>1. /\ tss \in pid_avail
        /\ terminal_being_serviced \in terminals_launched
        /\ tss = terminals[terminal_being_serviced]
        /\ owned_by_terminal[tss] = terminal_being_serviced
        /\ kstack[tss] = "running"
        /\ IN_INTERRUPT_FLAG \notin flags[tss]
    BY DEF IInv, CpuServesTerminal, FrontProcess, InUserCode, FlagMeansHandler
  <1>2. FIRST_TERM_SHELL \notin flags[tss]
    BY <1>1 DEF Flag
  <1>3. /\ parentPCB[tss] # tss
        /\ parentPCB[tss] \in Pid
        /\ owned_by_terminal[parentPCB[tss]] = terminal_being_serviced
        /\ pid_avail' = pid_avail \ {tss}
        /\ terminals' = [terminals EXCEPT ![terminal_being_serviced] = parentPCB[tss]]
        /\ UNCHANGED <<terminals_launched, terminal_state, terminal_being_serviced,
                       owned_by_terminal, parentPCB, flags>>
    BY <1>1, <1>2 DEF IInv, ParentWaits, ReturnToParent, pcbVars, irqVars, mark_pid_free
  <1>4. [t \in terminals_launched |-> terminals[t]]' =
          [[t \in terminals_launched |-> terminals[t]]
             EXCEPT ![terminal_being_serviced] = parentPCB[tss]]
    BY <1>1, <1>3
  <1>5. [p \in pid_avail |-> owned_by_terminal[p]]' =
          Sess!Without([p \in pid_avail |-> owned_by_terminal[p]], tss)
    BY <1>1, <1>3 DEF Sess!Without
  <1>6. waiterOf' = Sess!Without(waiterOf, tss) /\ waiterOf[tss] = parentPCB[tss]
    BY <1>1, <1>2, <1>3 DEF Sess!Without, waiterOf
  <1>7. [t \in terminals_launched |-> terminals[t]][terminal_being_serviced] = tss
    BY <1>1
  <1> QED
    BY <1>3, <1>4, <1>5, <1>6, <1>7 DEF Sess!End

\* halt of a first shell replaces it.
LEMMA RefineHaltFirstShell ==
  ASSUME TypeOK, IInv, ExecInForeground, NEW pid \in Pid, HaltFirstShell(pid)
  PROVE  Sess!Replace(pid)
  <1> USE DEF TypeOK
  <1>1. /\ tss \in pid_avail
        /\ pid \notin pid_avail \ {tss}
        /\ terminal_state = terminal_being_serviced
        /\ terminal_being_serviced \in terminals_launched
        /\ tss = terminals[terminal_being_serviced]
        /\ FIRST_TERM_SHELL \in flags[tss]
    BY DEF HaltFirstShell, Available, MayExec, ExecInForeground, IInv, CpuServesTerminal, mark_pid_free,
           FrontProcess
  <1>2. [t \in terminals_launched |-> terminals[t]]' =
          [[t \in terminals_launched |-> terminals[t]] EXCEPT ![terminal_being_serviced] = pid]
    BY <1>1 DEF HaltFirstShell, StartChild, mark_pid_used, mark_pid_free
  <1>3. [p \in pid_avail |-> owned_by_terminal[p]]' =
          Sess!With(Sess!Without([p \in pid_avail |-> owned_by_terminal[p]], tss),
                 pid, terminal_being_serviced)
    BY <1>1 DEF HaltFirstShell, StartChild, Sess!With, Sess!Without, mark_pid_used, mark_pid_free
  <1>4. waiterOf' = Sess!With(Sess!Without(waiterOf, tss), pid, pid) /\ waiterOf[tss] = tss
    BY <1>1 DEF HaltFirstShell, StartChild, Sess!With, Sess!Without, waiterOf, FIRST_TERM_SHELL, mark_pid_used, mark_pid_free
  <1>5. [t \in terminals_launched |-> terminals[t]][terminal_being_serviced] = tss
    BY <1>1
  <1> QED
    BY <1>1, <1>2, <1>3, <1>4, <1>5 DEF HaltFirstShell, StartChild, Sess!Replace, mark_pid_used, mark_pid_free

\* Alt+Fn without a shell there launches a session.
LEMMA RefineLaunch ==
  ASSUME TypeOK, IInv, NEW t \in Terminal, NEW pid \in Pid, LaunchTerminal(t, pid)
  PROVE  Sess!Launch(t, pid)
  <1> USE DEF TypeOK
  <1>1. pid \notin pid_avail /\ t \notin terminals_launched /\ tss # pid
    BY DEF LaunchTerminal, Available, IInv, CpuServesTerminal, FrontProcess
  <1>2. [u \in terminals_launched |-> terminals[u]]' =
          Sess!With([u \in terminals_launched |-> terminals[u]], t, pid)
    BY <1>1 DEF LaunchTerminal, StartChild, Sess!With, mark_pid_used
  <1>3. [p \in pid_avail |-> owned_by_terminal[p]]' =
          Sess!With([p \in pid_avail |-> owned_by_terminal[p]], pid, t)
    BY <1>1 DEF LaunchTerminal, StartChild, Sess!With, mark_pid_used
  <1>4. /\ FIRST_TERM_SHELL \in flags'[pid]
        /\ \A q \in pid_avail : FIRST_TERM_SHELL \in flags'[q] <=> FIRST_TERM_SHELL \in flags[q]
    BY <1>1 DEF LaunchTerminal, FIRST_TERM_SHELL, IN_INTERRUPT_FLAG
  <1>5. waiterOf' = Sess!With(waiterOf, pid, pid)
    BY <1>1, <1>4 DEF LaunchTerminal, StartChild, Sess!With, waiterOf, mark_pid_used
  <1> QED
    BY <1>1, <1>2, <1>3, <1>5 DEF LaunchTerminal, StartChild, Sess!Launch, mark_pid_used

\* A step that keeps the first-shell flags and the processes' places is at most
\* a change of the shown or of the current session.
LEMMA RefineSame ==
  ASSUME UNCHANGED <<pid_avail, terminals_launched, terminals, owned_by_terminal, parentPCB>>,
         TypeOK, \A p \in Pid : FIRST_TERM_SHELL \in flags'[p] <=> FIRST_TERM_SHELL \in flags[p]
  PROVE  /\ UNCHANGED <<pid_avail, terminals_launched>>
         /\ [t \in terminals_launched |-> terminals[t]]' = [t \in terminals_launched |-> terminals[t]]
         /\ [p \in pid_avail |-> owned_by_terminal[p]]' = [p \in pid_avail |-> owned_by_terminal[p]]
         /\ waiterOf' = waiterOf
  BY DEF TypeOK, waiterOf

LEMMA RefineTimer ==
  ASSUME TypeOK, IInv, NEW t \in Terminal, Timer(t)
  PROVE  Sess!Preempt(t)
  <1>1. \A p \in Pid : FIRST_TERM_SHELL \in flags'[p] <=> FIRST_TERM_SHELL \in flags[p]
    <2>1. /\ t \in terminals_launched
          /\ terminals[t] \in pid_avail
      BY DEF Timer, NextToService, IInv, FrontProcess
    <2>2. \/ UNCHANGED flags
          \/ /\ flags' = [flags EXCEPT ![terminals[t]] = kbd_flags[terminals[t]]]
             /\ kstack[terminals[t]] = "keyboard"
      BY <2>1 DEF Timer, SwitchContext, TypeOK
    <2> QED
      BY <2>1, <2>2 DEF IInv, SavedFlagsRight, TypeOK
  <1>2. UNCHANGED <<pid_avail, terminals_launched, terminals, owned_by_terminal, parentPCB,
                    terminal_state>>
    BY DEF Timer, pcbVars
  <1> QED
    BY <1>1, <1>2, RefineSame DEF Timer, NextToService, Sess!Preempt

LEMMA RefineRtc ==
  ASSUME TypeOK, IInv, RtcEnter \/ RtcSendEoi \/ RtcExit
  PROVE  UNCHANGED Sess!sessionVars
  <1>1. \A p \in Pid : FIRST_TERM_SHELL \in flags'[p] <=> FIRST_TERM_SHELL \in flags[p]
    <2> USE DEF TypeOK, FIRST_TERM_SHELL, IN_INTERRUPT_FLAG
    <2>1. CASE RtcEnter
      BY <2>1 DEF RtcEnter
    <2>2. CASE RtcSendEoi
      BY <2>2 DEF RtcSendEoi
    <2>3. CASE RtcExit
      BY <2>3 DEF RtcExit, IInv, SavedFlagsRight
    <2> QED
      BY <2>1, <2>2, <2>3
  <1>2. UNCHANGED <<pid_avail, terminals_launched, terminals, owned_by_terminal, parentPCB,
                    terminal_state, terminal_being_serviced>>
    BY DEF RtcEnter, RtcSendEoi, RtcExit, pcbVars, termVars
  <1> QED
    BY <1>1, <1>2, RefineSame DEF Sess!sessionVars

LEMMA RefineKeys ==
  ASSUME TypeOK, IInv
  PROVE  /\ KeyTyped => UNCHANGED Sess!sessionVars
         /\ \A t \in Terminal : SwitchTerminal(t) => Sess!Show(t)
  <1>1. ASSUME KeyTyped PROVE UNCHANGED Sess!sessionVars
    BY <1>1, RefineSame DEF KeyTyped, pcbVars, termVars, irqVars, Sess!sessionVars
  <1>2. ASSUME NEW t \in Terminal, SwitchTerminal(t) PROVE Sess!Show(t)
    BY <1>2, RefineSame DEF SwitchTerminal, pcbVars, irqVars, Sess!Show
  <1> QED
    BY <1>1, <1>2

\* Every step of the kernel is a step of Sessions or leaves it alone.
LEMMA RefineStep ==
  ASSUME ExecInForeground, TypeOK, IInv, [Next]_vars
  PROVE  [Sess!SessionsNext]_(Sess!sessionVars)
  <1>1. ASSUME NEW pid \in Pid, Execute(pid) PROVE Sess!SessionsNext
    BY <1>1, RefineExecute DEF Sess!SessionsNext
  <1>2. CASE Halt
    BY <1>2, RefineReturn DEF Halt, Sess!SessionsNext
  <1>3. ASSUME NEW pid \in Pid, HaltFirstShell(pid) PROVE Sess!SessionsNext
    BY <1>3, RefineHaltFirstShell DEF Sess!SessionsNext
  <1>4. CASE HaltExcep
    BY <1>4, RefineReturn DEF HaltExcep, ExecInForeground, Sess!SessionsNext
  <1>5. CASE KeyTyped
    BY <1>5, RefineKeys
  <1>6. ASSUME NEW t \in Terminal, SwitchTerminal(t) PROVE Sess!SessionsNext
    BY <1>6, RefineKeys DEF Sess!SessionsNext
  <1>7. ASSUME NEW t \in Terminal, NEW pid \in Pid, LaunchTerminal(t, pid) PROVE Sess!SessionsNext
    BY <1>7, RefineLaunch DEF Sess!SessionsNext
  <1>8. ASSUME NEW t \in Terminal, Timer(t) PROVE Sess!SessionsNext
    BY <1>8, RefineTimer DEF Sess!SessionsNext
  <1>9. CASE RtcEnter \/ RtcSendEoi \/ RtcExit
    BY <1>9, RefineRtc
  <1>10. CASE UNCHANGED vars
    BY <1>10, RefineSame DEF vars, pcbVars, termVars, irqVars, Sess!sessionVars
  <1> QED
    BY <1>1, <1>2, <1>3, <1>4, <1>5, <1>6, <1>7, <1>8, <1>9, <1>10 DEF Next

\* The kernel's processes and terminals implement independent sessions, provided
\* that execute is only called in the foreground.
THEOREM Refinement == ASSUME ExecInForeground PROVE Spec => ImplementsSessions
  <1>1. TypeOK /\ IInv /\ [Next]_vars => [Sess!SessionsNext]_(Sess!sessionVars)
    BY RefineStep
  <1> QED
    BY <1>1, RefineInit, TypeCorrect, IInvAlways, PTL DEF Spec, ImplementsSessions, Sess!SessionsSpec
=============================================================================
