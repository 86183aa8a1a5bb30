----------------------------- MODULE Interrupts -----------------------------
(***************************************************************************)
(* Interrupt delivery: the two cascaded 8259 controllers (devices/i8259.c  *)
(* programs them), the CPU's interrupt flag, and the frames that the       *)
(* handlers of the timer (0), the keyboard (1) and the RTC (8) leave on    *)
(* the kernel stacks of the processes in front of the terminals            *)
(* (interrupt_handler.c and its assembly wrappers).                        *)
(*                                                                         *)
(* Handlers nest, and two of them can leave the CPU to another process in  *)
(* the middle: the timer's when it switches, the keyboard's when it        *)
(* launches a terminal.  Each sends its EOI at a different moment.         *)
(***************************************************************************)
EXTENDS Naturals, Sequences

CONSTANTS
    NUM_TERMINALS,
    MAX_DEPTH        \* bound: the frames of handlers on one stack

ASSUME TerminalsAssumption == NUM_TERMINALS \in Nat \ {0}
ASSUME DepthAssumption == MAX_DEPTH \in Nat \ {0}

Terminal == 0 .. NUM_TERMINALS - 1
TIMER_CHIP_LINE_NO == 0
KEYBOARD_LINE_NO == 1
SLAVE_IRQ == 2
RTC_LINE_NO == 8
NUM_INTERRUPTS_PER_PIC == 8
Level == 0 .. NUM_INTERRUPTS_PER_PIC - 1
Line == 0 .. 2 * NUM_INTERRUPTS_PER_PIC - 1

\* i8259_init masks everything but the slave's line; then init_rtc, init_kbd and
\* init_scheduling each clear one bit.
DEFAULT_MASK == Line \ {SLAVE_IRQ}
enable_irq(mask, irq_num) == mask \ {irq_num}
Mask ==
    enable_irq(enable_irq(enable_irq(DEFAULT_MASK, RTC_LINE_NO), KEYBOARD_LINE_NO),
               TIMER_CHIP_LINE_NO)
Unmasked == Line \ (Mask \cup {SLAVE_IRQ})

\* The lines whose handlers send an EOI; those of the others only print a message.
\* The mutant's RTC handler is like them.
AllButRtc == {TIMER_CHIP_LINE_NO, KEYBOARD_LINE_NO}
SendsEoi == {TIMER_CHIP_LINE_NO, KEYBOARD_LINE_NO, RTC_LINE_NO}

VARIABLES
    irr,         \* the lines with a request
    isr,         \* the levels in service, of the master and of the slave
    launched,    \* the terminals with a shell
    cpu,         \* the terminal whose process has the CPU
    IF_flag,     \* the CPU takes interrupts
    stack        \* the handlers on each kernel stack: [line, step], top first

vars == <<irr, isr, launched, cpu, IF_flag, stack>>

\* The timer's handler has been entered; a handler works with interrupts on, has
\* executed cli, has launched a terminal, goes on after that, has sent its EOI, has
\* restored the PCB's flags.
Step == {"entered", "open", "closed", "launched", "late", "done", "left"}
Frame == [line : Unmasked, step : Step]

TypeOK ==
    /\ irr \subseteq Unmasked
    /\ isr \in [master : SUBSET Level, slave : SUBSET Level]
    /\ launched \subseteq Terminal
    /\ cpu \in launched
    /\ IF_flag \in BOOLEAN
    /\ stack \in [Terminal -> Seq(Frame)]

\* The first shell runs.
Init ==
    /\ irr = {}
    /\ isr = [master |-> {}, slave |-> {}]
    /\ launched = {0}
    /\ cpu = 0
    /\ IF_flag = TRUE
    /\ stack = [t \in Terminal |-> << >>]

-----------------------------------------------------------------------------
(***************************************************************************)
(* The controllers.                                                        *)
(***************************************************************************)
\* send_eoi: a specific EOI.  The slave's level is computed as 8 - n, which is
\* right for line 8, the only one of the slave that is unmasked.
send_eoi(n) ==
    IF n >= NUM_INTERRUPTS_PER_PIC
    THEN [master |-> isr.master \ {SLAVE_IRQ},
          slave |-> isr.slave \ {NUM_INTERRUPTS_PER_PIC - n}]
    ELSE [isr EXCEPT !.master = @ \ {n}]

\* A request passes if nothing of its own or a higher priority is in service.
Passes(n) ==
    IF n >= NUM_INTERRUPTS_PER_PIC
    THEN /\ \A k \in isr.slave : n - NUM_INTERRUPTS_PER_PIC < k
         /\ \A k \in isr.master : SLAVE_IRQ < k
    ELSE \A k \in isr.master : n < k

Acknowledged(n) ==
    IF n >= NUM_INTERRUPTS_PER_PIC
    THEN [master |-> isr.master \cup {SLAVE_IRQ},
          slave |-> isr.slave \cup {n - NUM_INTERRUPTS_PER_PIC}]
    ELSE [isr EXCEPT !.master = @ \cup {n}]

\* A device asks for attention; a masked line is never looked at.
Raise(n) ==
    /\ n \in Unmasked \ irr
    /\ irr' = irr \cup {n}
    /\ UNCHANGED <<isr, launched, cpu, IF_flag, stack>>

\* The request of the highest priority enters by its interrupt gate.  The timer's
\* handler keeps interrupts off; the others set IN_INTERRUPT_FLAG and execute sti.
Accept(n) ==
    /\ IF_flag
    /\ n \in irr
    /\ \A m \in irr : n <= m
    /\ Passes(n)
    /\ Len(stack[cpu]) < MAX_DEPTH
    /\ irr' = irr \ {n}
    /\ isr' = Acknowledged(n)
    /\ IF_flag' = (n # TIMER_CHIP_LINE_NO)
    /\ LET step == IF n = TIMER_CHIP_LINE_NO THEN "entered" ELSE "open"
       IN stack' = [stack EXCEPT ![cpu] = <<[line |-> n, step |-> step]>> \o @]
    /\ UNCHANGED <<launched, cpu>>

-----------------------------------------------------------------------------
(***************************************************************************)
(* The handlers.                                                           *)
(***************************************************************************)
\* The running handler, if there is one.
Running(lines, steps) ==
    /\ stack[cpu] # << >>
    /\ Head(stack[cpu]).line \in lines
    /\ Head(stack[cpu]).step \in steps

Stepped(t, step) == [stack EXCEPT ![t] = <<[Head(@) EXCEPT !.step = step]>> \o Tail(@)]
Popped(t) == [stack EXCEPT ![t] = Tail(@)]

\* round_robin_scheduler's choice.
NextToService(t) ==
    \E i \in 1 .. NUM_TERMINALS :
        /\ t = (cpu + i) % NUM_TERMINALS
        /\ t \in launched
        /\ \A j \in 1 .. i - 1 : (cpu + j) % NUM_TERMINALS \notin launched

\* in_hardware_int: a handler below the timer's has set IN_INTERRUPT_FLAG and not
\* restored it (Processes proves that the flag says so).  The mutant does not look.
NeverInHardwareInt == FALSE
in_hardware_int == \E i \in 2 .. Len(stack[cpu]) : stack[cpu][i].step # "left"

\* IRQ0_handler_sub with nothing to switch to, or inside a handler: its EOI, and
\* back to what was interrupted.
TimerReturn ==
    /\ Running({TIMER_CHIP_LINE_NO}, {"entered"})
    /\ in_hardware_int \/ launched = {0}
    /\ isr' = send_eoi(TIMER_CHIP_LINE_NO)
    /\ stack' = Popped(cpu)
    /\ IF_flag' = TRUE
    /\ UNCHANGED <<irr, launched, cpu>>

\* IRQ0_handler_sub that switches: the process of t, possibly the same, goes on after
\* its own timer interrupt, or in the keyboard handler that had launched a terminal,
\* with interrupts off.
TimerSwitch(t) ==
    LET suspended == Stepped(cpu, "done")
        resumed == Head(suspended[t])
    IN
    /\ Running({TIMER_CHIP_LINE_NO}, {"entered"})
    /\ ~in_hardware_int
    /\ launched # {0}
    /\ NextToService(t)
    /\ isr' = send_eoi(TIMER_CHIP_LINE_NO)
    /\ cpu' = t
    /\ stack' = [suspended EXCEPT ![t] =
                    IF resumed.step = "launched"
                    THEN <<[resumed EXCEPT !.step = "late"]>> \o Tail(@)
                    ELSE Tail(@)]
    /\ IF_flag' = (resumed.step # "launched")
    /\ UNCHANGED <<irr, launched>>

\* The keyboard's and the RTC's handlers work with interrupts on, send their EOI,
\* restore the flags and return.
Eoi ==
    /\ Running(Unmasked \ {TIMER_CHIP_LINE_NO}, {"open"})
    /\ isr' = LET n == Head(stack[cpu]).line
              IN  IF n \in SendsEoi THEN send_eoi(n) ELSE isr
    /\ stack' = Stepped(cpu, "done")
    /\ UNCHANGED <<irr, launched, cpu, IF_flag>>

RestoreFlags ==
    /\ Running(Unmasked \ {TIMER_CHIP_LINE_NO}, {"done"})
    /\ stack' = Stepped(cpu, "left")
    /\ UNCHANGED <<irr, isr, launched, cpu, IF_flag>>

Return ==
    /\ Running(Unmasked \ {TIMER_CHIP_LINE_NO}, {"left"})
    /\ stack' = Popped(cpu)
    /\ UNCHANGED <<irr, isr, launched, cpu, IF_flag>>

\* Alt: cli, and the rest of the keyboard handler runs with interrupts off.
Cli ==
    /\ Running({KEYBOARD_LINE_NO}, {"open"})
    /\ stack' = Stepped(cpu, "closed")
    /\ IF_flag' = FALSE
    /\ UNCHANGED <<irr, isr, launched, cpu>>

\* Alt+Fn launches a terminal: EOI now, and again when the handler goes on.  The
\* mutant relies on the second.
LaunchWithoutEoi(t) ==
    /\ Running({KEYBOARD_LINE_NO}, {"closed"})
    /\ t \in Terminal \ launched
    /\ launched' = launched \cup {t}
    /\ stack' = Stepped(cpu, "launched")
    /\ cpu' = t
    /\ IF_flag' = TRUE
    /\ UNCHANGED <<irr, isr>>

Launch(t) ==
    /\ Running({KEYBOARD_LINE_NO}, {"closed"})
    /\ t \in Terminal \ launched
    /\ launched' = launched \cup {t}
    /\ isr' = send_eoi(KEYBOARD_LINE_NO)
    /\ stack' = Stepped(cpu, "launched")
    /\ cpu' = t
    /\ IF_flag' = TRUE
    /\ UNCHANGED irr

\* The end of the keyboard handler with interrupts off: EOI and iret.
FinishClosed ==
    /\ Running({KEYBOARD_LINE_NO}, {"closed", "late"})
    /\ isr' = send_eoi(KEYBOARD_LINE_NO)
    /\ stack' = Popped(cpu)
    /\ IF_flag' = TRUE
    /\ UNCHANGED <<irr, launched, cpu>>

-----------------------------------------------------------------------------
Next ==
    \/ \E n \in Unmasked : Raise(n)
    \/ \E n \in Unmasked : Accept(n)
    \/ TimerReturn
    \/ \E t \in Terminal : TimerSwitch(t)
    \/ Eoi
    \/ RestoreFlags
    \/ Return
    \/ Cli
    \/ \E t \in Terminal : Launch(t)
    \/ FinishClosed

Spec == Init /\ [][Next]_vars

\* User code runs, and no request comes before line n.
UserRuns(n) == stack[cpu] = << >> /\ \A m \in irr : n <= m

\* The timer ticks now and then in user code, and a request that could be taken
\* again and again is taken.
Fairness ==
    /\ SF_vars(stack[cpu] = << >> /\ Raise(TIMER_CHIP_LINE_NO))
    /\ \A n \in Unmasked : SF_vars(Accept(n))

FairSpec == Spec /\ Fairness

-----------------------------------------------------------------------------
(***************************************************************************)
(* Properties.                                                             *)
(***************************************************************************)
\* The handlers of line n, on all the stacks, that owe their EOI.
Owing(n) ==
    {at \in Terminal \X (1 .. MAX_DEPTH) :
        LET t == at[1]
            i == at[2]
        IN  /\ i <= Len(stack[t])
            /\ stack[t][i].line = n
            /\ stack[t][i].step \in {"entered", "open", "closed"}}

\* A line is in service exactly while one handler of it owes its EOI, in the
\* slave together with the slave's line in the master: no EOI is forgotten and none
\* ends the service of another handler, although suspended handlers send theirs
\* twice (keyboard.c:357, interrupt_handler.c:321).
InServiceAccounted ==
    LET owed == {n \in Unmasked : Owing(n) # {}}
        slave == {n \in owed : n >= NUM_INTERRUPTS_PER_PIC}
    IN  /\ isr.slave = {n - NUM_INTERRUPTS_PER_PIC : n \in slave}
        /\ isr.master = (owed \ slave) \cup (IF slave = {} THEN {} ELSE {SLAVE_IRQ})
        /\ \A n \in owed : \A a, b \in Owing(n) : a = b

\* A process without the CPU goes on in its own timer interrupt or in a keyboard
\* handler that launched a terminal (scheduling.c:212).  The timer has cut no other
\* handler in two, and a launch only RTC handlers, besides the one that did it.
Resumable ==
    \A t \in launched \ {cpu} :
        /\ stack[t] # << >>
        /\ LET below == {stack[t][i] : i \in 2 .. Len(stack[t])} IN
           IF Head(stack[t]).step = "launched"
           THEN \A f \in below : f.line = RTC_LINE_NO \/ f.step \in {"done", "left"}
           ELSE /\ Head(stack[t]) = [line |-> TIMER_CHIP_LINE_NO, step |-> "done"]
                /\ \A f \in below : f.step = "left"

\* No interrupt is held back for ever by a handler in service, not even by one that
\* a terminal launch has suspended: a request is taken if user code runs again and
\* again without a request of a higher priority.
EveryInterruptTaken ==
    \A n \in Unmasked : []<>UserRuns(n) => (n \in irr ~> n \notin irr)
=============================================================================
