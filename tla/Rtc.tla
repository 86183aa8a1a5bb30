--------------------------------- MODULE Rtc ---------------------------------
(***************************************************************************)
(* The real time clock driver (devices/rtc.c) and its interrupt handler    *)
(* (IRQ8_handler_sub), used by the processes in front of several           *)
(* terminals.  They share one chip, one index register through which its   *)
(* registers are reached, and one rtc_flag.                                *)
(*                                                                         *)
(* The timer does not take the CPU away inside the handler                 *)
(* (IN_INTERRUPT_FLAG), but a key press that launches a terminal does: the *)
(* handler then waits on the stack of the process it interrupted until the *)
(* timer resumes that process.  System calls run with interrupts on, the   *)
(* register accesses of open and write with interrupts off.                *)
(***************************************************************************)
EXTENDS Integers

CONSTANTS
    NUM_TERMINALS,
    Freq,           \* the frequencies programs ask for, wrong ones included
    LaunchInIrq     \* may a terminal be launched while the handler runs?

ASSUME TerminalsAssumption == NUM_TERMINALS \in Nat \ {0}
ASSUME FreqAssumption == Freq \subseteq Int
ASSUME LaunchAssumption == LaunchInIrq \in BOOLEAN

Terminal == 0 .. NUM_TERMINALS - 1

RTC_FREQ_MIN == 2
RTC_FREQ_MAX == 1024
FREQ_FORMULA_VAL == 32768
DESIRED_PIE_RATE == 15

VARIABLES
    launched, cpu,    \* the terminals with a shell, and the one that has the CPU
    opened,           \* the terminals whose process holds a descriptor of the RTC
    been_inited,
    rate,             \* the low nibble of the chip's register A
    creg,             \* the chip register the control port selects
    pending,          \* the interrupt flag in register C: while it is set the chip
                      \* raises no other interrupt, reading register C clears it
    irq,              \* the handler's progress on each terminal's process's stack
    rtc_flag,
    reader,           \* "spinning" in read_rtc's loop, or "idle"
    wanted,           \* history: the frequency last asked for (2 Hz before any)
    seen              \* history: what happened since each terminal's read began

vars == <<launched, cpu, opened, been_inited, rate, creg, pending, irq, rtc_flag,
          reader, wanted, seen>>
chipVars == <<been_inited, rate, creg, pending, wanted>>
schedVars == <<launched, cpu>>

TypeOK ==
    /\ launched \subseteq Terminal
    /\ cpu \in launched
    /\ opened \subseteq Terminal
    /\ been_inited \in {0, 1}
    /\ rate \in 6 .. 15
    /\ creg \in {"A", "C"}
    /\ pending \in BOOLEAN
    /\ irq \in [Terminal -> {"none", "entered", "selected", "read", "cleared"}]
    /\ rtc_flag \in {0, 1}
    /\ reader \in [Terminal -> {"idle", "spinning"}]
    /\ wanted \in RTC_FREQ_MIN .. RTC_FREQ_MAX
    /\ seen \in [Terminal -> {"nothing", "interrupt", "handled"}]

\* After entry() has called init_rtc: 2 Hz, register A selected.
Init ==
    /\ launched = {0}
    /\ cpu = 0
    /\ opened = {}
    /\ been_inited = 0
    /\ rate = DESIRED_PIE_RATE
    /\ creg = "A"
    /\ pending = FALSE
    /\ irq = [t \in Terminal |-> "none"]
    /\ rtc_flag = 0
    /\ reader = [t \in Terminal |-> "idle"]
    /\ wanted = RTC_FREQ_MIN
    /\ seen = [t \in Terminal |-> "nothing"]

\* The process in front of t runs its own code or a system call.
Running(t) == cpu = t /\ irq[t] = "none"

-----------------------------------------------------------------------------
(***************************************************************************)
(* The system calls.                                                       *)
(***************************************************************************)
\* open_rtc: only the first open since boot programs the chip.  The mutant does
\* it every time.
OpenAlwaysInits(t) ==
    /\ Running(t)
    /\ reader[t] = "idle"
    /\ opened' = opened \cup {t}
    /\ rate' = DESIRED_PIE_RATE
    /\ creg' = "A"
    /\ been_inited' = 1
    /\ UNCHANGED <<schedVars, pending, irq, rtc_flag, reader, wanted, seen>>

Open(t) ==
    /\ Running(t)
    /\ reader[t] = "idle"
    /\ opened' = opened \cup {t}
    /\ IF been_inited = 0
       THEN rate' = DESIRED_PIE_RATE /\ creg' = "A"
       ELSE UNCHANGED <<rate, creg>>
    /\ been_inited' = 1
    /\ UNCHANGED <<schedVars, pending, irq, rtc_flag, reader, wanted, seen>>

\* close_rtc leaves the chip alone.
Close(t) ==
    /\ Running(t)
    /\ reader[t] = "idle"
    /\ t \in opened
    /\ opened' = opened \ {t}
    /\ UNCHANGED <<schedVars, chipVars, irq, rtc_flag, reader, seen>>

\* read_rtc up to its loop, and the loop's end.
Readers == {t \in Terminal : reader[t] = "spinning"}

\* mutant: the flag is not set, the read looks at what the last one left.
ReadWithoutArming(t) ==
    /\ Running(t)
    /\ t \in opened
    /\ reader[t] = "idle"
    /\ reader' = [reader EXCEPT ![t] = "spinning"]
    /\ seen' = [seen EXCEPT ![t] = "nothing"]
    /\ UNCHANGED <<schedVars, chipVars, opened, irq, rtc_flag>>

ReadStart(t) ==
    /\ Running(t)
    /\ t \in opened
    /\ reader[t] = "idle"
    /\ rtc_flag' = 1
    /\ reader' = [reader EXCEPT ![t] = "spinning"]
    /\ seen' = [seen EXCEPT ![t] = "nothing"]
    /\ UNCHANGED <<schedVars, chipVars, opened, irq>>

ReadReturn(t) ==
    /\ Running(t)
    /\ reader[t] = "spinning"
    /\ rtc_flag = 0
    /\ reader' = [reader EXCEPT ![t] = "idle"]
    /\ UNCHANGED <<schedVars, chipVars, opened, irq, rtc_flag, seen>>

\* write_rtc's test of the frequency: in range, and freq & (freq - 1) is 0.
Bit(n, b) == (n \div 2^b) % 2 = 1
RtcCond(f) ==
    /\ f >= RTC_FREQ_MIN
    /\ f <= RTC_FREQ_MAX
    /\ \A b \in 0 .. 10 : ~(Bit(f, b) /\ Bit(f - 1, b))

\* Its loop: `rate' starts at 1 and counts the shifts that take i to 1.
Shifts[i \in 1 .. FREQ_FORMULA_VAL] == IF i = 1 THEN 0 ELSE 1 + Shifts[i \div 2]
RateFor(f) == 1 + Shifts[FREQ_FORMULA_VAL \div f]

Write(t, f) ==
    /\ Running(t)
    /\ t \in opened
    /\ reader[t] = "idle"
    /\ RtcCond(f)    \* a wrong frequency is refused and changes nothing
    /\ rate' = RateFor(f)
    /\ creg' = "A"
    /\ wanted' = f
    /\ UNCHANGED <<schedVars, opened, been_inited, pending, irq, rtc_flag, reader, seen>>

-----------------------------------------------------------------------------
(***************************************************************************)
(* The interrupt, and IRQ8_handler_sub between its entry and its EOI.      *)
(***************************************************************************)
\* What a step of the handler tells the reads in progress.
Seen(now, before) ==
    [t \in Terminal |->
        IF t \in Readers /\ seen[t] \in before THEN now ELSE seen[t]]

Interrupt ==
    /\ ~pending
    /\ \A t \in Terminal : irq[t] = "none"
    /\ pending' = TRUE
    /\ irq' = [irq EXCEPT ![cpu] = "entered"]
    /\ seen' = Seen("interrupt", {"nothing"})
    /\ UNCHANGED <<schedVars, opened, been_inited, rate, creg, wanted, rtc_flag, reader>>

\* mutant: the handler relies on register C being selected already.
IrqSelectsNothing ==
    /\ irq[cpu] = "entered"
    /\ irq' = [irq EXCEPT ![cpu] = "selected"]
    /\ UNCHANGED <<schedVars, chipVars, opened, rtc_flag, reader, seen>>

IrqSelect ==
    /\ irq[cpu] = "entered"
    /\ creg' = "C"
    /\ irq' = [irq EXCEPT ![cpu] = "selected"]
    /\ UNCHANGED <<schedVars, opened, been_inited, rate, pending, wanted, rtc_flag,
                   reader, seen>>

\* inb(RTC_DATA_PORT), whatever register is selected now.
IrqRead ==
    /\ irq[cpu] = "selected"
    /\ pending' = (pending /\ creg # "C")
    /\ irq' = [irq EXCEPT ![cpu] = "read"]
    /\ UNCHANGED <<schedVars, opened, been_inited, rate, creg, wanted, rtc_flag,
                   reader, seen>>

\* mutant: the readers are not told.
IrqLeavesFlag ==
    /\ irq[cpu] = "read"
    /\ irq' = [irq EXCEPT ![cpu] = "cleared"]
    /\ seen' = Seen("handled", {"interrupt"})
    /\ UNCHANGED <<schedVars, chipVars, opened, rtc_flag, reader>>

IrqClear ==
    /\ irq[cpu] = "read"
    /\ rtc_flag' = 0
    /\ irq' = [irq EXCEPT ![cpu] = "cleared"]
    /\ seen' = Seen("handled", {"interrupt"})
    /\ UNCHANGED <<schedVars, chipVars, opened, reader>>

IrqEoi ==
    /\ irq[cpu] = "cleared"
    /\ irq' = [irq EXCEPT ![cpu] = "none"]
    /\ UNCHANGED <<schedVars, chipVars, opened, rtc_flag, reader, seen>>

-----------------------------------------------------------------------------
(***************************************************************************)
(* The timer and the keyboard, as far as they move the CPU (Processes).    *)
(***************************************************************************)
Switch(t) ==
    /\ irq[cpu] = "none"
    /\ t \in launched \ {cpu}
    /\ cpu' = t
    /\ UNCHANGED <<launched, chipVars, opened, irq, rtc_flag, reader, seen>>

Launch(t) ==
    /\ t \notin launched
    /\ LaunchInIrq \/ irq[cpu] = "none"
    /\ launched' = launched \cup {t}
    /\ cpu' = t
    /\ UNCHANGED <<chipVars, opened, irq, rtc_flag, reader, seen>>

-----------------------------------------------------------------------------
Handler == IrqSelect \/ IrqRead \/ IrqClear \/ IrqEoi

Next ==
    \/ \E t \in Terminal : Open(t)
    \/ \E t \in Terminal : Close(t)
    \/ \E t \in Terminal : ReadStart(t)
    \/ \E t \in Terminal : ReadReturn(t)
    \/ \E t \in Terminal, f \in Freq : Write(t, f)
    \/ Interrupt
    \/ Handler
    \/ \E t \in Terminal : Switch(t)
    \/ \E t \in Terminal : Launch(t)

Spec == Init /\ [][Next]_vars

\* The chip ticks, the handler runs on when its process has the CPU, the round
\* robin reaches every terminal (Processes shows it) and leaves it the CPU long
\* enough for one turn of read_rtc's loop.
Fairness ==
    /\ WF_vars(Interrupt)
    /\ WF_vars(Handler)
    /\ \A t \in Terminal : SF_vars(Switch(t)) /\ SF_vars(ReadReturn(t))

FairSpec == Spec /\ Fairness

-----------------------------------------------------------------------------
(***************************************************************************)
(* Properties.                                                             *)
(***************************************************************************)
\* The chip runs at the frequency that was last asked for, by the formula of
\* rtc.c:99, freq = 32768 >> (rate - 1): no open or close of another process
\* changes it.
RateAsRequested == FREQ_FORMULA_VAL \div 2^(rate - 1) = wanted

\* A read returns only when an interrupt came after it had begun, however many
\* processes share rtc_flag (needs ~LaunchInIrq).
ReadSawInterrupt ==
    \A t \in Readers : rtc_flag = 0 => seen[t] = "handled"

\* A flag that is set has a read behind it whose interrupt is still to come: when
\* the interrupt of every read in progress has been handled they may all return,
\* and a read that has had its interrupt waits for a second one only if another
\* process began to read after the first.
ArmedFlagAwaited ==
    rtc_flag = 1 => \E t \in Readers : seen[t] # "handled"

\* "Waits for an RTC interrupt" (rtc.c:56): once its interrupt has been handled, a
\* read is free to return.  The code does not promise it: the reads share rtc_flag,
\* and TLC finds it violated by a second process that begins to read.
InterruptNotLost ==
    \A t \in Readers : seen[t] = "handled" => rtc_flag = 0

\* The chip is never left silent: an interrupt whose flag is still set has a
\* handler that will read register C (needs ~LaunchInIrq).
NextInterruptComes ==
    pending => \E t \in Terminal : irq[t] = "entered" \/ (irq[t] = "selected" /\ creg = "C")

\* Every read returns, unless processes of other terminals begin reads again and
\* again (each sets the flag that the interrupt has cleared).
ReadReturns ==
    \A t \in Terminal :
        \/ []<><<\E u \in Terminal \ {t} : ReadStart(u)>>_vars
        \/ reader[t] = "spinning" ~> reader[t] = "idle"
=============================================================================
