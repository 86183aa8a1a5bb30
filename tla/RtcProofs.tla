------------------------------ MODULE RtcProofs ------------------------------
(***************************************************************************)
(* Theorems about Rtc, for every number of terminals and readers and every *)
(* set of frequencies.                                                     *)
(***************************************************************************)
EXTENDS Rtc, TLAPS

\* The loop of write_rtc counts the shifts: Shifts[i] is the logarithm of i.  It is
\* what shows that the recursive function exists.
Log2(i) ==
    IF i < 2 THEN 0 ELSE IF i < 4 THEN 1 ELSE IF i < 8 THEN 2
    ELSE IF i < 16 THEN 3 ELSE IF i < 32 THEN 4 ELSE IF i < 64 THEN 5
    ELSE IF i < 128 THEN 6 ELSE IF i < 256 THEN 7 ELSE IF i < 512 THEN 8
    ELSE IF i < 1024 THEN 9 ELSE IF i < 2048 THEN 10 ELSE IF i < 4096 THEN 11
    ELSE IF i < 8192 THEN 12 ELSE IF i < 16384 THEN 13
    ELSE IF i < 32768 THEN 14 ELSE 15

LEMMA Halved ==
  ASSUME NEW i \in Nat
  PROVE  \E j \in Nat : j = i \div 2 /\ (i = 2 * j \/ i = 2 * j + 1)
  OBVIOUS

\* The constant is cited by its value: the provers are slow on ranges of numerals.
LEMMA Formula == FREQ_FORMULA_VAL = 32768
  BY DEF FREQ_FORMULA_VAL

LEMMA FormulaNat == FREQ_FORMULA_VAL \in Nat
  BY DEF FREQ_FORMULA_VAL

LEMMA BelowFormula ==
  ASSUME NEW i \in Nat, NEW j \in Nat, i >= 2, i <= FREQ_FORMULA_VAL, i = 2 * j \/ i = 2 * j + 1
  PROVE  j >= 1 /\ j <= 16384 /\ i <= 32768
  BY Formula

LEMMA Log2Halves ==
  ASSUME NEW i \in 2 .. FREQ_FORMULA_VAL
  PROVE  i \div 2 \in 1 .. FREQ_FORMULA_VAL /\ Log2(i) = 1 + Log2(i \div 2)
  <1>0. i \in Nat /\ i >= 2 /\ i <= FREQ_FORMULA_VAL
    BY FormulaNat
  <1>1. PICK j \in Nat : j = i \div 2 /\ (i = 2 * j \/ i = 2 * j + 1)
    BY <1>0, Halved
  <1>2. j >= 1 /\ j <= 16384 /\ i <= 32768
    BY <1>0, <1>1, BelowFormula
  <1>3. Log2(i) = 1 + Log2(j)
    BY <1>0, <1>1, <1>2 DEF Log2
  <1>4. j \in 1 .. FREQ_FORMULA_VAL
    BY <1>0, <1>1, FormulaNat
  <1> QED
    BY <1>1, <1>3, <1>4, Zenon

LEMMA ShiftsEquation ==
  Shifts = [i \in 1 .. FREQ_FORMULA_VAL |-> IF i = 1 THEN 0 ELSE 1 + Shifts[i \div 2]]
  <1> DEFINE L == [i \in 1 .. FREQ_FORMULA_VAL |-> Log2(i)]
  <1>1. ASSUME NEW i \in 1 .. FREQ_FORMULA_VAL
        PROVE  Log2(i) = IF i = 1 THEN 0 ELSE 1 + L[i \div 2]
    <2>1. CASE i = 1
      BY <2>1 DEF Log2
    <2>2. CASE i # 1
      <3>1. i \in 2 .. FREQ_FORMULA_VAL
        BY <2>2, FormulaNat
      <3> QED
        BY <2>2, <3>1, Log2Halves
    <2> QED
      BY <2>1, <2>2
  <1>2. L = [i \in 1 .. FREQ_FORMULA_VAL |-> IF i = 1 THEN 0 ELSE 1 + L[i \div 2]]
    BY <1>1
  <1> HIDE DEF L
  <1>3. \E g : g = [i \in 1 .. FREQ_FORMULA_VAL |-> IF i = 1 THEN 0 ELSE 1 + g[i \div 2]]
    BY <1>2
  <1> QED
    BY <1>3 DEF Shifts

LEMMA ShiftsStep ==
  ASSUME NEW m \in 2 .. FREQ_FORMULA_VAL
  PROVE  Shifts[m] = 1 + Shifts[m \div 2]
  <1>1. ASSUME NEW g, NEW h,
               g = [i \in 1 .. FREQ_FORMULA_VAL |-> IF i = 1 THEN 0 ELSE 1 + h[i \div 2]]
        PROVE  g[m] = 1 + h[m \div 2]
    <2>1. m \in 1 .. FREQ_FORMULA_VAL /\ m # 1
      BY FormulaNat
    <2> QED
      BY <1>1, <2>1
  <1> QED
    BY <1>1, ShiftsEquation, Zenon

LEMMA ShiftsOne == Shifts[1] = 0
  <1>1. ASSUME NEW g, NEW h,
               g = [i \in 1 .. FREQ_FORMULA_VAL |-> IF i = 1 THEN 0 ELSE 1 + h[i \div 2]]
        PROVE  g[1] = 0
    <2>1. 1 \in 1 .. FREQ_FORMULA_VAL
      BY Formula
    <2> QED
      BY <1>1, <2>1
  <1> QED
    BY <1>1, ShiftsEquation, Zenon

\* The rates that write_rtc computes are those of the frequencies it accepts.
LEMMA RateForExact ==
  ASSUME NEW f \in Int, RtcCond(f)
  PROVE  RateFor(f) \in 6 .. 15 /\ FREQ_FORMULA_VAL \div 2^(RateFor(f) - 1) = f
  <1>1. f \in {2, 4, 8, 16, 32, 64, 128, 256, 512, 1024}
    BY DEF RtcCond, Bit, RTC_FREQ_MIN, RTC_FREQ_MAX
  <1> DEFINE S(i) == Shifts[i]
  <1>2. /\ S(32) = 5 /\ S(64) = 6 /\ S(128) = 7 /\ S(256) = 8 /\ S(512) = 9
        /\ S(1024) = 10 /\ S(2048) = 11 /\ S(4096) = 12 /\ S(8192) = 13 /\ S(16384) = 14
    <2>0. S(1) = 0
      BY ShiftsOne
    <2>1. ASSUME NEW m \in 2 .. FREQ_FORMULA_VAL PROVE S(m) = 1 + S(m \div 2)
      BY ShiftsStep
    <2> HIDE DEF S
    <2>2. S(2) = 1
      <3>1. 2 \in 2 .. FREQ_FORMULA_VAL /\ 2 \div 2 = 1
        BY Formula
      <3>2. S(2) = 1 + S(2 \div 2)
        BY <2>1, <3>1
      <3> QED
        BY <2>0, <3>1, <3>2
    <2>3. S(4) = 2
      <3>1. 4 \in 2 .. FREQ_FORMULA_VAL /\ 4 \div 2 = 2
        BY Formula
      <3>2. S(4) = 1 + S(4 \div 2)
        BY <2>1, <3>1
      <3> QED
        BY <2>2, <3>1, <3>2
    <2>4. S(8) = 3
      <3>1. 8 \in 2 .. FREQ_FORMULA_VAL /\ 8 \div 2 = 4
        BY Formula
      <3>2. S(8) = 1 + S(8 \div 2)
        BY <2>1, <3>1
      <3> QED
        BY <2>3, <3>1, <3>2
    <2>5. S(16) = 4
      <3>1. 16 \in 2 .. FREQ_FORMULA_VAL /\ 16 \div 2 = 8
        BY Formula
      <3>2. S(16) = 1 + S(16 \div 2)
        BY <2>1, <3>1
      <3> QED
        BY <2>4, <3>1, <3>2
    <2>6. S(32) = 5
      <3>1. 32 \in 2 .. FREQ_FORMULA_VAL /\ 32 \div 2 = 16
        BY Formula
      <3>2. S(32) = 1 + S(32 \div 2)
        BY <2>1, <3>1
      <3> QED
        BY <2>5, <3>1, <3>2
    <2>7. S(64) = 6
      <3>1. 64 \in 2 .. FREQ_FORMULA_VAL /\ 64 \div 2 = 32
        BY Formula
      <3>2. S(64) = 1 + S(64 \div 2)
        BY <2>1, <3>1
      <3> QED
        BY <2>6, <3>1, <3>2
    <2>8. S(128) = 7
      <3>1. 128 \in 2 .. FREQ_FORMULA_VAL /\ 128 \div 2 = 64
        BY Formula
      <3>2. S(128) = 1 + S(128 \div 2)
        BY <2>1, <3>1
      <3> QED
        BY <2>7, <3>1, <3>2
    <2>9. S(256) = 8
      <3>1. 256 \in 2 .. FREQ_FORMULA_VAL /\ 256 \div 2 = 128
        BY Formula
      <3>2. S(256) = 1 + S(256 \div 2)
        BY <2>1, <3>1
      <3> QED
        BY <2>8, <3>1, <3>2
    <2>10. S(512) = 9
      <3>1. 512 \in 2 .. FREQ_FORMULA_VAL /\ 512 \div 2 = 256
        BY Formula
      <3>2. S(512) = 1 + S(512 \div 2)
        BY <2>1, <3>1
      <3> QED
        BY <2>9, <3>1, <3>2
    <2>11. S(1024) = 10
      <3>1. 1024 \in 2 .. FREQ_FORMULA_VAL /\ 1024 \div 2 = 512
        BY Formula
      <3>2. S(1024) = 1 + S(1024 \div 2)
        BY <2>1, <3>1
      <3> QED
        BY <2>10, <3>1, <3>2
    <2>12. S(2048) = 11
      <3>1. 2048 \in 2 .. FREQ_FORMULA_VAL /\ 2048 \div 2 = 1024
        BY Formula
      <3>2. S(2048) = 1 + S(2048 \div 2)
        BY <2>1, <3>1
      <3> QED
        BY <2>11, <3>1, <3>2
    <2>13. S(4096) = 12
      <3>1. 4096 \in 2 .. FREQ_FORMULA_VAL /\ 4096 \div 2 = 2048
        BY Formula
      <3>2. S(4096) = 1 + S(4096 \div 2)
        BY <2>1, <3>1
      <3> QED
        BY <2>12, <3>1, <3>2
    <2>14. S(8192) = 13
      <3>1. 8192 \in 2 .. FREQ_FORMULA_VAL /\ 8192 \div 2 = 4096
        BY Formula
      <3>2. S(8192) = 1 + S(8192 \div 2)
        BY <2>1, <3>1
      <3> QED
        BY <2>13, <3>1, <3>2
    <2>15. S(16384) = 14
      <3>1. 16384 \in 2 .. FREQ_FORMULA_VAL /\ 16384 \div 2 = 8192
        BY Formula
      <3>2. S(16384) = 1 + S(16384 \div 2)
        BY <2>1, <3>1
      <3> QED
        BY <2>14, <3>1, <3>2
    <2> QED
      BY <2>6, <2>7, <2>8, <2>9, <2>10, <2>11, <2>12, <2>13, <2>14, <2>15
  <1> HIDE DEF S
  <1>3. RateFor(f) = 1 + S(FREQ_FORMULA_VAL \div f)
    BY DEF RateFor, S
  <1>4. CASE f = 2
    <2>1. FREQ_FORMULA_VAL \div f = 16384 /\ FREQ_FORMULA_VAL \div 2^14 = 2
      BY <1>4 DEF FREQ_FORMULA_VAL
    <2>2. RateFor(f) = 15
      BY <1>2, <1>3, <2>1
    <2> QED
      BY <2>1, <2>2, <1>4
  <1>5. CASE f = 4
    <2>1. FREQ_FORMULA_VAL \div f = 8192 /\ FREQ_FORMULA_VAL \div 2^13 = 4
      BY <1>5 DEF FREQ_FORMULA_VAL
    <2>2. RateFor(f) = 14
      BY <1>2, <1>3, <2>1
    <2> QED
      BY <2>1, <2>2, <1>5
  <1>6. CASE f = 8
    <2>1. FREQ_FORMULA_VAL \div f = 4096 /\ FREQ_FORMULA_VAL \div 2^12 = 8
      BY <1>6 DEF FREQ_FORMULA_VAL
    <2>2. RateFor(f) = 13
      BY <1>2, <1>3, <2>1
    <2> QED
      BY <2>1, <2>2, <1>6
  <1>7. CASE f = 16
    <2>1. FREQ_FORMULA_VAL \div f = 2048 /\ FREQ_FORMULA_VAL \div 2^11 = 16
      BY <1>7 DEF FREQ_FORMULA_VAL
    <2>2. RateFor(f) = 12
      BY <1>2, <1>3, <2>1
    <2> QED
      BY <2>1, <2>2, <1>7
  <1>8. CASE f = 32
    <2>1. FREQ_FORMULA_VAL \div f = 1024 /\ FREQ_FORMULA_VAL \div 2^10 = 32
      BY <1>8 DEF FREQ_FORMULA_VAL
    <2>2. RateFor(f) = 11
      BY <1>2, <1>3, <2>1
    <2> QED
      BY <2>1, <2>2, <1>8
  <1>9. CASE f = 64
    <2>1. FREQ_FORMULA_VAL \div f = 512 /\ FREQ_FORMULA_VAL \div 2^9 = 64
      BY <1>9 DEF FREQ_FORMULA_VAL
    <2>2. RateFor(f) = 10
      BY <1>2, <1>3, <2>1
    <2> QED
      BY <2>1, <2>2, <1>9
  <1>10. CASE f = 128
    <2>1. FREQ_FORMULA_VAL \div f = 256 /\ FREQ_FORMULA_VAL \div 2^8 = 128
      BY <1>10 DEF FREQ_FORMULA_VAL
    <2>2. RateFor(f) = 9
      BY <1>2, <1>3, <2>1
    <2> QED
      BY <2>1, <2>2, <1>10
  <1>11. CASE f = 256
    <2>1. FREQ_FORMULA_VAL \div f = 128 /\ FREQ_FORMULA_VAL \div 2^7 = 256
      BY <1>11 DEF FREQ_FORMULA_VAL
    <2>2. RateFor(f) = 8
      BY <1>2, <1>3, <2>1
    <2> QED
      BY <2>1, <2>2, <1>11
  <1>12. CASE f = 512
    <2>1. FREQ_FORMULA_VAL \div f = 64 /\ FREQ_FORMULA_VAL \div 2^6 = 512
      BY <1>12 DEF FREQ_FORMULA_VAL
    <2>2. RateFor(f) = 7
      BY <1>2, <1>3, <2>1
    <2> QED
      BY <2>1, <2>2, <1>12
  <1>13. CASE f = 1024
    <2>1. FREQ_FORMULA_VAL \div f = 32 /\ FREQ_FORMULA_VAL \div 2^5 = 1024
      BY <1>13 DEF FREQ_FORMULA_VAL
    <2>2. RateFor(f) = 6
      BY <1>2, <1>3, <2>1
    <2> QED
      BY <2>1, <2>2, <1>13
  <1> QED
    BY <1>1, <1>4, <1>5, <1>6, <1>7, <1>8, <1>9, <1>10, <1>11, <1>12, <1>13

-----------------------------------------------------------------------------
LEMMA TypeInit == Init => TypeOK
  <1> SUFFICES ASSUME Init PROVE TypeOK
    OBVIOUS
  <1>1. 0 \in Terminal
    BY TerminalsAssumption DEF Terminal
  <1>2. wanted \in RTC_FREQ_MIN .. RTC_FREQ_MAX /\ rate \in 6 .. 15
    BY DEF Init, DESIRED_PIE_RATE, RTC_FREQ_MIN, RTC_FREQ_MAX
  <1> QED
    BY <1>1, <1>2 DEF Init, TypeOK

LEMMA TypeStep == TypeOK /\ [Next]_vars => TypeOK'
  <1> SUFFICES ASSUME TypeOK, [Next]_vars PROVE TypeOK'
    OBVIOUS
  <1> USE DEF TypeOK, chipVars, schedVars
  <1>1. ASSUME NEW t \in Terminal, Open(t) PROVE TypeOK'
    BY <1>1 DEF Open, DESIRED_PIE_RATE
  <1>2. ASSUME NEW t \in Terminal, Close(t) PROVE TypeOK'
    BY <1>2 DEF Close
  <1>3. ASSUME NEW t \in Terminal, ReadStart(t) PROVE TypeOK'
    BY <1>3 DEF ReadStart
  <1>4. ASSUME NEW t \in Terminal, ReadReturn(t) PROVE TypeOK'
    BY <1>4 DEF ReadReturn
  <1>5. ASSUME NEW t \in Terminal, NEW f \in Freq, Write(t, f) PROVE TypeOK'
    <2>1. f \in RTC_FREQ_MIN .. RTC_FREQ_MAX
      BY <1>5, FreqAssumption DEF Write, RtcCond, RTC_FREQ_MIN, RTC_FREQ_MAX
    <2>2. RateFor(f) \in 6 .. 15
      BY <1>5, FreqAssumption, RateForExact DEF Write
    <2> QED
      BY <1>5, <2>1, <2>2 DEF Write
  <1>6. CASE Interrupt
    BY <1>6 DEF Interrupt, Seen
  <1>7. CASE IrqSelect
    BY <1>7 DEF IrqSelect
  <1>8. CASE IrqRead
    BY <1>8 DEF IrqRead
  <1>9. CASE IrqClear
    BY <1>9 DEF IrqClear, Seen
  <1>10. CASE IrqEoi
    BY <1>10 DEF IrqEoi
  <1>11. ASSUME NEW t \in Terminal, Switch(t) PROVE TypeOK'
    BY <1>11 DEF Switch
  <1>12. ASSUME NEW t \in Terminal, Launch(t) PROVE TypeOK'
    BY <1>12 DEF Launch
  <1>13. CASE UNCHANGED vars
    BY <1>13 DEF vars
  <1> QED
    BY <1>1, <1>2, <1>3, <1>4, <1>5, <1>6, <1>7, <1>8, <1>9, <1>10, <1>11, <1>12, <1>13
    DEF Next, Handler

LEMMA TypeAlways == Spec => []TypeOK
  BY TypeInit, TypeStep, PTL DEF Spec

-----------------------------------------------------------------------------
(***************************************************************************)
(* The rate.  A frequency has been asked for only by a process that had    *)
(* opened the RTC, so the one open that programs the chip finds it at 2 Hz. *)
(***************************************************************************)
RateInv ==
    /\ RateAsRequested
    /\ opened # {} => been_inited = 1
    /\ been_inited = 0 => wanted = RTC_FREQ_MIN

\* The chip always runs at the frequency that was last asked for: what write_rtc
\* computes for every frequency it accepts is the rate of that frequency, and no
\* later open, close or read undoes it.
THEOREM RateIsTheOneAskedFor == Spec => []RateAsRequested
  <1>1. Init => RateInv
    BY DEF Init, RateInv, RateAsRequested, RTC_FREQ_MIN, DESIRED_PIE_RATE, FREQ_FORMULA_VAL
  <1>2. TypeOK /\ RateInv /\ [Next]_vars => RateInv'
    <2> SUFFICES ASSUME TypeOK, RateInv, [Next]_vars PROVE RateInv'
      OBVIOUS
    <2>1. ASSUME NEW t \in Terminal, Open(t) PROVE RateInv'
      <3>1. FREQ_FORMULA_VAL \div 2^(DESIRED_PIE_RATE - 1) = RTC_FREQ_MIN
        BY DEF FREQ_FORMULA_VAL, DESIRED_PIE_RATE, RTC_FREQ_MIN
      <3>2. RateAsRequested'
        BY <2>1, <3>1 DEF Open, RateInv, RateAsRequested, TypeOK
      <3> QED
        BY <2>1, <3>2 DEF Open, RateInv
    <2>2. ASSUME NEW t \in Terminal, NEW f \in Freq, Write(t, f) PROVE RateInv'
      <3>1. RateAsRequested'
        BY <2>2, FreqAssumption, RateForExact DEF Write, RateAsRequested
      <3> QED
        BY <2>2, <3>1 DEF Write, RateInv
    <2>3. ASSUME UNCHANGED <<rate, wanted, been_inited>>, opened' = {} \/ opened # {}
          PROVE  RateInv'
      BY <2>3 DEF RateInv, RateAsRequested
    <2>4. ASSUME NEW t \in Terminal, Close(t) PROVE RateInv'
      BY <2>3, <2>4 DEF Close, chipVars
    <2>5. ASSUME NEW t \in Terminal, ReadStart(t) \/ ReadReturn(t) PROVE RateInv'
      BY <2>3, <2>5 DEF ReadStart, ReadReturn, chipVars
    <2>6. CASE Interrupt \/ Handler
      BY <2>3, <2>6 DEF Interrupt, Handler, IrqSelect, IrqRead, IrqClear, IrqEoi, chipVars
    <2>7. ASSUME NEW t \in Terminal, Switch(t) \/ Launch(t) PROVE RateInv'
      BY <2>3, <2>7 DEF Switch, Launch, chipVars
    <2>8. CASE UNCHANGED vars
      BY <2>3, <2>8 DEF vars
    <2> QED
      BY <2>1, <2>2, <2>4, <2>5, <2>6, <2>7, <2>8 DEF Next
  <1>3. RateInv => RateAsRequested
    BY DEF RateInv
  <1> QED
    BY <1>1, <1>2, <1>3, TypeAlways, PTL DEF Spec

-----------------------------------------------------------------------------
(***************************************************************************)
(* The interrupt.  As long as no terminal is launched inside the handler,  *)
(* the handler that runs is the only one there is, so that nobody selects  *)
(* another register or begins a read between its steps.                    *)
(***************************************************************************)
InHandler == irq[cpu] \in {"entered", "selected", "read"}

HandlerInv ==
    /\ \A t \in Terminal : irq[t] # "none" => t = cpu
    /\ irq[cpu] = "selected" => creg = "C"
    /\ pending => irq[cpu] \in {"entered", "selected"}
    /\ InHandler => \A t \in Readers : seen[t] # "nothing"
    /\ ReadSawInterrupt

LEMMA HandlerInit == Init => HandlerInv
  <1> SUFFICES ASSUME Init PROVE HandlerInv
    OBVIOUS
  <1>1. 0 \in Terminal
    BY TerminalsAssumption DEF Terminal
  <1> QED
    BY <1>1 DEF Init, HandlerInv, InHandler, ReadSawInterrupt, Readers

LEMMA HandlerStep ==
  ASSUME ~LaunchInIrq
  PROVE  TypeOK /\ HandlerInv /\ [Next]_vars => HandlerInv'
  <1> SUFFICES ASSUME TypeOK, HandlerInv, [Next]_vars PROVE HandlerInv'
    OBVIOUS
  <1>0. cpu \in Terminal
    BY DEF TypeOK
  <1> USE DEF HandlerInv, InHandler, ReadSawInterrupt, Readers, TypeOK, chipVars, schedVars
  <1>1. ASSUME NEW t \in Terminal, Open(t) PROVE HandlerInv'
    BY <1>0, <1>1 DEF Open, Running
  <1>2. ASSUME NEW t \in Terminal, Close(t) PROVE HandlerInv'
    BY <1>0, <1>2 DEF Close, Running
  <1>3. ASSUME NEW t \in Terminal, ReadStart(t) PROVE HandlerInv'
    BY <1>0, <1>3 DEF ReadStart, Running
  <1>4. ASSUME NEW t \in Terminal, ReadReturn(t) PROVE HandlerInv'
    BY <1>0, <1>4 DEF ReadReturn, Running
  <1>5. ASSUME NEW t \in Terminal, NEW f \in Freq, Write(t, f) PROVE HandlerInv'
    BY <1>0, <1>5 DEF Write, Running
  <1>6. CASE Interrupt
    BY <1>0, <1>6 DEF Interrupt, Seen
  <1>7. CASE IrqSelect
    BY <1>0, <1>7 DEF IrqSelect
  <1>8. CASE IrqRead
    BY <1>0, <1>8 DEF IrqRead
  <1>9. CASE IrqClear
    BY <1>0, <1>9 DEF IrqClear, Seen
  <1>10. CASE IrqEoi
    BY <1>0, <1>10 DEF IrqEoi
  <1>11. ASSUME NEW t \in Terminal, Switch(t) PROVE HandlerInv'
    BY <1>0, <1>11 DEF Switch
  <1>12. ASSUME NEW t \in Terminal, Launch(t) PROVE HandlerInv'
    BY <1>0, <1>12 DEF Launch
  <1>13. CASE UNCHANGED vars
    BY <1>13 DEF vars
  <1> QED
    BY <1>1, <1>2, <1>3, <1>4, <1>5, <1>6, <1>7, <1>8, <1>9, <1>10, <1>11, <1>12, <1>13
    DEF Next, Handler

LEMMA HandlerAlways == ASSUME ~LaunchInIrq PROVE Spec => [](TypeOK /\ HandlerInv)
  BY TypeInit, TypeStep, HandlerInit, HandlerStep, PTL DEF Spec

\* However many processes share rtc_flag, a read whose loop would end now has seen
\* an interrupt begin and its handler clear the flag since the read began.
THEOREM ReadWaitsForInterrupt == ASSUME ~LaunchInIrq PROVE Spec => []ReadSawInterrupt
  <1>1. HandlerInv => ReadSawInterrupt
    BY DEF HandlerInv
  <1> QED
    BY <1>1, HandlerAlways, PTL

\* The chip is never left with its interrupt flag set and nobody to read register
\* C: open_rtc and write_rtc cannot come between the handler's select and its read.
THEOREM ChipNeverSilent == ASSUME ~LaunchInIrq PROVE Spec => []NextInterruptComes
  <1>1. TypeOK /\ HandlerInv => NextInterruptComes
    BY DEF TypeOK, HandlerInv, NextInterruptComes
  <1> QED
    BY <1>1, HandlerAlways, PTL

\* A set flag always has a read behind it whose interrupt is still to come, for any
\* number of readers and with or without terminals launched in the handler: what
\* can keep a read waiting after its own interrupt is only a read begun later.
THEOREM FlagAwaited == Spec => []ArmedFlagAwaited
  <1>1. Init => ArmedFlagAwaited
    BY DEF Init, ArmedFlagAwaited
  <1>2. TypeOK /\ ArmedFlagAwaited /\ [Next]_vars => ArmedFlagAwaited'
    <2> SUFFICES ASSUME TypeOK, ArmedFlagAwaited, [Next]_vars PROVE ArmedFlagAwaited'
      OBVIOUS
    <2> USE DEF ArmedFlagAwaited, Readers, TypeOK
    <2>1. ASSUME NEW t \in Terminal, ReadStart(t) PROVE ArmedFlagAwaited'
      BY <2>1 DEF ReadStart
    <2>2. ASSUME NEW t \in Terminal, ReadReturn(t) PROVE ArmedFlagAwaited'
      BY <2>2 DEF ReadReturn
    <2>3. CASE Interrupt
      BY <2>3 DEF Interrupt, Seen
    <2>4. CASE IrqClear
      BY <2>4 DEF IrqClear
    <2>5. ASSUME UNCHANGED <<rtc_flag, reader, seen>> PROVE ArmedFlagAwaited'
      BY <2>5
    <2>6. ASSUME NEW t \in Terminal, Open(t) \/ Close(t) \/ Switch(t) \/ Launch(t)
          PROVE  ArmedFlagAwaited'
      BY <2>5, <2>6 DEF Open, Close, Switch, Launch
    <2>7. ASSUME NEW t \in Terminal, NEW f \in Freq, Write(t, f) PROVE ArmedFlagAwaited'
      BY <2>5, <2>7 DEF Write
    <2>8. CASE IrqSelect \/ IrqRead \/ IrqEoi
      BY <2>5, <2>8 DEF IrqSelect, IrqRead, IrqEoi
    <2>9. CASE UNCHANGED vars
      BY <2>5, <2>9 DEF vars
    <2> QED
      BY <2>1, <2>2, <2>3, <2>4, <2>6, <2>7, <2>8, <2>9 DEF Next, Handler
  <1> QED
    BY <1>1, <1>2, TypeAlways, PTL DEF Spec
=============================================================================
