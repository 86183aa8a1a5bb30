-------------------------- MODULE InterruptsProofs --------------------------
(***************************************************************************)
(* Theorems about Interrupts, for every number of terminals and every      *)
(* depth of nesting.                                                       *)
(***************************************************************************)
EXTENDS Interrupts, Integers, TLAPS

OwingStep == {"entered", "open", "closed"}
Nested == {"open", "done", "left"}

\* The i-th handler on a stack s is one of line n that owes its EOI.
Owes(s, i, n) == i \in 1 .. Len(s) /\ s[i].line = n /\ s[i].step \in OwingStep

\* Only the RTC's handler may owe an EOI.
OnlyRtcOwes(f) == f.line = RTC_LINE_NO \/ f.step \in {"done", "left"}

\* The stack of the process that has the CPU, with interrupts on or off: what runs is
\* the timer's handler, the keyboard's with interrupts off, or a handler with
\* interrupts on; below are handlers that let others in.
Active(s, on) ==
    /\ Len(s) <= MAX_DEPTH
    /\ \A i \in 2 .. Len(s) : s[i].line # TIMER_CHIP_LINE_NO /\ s[i].step \in Nested
    /\ s # << >> =>
        \/ s[1].line = TIMER_CHIP_LINE_NO /\ s[1].step = "entered"
        \/ s[1].line # TIMER_CHIP_LINE_NO /\ s[1].step \in Nested
        \/ s[1].line = KEYBOARD_LINE_NO /\ s[1].step = "closed"
        \/ /\ s[1].line = KEYBOARD_LINE_NO /\ s[1].step = "late"
           /\ \A i \in 2 .. Len(s) : OnlyRtcOwes(s[i])
    /\ on <=> s = << >> \/ s[1].step \in Nested

\* The stack of a process that waits for the timer's switch.
Suspended(s) ==
    /\ s # << >>
    /\ Len(s) <= MAX_DEPTH
    /\ \A i \in 2 .. Len(s) : s[i].line # TIMER_CHIP_LINE_NO /\ s[i].step \in Nested
    /\ \/ /\ s[1].line = KEYBOARD_LINE_NO /\ s[1].step = "launched"
          /\ \A i \in 2 .. Len(s) : OnlyRtcOwes(s[i])
       \/ /\ s[1].line = TIMER_CHIP_LINE_NO /\ s[1].step = "done"
          /\ \A i \in 2 .. Len(s) : s[i].step = "left"

Shape ==
    /\ \A t \in Terminal \ launched : stack[t] = << >>
    /\ Active(stack[cpu], IF_flag)
    /\ \A t \in launched \ {cpu} : Suspended(stack[t])

\* The lines in service, and the stacks st that answer for a set S of lines.
InService(is, n) == IF n = RTC_LINE_NO THEN 0 \in is.slave ELSE n \in is.master
Served(is) == {n \in Unmasked : InService(is, n)}

PicOK(is) ==
    /\ is \in [master : SUBSET {TIMER_CHIP_LINE_NO, KEYBOARD_LINE_NO, SLAVE_IRQ},
               slave : SUBSET {0}]
    /\ SLAVE_IRQ \in is.master <=> 0 \in is.slave

Accounted(st, S) ==
    /\ \A t, u \in Terminal : \A i, j \in Nat : \A n \in Unmasked :
        Owes(st[t], i, n) /\ Owes(st[u], j, n) => t = u /\ i = j
    /\ \A n \in Unmasked : n \in S <=> \E t \in Terminal : \E i \in Nat : Owes(st[t], i, n)

InterruptsInv ==
    /\ TypeOK
    /\ Shape
    /\ PicOK(isr)
    /\ Accounted(stack, Served(isr))

-----------------------------------------------------------------------------
(***************************************************************************)
(* The controllers.                                                        *)
(***************************************************************************)
LEMMA Lines == Unmasked = {TIMER_CHIP_LINE_NO, KEYBOARD_LINE_NO, RTC_LINE_NO}
  BY DEF Unmasked, Mask, enable_irq, DEFAULT_MASK, Line, NUM_INTERRUPTS_PER_PIC, SLAVE_IRQ,
         TIMER_CHIP_LINE_NO, KEYBOARD_LINE_NO, RTC_LINE_NO

\* An EOI ends the service of its own line and of no other.
LEMMA EoiExact ==
  ASSUME PicOK(isr), NEW n \in Unmasked
  PROVE  PicOK(send_eoi(n)) /\ Served(send_eoi(n)) = Served(isr) \ {n}
  <1> USE Lines DEF TIMER_CHIP_LINE_NO, KEYBOARD_LINE_NO, RTC_LINE_NO, SLAVE_IRQ,
                    NUM_INTERRUPTS_PER_PIC
  <1>1. CASE n = 8
    <2>1. send_eoi(n) = [master |-> isr.master \ {2}, slave |-> isr.slave \ {0}]
      BY <1>1 DEF send_eoi
    <2> QED
      BY <1>1, <2>1 DEF PicOK, Served, InService
  <1>2. CASE n \in {0, 1}
    <2>1. send_eoi(n) = [master |-> isr.master \ {n}, slave |-> isr.slave]
      BY <1>2 DEF send_eoi, PicOK
    <2> QED
      BY <1>2, <2>1 DEF PicOK, Served, InService
  <1> QED
    BY <1>1, <1>2

LEMMA PicTypes ==
  ASSUME NEW is, PicOK(is)
  PROVE  is \in [master : SUBSET Level, slave : SUBSET Level]
  BY DEF PicOK, Level, NUM_INTERRUPTS_PER_PIC, TIMER_CHIP_LINE_NO, KEYBOARD_LINE_NO, SLAVE_IRQ

LEMMA AcknowledgedExact ==
  ASSUME PicOK(isr), NEW n \in Unmasked
  PROVE  PicOK(Acknowledged(n)) /\ Served(Acknowledged(n)) = Served(isr) \cup {n}
  <1> USE Lines DEF TIMER_CHIP_LINE_NO, KEYBOARD_LINE_NO, RTC_LINE_NO, SLAVE_IRQ,
                    NUM_INTERRUPTS_PER_PIC
  <1>1. CASE n = 8
    <2>1. Acknowledged(n) = [master |-> isr.master \cup {2}, slave |-> isr.slave \cup {0}]
      BY <1>1 DEF Acknowledged
    <2> QED
      BY <1>1, <2>1 DEF PicOK, Served, InService
  <1>2. CASE n \in {0, 1}
    <2>1. Acknowledged(n) = [master |-> isr.master \cup {n}, slave |-> isr.slave]
      BY <1>2 DEF Acknowledged, PicOK
    <2> QED
      BY <1>2, <2>1 DEF PicOK, Served, InService
  <1> QED
    BY <1>1, <1>2

\* A line that is in service lets no request of its own pass.
LEMMA PassesNotServed ==
  ASSUME PicOK(isr), NEW n \in Unmasked, Passes(n)
  PROVE  n \notin Served(isr)
  BY Lines DEF PicOK, Passes, Served, InService, TIMER_CHIP_LINE_NO, KEYBOARD_LINE_NO,
               RTC_LINE_NO, SLAVE_IRQ, NUM_INTERRUPTS_PER_PIC

-----------------------------------------------------------------------------
(***************************************************************************)
(* Stacks.                                                                 *)
(***************************************************************************)
Stacks == [Terminal -> Seq(Frame)]
Push(f, s) == <<f>> \o s
StepTop(s, step) == <<[Head(s) EXCEPT !.step = step]>> \o Tail(s)

\* r is s with f on top, or with another step on top.
IsPush(f, s, r) ==
    /\ r \in Seq(Frame) /\ Len(r) = Len(s) + 1 /\ r[1] = f /\ Len(s) \in Nat
    /\ \A i \in 2 .. Len(r) : r[i] = s[i - 1]

IsStep(s, step, r) ==
    /\ r \in Seq(Frame) /\ Len(r) = Len(s) /\ Len(s) \in Nat \ {0} /\ r # << >>
    /\ r[1].line = s[1].line /\ r[1].step = step
    /\ \A i \in 2 .. Len(s) : r[i] = s[i]
    /\ Tail(r) = Tail(s)

\* What pushing, popping and stepping do to a stack.
LEMMA PushedStack ==
  ASSUME NEW s \in Seq(Frame), NEW f \in Frame, NEW r, r = Push(f, s)
  PROVE  IsPush(f, s, r)
  BY DEF Push, IsPush

LEMMA TailOfPush ==
  ASSUME NEW s \in Seq(Frame), NEW f \in Frame, NEW r, r = Push(f, s)
  PROVE  Tail(r) = s
  BY DEF Push

LEMMA PoppedStack ==
  ASSUME NEW s \in Seq(Frame), s # << >>, NEW r, r = Tail(s)
  PROVE  /\ r \in Seq(Frame) /\ Len(r) = Len(s) - 1 /\ Len(s) \in Nat \ {0}
         /\ \A i \in 1 .. Len(r) : r[i] = s[i + 1]
  OBVIOUS

LEMMA SteppedStack ==
  ASSUME NEW s \in Seq(Frame), s # << >>, NEW step \in Step,
         NEW r, r = StepTop(s, step)
  PROVE  IsStep(s, step, r)
  <1>1. s[1] \in Frame /\ Head(s) = s[1]
    OBVIOUS
  <1> DEFINE f == [Head(s) EXCEPT !.step = step]
  <1>2. f \in Frame /\ f.line = s[1].line /\ f.step = step
    BY <1>1 DEF Frame
  <1> HIDE DEF f
  <1>3. Tail(s) \in Seq(Frame) /\ Len(Tail(s)) = Len(s) - 1 /\ Len(s) \in Nat \ {0}
        /\ \A i \in 1 .. Len(Tail(s)) : Tail(s)[i] = s[i + 1]
    BY PoppedStack
  <1>4. PICK q : q = Tail(s)
    OBVIOUS
  <1>5. r = Push(f, q) /\ q \in Seq(Frame)
    BY <1>3, <1>4 DEF f, Push, StepTop
  <1>6. /\ r \in Seq(Frame) /\ Len(r) = Len(q) + 1 /\ r[1] = f
        /\ \A i \in 2 .. Len(r) : r[i] = q[i - 1]
    <2>1. IsPush(f, q, r)
      BY <1>2, <1>5, PushedStack
    <2> QED
      BY <2>1 DEF IsPush
  <1>6a. Tail(r) = q
    BY <1>2, <1>5, TailOfPush
  <1>7. \A i \in 2 .. Len(s) : r[i] = s[i]
    BY <1>3, <1>4, <1>6
  <1>8. Len(r) = Len(s) /\ r # << >>
    BY <1>3, <1>4, <1>6
  <1> QED
    BY <1>2, <1>3, <1>4, <1>6, <1>6a, <1>7, <1>8 DEF IsStep

\* A new handler owes its EOI.
LEMMA PushAccounted ==
  ASSUME NEW st \in Stacks, NEW S, NEW c \in Terminal, NEW f \in Frame,
         f.step \in OwingStep, f.line \notin S, Accounted(st, S),
         NEW r, r = Push(f, st[c]),
         NEW st1, st1 = [st EXCEPT ![c] = r]
  PROVE  Accounted(st1, S \cup {f.line}) /\ st1 \in Stacks
  <1>1. /\ r \in Seq(Frame) /\ Len(r) = Len(st[c]) + 1 /\ r[1] = f /\ Len(st[c]) \in Nat
        /\ \A i \in 2 .. Len(r) : r[i] = st[c][i - 1]
    <2>1. st[c] \in Seq(Frame)
      BY DEF Stacks
    <2>2. IsPush(f, st[c], r)
      BY <2>1, PushedStack
    <2> QED
      BY <2>2 DEF IsPush
  <1>2. ASSUME NEW t \in Terminal, NEW i \in Nat, NEW n
        PROVE  Owes(st1[t], i, n) <=>
                 \/ t = c /\ i = 1 /\ n = f.line
                 \/ t = c /\ i > 1 /\ Owes(st[c], i - 1, n)
                 \/ t # c /\ Owes(st[t], i, n)
    <2>1. CASE t = c
      <3>1. st1[t] = r
        BY <2>1 DEF Stacks
      <3>2. CASE i = 1
        BY <1>1, <2>1, <3>1, <3>2 DEF Owes
      <3>3. CASE i # 1
        <4>1. i \in 1 .. Len(r) <=> i > 1 /\ i - 1 \in 1 .. Len(st[c])
          BY <1>1, <3>3
        <4>2. i \in 1 .. Len(r) => r[i] = st[c][i - 1]
          BY <1>1, <3>3
        <4> QED
          BY <2>1, <3>1, <3>3, <4>1, <4>2 DEF Owes
      <3> QED
        BY <3>2, <3>3
    <2>2. CASE t # c
      BY <2>2 DEF Stacks
    <2> QED
      BY <2>1, <2>2
  <1>3. ASSUME NEW t \in Terminal, NEW i \in Nat PROVE ~Owes(st[t], i, f.line)
    BY DEF Accounted, Frame
  <1>4. ASSUME NEW t \in Terminal, NEW u \in Terminal, NEW i \in Nat, NEW j \in Nat,
               NEW n \in Unmasked, Owes(st1[t], i, n), Owes(st1[u], j, n)
        PROVE  t = u /\ i = j
    <2>1. CASE n = f.line
      <3>1. ASSUME NEW x \in Nat, x > 1 PROVE ~Owes(st[c], x - 1, n)
        <4>1. x - 1 \in Nat
          BY <3>1
        <4> QED
          BY <1>3, <2>1, <4>1
      <3> QED
        BY <1>2, <1>3, <1>4, <2>1, <3>1
    <2>2. CASE n # f.line
      <3>0. ASSUME NEW v \in Terminal, NEW x \in Nat, Owes(st1[v], x, n)
            PROVE  \E y \in Nat : Owes(st[v], y, n) /\ x = IF v = c THEN y + 1 ELSE y
        <4>1. CASE v = c
          <5>1. x > 1 /\ Owes(st[c], x - 1, n)
            BY <1>2, <2>2, <3>0, <4>1
          <5>2. x - 1 \in Nat /\ x = (x - 1) + 1
            BY <5>1
          <5> QED
            BY <4>1, <5>1, <5>2
        <4>2. CASE v # c
          BY <1>2, <3>0, <4>2
        <4> QED
          BY <4>1, <4>2
      <3>1. PICK i1 \in Nat : Owes(st[t], i1, n) /\ i = IF t = c THEN i1 + 1 ELSE i1
        BY <1>4, <3>0
      <3>2. PICK j1 \in Nat : Owes(st[u], j1, n) /\ j = IF u = c THEN j1 + 1 ELSE j1
        BY <1>4, <3>0
      <3>3. t = u /\ i1 = j1
        BY <3>1, <3>2 DEF Accounted
      <3> QED
        BY <3>1, <3>2, <3>3
    <2> QED
      BY <2>1, <2>2
  <1>5. ASSUME NEW n \in Unmasked
        PROVE  n \in S \cup {f.line} <=> \E t \in Terminal : \E i \in Nat : Owes(st1[t], i, n)
    <2>1. CASE n = f.line
      <3>1. Owes(st1[c], 1, n) /\ 1 \in Nat
        BY <1>2, <2>1
      <3> QED
        BY <2>1, <3>1
    <2>2. CASE n # f.line
      <3>1. ASSUME n \in S PROVE \E t \in Terminal : \E i \in Nat : Owes(st1[t], i, n)
        <4>1. PICK t \in Terminal, i \in Nat : Owes(st[t], i, n)
          BY <3>1 DEF Accounted
        <4>2. CASE t = c
          <5>1. i \in 1 .. Len(st[c]) /\ i + 1 \in Nat /\ i + 1 > 1 /\ (i + 1) - 1 = i
            BY <4>1, <4>2 DEF Owes
          <5>2. Owes(st1[t], i + 1, n)
            BY <1>2, <4>1, <4>2, <5>1
          <5> QED
            BY <5>1, <5>2
        <4>3. CASE t # c
          BY <1>2, <4>1, <4>3
        <4> QED
          BY <4>2, <4>3
      <3>2. ASSUME NEW t \in Terminal, NEW i \in Nat, Owes(st1[t], i, n) PROVE n \in S
        <4>1. CASE t = c
          <5>1. i > 1 /\ Owes(st[c], i - 1, n)
            BY <1>2, <2>2, <3>2, <4>1
          <5>2. i - 1 \in Nat
            BY <5>1
          <5> QED
            BY <5>1, <5>2 DEF Accounted
        <4>2. CASE t # c
          BY <1>2, <2>2, <3>2, <4>2 DEF Accounted
        <4> QED
          BY <4>1, <4>2
      <3> QED
        BY <2>2, <3>1, <3>2
    <2> QED
      BY <2>1, <2>2
  <1>6. st1 \in Stacks
    BY <1>1 DEF Stacks
  <1> QED
    BY <1>4, <1>5, <1>6 DEF Accounted

\* A handler that owes nothing goes.
LEMMA PopAccounted ==
  ASSUME NEW st \in Stacks, NEW S, NEW c \in Terminal, Accounted(st, S),
         st[c] # << >>, st[c][1].step \notin OwingStep,
         NEW st1, st1 = [st EXCEPT ![c] = Tail(@)]
  PROVE  Accounted(st1, S) /\ st1 \in Stacks
  <1>0. PICK r : r = Tail(st[c])
    OBVIOUS
  <1>1. /\ r \in Seq(Frame) /\ Len(r) = Len(st[c]) - 1 /\ Len(st[c]) \in Nat \ {0}
        /\ \A i \in 1 .. Len(r) : r[i] = st[c][i + 1]
    BY <1>0, PoppedStack DEF Stacks
  <1>2. st1[c] = r /\ st1 \in Stacks /\ \A t \in Terminal \ {c} : st1[t] = st[t]
    BY <1>0, <1>1 DEF Stacks
  <1>3. ASSUME NEW i \in Nat, NEW n
        PROVE  Owes(st1[c], i, n) <=> i >= 1 /\ Owes(st[c], i + 1, n)
    <2>1. i \in 1 .. Len(r) <=> i >= 1 /\ i + 1 \in 1 .. Len(st[c])
      BY <1>1
    <2> QED
      BY <1>1, <1>2, <2>1 DEF Owes
  <1>4. ASSUME NEW i \in Nat, NEW n, Owes(st[c], i, n)
        PROVE  i - 1 \in Nat /\ Owes(st1[c], i - 1, n)
    <2>1. i # 1 /\ i \in 1 .. Len(st[c])
      BY <1>4 DEF Owes
    <2>2. i - 1 \in Nat /\ i - 1 >= 1 /\ (i - 1) + 1 = i
      BY <1>1, <2>1
    <2> QED
      BY <1>3, <1>4, <2>2
  <1>5. ASSUME NEW t \in Terminal, NEW u \in Terminal, NEW i \in Nat, NEW j \in Nat,
               NEW n \in Unmasked, Owes(st1[t], i, n), Owes(st1[u], j, n)
        PROVE  t = u /\ i = j
    <2>1. PICK i1 \in Nat : Owes(st[t], i1, n) /\ i1 = IF t = c THEN i + 1 ELSE i
      BY <1>2, <1>3, <1>5
    <2>2. PICK j1 \in Nat : Owes(st[u], j1, n) /\ j1 = IF u = c THEN j + 1 ELSE j
      BY <1>2, <1>3, <1>5
    <2>3. t = u /\ i1 = j1
      BY <2>1, <2>2 DEF Accounted
    <2> QED
      BY <2>1, <2>2, <2>3
  <1>6. ASSUME NEW n \in Unmasked
        PROVE  n \in S <=> \E t \in Terminal : \E i \in Nat : Owes(st1[t], i, n)
    <2>1. ASSUME n \in S PROVE \E t \in Terminal : \E i \in Nat : Owes(st1[t], i, n)
      <3>1. PICK t \in Terminal, i \in Nat : Owes(st[t], i, n)
        BY <2>1 DEF Accounted
      <3> QED
        BY <1>2, <1>4, <3>1
    <2>2. ASSUME NEW t \in Terminal, NEW i \in Nat, Owes(st1[t], i, n) PROVE n \in S
      <3>1. \E i1 \in Nat : Owes(st[t], i1, n)
        BY <1>2, <1>3, <2>2
      <3> QED
        BY <3>1 DEF Accounted
    <2> QED
      BY <2>1, <2>2
  <1> QED
    BY <1>2, <1>5, <1>6 DEF Accounted

\* The step of a handler changes: it owes its EOI as before, or has sent it.
LEMMA StepAccounted ==
  ASSUME NEW st \in Stacks, NEW S \in SUBSET Unmasked, NEW c \in Terminal, Accounted(st, S),
         st[c] # << >>, NEW step \in Step,
         NEW st1, st1 = [st EXCEPT ![c] = StepTop(@, step)]
  PROVE  /\ st1 \in Stacks
         /\ (step \in OwingStep <=> st[c][1].step \in OwingStep) => Accounted(st1, S)
         /\ step \notin OwingStep /\ st[c][1].step \in OwingStep
              => Accounted(st1, S \ {st[c][1].line})
  <1>0. PICK r : r = StepTop(st[c], step)
    OBVIOUS
  <1>1. /\ r \in Seq(Frame) /\ Len(r) = Len(st[c]) /\ Len(st[c]) \in Nat \ {0}
        /\ r[1].line = st[c][1].line /\ r[1].step = step
        /\ \A i \in 2 .. Len(st[c]) : r[i] = st[c][i]
    <2>1. st[c] \in Seq(Frame)
      BY DEF Stacks
    <2>2. IsStep(st[c], step, r)
      BY <1>0, <2>1, SteppedStack
    <2> QED
      BY <2>2 DEF IsStep
  <1>2. st1[c] = r /\ st1 \in Stacks /\ \A t \in Terminal \ {c} : st1[t] = st[t]
    BY <1>0, <1>1 DEF Stacks
  <1>3. st[c][1].line \in Unmasked
    <2>1. st[c][1] \in Frame
      BY <1>1 DEF Stacks
    <2> QED
      BY <2>1 DEF Frame
  <1>4. ASSUME NEW i \in Nat, i # 1, NEW n PROVE Owes(st1[c], i, n) <=> Owes(st[c], i, n)
    <2>1. i \in 1 .. Len(r) => i \in 2 .. Len(st[c])
      BY <1>1, <1>4
    <2> QED
      BY <1>1, <1>2, <2>1 DEF Owes
  <1>5. ASSUME NEW n
        PROVE  Owes(st1[c], 1, n) <=> n = st[c][1].line /\ step \in OwingStep
    BY <1>1, <1>2 DEF Owes
  <1>6. ASSUME NEW n
        PROVE  Owes(st[c], 1, n) <=> n = st[c][1].line /\ st[c][1].step \in OwingStep
    BY <1>1 DEF Owes
  <1>7. ASSUME step \in OwingStep <=> st[c][1].step \in OwingStep
        PROVE  Accounted(st1, S)
    <2>1. ASSUME NEW t \in Terminal, NEW i \in Nat, NEW n
          PROVE  Owes(st1[t], i, n) <=> Owes(st[t], i, n)
      BY <1>2, <1>4, <1>5, <1>6, <1>7
    <2>2. ASSUME NEW n \in Unmasked
          PROVE  n \in S <=> \E t \in Terminal : \E i \in Nat : Owes(st1[t], i, n)
      <3>1. n \in S <=> \E t \in Terminal : \E i \in Nat : Owes(st[t], i, n)
        BY DEF Accounted
      <3> QED
        BY <2>1, <3>1
    <2>3. ASSUME NEW t \in Terminal, NEW u \in Terminal, NEW i \in Nat, NEW j \in Nat,
                 NEW n \in Unmasked, Owes(st1[t], i, n), Owes(st1[u], j, n)
          PROVE  t = u /\ i = j
      BY <2>1, <2>3 DEF Accounted
    <2> QED
      BY <2>2, <2>3 DEF Accounted
  <1>8. ASSUME step \notin OwingStep, st[c][1].step \in OwingStep
        PROVE  Accounted(st1, S \ {st[c][1].line})
    <2>1. Owes(st[c], 1, st[c][1].line)
      BY <1>6, <1>8
    <2>2. ASSUME NEW t \in Terminal, NEW i \in Nat, NEW n \in Unmasked
          PROVE  Owes(st1[t], i, n) <=> Owes(st[t], i, n) /\ n # st[c][1].line
      <3>1. CASE t = c /\ i = 1
        BY <1>5, <1>6, <1>8, <3>1
      <3>2. CASE ~(t = c /\ i = 1)
        <4>1. Owes(st1[t], i, n) <=> Owes(st[t], i, n)
          BY <1>2, <1>4, <3>2
        <4>2. Owes(st[t], i, n) => n # st[c][1].line
          BY <2>1, <3>2 DEF Accounted
        <4> QED
          BY <4>1, <4>2
      <3> QED
        BY <3>1, <3>2
    <2>3. ASSUME NEW n \in Unmasked
          PROVE  n \in S \ {st[c][1].line}
                   <=> \E t \in Terminal : \E i \in Nat : Owes(st1[t], i, n)
      <3>1. ASSUME n \in S \ {st[c][1].line}
            PROVE  \E t \in Terminal : \E i \in Nat : Owes(st1[t], i, n)
        <4>1. PICK t \in Terminal, i \in Nat : Owes(st[t], i, n)
          BY <3>1 DEF Accounted
        <4> QED
          BY <2>2, <3>1, <4>1
      <3>2. ASSUME NEW t \in Terminal, NEW i \in Nat, Owes(st1[t], i, n)
            PROVE  n \in S \ {st[c][1].line}
        <4>1. Owes(st[t], i, n) /\ n # st[c][1].line
          BY <2>2, <3>2
        <4> QED
          BY <4>1 DEF Accounted
      <3> QED
        BY <3>1, <3>2
    <2>4. ASSUME NEW t \in Terminal, NEW u \in Terminal, NEW i \in Nat, NEW j \in Nat,
                 NEW n \in Unmasked, Owes(st1[t], i, n), Owes(st1[u], j, n)
          PROVE  t = u /\ i = j
      BY <2>2, <2>4 DEF Accounted
    <2> QED
      BY <2>3, <2>4 DEF Accounted
  <1> QED
    BY <1>2, <1>7, <1>8

-----------------------------------------------------------------------------
(***************************************************************************)
(* The shape of the running stack.                                         *)
(***************************************************************************)
LEMMA ActivePush ==
  ASSUME NEW s \in Seq(Frame), Active(s, TRUE), Len(s) < MAX_DEPTH, NEW f \in Frame,
         f.line = TIMER_CHIP_LINE_NO => f.step = "entered",
         f.line # TIMER_CHIP_LINE_NO => f.step = "open",
         NEW r, r = Push(f, s)
  PROVE  Active(r, f.line # TIMER_CHIP_LINE_NO)
  <1>1. /\ r \in Seq(Frame) /\ Len(r) = Len(s) + 1 /\ r[1] = f /\ Len(s) \in Nat
        /\ \A i \in 2 .. Len(r) : r[i] = s[i - 1]
    <2>1. IsPush(f, s, r)
      BY PushedStack
    <2> QED
      BY <2>1 DEF IsPush
  <1>2. ASSUME NEW i \in 2 .. Len(r)
        PROVE  r[i].line # TIMER_CHIP_LINE_NO /\ r[i].step \in Nested
    <2>1. i - 1 \in 1 .. Len(s) /\ r[i] = s[i - 1]
      BY <1>1
    <2>2. CASE i = 2
      <3>1. s # << >> /\ s[1].step \in Nested
        BY <2>1, <2>2 DEF Active
      <3> QED
        BY <2>1, <2>2, <3>1 DEF Active, Nested
    <2>3. CASE i # 2
      <3>1. i - 1 \in 2 .. Len(s)
        BY <1>1, <2>3
      <3> QED
        BY <2>1, <3>1 DEF Active
    <2> QED
      BY <2>2, <2>3
  <1>3. Len(r) <= MAX_DEPTH /\ r # << >>
    BY <1>1, DepthAssumption
  <1> QED
    BY <1>1, <1>2, <1>3 DEF Active, Nested

LEMMA ActivePop ==
  ASSUME NEW s \in Seq(Frame), s # << >>, NEW r, r = Tail(s),
         Len(s) <= MAX_DEPTH,
         \A i \in 2 .. Len(s) : s[i].line # TIMER_CHIP_LINE_NO /\ s[i].step \in Nested
  PROVE  Active(r, TRUE)
  <1>1. /\ r \in Seq(Frame) /\ Len(r) = Len(s) - 1 /\ Len(s) \in Nat \ {0}
        /\ \A i \in 1 .. Len(r) : r[i] = s[i + 1]
    BY PoppedStack
  <1>2. \A i \in 1 .. Len(r) : r[i].line # TIMER_CHIP_LINE_NO /\ r[i].step \in Nested
    BY <1>1
  <1>3. r # << >> => 1 \in 1 .. Len(r)
    BY <1>1
  <1>4. Len(r) <= MAX_DEPTH
    BY <1>1, DepthAssumption
  <1> QED
    BY <1>1, <1>2, <1>3, <1>4 DEF Active

\* The running handler takes a step with interrupts on, or executes cli.
LEMMA ActiveStep ==
  ASSUME NEW s \in Seq(Frame), s # << >>, Active(s, TRUE), NEW step \in Nested \cup {"closed"},
         step = "closed" => s[1].line = KEYBOARD_LINE_NO,
         NEW r, r = StepTop(s, step)
  PROVE  Active(r, step # "closed")
  <1>1. step \in Step
    BY DEF Step, Nested
  <1>2. /\ r \in Seq(Frame) /\ Len(r) = Len(s) /\ Len(s) \in Nat \ {0} /\ r # << >>
        /\ r[1].line = s[1].line /\ r[1].step = step
        /\ \A i \in 2 .. Len(s) : r[i] = s[i]
    <2>1. IsStep(s, step, r)
      BY <1>1, SteppedStack
    <2> QED
      BY <2>1 DEF IsStep
  <1>3. s[1].line # TIMER_CHIP_LINE_NO
    BY DEF Active, Nested, KEYBOARD_LINE_NO, TIMER_CHIP_LINE_NO
  <1>4. step # "closed" <=> step \in Nested
    BY DEF Nested
  <1> QED
    BY <1>2, <1>3, <1>4 DEF Active

\* The timer suspends the running process, and so does a launch.
LEMMA Suspends ==
  ASSUME NEW s \in Seq(Frame), s # << >>, NEW on, Active(s, on), NEW step \in Step,
         \/ /\ s[1].line = TIMER_CHIP_LINE_NO /\ step = "done"
            /\ \A i \in 2 .. Len(s) : s[i].step = "left"
         \/ /\ s[1].line = KEYBOARD_LINE_NO /\ step = "launched"
            /\ \A i \in 2 .. Len(s) : OnlyRtcOwes(s[i]),
         NEW r, r = StepTop(s, step)
  PROVE  Suspended(r)
  <1>2. /\ r \in Seq(Frame) /\ Len(r) = Len(s) /\ Len(s) \in Nat \ {0} /\ r # << >>
        /\ r[1].line = s[1].line /\ r[1].step = step
        /\ \A i \in 2 .. Len(s) : r[i] = s[i]
    <2>1. IsStep(s, step, r)
      BY SteppedStack
    <2> QED
      BY <2>1 DEF IsStep
  <1> QED
    BY <1>2 DEF Suspended, Active

\* A suspended process gets the CPU back.
LEMMA Resumes ==
  ASSUME NEW s \in Seq(Frame), Suspended(s),
         NEW r, r = IF Head(s).step = "launched"
                    THEN StepTop(s, "late") ELSE Tail(s)
  PROVE  Active(r, Head(s).step # "launched")
  <1>0. s # << >> /\ Head(s) = s[1]
    BY DEF Suspended
  <1>1. CASE s[1].step = "launched"
    <2>1. r = StepTop(s, "late")
      BY <1>0, <1>1
    <2>2. /\ r \in Seq(Frame) /\ Len(r) = Len(s) /\ Len(s) \in Nat \ {0} /\ r # << >>
          /\ r[1].line = s[1].line /\ r[1].step = "late"
          /\ \A i \in 2 .. Len(s) : r[i] = s[i]
      <3>1. "late" \in Step
        BY DEF Step
      <3>2. IsStep(s, "late", r)
        BY <1>0, <2>1, <3>1, SteppedStack
      <3> QED
        BY <3>2 DEF IsStep
    <2> QED
      BY <1>0, <1>1, <2>2 DEF Suspended, Active, Nested
  <1>2. CASE s[1].step # "launched"
    <2>1. r = Tail(s)
      BY <1>0, <1>2
    <2> QED
      BY <1>0, <1>2, <2>1, ActivePop DEF Suspended
  <1> QED
    BY <1>1, <1>2

\* A handler that owes its EOI sends it and goes.
LEMMA PopOwing ==
  ASSUME NEW st \in Stacks, NEW S \in SUBSET Unmasked, NEW c \in Terminal, Accounted(st, S),
         st[c] # << >>, st[c][1].step \in OwingStep,
         NEW st1, st1 = [st EXCEPT ![c] = Tail(@)]
  PROVE  Accounted(st1, S \ {st[c][1].line}) /\ st1 \in Stacks
  <1>1. PICK mid : mid = [st EXCEPT ![c] = StepTop(@, "done")]
    OBVIOUS
  <1>2. "done" \in Step /\ "done" \notin OwingStep
    BY DEF Step, OwingStep
  <1>3. mid \in Stacks /\ Accounted(mid, S \ {st[c][1].line})
    BY <1>1, <1>2, StepAccounted
  <1>4. st[c] \in Seq(Frame)
    BY DEF Stacks
  <1>5. PICK r : r = StepTop(st[c], "done")
    OBVIOUS
  <1>6. IsStep(st[c], "done", r)
    BY <1>2, <1>4, <1>5, SteppedStack
  <1>7. mid = [st EXCEPT ![c] = r] /\ mid[c] = r
    BY <1>1, <1>5 DEF Stacks
  <1>8. mid[c] # << >> /\ mid[c][1].step \notin OwingStep /\ Tail(mid[c]) = Tail(st[c])
    BY <1>2, <1>6, <1>7 DEF IsStep
  <1>9. st1 = [mid EXCEPT ![c] = Tail(@)]
    <2>1. PICK u : u = Tail(st[c])
      OBVIOUS
    <2>2. st1 = [st EXCEPT ![c] = u] /\ Tail(mid[c]) = u
      BY <1>8, <2>1
    <2>3. st1 = [mid EXCEPT ![c] = u]
      BY <1>7, <2>2 DEF Stacks
    <2> QED
      BY <2>2, <2>3
  <1>10. PICK S1 : S1 = S \ {st[c][1].line}
    OBVIOUS
  <1>11. mid \in Stacks /\ Accounted(mid, S1)
    BY <1>3, <1>10
  <1>12. Accounted(st1, S1) /\ st1 \in Stacks
    BY <1>8, <1>9, <1>11, PopAccounted
  <1> QED
    BY <1>10, <1>12

-----------------------------------------------------------------------------
(***************************************************************************)
(* The invariant.                                                          *)
(***************************************************************************)
LEMMA RunningFacts ==
  ASSUME InterruptsInv, NEW lines, NEW steps, Running(lines, steps)
  PROVE  /\ cpu \in Terminal /\ stack \in Stacks /\ stack[cpu] \in Seq(Frame)
         /\ stack[cpu] # << >> /\ Active(stack[cpu], IF_flag)
         /\ stack[cpu][1].line \in lines /\ stack[cpu][1].step \in steps
         /\ stack[cpu][1].line \in Unmasked
         /\ Served(isr) \in SUBSET Unmasked
         /\ Accounted(stack, Served(isr))
  <1>1. cpu \in Terminal /\ stack \in Stacks /\ stack[cpu] \in Seq(Frame)
    BY DEF InterruptsInv, TypeOK, Stacks
  <1>2. stack[cpu] # << >> /\ Head(stack[cpu]) = stack[cpu][1]
    BY <1>1 DEF Running
  <1>3. stack[cpu][1] \in Frame
    BY <1>1, <1>2
  <1>4. stack[cpu][1].line \in Unmasked
    BY <1>3 DEF Frame
  <1>5. stack[cpu][1].line \in lines /\ stack[cpu][1].step \in steps
    BY <1>2 DEF Running
  <1> QED
    BY <1>1, <1>2, <1>4, <1>5 DEF InterruptsInv, Shape, Served

\* Only the running stack changes.
LEMMA RunningChanges ==
  ASSUME InterruptsInv, UNCHANGED <<launched, cpu>>, NEW r \in Seq(Frame),
         stack' = [stack EXCEPT ![cpu] = r], Active(r, IF_flag')
  PROVE  Shape'
  <1>1. cpu \in Terminal /\ launched \subseteq Terminal /\ stack \in Stacks
    BY DEF InterruptsInv, TypeOK, Stacks
  <1>2. stack'[cpu] = r /\ \A t \in Terminal \ {cpu} : stack'[t] = stack[t]
    BY <1>1 DEF Stacks
  <1>3. cpu \in launched
    BY DEF InterruptsInv, TypeOK
  <1>4. \A t \in Terminal \ launched : stack[t] = << >>
    BY DEF InterruptsInv, Shape
  <1>5. \A t \in launched \ {cpu} : Suspended(stack[t])
    BY DEF InterruptsInv, Shape
  <1>6. \A t \in Terminal \ launched' : stack'[t] = << >>
    BY <1>2, <1>3, <1>4
  <1>7. \A t \in launched' \ {cpu'} : Suspended(stack'[t])
    BY <1>1, <1>2, <1>5
  <1>8. Active(stack'[cpu'], IF_flag')
    BY <1>2
  <1> QED
    BY <1>6, <1>7, <1>8 DEF Shape

LEMMA InvInit == Init => InterruptsInv
  <1> SUFFICES ASSUME Init PROVE InterruptsInv
    OBVIOUS
  <1>1. 0 \in Terminal
    BY TerminalsAssumption DEF Terminal
  <1>2. \A t \in Terminal : stack[t] = << >>
    BY DEF Init
  <1>3. TypeOK
    BY <1>1 DEF Init, TypeOK
  <1>4. Shape
    BY <1>1, <1>2, DepthAssumption DEF Init, Shape, Active
  <1>5. PicOK(isr)
    BY DEF Init, PicOK
  <1>6. Served(isr) = {}
    BY DEF Init, Served, InService
  <1>7. Accounted(stack, {})
    BY <1>2 DEF Accounted, Owes
  <1> QED
    BY <1>3, <1>4, <1>5, <1>6, <1>7 DEF InterruptsInv

LEMMA InvAccept ==
  ASSUME InterruptsInv, NEW n \in Unmasked, Accept(n)
  PROVE  InterruptsInv'
  <1>1. cpu \in Terminal /\ stack \in Stacks /\ stack[cpu] \in Seq(Frame)
    BY DEF InterruptsInv, TypeOK, Stacks
  <1> DEFINE f == [line |-> n, step |-> IF n = TIMER_CHIP_LINE_NO THEN "entered" ELSE "open"]
  <1>2. f \in Frame /\ f.line = n /\ f.step \in OwingStep
        /\ (f.line = TIMER_CHIP_LINE_NO => f.step = "entered")
        /\ (f.line # TIMER_CHIP_LINE_NO => f.step = "open")
    BY DEF Frame, Step, OwingStep
  <1>3. stack' = [stack EXCEPT ![cpu] = Push(f, @)]
    BY DEF Accept, Push
  <1> HIDE DEF f
  <1>4. PICK r : r = Push(f, stack[cpu])
    OBVIOUS
  <1>5. stack' = [stack EXCEPT ![cpu] = r]
    BY <1>3, <1>4
  <1>6. PicOK(isr') /\ Served(isr') = Served(isr) \cup {n}
    BY AcknowledgedExact DEF Accept, InterruptsInv
  <1>7. n \notin Served(isr)
    BY PassesNotServed DEF Accept, InterruptsInv
  <1>8. Accounted(stack', Served(isr) \cup {f.line}) /\ stack' \in Stacks
    BY <1>1, <1>2, <1>4, <1>5, <1>7, PushAccounted DEF InterruptsInv
  <1>9. Active(stack[cpu], TRUE) /\ Len(stack[cpu]) < MAX_DEPTH
    BY DEF InterruptsInv, Shape, Accept
  <1>10. Active(r, f.line # TIMER_CHIP_LINE_NO)
    BY <1>1, <1>2, <1>4, <1>9, ActivePush
  <1>11. Active(r, IF_flag')
    BY <1>2, <1>10 DEF Accept
  <1>12. r \in Seq(Frame)
    BY <1>1, <1>2, <1>4, PushedStack DEF IsPush
  <1>13. Shape'
    BY <1>5, <1>11, <1>12, RunningChanges DEF Accept
  <1>14. TypeOK'
    <2>1. isr' \in [master : SUBSET Level, slave : SUBSET Level]
      BY <1>6, PicTypes
    <2> QED
      BY <1>8, <2>1 DEF TypeOK, InterruptsInv, Accept, Stacks
  <1> QED
    BY <1>2, <1>6, <1>8, <1>13, <1>14 DEF InterruptsInv

\* What is left to show of a step that leaves the CPU where it is.
LEMMA InvStays ==
  ASSUME InterruptsInv, UNCHANGED <<launched, cpu>>, irr' \subseteq Unmasked,
         IF_flag' \in BOOLEAN, stack' \in Stacks,
         NEW r \in Seq(Frame), stack' = [stack EXCEPT ![cpu] = r], Active(r, IF_flag'),
         PicOK(isr'), Accounted(stack', Served(isr'))
  PROVE  InterruptsInv'
  <1>1. Shape'
    BY RunningChanges
  <1>2. isr' \in [master : SUBSET Level, slave : SUBSET Level]
    BY PicTypes
  <1>3. TypeOK'
    BY <1>2 DEF TypeOK, InterruptsInv, Stacks
  <1> QED
    BY <1>1, <1>3 DEF InterruptsInv

LEMMA InvTimerReturn ==
  ASSUME InterruptsInv, TimerReturn
  PROVE  InterruptsInv'
  <1>1. Running({TIMER_CHIP_LINE_NO}, {"entered"})
    BY DEF TimerReturn
  <1>2. /\ cpu \in Terminal /\ stack \in Stacks /\ stack[cpu] \in Seq(Frame)
        /\ stack[cpu] # << >> /\ Active(stack[cpu], IF_flag)
        /\ stack[cpu][1].line = TIMER_CHIP_LINE_NO /\ stack[cpu][1].step = "entered"
        /\ stack[cpu][1].line \in Unmasked
        /\ Served(isr) \in SUBSET Unmasked /\ Accounted(stack, Served(isr))
    BY <1>1, RunningFacts
  <1>3. PicOK(isr') /\ Served(isr') = Served(isr) \ {TIMER_CHIP_LINE_NO}
    BY <1>2, EoiExact DEF TimerReturn, InterruptsInv
  <1>4. stack[cpu][1].step \in OwingStep
    BY <1>2 DEF OwingStep
  <1>5. stack' = [stack EXCEPT ![cpu] = Tail(@)]
    BY DEF TimerReturn, Popped
  <1>6. Accounted(stack', Served(isr) \ {stack[cpu][1].line}) /\ stack' \in Stacks
    BY <1>2, <1>4, <1>5, PopOwing
  <1>7. PICK r : r = Tail(stack[cpu])
    OBVIOUS
  <1>8. r \in Seq(Frame) /\ stack' = [stack EXCEPT ![cpu] = r]
    BY <1>2, <1>5, <1>7
  <1>9. Active(r, TRUE)
    BY <1>2, <1>7, ActivePop DEF Active
  <1>10. irr' \subseteq Unmasked /\ IF_flag' = TRUE /\ UNCHANGED <<launched, cpu>>
    BY DEF TimerReturn, InterruptsInv, TypeOK
  <1> QED
    BY <1>2, <1>3, <1>6, <1>8, <1>9, <1>10, InvStays

LEMMA InvEoi ==
  ASSUME InterruptsInv, Eoi
  PROVE  InterruptsInv'
  <1>1. Running(Unmasked \ {TIMER_CHIP_LINE_NO}, {"open"})
    BY DEF Eoi
  <1>2. /\ cpu \in Terminal /\ stack \in Stacks /\ stack[cpu] \in Seq(Frame)
        /\ stack[cpu] # << >> /\ Active(stack[cpu], IF_flag)
        /\ stack[cpu][1].line # TIMER_CHIP_LINE_NO /\ stack[cpu][1].step = "open"
        /\ stack[cpu][1].line \in Unmasked
        /\ Served(isr) \in SUBSET Unmasked /\ Accounted(stack, Served(isr))
    BY <1>1, RunningFacts
  <1>3. stack[cpu][1].line \in SendsEoi /\ Head(stack[cpu]) = stack[cpu][1]
    BY <1>2, Lines DEF SendsEoi
  <1>4. isr' = send_eoi(stack[cpu][1].line)
    BY <1>3 DEF Eoi
  <1>5. PicOK(isr') /\ Served(isr') = Served(isr) \ {stack[cpu][1].line}
    BY <1>2, <1>4, EoiExact DEF InterruptsInv
  <1>6. "done" \in Step /\ "done" \notin OwingStep /\ "open" \in OwingStep
        /\ "done" \in Nested \cup {"closed"} /\ "open" \in Nested /\ "done" # "closed"
    BY DEF Step, OwingStep, Nested
  <1>7. stack' = [stack EXCEPT ![cpu] = StepTop(@, "done")]
    BY DEF Eoi, Stepped, StepTop
  <1>8. Accounted(stack', Served(isr) \ {stack[cpu][1].line}) /\ stack' \in Stacks
    BY <1>2, <1>6, <1>7, StepAccounted
  <1>9. PICK r : r = StepTop(stack[cpu], "done")
    OBVIOUS
  <1>10. stack' = [stack EXCEPT ![cpu] = r]
    BY <1>7, <1>9
  <1>11. r \in Seq(Frame)
    <2>1. IsStep(stack[cpu], "done", r)
      BY <1>2, <1>6, <1>9, SteppedStack
    <2> QED
      BY <2>1 DEF IsStep
  <1>12. Active(stack[cpu], TRUE) /\ IF_flag = TRUE
    <2>1. IF_flag \in BOOLEAN
      BY DEF InterruptsInv, TypeOK
    <2>2. IF_flag
      BY <1>2, <1>6, Zenon DEF Active
    <2> QED
      BY <1>2, <2>1, <2>2
  <1>13. Active(r, TRUE)
    BY <1>2, <1>6, <1>9, <1>12, ActiveStep
  <1>14. irr' \subseteq Unmasked /\ IF_flag' = TRUE /\ UNCHANGED <<launched, cpu>>
    BY <1>12 DEF Eoi, InterruptsInv, TypeOK
  <1> QED
    BY <1>5, <1>8, <1>10, <1>11, <1>13, <1>14, InvStays

\* A handler with interrupts on goes on, owing its EOI or not as before.
LEMMA InvGoesOn ==
  ASSUME InterruptsInv, NEW lines, NEW from, Running(lines, {from}), from \in Nested,
         NEW step \in Nested \cup {"closed"}, step \in OwingStep <=> from \in OwingStep,
         step = "closed" => lines = {KEYBOARD_LINE_NO},
         stack' = Stepped(cpu, step), IF_flag' = (step # "closed"),
         UNCHANGED <<irr, isr, launched, cpu>>
  PROVE  InterruptsInv'
  <1>1. /\ cpu \in Terminal /\ stack \in Stacks /\ stack[cpu] \in Seq(Frame)
        /\ stack[cpu] # << >> /\ Active(stack[cpu], IF_flag)
        /\ stack[cpu][1].line \in lines /\ stack[cpu][1].step = from
        /\ Served(isr) \in SUBSET Unmasked /\ Accounted(stack, Served(isr))
    BY RunningFacts
  <1>2. step \in Step
    BY DEF Step, Nested
  <1>3. stack' = [stack EXCEPT ![cpu] = StepTop(@, step)]
    BY DEF Stepped, StepTop
  <1>4. Accounted(stack', Served(isr)) /\ stack' \in Stacks
    BY <1>1, <1>2, <1>3, StepAccounted
  <1>5. PICK r : r = StepTop(stack[cpu], step)
    OBVIOUS
  <1>6. stack' = [stack EXCEPT ![cpu] = r]
    BY <1>3, <1>5
  <1>7. r \in Seq(Frame)
    <2>1. IsStep(stack[cpu], step, r)
      BY <1>1, <1>2, <1>5, SteppedStack
    <2> QED
      BY <2>1 DEF IsStep
  <1>8. Active(stack[cpu], TRUE)
    <2>1. IF_flag \in BOOLEAN
      BY DEF InterruptsInv, TypeOK
    <2>2. IF_flag
      BY <1>1, Zenon DEF Active
    <2> QED
      BY <1>1, <2>1, <2>2
  <1>9. Active(r, step # "closed")
    BY <1>1, <1>5, <1>8, ActiveStep
  <1>10. irr' \subseteq Unmasked /\ IF_flag' \in BOOLEAN /\ PicOK(isr')
    BY DEF InterruptsInv, TypeOK
  <1>11. Served(isr') = Served(isr)
    OBVIOUS
  <1>12. Active(r, IF_flag')
    BY <1>9
  <1> QED
    BY <1>4, <1>6, <1>7, <1>10, <1>11, <1>12, InvStays

LEMMA InvRestoreFlags ==
  ASSUME InterruptsInv, RestoreFlags
  PROVE  InterruptsInv'
  <1>1. Running(Unmasked \ {TIMER_CHIP_LINE_NO}, {"done"})
    BY DEF RestoreFlags
  <1>2. /\ "done" \in Nested /\ "left" \in Nested \cup {"closed"} /\ "left" # "closed"
        /\ ("left" \in OwingStep <=> "done" \in OwingStep)
    BY DEF Nested, OwingStep
  <1>3. stack' = Stepped(cpu, "left") /\ UNCHANGED <<irr, isr, launched, cpu>>
    BY DEF RestoreFlags
  <1>4. IF_flag' = TRUE
    <2>1. stack[cpu] # << >> /\ Active(stack[cpu], IF_flag) /\ stack[cpu][1].step = "done"
      BY <1>1, RunningFacts
    <2>2. IF_flag
      BY <1>2, <2>1, Zenon DEF Active
    <2> QED
      BY <2>2 DEF RestoreFlags, InterruptsInv, TypeOK
  <1>5. IF_flag' = ("left" # "closed")
    BY <1>4
  <1> QED
    BY <1>1, <1>2, <1>3, <1>5, InvGoesOn

LEMMA InvCli ==
  ASSUME InterruptsInv, Cli
  PROVE  InterruptsInv'
  <1>1. Running({KEYBOARD_LINE_NO}, {"open"})
    BY DEF Cli
  <1>2. /\ "open" \in Nested /\ "closed" \in Nested \cup {"closed"}
        /\ ("closed" \in OwingStep <=> "open" \in OwingStep)
    BY DEF Nested, OwingStep
  <1>3. stack' = Stepped(cpu, "closed") /\ UNCHANGED <<irr, isr, launched, cpu>>
    BY DEF Cli
  <1>4. IF_flag' = ("closed" # "closed")
    BY DEF Cli
  <1> QED
    BY <1>1, <1>2, <1>3, <1>4, InvGoesOn

\* A handler that has sent its EOI ends, with interrupts on from now.
LEMMA InvEnds ==
  ASSUME InterruptsInv, NEW lines, NEW from, Running(lines, {from}), from \notin OwingStep,
         stack' = Popped(cpu), IF_flag' = TRUE, UNCHANGED <<irr, launched, cpu>>,
         PicOK(isr'), Served(isr') = Served(isr)
  PROVE  InterruptsInv'
  <1>1. /\ cpu \in Terminal /\ stack \in Stacks /\ stack[cpu] \in Seq(Frame)
        /\ stack[cpu] # << >> /\ Active(stack[cpu], IF_flag)
        /\ stack[cpu][1].step = from /\ Accounted(stack, Served(isr))
    BY RunningFacts
  <1>2. stack' = [stack EXCEPT ![cpu] = Tail(@)]
    BY DEF Popped
  <1>3. Accounted(stack', Served(isr)) /\ stack' \in Stacks
    BY <1>1, <1>2, PopAccounted
  <1>4. PICK r : r = Tail(stack[cpu])
    OBVIOUS
  <1>5. r \in Seq(Frame) /\ stack' = [stack EXCEPT ![cpu] = r]
    BY <1>1, <1>2, <1>4
  <1>6. Active(r, TRUE)
    BY <1>1, <1>4, ActivePop DEF Active
  <1>7. irr' \subseteq Unmasked
    BY DEF InterruptsInv, TypeOK
  <1> QED
    BY <1>3, <1>5, <1>6, <1>7, InvStays

LEMMA InvReturn ==
  ASSUME InterruptsInv, Return
  PROVE  InterruptsInv'
  <1>1. Running(Unmasked \ {TIMER_CHIP_LINE_NO}, {"left"})
    BY DEF Return
  <1>2. "left" \notin OwingStep /\ "left" \in Nested
    BY DEF OwingStep, Nested
  <1>3. IF_flag' = TRUE
    <2>1. stack[cpu] # << >> /\ Active(stack[cpu], IF_flag) /\ stack[cpu][1].step = "left"
      BY <1>1, RunningFacts
    <2>2. IF_flag
      BY <1>2, <2>1, Zenon DEF Active
    <2> QED
      BY <2>2 DEF Return, InterruptsInv, TypeOK
  <1>4. /\ stack' = Popped(cpu) /\ UNCHANGED <<irr, launched, cpu>>
        /\ PicOK(isr') /\ Served(isr') = Served(isr)
    BY DEF Return, InterruptsInv
  <1> QED
    BY <1>1, <1>2, <1>3, <1>4, InvEnds

\* A keyboard handler that goes on after a launch finds no other that owes its EOI: the
\* second EOI it sends ends no service.
LEMMA LateEoiHarmless ==
  ASSUME InterruptsInv, Running({KEYBOARD_LINE_NO}, {"late"})
  PROVE  KEYBOARD_LINE_NO \notin Served(isr)
  <1>1. /\ cpu \in Terminal /\ stack \in Stacks /\ stack[cpu] # << >>
        /\ stack[cpu][1].step = "late" /\ Active(stack[cpu], IF_flag)
        /\ Accounted(stack, Served(isr))
    BY RunningFacts
  <1>2. KEYBOARD_LINE_NO \in Unmasked /\ KEYBOARD_LINE_NO # RTC_LINE_NO
        /\ KEYBOARD_LINE_NO # TIMER_CHIP_LINE_NO
    BY Lines DEF KEYBOARD_LINE_NO, RTC_LINE_NO, TIMER_CHIP_LINE_NO
  <1>3. ASSUME NEW f, f.line = KEYBOARD_LINE_NO, OnlyRtcOwes(f)
        PROVE  f.step \notin OwingStep
    BY <1>2, <1>3 DEF OnlyRtcOwes, OwingStep
  <1>4. ASSUME NEW t \in Terminal, NEW i \in Nat, Owes(stack[t], i, KEYBOARD_LINE_NO)
        PROVE  FALSE
    <2>0. /\ i \in 1 .. Len(stack[t]) /\ stack[t][i].line = KEYBOARD_LINE_NO
          /\ stack[t][i].step \in OwingStep /\ Len(stack[t]) \in Nat
      BY <1>1, <1>4 DEF Owes, Stacks
    <2>1. i = 1 \/ i \in 2 .. Len(stack[t])
      BY <2>0
    <2>2. CASE t = cpu
      <3>1. i # 1
        BY <1>1, <2>0, <2>2 DEF OwingStep
      <3>2. \A j \in 2 .. Len(stack[t]) : OnlyRtcOwes(stack[t][j])
        BY <1>1, <2>2 DEF Active, Nested
      <3> QED
        BY <1>3, <2>0, <2>1, <3>1, <3>2
    <2>3. CASE t \in launched \ {cpu}
      <3>1. Suspended(stack[t])
        BY <2>3 DEF InterruptsInv, Shape
      <3>2. i # 1
        BY <2>0, <3>1 DEF Suspended, OwingStep
      <3>3. \A j \in 2 .. Len(stack[t]) : OnlyRtcOwes(stack[t][j])
        BY <3>1 DEF Suspended, OnlyRtcOwes
      <3> QED
        BY <1>3, <2>0, <2>1, <3>2, <3>3
    <2>4. CASE t \notin launched
      <3>1. stack[t] = << >>
        BY <2>4 DEF InterruptsInv, Shape
      <3> QED
        BY <2>0, <3>1
    <2> QED
      BY <2>2, <2>3, <2>4
  <1> QED
    BY <1>1, <1>2, <1>4 DEF Accounted

LEMMA InvFinishClosed ==
  ASSUME InterruptsInv, FinishClosed
  PROVE  InterruptsInv'
  <1>0. KEYBOARD_LINE_NO \in Unmasked
    BY Lines
  <1>1. /\ stack' = Popped(cpu) /\ IF_flag' = TRUE /\ UNCHANGED <<irr, launched, cpu>>
        /\ Running({KEYBOARD_LINE_NO}, {"closed", "late"})
    BY DEF FinishClosed
  <1>2. PicOK(isr') /\ Served(isr') = Served(isr) \ {KEYBOARD_LINE_NO}
    BY <1>0, EoiExact DEF FinishClosed, InterruptsInv
  <1>3. CASE Running({KEYBOARD_LINE_NO}, {"late"})
    <2>1. Served(isr') = Served(isr)
      BY <1>2, <1>3, LateEoiHarmless
    <2>2. "late" \notin OwingStep
      BY DEF OwingStep
    <2> QED
      BY <1>1, <1>2, <1>3, <2>1, <2>2, InvEnds
  <1>4. CASE Running({KEYBOARD_LINE_NO}, {"closed"})
    <2>1. /\ cpu \in Terminal /\ stack \in Stacks /\ stack[cpu] \in Seq(Frame)
          /\ stack[cpu] # << >> /\ Active(stack[cpu], IF_flag)
          /\ stack[cpu][1].line = KEYBOARD_LINE_NO /\ stack[cpu][1].step = "closed"
          /\ Served(isr) \in SUBSET Unmasked /\ Accounted(stack, Served(isr))
      BY <1>4, RunningFacts
    <2>2. stack[cpu][1].step \in OwingStep
      BY <2>1 DEF OwingStep
    <2>3. stack' = [stack EXCEPT ![cpu] = Tail(@)]
      BY <1>1 DEF Popped
    <2>4. Accounted(stack', Served(isr) \ {stack[cpu][1].line}) /\ stack' \in Stacks
      BY <2>1, <2>2, <2>3, PopOwing
    <2>5. PICK r : r = Tail(stack[cpu])
      OBVIOUS
    <2>6. r \in Seq(Frame) /\ stack' = [stack EXCEPT ![cpu] = r]
      BY <2>1, <2>3, <2>5
    <2>7. Active(r, TRUE)
      BY <2>1, <2>5, ActivePop DEF Active
    <2>8. irr' \subseteq Unmasked
      BY <1>1 DEF InterruptsInv, TypeOK
    <2> QED
      BY <1>1, <1>2, <2>1, <2>4, <2>6, <2>7, <2>8, InvStays
  <1> QED
    BY <1>1, <1>3, <1>4 DEF Running

LEMMA InvLaunch ==
  ASSUME InterruptsInv, NEW t \in Terminal, Launch(t)
  PROVE  InterruptsInv'
  <1>1. Running({KEYBOARD_LINE_NO}, {"closed"})
    BY DEF Launch
  <1>2. /\ cpu \in Terminal /\ stack \in Stacks /\ stack[cpu] \in Seq(Frame)
        /\ stack[cpu] # << >> /\ Active(stack[cpu], IF_flag)
        /\ stack[cpu][1].line = KEYBOARD_LINE_NO /\ stack[cpu][1].step = "closed"
        /\ stack[cpu][1].line \in Unmasked
        /\ Served(isr) \in SUBSET Unmasked /\ Accounted(stack, Served(isr))
    BY <1>1, RunningFacts
  <1>3. PicOK(isr') /\ Served(isr') = Served(isr) \ {stack[cpu][1].line}
    BY <1>2, EoiExact DEF Launch, InterruptsInv
  <1>4. "launched" \in Step /\ "launched" \notin OwingStep /\ "closed" \in OwingStep
    BY DEF Step, OwingStep
  <1>5. stack' = [stack EXCEPT ![cpu] = StepTop(@, "launched")]
    BY DEF Launch, Stepped, StepTop
  <1>6. Accounted(stack', Served(isr')) /\ stack' \in Stacks
    <2>1. Accounted(stack', Served(isr) \ {stack[cpu][1].line}) /\ stack' \in Stacks
      BY <1>2, <1>4, <1>5, StepAccounted
    <2> QED
      BY <1>3, <2>1
  <1>7. PICK r : r = StepTop(stack[cpu], "launched")
    OBVIOUS
  <1>8. stack'[cpu] = r /\ \A u \in Terminal \ {cpu} : stack'[u] = stack[u]
    BY <1>2, <1>5, <1>7 DEF Stacks
  <1>9. ASSUME NEW i \in 2 .. Len(stack[cpu]) PROVE OnlyRtcOwes(stack[cpu][i])
    <2>1. i \in Nat /\ i # 1 /\ i \in 1 .. Len(stack[cpu]) /\ Len(stack[cpu]) \in Nat
      BY <1>2
    <2>2. stack[cpu][i] \in Frame
      BY <1>2, <2>1
    <2>3. /\ stack[cpu][i].line # TIMER_CHIP_LINE_NO /\ stack[cpu][i].step \in Nested
          /\ stack[cpu][i].line \in Unmasked
      BY <1>2, <2>2 DEF Active, Frame
    <2>4. CASE stack[cpu][i].line = KEYBOARD_LINE_NO /\ stack[cpu][i].step = "open"
      <3>1. Owes(stack[cpu], 1, KEYBOARD_LINE_NO) /\ Owes(stack[cpu], i, KEYBOARD_LINE_NO)
        BY <1>2, <2>1, <2>4 DEF Owes, OwingStep
      <3>2. 1 \in Nat /\ KEYBOARD_LINE_NO \in Unmasked
        BY <1>2
      <3>3. i = 1
        BY <1>2, <2>1, <3>1, <3>2 DEF Accounted
      <3> QED
        BY <2>1, <3>3
    <2> QED
      BY <2>3, <2>4, Lines DEF OnlyRtcOwes, Nested
  <1>10. Suspended(r)
    BY <1>2, <1>4, <1>7, <1>9, Suspends
  <1>11. /\ launched' = launched \cup {t} /\ cpu' = t /\ IF_flag' = TRUE /\ irr' = irr
         /\ t \notin launched /\ t # cpu /\ launched \subseteq Terminal
    BY DEF Launch, InterruptsInv, TypeOK
  <1>12. stack'[t] = << >>
    BY <1>8, <1>11 DEF InterruptsInv, Shape
  <1>13. Shape'
    <2>1. \A u \in Terminal \ launched' : stack'[u] = << >>
      <3>1. cpu \in launched
        BY DEF InterruptsInv, TypeOK
      <3> QED
        BY <1>8, <1>11, <3>1 DEF InterruptsInv, Shape
    <2>2. Active(stack'[cpu'], IF_flag')
      BY <1>11, <1>12, DepthAssumption DEF Active
    <2>3. ASSUME NEW u \in launched' \ {cpu'} PROVE Suspended(stack'[u])
      <3>1. CASE u = cpu
        BY <1>8, <1>10, <3>1
      <3>2. CASE u # cpu
        <4>1. u \in launched \ {cpu} /\ stack'[u] = stack[u]
          BY <1>8, <1>11, <3>2
        <4> QED
          BY <4>1 DEF InterruptsInv, Shape
      <3> QED
        BY <3>1, <3>2
    <2> QED
      BY <2>1, <2>2, <2>3 DEF Shape
  <1>14. isr' \in [master : SUBSET Level, slave : SUBSET Level]
    BY <1>3, PicTypes
  <1>15. TypeOK'
    BY <1>6, <1>11, <1>14 DEF TypeOK, InterruptsInv, Stacks
  <1> QED
    BY <1>3, <1>6, <1>13, <1>15 DEF InterruptsInv

LEMMA InvTimerSwitch ==
  ASSUME InterruptsInv, NEW t \in Terminal, TimerSwitch(t)
  PROVE  InterruptsInv'
  <1>1. Running({TIMER_CHIP_LINE_NO}, {"entered"})
    BY DEF TimerSwitch
  <1>2. /\ cpu \in Terminal /\ stack \in Stacks /\ stack[cpu] \in Seq(Frame)
        /\ stack[cpu] # << >> /\ Active(stack[cpu], IF_flag)
        /\ stack[cpu][1].line = TIMER_CHIP_LINE_NO /\ stack[cpu][1].step = "entered"
        /\ stack[cpu][1].line \in Unmasked
        /\ Served(isr) \in SUBSET Unmasked /\ Accounted(stack, Served(isr))
    BY <1>1, RunningFacts
  <1>3. PicOK(isr') /\ Served(isr') = Served(isr) \ {stack[cpu][1].line}
    BY <1>2, EoiExact DEF TimerSwitch, InterruptsInv
  <1>4. /\ "done" \in Step /\ "done" \notin OwingStep /\ "entered" \in OwingStep
        /\ "late" \in Step /\ "late" \notin OwingStep /\ "launched" \notin OwingStep
    BY DEF Step, OwingStep
  <1>5. PICK mid : mid = Stepped(cpu, "done")
    OBVIOUS
  <1>6. mid = [stack EXCEPT ![cpu] = StepTop(@, "done")]
    BY <1>5 DEF Stepped, StepTop
  <1>7. Accounted(mid, Served(isr')) /\ mid \in Stacks
    <2>1. Accounted(mid, Served(isr) \ {stack[cpu][1].line}) /\ mid \in Stacks
      BY <1>2, <1>4, <1>6, StepAccounted
    <2> QED
      BY <1>3, <2>1
  <1>8. PICK r : r = StepTop(stack[cpu], "done")
    OBVIOUS
  <1>9. mid[cpu] = r /\ \A u \in Terminal \ {cpu} : mid[u] = stack[u]
    BY <1>2, <1>6, <1>8 DEF Stacks
  <1>10. Suspended(r)
    <2>1. \A i \in 2 .. Len(stack[cpu]) : stack[cpu][i].step = "left"
      BY DEF TimerSwitch, in_hardware_int
    <2> QED
      BY <1>2, <1>4, <1>8, <2>1, Suspends
  <1>11. /\ launched \subseteq Terminal /\ t \in launched /\ cpu \in launched
         /\ launched' = launched /\ cpu' = t /\ irr' = irr
    BY DEF TimerSwitch, NextToService, InterruptsInv, TypeOK
  <1>12. \A u \in launched : Suspended(mid[u])
    BY <1>9, <1>10, <1>11 DEF InterruptsInv, Shape
  <1>13. mid[t] \in Seq(Frame) /\ mid[t] # << >> /\ Head(mid[t]) = mid[t][1] /\ Suspended(mid[t])
    BY <1>7, <1>11, <1>12 DEF Stacks, Suspended
  <1>14. PICK q : q = IF Head(mid[t]).step = "launched" THEN StepTop(mid[t], "late")
                                                        ELSE Tail(mid[t])
    OBVIOUS
  <1>15. /\ stack' = [mid EXCEPT ![t] = q]
         /\ IF_flag' = (Head(mid[t]).step # "launched")
    BY <1>5, <1>7, <1>14 DEF TimerSwitch, StepTop, Stacks
  <1>16. Active(q, IF_flag')
    BY <1>13, <1>14, <1>15, Resumes
  <1>17. Accounted(stack', Served(isr')) /\ stack' \in Stacks
    <2>1. Served(isr') \in SUBSET Unmasked
      BY <1>2, <1>3
    <2>2. CASE mid[t][1].step = "launched"
      <3>1. stack' = [mid EXCEPT ![t] = StepTop(@, "late")]
        BY <1>7, <1>13, <1>14, <1>15, <2>2 DEF Stacks
      <3> QED
        BY <1>4, <1>7, <1>13, <2>1, <2>2, <3>1, StepAccounted
    <2>3. CASE mid[t][1].step # "launched"
      <3>1. stack' = [mid EXCEPT ![t] = Tail(@)]
        BY <1>7, <1>13, <1>14, <1>15, <2>3 DEF Stacks
      <3>2. mid[t][1].step \notin OwingStep
        BY <1>4, <1>13, <2>3 DEF Suspended
      <3> QED
        BY <1>7, <1>13, <3>1, <3>2, PopAccounted
    <2> QED
      BY <2>2, <2>3
  <1>18. stack'[t] = q /\ \A u \in Terminal \ {t} : stack'[u] = mid[u]
    BY <1>7, <1>15 DEF Stacks
  <1>19. Shape'
    <2>1. \A u \in Terminal \ launched' : stack'[u] = << >>
      BY <1>9, <1>11, <1>18 DEF InterruptsInv, Shape
    <2>2. Active(stack'[cpu'], IF_flag')
      BY <1>11, <1>16, <1>18
    <2>3. \A u \in launched' \ {cpu'} : Suspended(stack'[u])
      BY <1>11, <1>12, <1>18
    <2> QED
      BY <2>1, <2>2, <2>3 DEF Shape
  <1>20. isr' \in [master : SUBSET Level, slave : SUBSET Level]
    BY <1>3, PicTypes
  <1>21. IF_flag' \in BOOLEAN
    BY <1>15
  <1>22. TypeOK'
    BY <1>11, <1>17, <1>20, <1>21 DEF TypeOK, InterruptsInv, Stacks
  <1> QED
    BY <1>3, <1>17, <1>19, <1>22 DEF InterruptsInv

LEMMA InvNext == InterruptsInv /\ [Next]_vars => InterruptsInv'
  <1> SUFFICES ASSUME InterruptsInv, [Next]_vars PROVE InterruptsInv'
    OBVIOUS
  <1>1. CASE UNCHANGED vars
    BY <1>1 DEF vars, InterruptsInv, TypeOK, Shape
  <1>2. ASSUME NEW n \in Unmasked, Raise(n) PROVE InterruptsInv'
    BY <1>2 DEF Raise, InterruptsInv, TypeOK, Shape
  <1> QED
    BY <1>1, <1>2, InvAccept, InvTimerReturn, InvTimerSwitch, InvEoi, InvRestoreFlags,
       InvReturn, InvCli, InvLaunch, InvFinishClosed DEF Next

-----------------------------------------------------------------------------
LEMMA InvAlways == Spec => []InterruptsInv
  BY InvInit, InvNext, PTL DEF Spec

\* The state of the controllers and the handlers' frames keep their types.
THEOREM TypeCorrect == Spec => []TypeOK
  <1>1. InterruptsInv => TypeOK
    BY DEF InterruptsInv
  <1> QED
    BY <1>1, InvAlways, PTL

\* No stack is deeper than the bound on nesting.
LEMMA Depth ==
  ASSUME InterruptsInv, NEW t \in Terminal
  PROVE  stack[t] \in Seq(Frame) /\ Len(stack[t]) \in Nat /\ Len(stack[t]) <= MAX_DEPTH
  <1>1. stack[t] \in Seq(Frame)
    BY DEF InterruptsInv, TypeOK
  <1>2. CASE t = cpu
    BY <1>1, <1>2 DEF InterruptsInv, Shape, Active
  <1>3. CASE t \in launched \ {cpu}
    BY <1>1, <1>3 DEF InterruptsInv, Shape, Suspended
  <1>4. CASE t \notin launched
    <2>1. stack[t] = << >>
      BY <1>4 DEF InterruptsInv, Shape
    <2> QED
      BY <1>1, <2>1, DepthAssumption
  <1> QED
    BY <1>1, <1>2, <1>3, <1>4

LEMMA OwingIsServed ==
  ASSUME InterruptsInv, NEW n \in Unmasked
  PROVE  /\ Owing(n) # {} <=> n \in Served(isr)
         /\ \A a, b \in Owing(n) : a = b
  <1>0. Accounted(stack, Served(isr))
    BY DEF InterruptsInv
  <1>1. ASSUME NEW at \in Owing(n)
        PROVE  /\ at[1] \in Terminal /\ at[2] \in Nat /\ at = <<at[1], at[2]>>
               /\ Owes(stack[at[1]], at[2], n)
    <2>1. /\ at \in Terminal \X (1 .. MAX_DEPTH)
          /\ at[2] <= Len(stack[at[1]]) /\ stack[at[1]][at[2]].line = n
          /\ stack[at[1]][at[2]].step \in OwingStep
      BY <1>1 DEF Owing, OwingStep
    <2>2. at[1] \in Terminal /\ at[2] \in 1 .. MAX_DEPTH /\ at = <<at[1], at[2]>>
      BY <2>1
    <2>3. Len(stack[at[1]]) \in Nat
      BY <2>2, Depth
    <2>4. at[2] \in Nat /\ at[2] \in 1 .. Len(stack[at[1]])
      BY <2>1, <2>2, <2>3, DepthAssumption
    <2> QED
      BY <2>1, <2>2, <2>4 DEF Owes
  <1>2. ASSUME NEW t \in Terminal, NEW i \in Nat, Owes(stack[t], i, n)
        PROVE  <<t, i>> \in Owing(n)
    <2>1. /\ i \in 1 .. Len(stack[t]) /\ stack[t][i].line = n /\ stack[t][i].step \in OwingStep
      BY <1>2 DEF Owes
    <2>2. i \in 1 .. MAX_DEPTH /\ i <= Len(stack[t])
      BY <2>1, Depth, DepthAssumption
    <2> QED
      BY <2>1, <2>2 DEF Owing, OwingStep
  <1>3. Owing(n) # {} => n \in Served(isr)
    BY <1>0, <1>1 DEF Accounted
  <1>4. n \in Served(isr) => Owing(n) # {}
    <2>1. SUFFICES ASSUME n \in Served(isr) PROVE Owing(n) # {}
      OBVIOUS
    <2>2. PICK t \in Terminal, i \in Nat : Owes(stack[t], i, n)
      BY <1>0, <2>1 DEF Accounted
    <2> QED
      BY <1>2, <2>2
  <1>5. ASSUME NEW a \in Owing(n), NEW b \in Owing(n) PROVE a = b
    <2>1. a[1] = b[1] /\ a[2] = b[2]
      BY <1>0, <1>1 DEF Accounted
    <2> QED
      BY <1>1, <2>1
  <1> QED
    BY <1>3, <1>4, <1>5

\* send_eoi (i8259.c) and the controllers agree with the handlers on the stacks for
\* every number of terminals and however deep handlers nest: a line is in service
\* exactly while one handler of it, running, nested or suspended by a launch, has not
\* sent its EOI.
THEOREM ServiceAccountedFor == Spec => []InServiceAccounted
  <1>1. InterruptsInv => InServiceAccounted
    <2> SUFFICES ASSUME InterruptsInv PROVE InServiceAccounted
      OBVIOUS
    <2> DEFINE owed == {n \in Unmasked : Owing(n) # {}}
               slave == {n \in owed : n >= NUM_INTERRUPTS_PER_PIC}
    <2>1. owed = Served(isr)
      BY OwingIsServed DEF Served
    <2>2. \A n \in owed : \A a, b \in Owing(n) : a = b
      BY OwingIsServed
    <2> HIDE DEF owed
    <2>3. PicOK(isr)
      BY DEF InterruptsInv
    <2> USE DEF NUM_INTERRUPTS_PER_PIC, TIMER_CHIP_LINE_NO, KEYBOARD_LINE_NO, RTC_LINE_NO,
                SLAVE_IRQ
    <2>4. slave = IF 0 \in isr.slave THEN {8} ELSE {}
      BY <2>1, Lines DEF Served, InService
    <2>5. \A n \in {0, 1} : n \in owed <=> n \in isr.master
      BY <2>1, Lines DEF Served, InService
    <2>6. owed \subseteq {0, 1, 8}
      BY <2>1, Lines DEF Served
    <2>7. isr.slave = {n - NUM_INTERRUPTS_PER_PIC : n \in slave}
      <3> HIDE DEF slave
      <3>1. isr.slave \in SUBSET {0}
        BY <2>3 DEF PicOK
      <3> QED
        BY <2>4, <3>1
    <2>8. isr.master = (owed \ slave) \cup (IF slave = {} THEN {} ELSE {SLAVE_IRQ})
      <3> HIDE DEF slave
      <3>1. isr.master \in SUBSET {0, 1, 2} /\ (2 \in isr.master <=> 0 \in isr.slave)
        BY <2>3 DEF PicOK
      <3>2. 8 \in owed \ slave => FALSE
        BY <2>1, <2>4 DEF Served, InService
      <3>3. CASE 0 \in isr.slave
        <4>1. slave = {8} /\ 2 \in isr.master
          BY <2>4, <3>1, <3>3
        <4>2. slave # {} /\ owed \ slave = owed \ {8}
          BY <4>1
        <4>3. isr.master = (owed \ {8}) \cup {2}
          <5>1. (0 \in owed <=> 0 \in isr.master) /\ (1 \in owed <=> 1 \in isr.master)
            BY <2>5
          <5>2. ASSUME NEW x \in isr.master PROVE x \in (owed \ {8}) \cup {2}
            BY <3>1, <5>1
          <5>3. ASSUME NEW x \in (owed \ {8}) \cup {2} PROVE x \in isr.master
            BY <2>6, <4>1, <5>1
          <5> QED
            BY <5>2, <5>3
        <4> QED
          BY <4>2, <4>3
      <3>4. CASE 0 \notin isr.slave
        <4>1. slave = {} /\ 2 \notin isr.master
          BY <2>4, <3>1, <3>4
        <4> QED
          BY <2>5, <2>6, <3>1, <3>2, <4>1
      <3> QED
        BY <3>3, <3>4
    <2> QED
      BY <2>2, <2>7, <2>8 DEF InServiceAccounted, owed
  <1> QED
    BY <1>1, InvAlways, PTL

\* round_robin_scheduler (scheduling.c) and launch_terminal (keyboard.c) leave every
\* process but the running one where the next switch can pick it up, and the timer has
\* cut no handler in two, for every number of terminals.
THEOREM AlwaysResumable == Spec => []Resumable
  <1>1. InterruptsInv => Resumable
    <2> SUFFICES ASSUME InterruptsInv, NEW t \in launched \ {cpu}
                 PROVE  /\ stack[t] # << >>
                        /\ LET below == {stack[t][i] : i \in 2 .. Len(stack[t])} IN
                           IF Head(stack[t]).step = "launched"
                           THEN \A f \in below : f.line = RTC_LINE_NO \/ f.step \in {"done", "left"}
                           ELSE /\ Head(stack[t]) = [line |-> TIMER_CHIP_LINE_NO, step |-> "done"]
                                /\ \A f \in below : f.step = "left"
      BY DEF Resumable
    <2>1. stack[t] \in Seq(Frame) /\ Suspended(stack[t])
      BY DEF InterruptsInv, TypeOK, Shape
    <2>2. stack[t] # << >> /\ Head(stack[t]) = stack[t][1] /\ stack[t][1] \in Frame
      BY <2>1 DEF Suspended
    <2>3. stack[t][1] = [line |-> stack[t][1].line, step |-> stack[t][1].step]
      BY <2>2 DEF Frame
    <2> QED
      BY <2>1, <2>2, <2>3 DEF Suspended, OnlyRtcOwes
  <1> QED
    BY <1>1, InvAlways, PTL
=============================================================================
