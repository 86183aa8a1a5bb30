------------------------- MODULE TerminalInputProofs -------------------------
(***************************************************************************)
(* Theorems about TerminalInput, for every buffer size and number of       *)
(* terminals.  The inductive invariant is the conjunction of TypeOK (which *)
(* bounds stdin_index), NoStaleInput and AllowedIsFresh.                   *)
(***************************************************************************)
EXTENDS TerminalInput, TLAPS

InputInv == TypeOK /\ NoStaleInput /\ AllowedIsFresh

LEMMA Distinct ==
  /\ NEW_LINE # NULL_CHAR
  /\ NULL_CHAR \notin Char
  /\ NO_CHAR \notin Char
  BY PrintableAssumption DEF NEW_LINE, NULL_CHAR, NO_CHAR, Char

LEMMA InputInit == Init => InputInv
  <1> SUFFICES ASSUME Init PROVE InputInv
    OBVIOUS
  <1>1. 0 \in Terminal /\ 0 \in Slot
    BY TerminalsAssumption, BufferAssumption DEF Terminal, Slot
  <1>2. TypeOK
    BY <1>1 DEF Init, TypeOK, Empty
  <1>3. NoStaleInput
    BY DEF Init, NoStaleInput, Empty
  <1>4. AllowedIsFresh
    BY DEF Init, AllowedIsFresh
  <1> QED
    BY <1>2, <1>3, <1>4 DEF InputInv

\* A step that replaces the buffer of one terminal by one that is empty from the
\* new index on keeps NoStaleInput.
LEMMA BufferStep ==
  ASSUME TypeOK, NoStaleInput, NEW t \in Terminal,
         NEW buf \in [Slot -> Char \cup {NULL_CHAR}], NEW n \in Slot,
         \A i \in Slot : i >= n => buf[i] = NULL_CHAR,
         stdin' = [stdin EXCEPT ![t] = buf],
         stdin_index' = [stdin_index EXCEPT ![t] = n]
  PROVE  /\ NoStaleInput'
         /\ stdin' \in [Terminal -> [Slot -> Char \cup {NULL_CHAR}]]
         /\ stdin_index' \in [Terminal -> Slot]
  BY DEF TypeOK, NoStaleInput

\* Entering a character at n, where the buffer is empty from n on and two slots
\* are left, gives a buffer that is empty from n + 1 on.
LEMMA PutStep ==
  ASSUME NEW buf \in [Slot -> Char \cup {NULL_CHAR}], NEW n \in Slot, n + 1 \in Slot,
         \A i \in Slot : i >= n => buf[i] = NULL_CHAR, NEW c \in Char
  PROVE  LET new == [buf EXCEPT ![n] = c, ![n + 1] = NULL_CHAR] IN
         /\ new \in [Slot -> Char \cup {NULL_CHAR}]
         /\ \A i \in Slot : i >= n + 1 => new[i] = NULL_CHAR
  BY DEF Slot

\* Every key and every step of a reader keeps the invariant.
LEMMA InputStep == InputInv /\ [Next]_vars => InputInv'
  <1> SUFFICES ASSUME InputInv, [Next]_vars PROVE InputInv'
    OBVIOUS
  <1> USE DEF InputInv, TypeOK, bufferVars, readerVars
  <1>0. terminal_state \in Terminal
    OBVIOUS
  <1>1. ASSUME NEW c \in Printable, TypeChar(c) PROVE InputInv'
    <2> DEFINE t == terminal_state
               new == [stdin[t] EXCEPT ![stdin_index[t]] = c, ![stdin_index[t] + 1] = NULL_CHAR]
    <2>1. stdin_index[t] \in Slot /\ stdin_index[t] + 1 \in Slot /\ c \in Char
      BY <1>1, BufferAssumption DEF TypeChar, Room, NULL_NL_PADDING, Slot, Char
    <2>2. \A i \in Slot : i >= stdin_index[t] => stdin[t][i] = NULL_CHAR
      BY DEF NoStaleInput
    <2>3. /\ new \in [Slot -> Char \cup {NULL_CHAR}]
          /\ \A i \in Slot : i >= stdin_index[t] + 1 => new[i] = NULL_CHAR
      BY <2>1, <2>2, PutStep
    <2>4. stdin' = [stdin EXCEPT ![t] = new]
          /\ stdin_index' = [stdin_index EXCEPT ![t] = stdin_index[t] + 1]
      BY <1>1 DEF TypeChar, Put
    <2> HIDE DEF new
    <2>5. NoStaleInput' /\ stdin' \in [Terminal -> [Slot -> Char \cup {NULL_CHAR}]]
          /\ stdin_index' \in [Terminal -> Slot]
      BY <2>1, <2>3, <2>4, BufferStep
    <2> QED
      BY <1>1, <2>5 DEF TypeChar, Put, AllowedIsFresh
  <1>2. CASE Enter
    <2> DEFINE t == terminal_state
               n == stdin_index[t]
               typed == [stdin[t] EXCEPT ![n] = NEW_LINE, ![n + 1] = NULL_CHAR]
               new == IF typed[0] = NEW_LINE THEN [typed EXCEPT ![1] = NULL_CHAR] ELSE typed
    <2>1. n \in Slot /\ n + 1 \in Slot /\ NEW_LINE \in Char
      <3>1. n \in Slot /\ n < KEYBOARD_BUFF_SIZE - 1
        BY <1>0, <1>2 DEF Enter
      <3> QED
        BY <3>1, BufferAssumption DEF Slot, Char
    <2>2. \A i \in Slot : i >= n => stdin[t][i] = NULL_CHAR
      BY DEF NoStaleInput
    <2>3. /\ typed \in [Slot -> Char \cup {NULL_CHAR}]
          /\ \A i \in Slot : i >= n + 1 => typed[i] = NULL_CHAR
      BY <2>1, <2>2, PutStep
    <2>4. stdin' = [stdin EXCEPT ![t] = new] /\ stdin_index' = [stdin_index EXCEPT ![t] = n + 1]
      BY <1>2 DEF Enter
    <2> HIDE DEF typed
    <2>5. /\ new \in [Slot -> Char \cup {NULL_CHAR}]
          /\ \A i \in Slot : i >= n + 1 => new[i] = NULL_CHAR
      BY <2>3 DEF Slot
    <2> HIDE DEF new
    <2>6. NoStaleInput' /\ stdin' \in [Terminal -> [Slot -> Char \cup {NULL_CHAR}]]
          /\ stdin_index' \in [Terminal -> Slot]
      BY <2>1, <2>4, <2>5, BufferStep
    <2> QED
      BY <1>2, <2>6 DEF Enter, AllowedIsFresh
  <1>3. Empty \in [Slot -> Char \cup {NULL_CHAR}] /\ 0 \in Slot
        /\ \A i \in Slot : Empty[i] = NULL_CHAR
    BY BufferAssumption DEF Empty, Slot
  <1>4. CASE EnterUnread
    <2>1. NoStaleInput' /\ stdin' \in [Terminal -> [Slot -> Char \cup {NULL_CHAR}]]
          /\ stdin_index' \in [Terminal -> Slot]
      BY <1>3, <1>4, BufferStep DEF EnterUnread
    <2> QED
      BY <1>4, <2>1 DEF EnterUnread, AllowedIsFresh
  <1>5. ASSUME NEW c \in Char \cup {NO_CHAR}, KeyWithBackspace(c) PROVE InputInv'
    <2> DEFINE t == terminal_state
               n == IF stdin_index[t] > 0 THEN stdin_index[t] - 1 ELSE 0
               cut == IF stdin_index[t] > 0 THEN [stdin[t] EXCEPT ![n] = NULL_CHAR] ELSE stdin[t]
               fits == c \in Char /\ n < KEYBOARD_BUFF_SIZE - NULL_NL_PADDING
               new == IF fits THEN [cut EXCEPT ![n] = c, ![n + 1] = NULL_CHAR] ELSE cut
               m == IF fits THEN n + 1 ELSE n
    <2>1. n \in Slot /\ (stdin_index[t] > 0 => n = stdin_index[t] - 1)
      BY <1>0, BufferAssumption DEF Slot
    <2>2. /\ cut \in [Slot -> Char \cup {NULL_CHAR}]
          /\ \A i \in Slot : i >= n => cut[i] = NULL_CHAR
      <3>1. \A i \in Slot : i >= stdin_index[t] => stdin[t][i] = NULL_CHAR
        BY <1>0 DEF NoStaleInput
      <3>2. stdin[t] \in [Slot -> Char \cup {NULL_CHAR}] /\ stdin_index[t] \in Slot
        BY <1>0
      <3>3. CASE stdin_index[t] > 0
        BY <2>1, <3>1, <3>2, <3>3 DEF Slot
      <3>4. CASE ~(stdin_index[t] > 0)
        BY <3>1, <3>2, <3>4 DEF Slot
      <3> QED
        BY <3>3, <3>4
    <2> HIDE DEF cut
    <2>3. stdin' = [stdin EXCEPT ![t] = new] /\ stdin_index' = [stdin_index EXCEPT ![t] = m]
      BY <1>5 DEF KeyWithBackspace, cut
    <2> HIDE DEF n
    <2>4. /\ new \in [Slot -> Char \cup {NULL_CHAR}]
          /\ m \in Slot
          /\ \A i \in Slot : i >= m => new[i] = NULL_CHAR
      <3>1. CASE fits
        <4>1. n + 1 \in Slot
          BY <2>1, <3>1, BufferAssumption DEF Slot, NULL_NL_PADDING
        <4>2. /\ [cut EXCEPT ![n] = c, ![n + 1] = NULL_CHAR] \in [Slot -> Char \cup {NULL_CHAR}]
              /\ \A i \in Slot :
                   i >= n + 1 => [cut EXCEPT ![n] = c, ![n + 1] = NULL_CHAR][i] = NULL_CHAR
          <5>1. c \in Char
            BY <3>1
          <5> HIDE DEF fits
          <5> QED
            BY <2>1, <2>2, <4>1, <5>1 DEF Slot
        <4> QED
          BY <3>1, <4>1, <4>2
      <3>2. CASE ~fits
        BY <2>1, <2>2, <3>2
      <3> QED
        BY <3>1, <3>2
    <2> HIDE DEF new, m
    <2>5. NoStaleInput' /\ stdin' \in [Terminal -> [Slot -> Char \cup {NULL_CHAR}]]
          /\ stdin_index' \in [Terminal -> Slot]
      BY <1>0, <2>3, <2>4, BufferStep
    <2> QED
      BY <1>5, <2>5 DEF KeyWithBackspace, AllowedIsFresh
  <1>6. CASE ReleaseBackspace
    BY <1>6 DEF ReleaseBackspace, NoStaleInput, AllowedIsFresh
  <1>7. ASSUME NEW t \in Terminal, SwitchTerminal(t) \/ Timer(t) PROVE InputInv'
    BY <1>7 DEF SwitchTerminal, Timer, NoStaleInput, AllowedIsFresh
  <1>8. ASSUME NEW t \in Terminal, NEW n \in Request, ReadStart(t, n) PROVE InputInv'
    BY <1>8 DEF ReadStart, NoStaleInput, AllowedIsFresh
  <1>9. ASSUME NEW t \in Terminal, ReadFinish(t) PROVE InputInv'
    <2>1. NoStaleInput' /\ stdin' \in [Terminal -> [Slot -> Char \cup {NULL_CHAR}]]
          /\ stdin_index' \in [Terminal -> Slot]
      BY <1>3, <1>9, BufferStep DEF ReadFinish
    <2>2. PICK n \in 0 .. KEYBOARD_BUFF_SIZE :
            /\ IsLength(stdin[t], n)
            /\ line' = [line EXCEPT ![t] = [i \in 1 .. n |-> stdin[t][i - 1]]]
      BY <1>9 DEF ReadFinish
    <2>3. [i \in 1 .. n |-> stdin[t][i - 1]] \in Seq(Char)
      <3>1. n \in Nat
        BY <2>2, BufferAssumption
      <3>2. ASSUME NEW i \in 1 .. n PROVE stdin[t][i - 1] \in Char
        BY <2>2, <3>1, <3>2, BufferAssumption DEF IsLength, Slot
      <3> QED
        BY <3>1, <3>2
    <2>4. line' \in [Terminal -> Seq(Char)]
      BY <2>2, <2>3
    <2> QED
      BY <1>9, <2>1, <2>4 DEF ReadFinish, AllowedIsFresh
  <1>10. CASE UNCHANGED vars
    BY <1>10 DEF vars, NoStaleInput, AllowedIsFresh
  <1> QED
    BY <1>1, <1>2, <1>4, <1>5, <1>6, <1>7, <1>8, <1>9, <1>10 DEF Next

\* What was typed before a line began never shows up in it, and no read is let go
\* by an Enter that an earlier read had.
THEOREM InputCorrect == Spec => [](TypeOK /\ NoStaleInput /\ AllowedIsFresh)
  BY InputInit, InputStep, PTL DEF Spec, InputInv

\* No read is let go by an Enter that came before it and that an earlier read had.
THEOREM EnterIsFresh == Spec => []AllowedIsFresh
  BY InputCorrect, PTL

\* read_terminal's copy loop never reads past the end of stdin.
THEOREM CopyInBounds == Spec => []CopyStaysInBuffer
  <1>1. InputInv => CopyStaysInBuffer
    BY BufferAssumption DEF InputInv, TypeOK, NoStaleInput, CopyStaysInBuffer, Slot
  <1> QED
    BY <1>1, InputInit, InputStep, PTL DEF Spec

\* A buffer never fills up under a waiting read in such a way that Enter, the only
\* key that can end the read, would be ignored.
THEOREM EnterFits == Spec => []EnterStillFits
  <1>1. Init => EnterStillFits
    BY BufferAssumption DEF Init, EnterStillFits
  <1>2. ASSUME InputInv, EnterStillFits, [Next]_vars PROVE EnterStillFits'
    <2> USE <1>2, BufferAssumption DEF InputInv, TypeOK, EnterStillFits, bufferVars, readerVars
    <2>1. ASSUME NEW c \in Printable, TypeChar(c) PROVE EnterStillFits'
      BY <2>1 DEF TypeChar, Room, Put, NULL_NL_PADDING, Slot
    <2>2. CASE Enter
      BY <2>2 DEF Enter
    <2>3. CASE EnterUnread
      BY <2>3 DEF EnterUnread
    <2>4. ASSUME NEW c \in Char \cup {NO_CHAR}, KeyWithBackspace(c) PROVE EnterStillFits'
      <3>1. PICK m \in Nat :
              /\ stdin_index' = [stdin_index EXCEPT ![terminal_state] = m]
              /\ m < KEYBOARD_BUFF_SIZE - 1
        <4> DEFINE n == IF stdin_index[terminal_state] > 0
                        THEN stdin_index[terminal_state] - 1 ELSE 0
                   m == IF c \in Char /\ n < KEYBOARD_BUFF_SIZE - NULL_NL_PADDING
                        THEN n + 1 ELSE n
        <4>1. stdin_index' = [stdin_index EXCEPT ![terminal_state] = m]
          BY <2>4 DEF KeyWithBackspace
        <4>2. stdin_index[terminal_state] \in Slot
          OBVIOUS
        <4>3. m \in Nat /\ m < KEYBOARD_BUFF_SIZE - 1
          BY <4>2 DEF Slot, NULL_NL_PADDING
        <4> QED
          BY <4>1, <4>3
      <3> QED
        BY <2>4, <3>1 DEF KeyWithBackspace
    <2>5. CASE ReleaseBackspace
      BY <2>5 DEF ReleaseBackspace
    <2>6. ASSUME NEW t \in Terminal, SwitchTerminal(t) \/ Timer(t) PROVE EnterStillFits'
      BY <2>6 DEF SwitchTerminal, Timer
    <2>7. ASSUME NEW t \in Terminal, NEW n \in Request, ReadStart(t, n) PROVE EnterStillFits'
      BY <2>7 DEF ReadStart
    <2>8. ASSUME NEW t \in Terminal, ReadFinish(t) PROVE EnterStillFits'
      BY <2>8 DEF ReadFinish
    <2>9. CASE UNCHANGED vars
      BY <2>9 DEF vars
    <2> QED
      BY <2>1, <2>2, <2>3, <2>4, <2>5, <2>6, <2>7, <2>8, <2>9 DEF Next
  <1> QED
    BY <1>1, <1>2, InputInit, InputStep, PTL DEF Spec
=============================================================================
