---------------------------- MODULE TerminalInput ----------------------------
(***************************************************************************)
(* The line buffer of each terminal: the keyboard interrupt fills the      *)
(* buffer of the displayed terminal (process_sent_scancode), the process   *)
(* in front of a terminal takes a line out of it (read_terminal).  The two *)
(* share stdin, stdin_index, read_waiting and allowed_to_read, and the     *)
(* reader only looks at them when its terminal has the CPU, which may be   *)
(* many keys after the Enter that ended its line.                          *)
(***************************************************************************)
EXTENDS Naturals, Sequences

CONSTANTS
    NUM_TERMINALS,
    KEYBOARD_BUFF_SIZE,    \* 128 in the code
    Printable,             \* the characters a key can type, '\n' left out
    Request                \* the values of nbytes a program asks for

ASSUME TerminalsAssumption == NUM_TERMINALS \in Nat \ {0}
ASSUME BufferAssumption == KEYBOARD_BUFF_SIZE \in Nat /\ KEYBOARD_BUFF_SIZE > 2
ASSUME RequestAssumption == Request \subseteq Nat

NULL_CHAR == "NUL"
NEW_LINE == "newline"
NO_CHAR == "unprintable"     \* Esc, a modifier, a function key
NULL_NL_PADDING == 2

ASSUME PrintableAssumption == {NULL_CHAR, NEW_LINE, NO_CHAR} \cap Printable = {}

Terminal == 0 .. NUM_TERMINALS - 1
Slot == 0 .. KEYBOARD_BUFF_SIZE - 1
Char == Printable \cup {NEW_LINE}

VARIABLES
    terminal_state,            \* the displayed terminal
    terminal_being_serviced,   \* the terminal that has the CPU
    backspace,                 \* BACKSPACE_MASK of keyboard_state
    stdin, stdin_index,        \* fields of terminal_t, by terminal
    allowed_to_read, read_waiting,
    nbytes,                    \* the argument of the read in progress, or of the last
    reader,                    \* "idle", or "spinning" in read_terminal's loop
    line                       \* what the last read of each terminal returned; the
                               \* program is done with it when it reads again

vars == <<terminal_state, terminal_being_serviced, backspace, stdin, stdin_index,
          allowed_to_read, read_waiting, nbytes, reader, line>>
bufferVars == <<stdin, stdin_index, allowed_to_read>>
readerVars == <<read_waiting, nbytes, reader, line>>

TypeOK ==
    /\ terminal_state \in Terminal
    /\ terminal_being_serviced \in Terminal
    /\ backspace \in BOOLEAN
    /\ stdin \in [Terminal -> [Slot -> Char \cup {NULL_CHAR}]]
    /\ stdin_index \in [Terminal -> Slot]
    /\ allowed_to_read \in [Terminal -> {0, 1}]
    /\ read_waiting \in [Terminal -> {0, 1}]
    /\ nbytes \in [Terminal -> Request \cup {0}]
    /\ reader \in [Terminal -> {"idle", "spinning"}]
    /\ line \in [Terminal -> Seq(Char)]

-----------------------------------------------------------------------------
Empty == [i \in Slot |-> NULL_CHAR]

\* init_kbd.
Init ==
    /\ terminal_state = 0
    /\ terminal_being_serviced = 0
    /\ backspace = FALSE
    /\ stdin = [t \in Terminal |-> Empty]
    /\ stdin_index = [t \in Terminal |-> 0]
    /\ allowed_to_read = [t \in Terminal |-> 0]
    /\ read_waiting = [t \in Terminal |-> 0]
    /\ nbytes = [t \in Terminal |-> 0]
    /\ reader = [t \in Terminal |-> "idle"]
    /\ line = [t \in Terminal |-> << >>]

-----------------------------------------------------------------------------
(***************************************************************************)
(* Keys, neither Alt nor Control being held (with either of them no key    *)
(* touches a buffer).  Every key acts on the displayed terminal.           *)
(***************************************************************************)
\* stdin[stdin_index++] = c, and the NULL_CHAR after it.
Put(t, c) ==
    /\ stdin' = [stdin EXCEPT ![t] = [@ EXCEPT ![stdin_index[t]] = c,
                                               ![stdin_index[t] + 1] = NULL_CHAR]]
    /\ stdin_index' = [stdin_index EXCEPT ![t] = @ + 1]
    /\ UNCHANGED allowed_to_read

\* mutants: the padding is forgotten; room is left for the NULL_CHAR alone.
RoomToTheEnd(t) == stdin_index[t] < KEYBOARD_BUFF_SIZE
RoomWithoutNewline(t) == stdin_index[t] < KEYBOARD_BUFF_SIZE - 1

\* Room for a character, a newline and the NULL_CHAR.
Room(t) == stdin_index[t] < KEYBOARD_BUFF_SIZE - NULL_NL_PADDING

TypeChar(c) ==
    LET t == terminal_state IN
    /\ c \in Printable
    /\ ~backspace
    /\ Room(t)
    /\ Put(t, c)
    /\ UNCHANGED <<terminal_state, terminal_being_serviced, backspace, readerVars>>

\* Enter while a read waits: the line is complete and the read may go on.  A
\* buffer that starts with a newline is cut after it.
Enter ==
    LET t == terminal_state
        i == stdin_index[t]
        typed == [stdin[t] EXCEPT ![i] = NEW_LINE, ![i + 1] = NULL_CHAR]
    IN
    /\ ~backspace
    /\ i < KEYBOARD_BUFF_SIZE - 1
    /\ read_waiting[t] = 1
    /\ stdin' = [stdin EXCEPT ![t] = IF typed[0] = NEW_LINE
                                     THEN [typed EXCEPT ![1] = NULL_CHAR] ELSE typed]
    /\ stdin_index' = [stdin_index EXCEPT ![t] = i + 1]
    /\ allowed_to_read' = [allowed_to_read EXCEPT ![t] = 1]
    /\ UNCHANGED <<terminal_state, terminal_being_serviced, backspace, readerVars>>

\* mutants: the index is reset but the buffer is not; the line is let go although
\* no read waits for it.
EnterKeepsBytes ==
    LET t == terminal_state IN
    /\ ~backspace
    /\ stdin_index[t] < KEYBOARD_BUFF_SIZE - 1
    /\ read_waiting[t] = 0
    /\ stdin_index' = [stdin_index EXCEPT ![t] = 0]
    /\ UNCHANGED <<terminal_state, terminal_being_serviced, backspace, stdin,
                   allowed_to_read, readerVars>>

EnterAlwaysAllows ==
    LET t == terminal_state IN
    /\ ~backspace
    /\ stdin_index[t] < KEYBOARD_BUFF_SIZE - 1
    /\ read_waiting[t] = 0
    /\ stdin_index' = [stdin_index EXCEPT ![t] = 0]
    /\ stdin' = [stdin EXCEPT ![t] = Empty]
    /\ allowed_to_read' = [allowed_to_read EXCEPT ![t] = 1]
    /\ UNCHANGED <<terminal_state, terminal_being_serviced, backspace, readerVars>>

\* Enter while no read waits: what was typed is thrown away.
EnterUnread ==
    LET t == terminal_state IN
    /\ ~backspace
    /\ stdin_index[t] < KEYBOARD_BUFF_SIZE - 1
    /\ read_waiting[t] = 0
    /\ stdin' = [stdin EXCEPT ![t] = Empty]
    /\ stdin_index' = [stdin_index EXCEPT ![t] = 0]
    /\ allowed_to_read' = [allowed_to_read EXCEPT ![t] = 0]
    /\ UNCHANGED <<terminal_state, terminal_being_serviced, backspace, readerVars>>

\* Backspace (NO_CHAR: it types nothing), or any key while Backspace is down: the
\* last character goes, then the key's own character is entered if there is room.
\* Enter is such a key: its newline is entered, but no read is let go.
KeyWithBackspace(c) ==
    LET t == terminal_state
        i == IF stdin_index[t] > 0 THEN stdin_index[t] - 1 ELSE 0
        cut == IF stdin_index[t] > 0 THEN [stdin[t] EXCEPT ![i] = NULL_CHAR] ELSE stdin[t]
        fits == c \in Char /\ i < KEYBOARD_BUFF_SIZE - NULL_NL_PADDING
    IN
    /\ backspace \/ c = NO_CHAR
    /\ backspace' = TRUE
    /\ stdin' = [stdin EXCEPT ![t] =
                   IF fits THEN [cut EXCEPT ![i] = c, ![i + 1] = NULL_CHAR] ELSE cut]
    /\ stdin_index' = [stdin_index EXCEPT ![t] = IF fits THEN i + 1 ELSE i]
    /\ UNCHANGED <<terminal_state, terminal_being_serviced, allowed_to_read, readerVars>>

ReleaseBackspace ==
    /\ backspace
    /\ backspace' = FALSE
    /\ UNCHANGED <<terminal_state, terminal_being_serviced, bufferVars, readerVars>>

\* Alt+Fn.
SwitchTerminal(t) ==
    /\ t # terminal_state
    /\ terminal_state' = t
    /\ UNCHANGED <<terminal_being_serviced, backspace, bufferVars, readerVars>>

-----------------------------------------------------------------------------
(***************************************************************************)
(* The process in front of each terminal, which runs when its terminal is  *)
(* serviced.                                                               *)
(***************************************************************************)
\* The timer gives the CPU to another terminal.
Timer(t) ==
    /\ t # terminal_being_serviced
    /\ terminal_being_serviced' = t
    /\ UNCHANGED <<terminal_state, backspace, bufferVars, readerVars>>

\* read_terminal up to its loop.  A wrong descriptor or a negative nbytes is
\* refused before that.
ReadStart(t, n) ==
    /\ t = terminal_being_serviced
    /\ reader[t] = "idle"
    /\ reader' = [reader EXCEPT ![t] = "spinning"]
    /\ nbytes' = [nbytes EXCEPT ![t] = n]
    /\ read_waiting' = [read_waiting EXCEPT ![t] = 1]
    /\ line' = [line EXCEPT ![t] = << >>]
    /\ UNCHANGED <<terminal_state, terminal_being_serviced, backspace, bufferVars>>

\* The condition that ends read_terminal's loop; the mutant looks at the displayed
\* terminal instead of the reader's own.
ShownMayRead(t) == allowed_to_read[terminal_state] # 0
MayRead(t) == allowed_to_read[t] # 0

\* The number of bytes the copy loop moves: up to the first NULL_CHAR.
IsLength(buf, n) ==
    /\ n \in 0 .. KEYBOARD_BUFF_SIZE
    /\ n \in Slot => buf[n] = NULL_CHAR
    /\ \A i \in Slot : i < n => buf[i] # NULL_CHAR

\* The loop sees allowed_to_read: copy, flush and return, interrupts off.
ReadFinish(t) ==
    /\ t = terminal_being_serviced
    /\ reader[t] = "spinning"
    /\ MayRead(t)
    /\ \E n \in 0 .. KEYBOARD_BUFF_SIZE :
        /\ IsLength(stdin[t], n)
        /\ line' = [line EXCEPT ![t] = [i \in 1 .. n |-> stdin[t][i - 1]]]
    /\ stdin' = [stdin EXCEPT ![t] = Empty]
    /\ stdin_index' = [stdin_index EXCEPT ![t] = 0]
    /\ allowed_to_read' = [allowed_to_read EXCEPT ![t] = 0]
    /\ read_waiting' = [read_waiting EXCEPT ![t] = 0]
    /\ reader' = [reader EXCEPT ![t] = "idle"]
    /\ UNCHANGED <<terminal_state, terminal_being_serviced, backspace, nbytes>>

-----------------------------------------------------------------------------
Next ==
    \/ \E c \in Printable : TypeChar(c)
    \/ Enter
    \/ EnterUnread
    \/ \E c \in Char \cup {NO_CHAR} : KeyWithBackspace(c)
    \/ ReleaseBackspace
    \/ \E t \in Terminal : SwitchTerminal(t)
    \/ \E t \in Terminal : Timer(t)
    \/ \E t \in Terminal, n \in Request : ReadStart(t, n)
    \/ \E t \in Terminal : ReadFinish(t)

Spec == Init /\ [][Next]_vars

\* Every terminal is serviced again and again (Processes shows it), and long
\* enough for one turn of read_terminal's loop.
Fairness ==
    \A t \in Terminal : SF_vars(Timer(t)) /\ SF_vars(ReadFinish(t))

FairSpec == Spec /\ Fairness

-----------------------------------------------------------------------------
(***************************************************************************)
(* Properties.                                                             *)
(***************************************************************************)
\* The last slot always holds NULL_CHAR: the copy loop, which reads stdin[i]
\* before it compares i with the size (keyboard.c:163), stays in the buffer.
CopyStaysInBuffer == \A t \in Terminal : stdin[t][KEYBOARD_BUFF_SIZE - 1] = NULL_CHAR

\* Nothing typed earlier is left behind the index: characters that were deleted,
\* thrown away or already read never come back in a later line.
NoStaleInput ==
    \A t \in Terminal, i \in Slot : i >= stdin_index[t] => stdin[t][i] = NULL_CHAR

\* A read is let go only by an Enter of its own time: allowed_to_read is never
\* left over from an earlier read, and read_waiting says that one is spinning.
AllowedIsFresh ==
    \A t \in Terminal :
        /\ read_waiting[t] = 1 <=> reader[t] = "spinning"
        /\ allowed_to_read[t] = 1 => read_waiting[t] = 1

\* A waiting read can always be ended: however much has been typed, deleted and
\* typed again, the buffer keeps the slot the newline needs until Enter has used
\* it (a full buffer ignores every key but Backspace, Enter included).
EnterStillFits ==
    \A t \in Terminal : allowed_to_read[t] = 0 => stdin_index[t] < KEYBOARD_BUFF_SIZE - 1

\* Once Enter has let a read go the read returns, whatever else is typed.
ReadReturns ==
    \A t \in Terminal : allowed_to_read[t] = 1 ~> reader[t] = "idle"

\* "number of bytes to copy to user (stops at null or this number)":
\* keyboard.c:128.  The code does not: TLC finds it violated by a line longer than
\* the request, for any Request below KEYBOARD_BUFF_SIZE - 1.
ReadRespectsNbytes ==
    \A t \in Terminal : reader[t] = "idle" => Len(line[t]) <= nbytes[t]
=============================================================================
