------------------------------- MODULE Console -------------------------------
(***************************************************************************)
(* The text screen (lib.c) as the terminals share it.  There is one video  *)
(* memory, one pair screen_x, screen_y and one hardware cursor; every      *)
(* terminal has a 4KB backing store and a saved pair.  The processes of    *)
(* the displayed terminal write to video memory, the others to the backing *)
(* store of theirs (Processes proves it of the page tables).               *)
(*                                                                         *)
(* Output of a program (write_terminal) runs with interrupts off and the   *)
(* keyboard's echo cannot be preempted, so each is one step; a program     *)
(* that has called vidmap writes cells whenever it has the CPU.  The       *)
(* attribute byte of a cell is left out.                                   *)
(***************************************************************************)
EXTENDS Naturals, Sequences

CONSTANTS
    NUM_TERMINALS,
    NUM_COLS, NUM_ROWS,
    PAGE_CELLS,         \* the cells of a 4KB page: 2048, of which 80*25 are shown
    Printable,
    Output,             \* the strings that programs and the kernel print
    BackgroundRefusal   \* may Alt+Fn be refused while the process that has the
                        \* CPU is not in the displayed terminal?

ASSUME TerminalsAssumption == NUM_TERMINALS \in Nat \ {0}
ASSUME ScreenAssumption ==
    /\ NUM_COLS \in Nat \ {0}
    /\ NUM_ROWS \in Nat \ {0}
    /\ PAGE_CELLS \in Nat /\ PAGE_CELLS >= NUM_ROWS * NUM_COLS
    /\ BackgroundRefusal \in BOOLEAN

EMPTY_SPACE == " "
NEW_LINE == "newline"
BKSP_CHAR == "backspace"
GARBAGE == "garbage"      \* what the memory held when the machine was turned on

ASSUME PrintableAssumption ==
    /\ {NEW_LINE, BKSP_CHAR, GARBAGE} \cap Printable = {}
    /\ Output \subseteq Seq(Printable \cup {NEW_LINE, BKSP_CHAR})

Terminal == 0 .. NUM_TERMINALS - 1
Cell == 0 .. NUM_ROWS * NUM_COLS - 1
UNSET == NUM_ROWS * NUM_COLS   \* the cursor before the kernel has set it: anywhere
Blank == [i \in Cell |-> EMPTY_SPACE]
Page == 0 .. NUM_TERMINALS
VIDEO == 0
Backing(t) == t + 1

VARIABLES
    page,                      \* the visible cells of video memory and of the stores
    screen_x, screen_y,
    saved,                     \* terminals[t].screen_x, .screen_y
    cursor,                    \* the cell of the hardware cursor, or UNSET
    terminals_launched,
    terminal_state,            \* the displayed terminal
    terminal_being_serviced,   \* the terminal that has the CPU
    own                        \* history: text and position of each terminal if it
                               \* had a screen of its own

vars == <<page, screen_x, screen_y, saved, cursor, terminals_launched,
          terminal_state, terminal_being_serviced, own>>

Screen(text, x, y) == [text |-> text, x |-> x, y |-> y]
Screens == [text : [Cell -> Printable \cup {EMPTY_SPACE, GARBAGE}],
            x : 0 .. NUM_COLS - 1,
            y : 0 .. NUM_ROWS - 1]
Position == [x : 0 .. NUM_COLS - 1, y : 0 .. NUM_ROWS - 1]

\* Its part on positions is what keeps every write of putc inside the page.
TypeOK ==
    /\ page \in [Page -> [Cell -> Printable \cup {EMPTY_SPACE, GARBAGE}]]
    /\ screen_x \in 0 .. NUM_COLS - 1
    /\ screen_y \in 0 .. NUM_ROWS - 1
    /\ saved \in [Terminal -> Position]
    /\ cursor \in Cell \cup {UNSET}
    /\ terminals_launched \subseteq Terminal
    /\ terminal_state \in Terminal
    /\ terminal_being_serviced \in Terminal
    /\ own \in [Terminal -> Screens]

\* Where the processes of terminal t write.
PageOf(t) == IF t = terminal_state THEN VIDEO ELSE Backing(t)

-----------------------------------------------------------------------------
\* clear_video_and_backing_stores clears NUM_ROWS*NUM_COLS cells for video memory
\* and each store, in one run from the first: the stores begin PAGE_CELLS apart.
Cleared(p, i) == p * PAGE_CELLS + i < NUM_ROWS * NUM_COLS * (NUM_TERMINALS + 1)

\* After initialize_video_memory, which does not set the hardware cursor; the kernel
\* then prints for terminal 0.
Init ==
    /\ page \in [Page -> [Cell -> {EMPTY_SPACE, GARBAGE}]]
    /\ \A p \in Page, i \in Cell : Cleared(p, i) => page[p][i] = EMPTY_SPACE
    /\ screen_x = 0
    /\ screen_y = 0
    /\ saved = [t \in Terminal |-> [x |-> 0, y |-> 0]]
    /\ cursor = UNSET
    /\ terminals_launched = {0}
    /\ terminal_state = 0
    /\ terminal_being_serviced = 0
    /\ own = [t \in Terminal |-> Screen(page[PageOf(t)], 0, 0)]

-----------------------------------------------------------------------------
(***************************************************************************)
(* One character: putc_screen, and putc_kbd but for the cursor.            *)
(***************************************************************************)
NewLine(s) == [s EXCEPT !.x = 0, !.y = @ + 1]

Erase(s) ==
    LET x == IF s.x = 0 THEN NUM_COLS - 1 ELSE s.x - 1
        y == IF s.x = 0 /\ s.y > 0 THEN s.y - 1 ELSE s.y
    IN  Screen([s.text EXCEPT ![NUM_COLS * y + x] = EMPTY_SPACE], x, y)

Place(s, c) ==
    Screen([s.text EXCEPT ![NUM_COLS * s.y + s.x] = c],
           (s.x + 1) % NUM_COLS,
           s.y + (s.x + 1) \div NUM_COLS)

\* shift_screen_up, if the position has left the screen; the mutant forgets the
\* last row.
ScrolledLate(s) == IF s.y > NUM_ROWS THEN [s EXCEPT !.y = @ - 1] ELSE s
Scrolled(s) ==
    IF s.y >= NUM_ROWS
    THEN Screen([i \in Cell |-> IF i < (NUM_ROWS - 1) * NUM_COLS
                                THEN s.text[i + NUM_COLS] ELSE EMPTY_SPACE],
                s.x, s.y - 1)
    ELSE s

putc(s, c) ==
    Scrolled(CASE c = NEW_LINE -> NewLine(s)
               [] c = BKSP_CHAR -> Erase(s)
               [] OTHER -> Place(s, c))

put_t(s, str) ==
    LET after[i \in 0 .. Len(str)] == IF i = 0 THEN s ELSE putc(after[i - 1], str[i])
    IN  after[Len(str)]

-----------------------------------------------------------------------------
(***************************************************************************)
(* Programs.                                                               *)
(***************************************************************************)
At(s) == [x |-> s.x, y |-> s.y]
CellAt(pos) == NUM_COLS * pos.y + pos.x

\* write_terminal for terminal t, on page p: t's position is put in place of the
\* displayed terminal's, and back.
write_terminal(t, p, str) ==
    LET before == [saved EXCEPT ![terminal_state] = [x |-> screen_x, y |-> screen_y]]
        s == put_t(Screen(page[p], before[t].x, before[t].y), str)
        after == [before EXCEPT ![t] = At(s)]
    IN
    /\ page' = [page EXCEPT ![p] = s.text]
    /\ saved' = after
    /\ screen_x' = after[terminal_state].x
    /\ screen_y' = after[terminal_state].y
    /\ cursor' = CellAt(after[terminal_state])

\* A program, or an exception handler, prints for the terminal that has the CPU.
WriteTerminal(str) ==
    LET t == terminal_being_serviced IN
    /\ write_terminal(t, PageOf(t), str)
    /\ own' = [own EXCEPT ![t] = put_t(@, str)]
    /\ UNCHANGED <<terminals_launched, terminal_state, terminal_being_serviced>>

\* A program that has called vidmap writes a cell.
Draw(i, c) ==
    LET t == terminal_being_serviced IN
    /\ page' = [page EXCEPT ![PageOf(t)] = [@ EXCEPT ![i] = c]]
    /\ own' = [own EXCEPT ![t].text = [@ EXCEPT ![i] = c]]
    /\ UNCHANGED <<screen_x, screen_y, saved, cursor, terminals_launched,
                   terminal_state, terminal_being_serviced>>

\* The timer moves the CPU.
Timer(t) ==
    /\ t \in terminals_launched \ {terminal_being_serviced}
    /\ terminal_being_serviced' = t
    /\ UNCHANGED <<page, screen_x, screen_y, saved, cursor, terminals_launched,
                   terminal_state, own>>

-----------------------------------------------------------------------------
(***************************************************************************)
(* The keyboard, with the displayed terminal's page directory loaded.      *)
(***************************************************************************)
\* putc_kbd echoes a key.
Echo(c) ==
    LET s == putc(Screen(page[VIDEO], screen_x, screen_y), c) IN
    /\ page' = [page EXCEPT ![VIDEO] = s.text]
    /\ screen_x' = s.x
    /\ screen_y' = s.y
    /\ cursor' = CellAt(s)
    /\ own' = [own EXCEPT ![terminal_state] = putc(@, c)]
    /\ UNCHANGED <<saved, terminals_launched, terminal_state, terminal_being_serviced>>

\* Ctrl+L: the screen is cleared, then the prompt and the line typed so far are
\* printed, the displayed terminal passing for the serviced one meanwhile.
ClearScreen(str) ==
    LET s == put_t(Screen(Blank, 0, 0), str) IN
    /\ page' = [page EXCEPT ![VIDEO] = s.text]
    /\ saved' = [saved EXCEPT ![terminal_state] = At(s)]
    /\ screen_x' = s.x
    /\ screen_y' = s.y
    /\ cursor' = CellAt(s)
    /\ own' = [own EXCEPT ![terminal_state] = s]
    /\ UNCHANGED <<terminals_launched, terminal_state, terminal_being_serviced>>

\* mutant: video memory is loaded before it is saved.
CopiedLoadFirst(from, to) ==
    [page EXCEPT ![VIDEO] = page[Backing(to)], ![Backing(from)] = page[Backing(to)]]
\* The two copies of change_terminal_state.
Copied(from, to) ==
    [page EXCEPT ![Backing(from)] = page[VIDEO], ![VIDEO] = page[Backing(to)]]

\* mutant: the hardware cursor stays where it was.
ChangeLeavesCursor(to) ==
    /\ page' = Copied(terminal_state, to)
    /\ saved' = [saved EXCEPT ![terminal_state] = [x |-> screen_x, y |-> screen_y]]
    /\ screen_x' = saved[to].x
    /\ screen_y' = saved[to].y
    /\ UNCHANGED cursor
    /\ terminal_state' = to

change_terminal_state(to) ==
    /\ page' = Copied(terminal_state, to)
    /\ saved' = [saved EXCEPT ![terminal_state] = [x |-> screen_x, y |-> screen_y]]
    /\ screen_x' = saved[to].x
    /\ screen_y' = saved[to].y
    /\ cursor' = CellAt(saved[to])
    /\ terminal_state' = to

\* Alt+Fn, to a terminal that has its shell and to one that gets it now.
Switch(t) ==
    /\ t \in terminals_launched \ {terminal_state}
    /\ change_terminal_state(t)
    /\ UNCHANGED <<terminals_launched, terminal_being_serviced, own>>

Launch(t) ==
    /\ t \in Terminal \ terminals_launched
    /\ change_terminal_state(t)
    /\ terminals_launched' = terminals_launched \cup {t}
    /\ terminal_being_serviced' = t
    /\ UNCHANGED own

\* Alt+Fn refused because no pid is free: a message for the user, who looks at the
\* displayed terminal, printed from the serviced terminal's position.
RefuseLaunch(t, str) ==
    /\ t \in Terminal \ terminals_launched
    /\ BackgroundRefusal \/ terminal_being_serviced = terminal_state
    /\ write_terminal(terminal_being_serviced, VIDEO, str)
    /\ own' = [own EXCEPT ![terminal_state] = put_t(@, str)]
    /\ UNCHANGED <<terminals_launched, terminal_state, terminal_being_serviced>>

-----------------------------------------------------------------------------
Next ==
    \/ \E str \in Output : WriteTerminal(str)
    \/ \E i \in Cell, c \in Printable : Draw(i, c)
    \/ \E t \in Terminal : Timer(t)
    \/ \E c \in Printable \cup {NEW_LINE, BKSP_CHAR} : Echo(c)
    \/ \E str \in Output : ClearScreen(str)
    \/ \E t \in Terminal : Switch(t)
    \/ \E t \in Terminal : Launch(t)
    \/ \E t \in Terminal, str \in Output : RefuseLaunch(t, str)

Spec == Init /\ [][Next]_vars

-----------------------------------------------------------------------------
(***************************************************************************)
(* Properties.                                                             *)
(***************************************************************************)
\* Every terminal has its text and its position, as if it had a screen of its own:
\* no order of output, echo, drawing, Ctrl+L and terminal switches mixes them up
\* (needs ~BackgroundRefusal: keyboard.c:362).
EachItsOwnScreen ==
    \A t \in Terminal :
        /\ page[PageOf(t)] = own[t].text
        /\ At(own[t]) = IF t = terminal_state THEN [x |-> screen_x, y |-> screen_y]
                                              ELSE saved[t]

\* The hardware cursor is at the displayed terminal's position, whoever printed.  It
\* is still where the boot loader left it only while nothing has moved the position.
CursorShown ==
    \/ cursor = NUM_COLS * screen_y + screen_x
    \/ cursor = UNSET /\ screen_x = 0 /\ screen_y = 0

\* "Clears video memory and backing stores for all 3 terminals": lib.c:64.  The
\* code does not: TLC finds it violated in the first state.
StoresCleared == \A t \in Terminal \ terminals_launched : page[Backing(t)] = Blank
=============================================================================
