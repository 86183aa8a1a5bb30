---------------------------- MODULE ConsoleProofs ----------------------------
(***************************************************************************)
(* Theorems about Console, for every number of terminals, size of the      *)
(* screen and alphabet.                                                    *)
(***************************************************************************)
EXTENDS Console, Integers, WellFoundedInduction, TLAPS

Char == Printable \cup {EMPTY_SPACE, GARBAGE}
Key == Printable \cup {NEW_LINE, BKSP_CHAR}
Column == 0 .. NUM_COLS - 1
Row == 0 .. NUM_ROWS - 1

-----------------------------------------------------------------------------
(***************************************************************************)
(* Induction up to n, by the least number for which the claim fails.       *)
(***************************************************************************)
LEMMA LeastNatural ==
  ASSUME NEW S, S \subseteq Nat, S # {}
  PROVE  \E x \in S : \A y \in S : x <= y
  <1> DEFINE R == {ss \in Nat \X Nat : ss[1] < ss[2]}
  <1>1. IsWellFoundedOn(R, Nat)
    BY NatLessThanWellFounded DEF OpToRel
  <1> HIDE DEF R
  <1>2. PICK x \in S : \A y \in S : ~(<<y, x>> \in R)
    BY <1>1, WFMin
  <1>3. ASSUME NEW y \in S PROVE x <= y
    <2>1. x \in Nat /\ y \in Nat
      OBVIOUS
    <2>2. <<y, x>> \in Nat \X Nat /\ <<y, x>>[1] = y /\ <<y, x>>[2] = x
      BY <2>1
    <2>3. y < x => <<y, x>> \in R
      BY <2>2, Zenon DEF R
    <2> QED
      BY <1>2, <2>1, <2>3
  <1> QED
    BY <1>3

LEMMA InductionUpTo ==
  ASSUME NEW n \in Nat, NEW S, 0 \in S, \A i \in 1 .. n : i - 1 \in S => i \in S
  PROVE  \A i \in 0 .. n : i \in S
  <1> DEFINE Bad == (0 .. n) \ S
  <1> SUFFICES ASSUME Bad # {} PROVE FALSE
    OBVIOUS
  <1>1. Bad \subseteq Nat
    OBVIOUS
  <1> HIDE DEF Bad
  <1>2. PICK x \in Bad : \A y \in Bad : x <= y
    BY <1>1, LeastNatural
  <1>3. x \in 1 .. n /\ x - 1 \in 0 .. n /\ x - 1 \in S
    BY <1>2 DEF Bad
  <1> QED
    BY <1>2, <1>3 DEF Bad

-----------------------------------------------------------------------------
(***************************************************************************)
(* Cells.                                                                  *)
(***************************************************************************)
LEMMA Sizes == NUM_COLS \in Nat \ {0} /\ NUM_ROWS \in Nat \ {0} /\ NUM_ROWS * NUM_COLS \in Nat
  BY ScreenAssumption

LEMMA CellInRange ==
  ASSUME NEW x \in Column, NEW y \in Row
  PROVE  NUM_COLS * y + x \in Cell
  <1>1. x \in Nat /\ x <= NUM_COLS - 1 /\ y \in Nat /\ y <= NUM_ROWS - 1
    BY Sizes DEF Column, Row
  <1>2. PICK k \in Nat : NUM_ROWS = y + 1 + k
    BY <1>1, Sizes
  <1>3. NUM_ROWS * NUM_COLS = NUM_COLS * y + NUM_COLS + NUM_COLS * k
    BY <1>1, <1>2, Sizes
  <1>4. NUM_COLS * y \in Nat /\ NUM_COLS * k \in Nat
    BY <1>1, Sizes
  <1> QED
    BY <1>1, <1>3, <1>4, Sizes DEF Cell

\* The cell below a cell that is not in the last row.
LEMMA CellBelow ==
  ASSUME NEW i \in Cell, i < (NUM_ROWS - 1) * NUM_COLS
  PROVE  i + NUM_COLS \in Cell
  <1>1. (NUM_ROWS - 1) * NUM_COLS = NUM_ROWS * NUM_COLS - NUM_COLS
    BY Sizes
  <1> QED
    BY <1>1, Sizes DEF Cell

-----------------------------------------------------------------------------
(***************************************************************************)
(* putc keeps a screen a screen.  Before Scrolled the row may be one too   *)
(* many.                                                                   *)
(***************************************************************************)
Unscrolled == [text : [Cell -> Char], x : Column, y : 0 .. NUM_ROWS]

LEMMA ScreensAre == Screens = [text : [Cell -> Char], x : Column, y : Row]
  BY DEF Screens, Char, Column, Row

LEMMA ScrolledScreen == \A s \in Unscrolled : Scrolled(s) \in Screens
  <1> SUFFICES ASSUME NEW s \in Unscrolled PROVE Scrolled(s) \in Screens
    OBVIOUS
  <1>1. s.text \in [Cell -> Char] /\ s.x \in Column /\ s.y \in 0 .. NUM_ROWS
    BY DEF Unscrolled
  <1>2. CASE s.y >= NUM_ROWS
    <2> DEFINE up == [i \in Cell |-> IF i < (NUM_ROWS - 1) * NUM_COLS
                                     THEN s.text[i + NUM_COLS] ELSE EMPTY_SPACE]
    <2>1. ASSUME NEW i \in Cell
          PROVE  (IF i < (NUM_ROWS - 1) * NUM_COLS THEN s.text[i + NUM_COLS] ELSE EMPTY_SPACE) \in Char
      BY <1>1, CellBelow DEF Char
    <2>2. up \in [Cell -> Char]
      BY <2>1
    <2>3. s.y - 1 \in Row
      BY <1>1, <1>2, Sizes DEF Row
    <2>4. Scrolled(s) = Screen(up, s.x, s.y - 1)
      BY <1>2 DEF Scrolled
    <2> HIDE DEF up
    <2> QED
      BY <1>1, <2>2, <2>3, <2>4, ScreensAre DEF Screen
  <1>3. CASE ~(s.y >= NUM_ROWS)
    <2>1. s.y \in Row
      BY <1>1, <1>3, Sizes DEF Row
    <2>2. Scrolled(s) = s
      BY <1>3 DEF Scrolled
    <2> QED
      BY <1>1, <2>1, <2>2, ScreensAre DEF Unscrolled
  <1> QED
    BY <1>2, <1>3

LEMMA PutcScreen ==
  ASSUME NEW s \in Screens, NEW c \in Key
  PROVE  putc(s, c) \in Screens
  <1>1. s.text \in [Cell -> Char] /\ s.x \in Column /\ s.y \in Row /\ s \in Unscrolled
    BY ScreensAre, Sizes DEF Unscrolled, Row
  <1>2. CASE c = NEW_LINE
    <2>1. 0 \in Column /\ s.y + 1 \in 0 .. NUM_ROWS
      BY <1>1, Sizes DEF Column, Row
    <2>2. s = Screen(s.text, s.x, s.y)
      BY <1>1 DEF Unscrolled, Screen
    <2>3. NewLine(s) \in Unscrolled
      BY <1>1, <2>1, <2>2 DEF NewLine, Unscrolled, Screen
    <2>4. putc(s, c) = Scrolled(NewLine(s))
      BY <1>2 DEF putc, NEW_LINE, BKSP_CHAR
    <2> QED
      BY <2>3, <2>4, ScrolledScreen
  <1>3. CASE c = BKSP_CHAR
    <2>1. PICK x \in Column, y \in Row :
            Erase(s) = Screen([s.text EXCEPT ![NUM_COLS * y + x] = EMPTY_SPACE], x, y)
      <3> DEFINE x == IF s.x = 0 THEN NUM_COLS - 1 ELSE s.x - 1
                 y == IF s.x = 0 /\ s.y > 0 THEN s.y - 1 ELSE s.y
      <3>1. x \in Column /\ y \in Row
        BY <1>1, Sizes DEF Column, Row
      <3>2. Erase(s) = Screen([s.text EXCEPT ![NUM_COLS * y + x] = EMPTY_SPACE], x, y)
        BY DEF Erase
      <3> HIDE DEF x, y
      <3> QED
        BY <3>1, <3>2
    <2>2. PICK k : k = NUM_COLS * y + x
      OBVIOUS
    <2>3. [s.text EXCEPT ![k] = EMPTY_SPACE] \in [Cell -> Char]
      BY <1>1 DEF Char
    <2>4. y \in 0 .. NUM_ROWS
      BY Sizes DEF Row
    <2>5. Erase(s) \in Unscrolled
      BY <2>1, <2>2, <2>3, <2>4 DEF Unscrolled, Screen
    <2>6. putc(s, c) = Scrolled(Erase(s))
      BY <1>3 DEF putc, NEW_LINE, BKSP_CHAR
    <2> QED
      BY <2>5, <2>6, ScrolledScreen
  <1>4. CASE c \in Printable
    <2>1. c # NEW_LINE /\ c # BKSP_CHAR
      BY <1>4, PrintableAssumption
    <2>2. (s.x + 1) % NUM_COLS \in Column
      BY <1>1, Sizes DEF Column
    <2>3. s.y + (s.x + 1) \div NUM_COLS \in 0 .. NUM_ROWS
      <3>1. s.x + 1 \in 1 .. NUM_COLS
        BY <1>1, Sizes DEF Column
      <3>2. (s.x + 1) \div NUM_COLS \in {0, 1}
        BY <3>1, Sizes
      <3> QED
        BY <1>1, <3>2, Sizes DEF Row
    <2>4. PICK k : k = NUM_COLS * s.y + s.x
      OBVIOUS
    <2>5. [s.text EXCEPT ![k] = c] \in [Cell -> Char]
      BY <1>1, <1>4 DEF Char
    <2>6. Place(s, c) \in Unscrolled
      BY <2>2, <2>3, <2>4, <2>5 DEF Place, Unscrolled, Screen
    <2>7. putc(s, c) = Scrolled(Place(s, c))
      BY <2>1 DEF putc
    <2> QED
      BY <2>6, <2>7, ScrolledScreen
  <1> QED
    BY <1>2, <1>3, <1>4 DEF Key

-----------------------------------------------------------------------------
(***************************************************************************)
(* put_t keeps a screen a screen: the loop has a result for every string,  *)
(* and every turn of it is a putc.                                         *)
(***************************************************************************)
Turns(s, str, n, g) == [i \in 0 .. n |-> IF i = 0 THEN s ELSE putc(g[i - 1], str[i])]

LEMMA TurnsExist ==
  ASSUME NEW s, NEW str, NEW n \in Nat
  PROVE  \E g : g = Turns(s, str, n, g)
  <1> DEFINE S == {m \in 0 .. n : \E g : g = Turns(s, str, m, g)}
  <1>1. 0 \in S
    <2> DEFINE g == [i \in 0 .. 0 |-> s]
    <2>1. g = Turns(s, str, 0, g)
      BY DEF Turns
    <2> QED
      BY <2>1
  <1>2. ASSUME NEW m \in 1 .. n, m - 1 \in S PROVE m \in S
    <2>1. PICK g : g = Turns(s, str, m - 1, g)
      BY <1>2
    <2> DEFINE next == putc(g[m - 1], str[m])
               h == [i \in 0 .. m |-> IF i = m THEN next ELSE g[i]]
    <2>2. ASSUME NEW i \in 0 .. m
          PROVE  h[i] = IF i = 0 THEN s ELSE putc(h[i - 1], str[i])
      <3>1. CASE i = m
        <4>1. m - 1 \in 0 .. m /\ m - 1 # m /\ m # 0
          OBVIOUS
        <4>2. h[m - 1] = g[m - 1] /\ h[i] = next
          BY <3>1, <4>1
        <4> QED
          BY <3>1, <4>1, <4>2
      <3>2. CASE i # m
        <4>1. i \in 0 .. m - 1 /\ h[i] = g[i]
          BY <3>2
        <4>2. g[i] = IF i = 0 THEN s ELSE putc(g[i - 1], str[i])
          BY <2>1, <4>1 DEF Turns
        <4>3. i # 0 => i - 1 \in 0 .. m /\ i - 1 # m /\ h[i - 1] = g[i - 1]
          BY <4>1
        <4> QED
          BY <4>1, <4>2, <4>3
      <3> QED
        BY <3>1, <3>2
    <2>3. h = [i \in 0 .. m |-> h[i]]
      OBVIOUS
    <2> HIDE DEF h, next
    <2>4. h = Turns(s, str, m, h)
      BY <2>2, <2>3 DEF Turns
    <2> QED
      BY <2>4
  <1> HIDE DEF S
  <1>3. n \in S
    BY <1>1, <1>2, InductionUpTo
  <1> QED
    BY <1>3 DEF S

LEMMA PutScreen ==
  ASSUME NEW s \in Screens, NEW str \in Seq(Key)
  PROVE  put_t(s, str) \in Screens
  <1> DEFINE after == CHOOSE g : g = Turns(s, str, Len(str), g)
  <1>1. Len(str) \in Nat /\ \A i \in 1 .. Len(str) : str[i] \in Key
    OBVIOUS
  <1>2. after = Turns(s, str, Len(str), after)
    BY <1>1, TurnsExist
  <1>3. put_t(s, str) = after[Len(str)]
    BY DEF put_t, Turns
  <1> HIDE DEF after
  <1>4. after[0] = s
    BY <1>1, <1>2 DEF Turns
  <1>5. ASSUME NEW i \in 1 .. Len(str) PROVE after[i] = putc(after[i - 1], str[i])
    BY <1>1, <1>2 DEF Turns
  <1> DEFINE S == {i \in 0 .. Len(str) : after[i] \in Screens}
  <1>6. 0 \in S
    BY <1>1, <1>4
  <1>7. ASSUME NEW i \in 1 .. Len(str), i - 1 \in S PROVE i \in S
    BY <1>1, <1>5, <1>7, PutcScreen
  <1> HIDE DEF S
  <1>8. \A i \in 0 .. Len(str) : i \in S
    BY <1>1, <1>6, <1>7, InductionUpTo
  <1>9. Len(str) \in S
    BY <1>1, <1>8
  <1> QED
    BY <1>3, <1>9 DEF S

-----------------------------------------------------------------------------
(***************************************************************************)
(* What write_terminal does.  Pos(t) is the position that counts for t:    *)
(* the shared pair if t is displayed, the saved one if not.                *)
(***************************************************************************)
Pos(t) == IF t = terminal_state THEN [x |-> screen_x, y |-> screen_y] ELSE saved[t]
Shown(t) == Screen(page[PageOf(t)], Pos(t).x, Pos(t).y)

LEMMA Types ==
  ASSUME TypeOK
  PROVE  /\ page \in [Page -> [Cell -> Char]]
         /\ screen_x \in Column /\ screen_y \in Row
  BY DEF TypeOK, Char, Column, Row

LEMMA Positions ==
  /\ \A q \in Position : q.x \in Column /\ q.y \in Row
  /\ \A x \in Column, y \in Row : [x |-> x, y |-> y] \in Position
  BY DEF Position, Column, Row

LEMMA Pages == VIDEO \in Page /\ \A t \in Terminal : Backing(t) \in Page /\ Backing(t) # VIDEO
  BY TerminalsAssumption DEF VIDEO, Page, Terminal, Backing

LEMMA Strings == \A str \in Output : str \in Seq(Key)
  BY PrintableAssumption DEF Key

LEMMA PosType ==
  ASSUME TypeOK, NEW t \in Terminal
  PROVE  Pos(t) \in Position /\ Pos(t).x \in Column /\ Pos(t).y \in Row
  <1>1. CASE t = terminal_state
    BY <1>1, Types, Positions DEF Pos
  <1>2. CASE t # terminal_state
    <2>1. Pos(t) = saved[t] /\ saved[t] \in Position
      BY <1>2 DEF Pos, TypeOK
    <2> QED
      BY <2>1, Positions
  <1> QED
    BY <1>1, <1>2

LEMMA ScreenType ==
  ASSUME TypeOK, NEW t \in Terminal, NEW p \in Page
  PROVE  Screen(page[p], Pos(t).x, Pos(t).y) \in Screens
  <1>1. page[p] \in [Cell -> Char]
    BY Types
  <1> QED
    BY <1>1, PosType, ScreensAre DEF Screen

LEMMA AtScreen ==
  ASSUME NEW s \in Screens
  PROVE  /\ s.text \in [Cell -> Char] /\ s.x \in Column /\ s.y \in Row
         /\ At(s) \in Position /\ At(s).x = s.x /\ At(s).y = s.y
         /\ CellAt(s) \in Cell /\ CellAt(s) = NUM_COLS * s.y + s.x
         /\ s = Screen(s.text, s.x, s.y)
  <1>1. s.text \in [Cell -> Char] /\ s.x \in Column /\ s.y \in Row
    BY ScreensAre
  <1>2. s = Screen(s.text, s.x, s.y)
    BY ScreensAre DEF Screen
  <1>3. CellAt(s) \in Cell /\ CellAt(s) = NUM_COLS * s.y + s.x
    BY <1>1, CellInRange DEF CellAt
  <1> QED
    BY <1>1, <1>2, <1>3, Positions DEF At

\* The screen s is printed for t on page p: t has its new position, and every other
\* terminal the one it had.
Written(t, p, s) ==
    /\ page' = [page EXCEPT ![p] = s.text]
    /\ saved' \in [Terminal -> Position]
    /\ saved'[t] = At(s)
    /\ \A u \in Terminal \ {t} : saved'[u] = Pos(u)
    /\ screen_x' = saved'[terminal_state].x
    /\ screen_y' = saved'[terminal_state].y
    /\ cursor' = NUM_COLS * screen_y' + screen_x'

LEMMA WriteExact ==
  ASSUME TypeOK, NEW t \in Terminal, NEW p \in Page, NEW str \in Output,
         write_terminal(t, p, str)
  PROVE  \E s \in Screens :
            /\ s = put_t(Screen(page[p], Pos(t).x, Pos(t).y), str)
            /\ Written(t, p, s)
  <1> DEFINE before == [saved EXCEPT ![terminal_state] = [x |-> screen_x, y |-> screen_y]]
  <1>1. saved \in [Terminal -> Position] /\ terminal_state \in Terminal
    BY DEF TypeOK
  <1>2. [x |-> screen_x, y |-> screen_y] \in Position
    BY Types, Positions
  <1>3. before \in [Terminal -> Position] /\ \A u \in Terminal : before[u] = Pos(u)
    BY <1>1, <1>2 DEF Pos
  <1>4. PICK s : s = put_t(Screen(page[p], Pos(t).x, Pos(t).y), str)
    OBVIOUS
  <1>5. s \in Screens
    BY <1>4, ScreenType, PutScreen, Strings
  <1>6. /\ page' = [page EXCEPT ![p] = s.text]
        /\ saved' = [before EXCEPT ![t] = At(s)]
        /\ screen_x' = saved'[terminal_state].x
        /\ screen_y' = saved'[terminal_state].y
        /\ cursor' = CellAt(saved'[terminal_state])
    BY <1>3, <1>4 DEF write_terminal
  <1> HIDE DEF before
  <1>7. At(s) \in Position
    BY <1>5, AtScreen
  <1>8. /\ saved' \in [Terminal -> Position]
        /\ saved'[t] = At(s)
        /\ \A u \in Terminal \ {t} : saved'[u] = Pos(u)
    BY <1>3, <1>6, <1>7
  <1> QED
    BY <1>4, <1>5, <1>6, <1>8 DEF Written, CellAt

\* So written, the state keeps its types and the cursor is shown.
LEMMA WrittenTypes ==
  ASSUME TypeOK, NEW t \in Terminal, NEW p \in Page, NEW s \in Screens, Written(t, p, s)
  PROVE  /\ page' \in [Page -> [Cell -> Printable \cup {EMPTY_SPACE, GARBAGE}]]
         /\ screen_x' \in 0 .. NUM_COLS - 1
         /\ screen_y' \in 0 .. NUM_ROWS - 1
         /\ saved' \in [Terminal -> Position]
         /\ cursor' \in Cell
         /\ cursor' = NUM_COLS * screen_y' + screen_x'
  <1>1. page' \in [Page -> [Cell -> Char]]
    BY AtScreen, Types DEF Written
  <1>2. saved'[terminal_state] \in Position
    BY DEF Written, TypeOK
  <1>3. screen_x' \in Column /\ screen_y' \in Row
    BY <1>2, Positions DEF Written
  <1>4. cursor' \in Cell
    BY <1>3, CellInRange DEF Written
  <1> QED
    BY <1>1, <1>3, <1>4 DEF Written, Char, Column, Row

-----------------------------------------------------------------------------
(***************************************************************************)
(* Types, and the cursor.                                                  *)
(***************************************************************************)
LEMMA TypeInit == Init => TypeOK /\ CursorShown
  <1> SUFFICES ASSUME Init PROVE TypeOK /\ CursorShown
    OBVIOUS
  <1>1. 0 \in Terminal /\ 0 \in Column /\ 0 \in Row
    BY TerminalsAssumption, Sizes DEF Terminal, Column, Row
  <1>2. cursor \in Cell \cup {UNSET} /\ CursorShown
    BY DEF Init, CursorShown
  <1>3. page \in [Page -> [Cell -> Char]]
    BY DEF Init, Char
  <1>4. \A t \in Terminal : page[PageOf(t)] \in [Cell -> Char]
    BY <1>3, Pages DEF PageOf
  <1>5. \A t \in Terminal : Screen(page[PageOf(t)], 0, 0) \in Screens
    BY <1>1, <1>4, ScreensAre DEF Screen
  <1>6. own \in [Terminal -> Screens]
    BY <1>5 DEF Init
  <1>7. [x |-> 0, y |-> 0] \in Position
    BY <1>1, Positions
  <1> QED
    BY <1>1, <1>2, <1>3, <1>6, <1>7 DEF Init, TypeOK, Char, Column, Row

\* change_terminal_state.
LEMMA ChangeTypes ==
  ASSUME TypeOK, NEW t \in Terminal, change_terminal_state(t)
  PROVE  /\ page' \in [Page -> [Cell -> Printable \cup {EMPTY_SPACE, GARBAGE}]]
         /\ screen_x' \in 0 .. NUM_COLS - 1
         /\ screen_y' \in 0 .. NUM_ROWS - 1
         /\ saved' \in [Terminal -> Position]
         /\ cursor' \in Cell
         /\ terminal_state' \in Terminal
         /\ CursorShown'
  <1>1. page' \in [Page -> [Cell -> Char]]
    <2>1. page[VIDEO] \in [Cell -> Char] /\ page[Backing(t)] \in [Cell -> Char]
      BY Types, Pages
    <2> QED
      BY <2>1, Types DEF change_terminal_state, Copied
  <1>2. saved[t] \in Position /\ saved[t].x \in Column /\ saved[t].y \in Row
    BY Positions DEF TypeOK
  <1>3. [x |-> screen_x, y |-> screen_y] \in Position
    BY Types, Positions
  <1>4. saved' \in [Terminal -> Position]
    BY <1>3 DEF change_terminal_state, TypeOK
  <1>5. /\ screen_x' = saved[t].x /\ screen_y' = saved[t].y /\ terminal_state' = t
        /\ cursor' = NUM_COLS * screen_y' + screen_x'
    BY DEF change_terminal_state, CellAt
  <1>6. cursor' \in Cell
    BY <1>2, <1>5, CellInRange
  <1> QED
    BY <1>1, <1>2, <1>4, <1>5, <1>6 DEF CursorShown, Char, Column, Row

LEMMA TypeStep ==
  TypeOK /\ CursorShown /\ [Next]_vars => TypeOK' /\ CursorShown'
  <1> SUFFICES ASSUME TypeOK, CursorShown, [Next]_vars PROVE TypeOK' /\ CursorShown'
    OBVIOUS
  <1>0. /\ terminal_state \in Terminal /\ terminal_being_serviced \in Terminal
        /\ terminals_launched \subseteq Terminal /\ own \in [Terminal -> Screens]
        /\ PageOf(terminal_being_serviced) \in Page /\ VIDEO \in Page
    BY Pages DEF TypeOK, PageOf
  <1>1. ASSUME NEW str \in Output, WriteTerminal(str) PROVE TypeOK' /\ CursorShown'
    <2>1. PICK s \in Screens : Written(terminal_being_serviced, PageOf(terminal_being_serviced), s)
      BY <1>0, <1>1, WriteExact DEF WriteTerminal
    <2>2. put_t(own[terminal_being_serviced], str) \in Screens
      BY <1>0, PutScreen, Strings
    <2>3. own' \in [Terminal -> Screens]
      BY <1>0, <1>1, <2>2 DEF WriteTerminal
    <2> QED
      BY <1>0, <1>1, <2>1, <2>3, WrittenTypes DEF WriteTerminal, TypeOK, CursorShown
  <1>2. ASSUME NEW i \in Cell, NEW c \in Printable, Draw(i, c) PROVE TypeOK' /\ CursorShown'
    <2> DEFINE t == terminal_being_serviced
    <2>1. page[PageOf(t)] \in [Cell -> Char]
      BY <1>0, Types
    <2>2. [page[PageOf(t)] EXCEPT ![i] = c] \in [Cell -> Char]
      BY <2>1 DEF Char
    <2>3. page' \in [Page -> [Cell -> Char]]
      BY <1>2, <2>2, Types DEF Draw
    <2>4. [own[t] EXCEPT !.text = [@ EXCEPT ![i] = c]] \in Screens
      <3>1. PICK s \in Screens : s = own[t]
        BY <1>0
      <3>2. [s.text EXCEPT ![i] = c] \in [Cell -> Char]
        BY AtScreen DEF Char
      <3>3. [s EXCEPT !.text = [@ EXCEPT ![i] = c]] = Screen([s.text EXCEPT ![i] = c], s.x, s.y)
        BY ScreensAre DEF Screen
      <3>4. Screen([s.text EXCEPT ![i] = c], s.x, s.y) \in Screens
        BY <3>2, AtScreen, ScreensAre DEF Screen
      <3> QED
        BY <3>1, <3>3, <3>4
    <2>5. own' \in [Terminal -> Screens]
      BY <1>0, <1>2, <2>4 DEF Draw
    <2> QED
      BY <1>2, <2>3, <2>5 DEF Draw, TypeOK, CursorShown, Char
  <1>3. ASSUME NEW t \in Terminal, Timer(t) PROVE TypeOK' /\ CursorShown'
    BY <1>3 DEF Timer, TypeOK, CursorShown
  <1>4. ASSUME NEW c \in Key, Echo(c) PROVE TypeOK' /\ CursorShown'
    <2>1. PICK s : s = putc(Screen(page[VIDEO], screen_x, screen_y), c)
      OBVIOUS
    <2>2. Screen(page[VIDEO], screen_x, screen_y) \in Screens
      BY <1>0, Types, ScreensAre DEF Screen
    <2>3. s \in Screens
      BY <2>1, <2>2, PutcScreen
    <2>4. /\ page' = [page EXCEPT ![VIDEO] = s.text] /\ screen_x' = s.x /\ screen_y' = s.y
          /\ cursor' = CellAt(s)
      BY <1>4, <2>1 DEF Echo
    <2>5. page' \in [Page -> [Cell -> Char]]
      BY <2>3, <2>4, AtScreen, Types
    <2>6. own' \in [Terminal -> Screens]
      BY <1>0, <1>4, PutcScreen DEF Echo
    <2>7. screen_x' \in Column /\ screen_y' \in Row /\ cursor' \in Cell /\ CursorShown'
      BY <2>3, <2>4, AtScreen DEF CursorShown
    <2> QED
      BY <1>4, <2>5, <2>6, <2>7 DEF Echo, TypeOK, Char, Column, Row
  <1>5. ASSUME NEW str \in Output, ClearScreen(str) PROVE TypeOK' /\ CursorShown'
    <2>1. PICK s : s = put_t(Screen(Blank, 0, 0), str)
      OBVIOUS
    <2>2. Screen(Blank, 0, 0) \in Screens
      BY Sizes, ScreensAre DEF Screen, Blank, Char, Column, Row
    <2>3. s \in Screens
      BY <2>1, <2>2, PutScreen, Strings
    <2>4. /\ page' = [page EXCEPT ![VIDEO] = s.text] /\ screen_x' = s.x /\ screen_y' = s.y
          /\ cursor' = CellAt(s) /\ saved' = [saved EXCEPT ![terminal_state] = At(s)]
          /\ own' = [own EXCEPT ![terminal_state] = s]
      BY <1>5, <2>1 DEF ClearScreen
    <2>5. page' \in [Page -> [Cell -> Char]]
      BY <2>3, <2>4, AtScreen, Types
    <2>6. own' \in [Terminal -> Screens]
      BY <1>0, <2>3, <2>4
    <2>7. screen_x' \in Column /\ screen_y' \in Row /\ cursor' \in Cell /\ CursorShown'
      BY <2>3, <2>4, AtScreen DEF CursorShown
    <2>8. saved' \in [Terminal -> Position]
      BY <2>3, <2>4, AtScreen DEF TypeOK
    <2> QED
      BY <1>5, <2>5, <2>6, <2>7, <2>8 DEF ClearScreen, TypeOK, Char, Column, Row
  <1>6. ASSUME NEW t \in Terminal, Switch(t) PROVE TypeOK' /\ CursorShown'
    BY <1>0, <1>6, ChangeTypes DEF Switch, TypeOK
  <1>7. ASSUME NEW t \in Terminal, Launch(t) PROVE TypeOK' /\ CursorShown'
    BY <1>0, <1>7, ChangeTypes DEF Launch, TypeOK
  <1>8. ASSUME NEW t \in Terminal, NEW str \in Output, RefuseLaunch(t, str)
        PROVE  TypeOK' /\ CursorShown'
    <2>1. PICK s \in Screens : Written(terminal_being_serviced, VIDEO, s)
      BY <1>0, <1>8, WriteExact DEF RefuseLaunch
    <2>2. put_t(own[terminal_state], str) \in Screens
      BY <1>0, PutScreen, Strings
    <2>3. own' \in [Terminal -> Screens]
      BY <1>0, <1>8, <2>2 DEF RefuseLaunch
    <2> QED
      BY <1>0, <1>8, <2>1, <2>3, WrittenTypes DEF RefuseLaunch, TypeOK, CursorShown
  <1>9. CASE UNCHANGED vars
    BY <1>9 DEF vars, TypeOK, CursorShown
  <1> QED
    BY <1>1, <1>2, <1>3, <1>4, <1>5, <1>6, <1>7, <1>8, <1>9 DEF Next, Key

LEMMA TypesAlways == Spec => [](TypeOK /\ CursorShown)
  BY TypeInit, TypeStep, PTL DEF Spec

\* putc_screen, shift_screen_up and the rest of lib.c keep every position on the
\* screen, for every string and every size of it: no write leaves the page.
THEOREM TypeCorrect == Spec => []TypeOK
  BY TypesAlways, PTL

\* The hardware cursor is where the displayed terminal prints next, whoever printed
\* last; also after a refused launch that comes out at another terminal's position.  Only
\* before anything has been printed is it where the boot loader left it.
THEOREM CursorFollows == Spec => []CursorShown
  BY TypesAlways, PTL

-----------------------------------------------------------------------------
(***************************************************************************)
(* Each terminal its own screen.  With the types, the property says that   *)
(* own[t] is Shown(t).                                                     *)
(***************************************************************************)
AllShown == \A t \in Terminal : own[t] = Shown(t)

LEMMA ShownIsOwn == TypeOK => (EachItsOwnScreen <=> AllShown)
  <1> SUFFICES ASSUME TypeOK, NEW t \in Terminal
               PROVE  own[t] = Shown(t) <=>
                        /\ page[PageOf(t)] = own[t].text
                        /\ At(own[t]) = Pos(t)
    BY DEF EachItsOwnScreen, AllShown, Pos
  <1>1. PICK s \in Screens : s = own[t]
    BY DEF TypeOK
  <1>2. PICK q \in Position : q = Pos(t)
    BY PosType
  <1>3. q = [x |-> q.x, y |-> q.y]
    BY DEF Position
  <1>4. s = Screen(s.text, s.x, s.y)
    BY AtScreen
  <1>5. PICK d : d = page[PageOf(t)]
    OBVIOUS
  <1>6. ASSUME s = Screen(d, q.x, q.y) PROVE d = s.text /\ At(s) = q
    BY <1>3, <1>6 DEF Screen, At
  <1>7. ASSUME d = s.text, At(s) = q PROVE s = Screen(d, q.x, q.y)
    BY <1>4, <1>7 DEF At
  <1> QED
    BY <1>1, <1>2, <1>5, <1>6, <1>7 DEF Shown

LEMMA ShownInit == Init => AllShown
  BY TerminalsAssumption DEF Init, AllShown, Shown, Pos, Screen

\* After write_terminal for t on t's own page.
LEMMA ShownWritten ==
  ASSUME TypeOK, AllShown, NEW t \in Terminal, NEW str \in Output,
         write_terminal(t, PageOf(t), str),
         own' = [own EXCEPT ![t] = put_t(@, str)],
         UNCHANGED terminal_state
  PROVE  AllShown'
  <1>0. /\ terminal_state \in Terminal /\ own \in [Terminal -> Screens]
        /\ page \in [Page -> [Cell -> Char]]
    BY Types DEF TypeOK
  <1>1. \A u \in Terminal : PageOf(u) \in Page /\ (PageOf(u) = PageOf(t) => u = t)
    BY <1>0, Pages DEF PageOf, Backing, Terminal
  <1>2. PICK s \in Screens : s = put_t(Shown(t), str) /\ Written(t, PageOf(t), s)
    BY <1>1, WriteExact DEF Shown
  <1>3. own'[t] = s /\ \A u \in Terminal \ {t} : own'[u] = own[u]
    BY <1>0, <1>2 DEF AllShown
  <1>4. \A u \in Terminal : PageOf(u)' = PageOf(u)
    BY DEF PageOf
  <1>5. page'[PageOf(t)] = s.text
    BY <1>0, <1>1, <1>2 DEF Written
  <1>6. ASSUME NEW u \in Terminal \ {t} PROVE page'[PageOf(u)] = page[PageOf(u)]
    BY <1>0, <1>1, <1>2 DEF Written
  <1>7. ASSUME NEW u \in Terminal PROVE Pos(u)' = saved'[u]
    <2>1. saved'[u] \in Position
      BY <1>2 DEF Written
    <2>2. saved'[u] = [x |-> saved'[u].x, y |-> saved'[u].y]
      BY <2>1 DEF Position
    <2> QED
      BY <1>2, <2>2 DEF Written, Pos
  <1>8. own'[t] = Shown(t)'
    <2>1. Pos(t)' = At(s)
      BY <1>2, <1>7 DEF Written
    <2> QED
      BY <1>3, <1>4, <1>5, <2>1, AtScreen DEF Shown
  <1>9. ASSUME NEW u \in Terminal \ {t} PROVE own'[u] = Shown(u)'
    <2>1. Pos(u)' = Pos(u)
      BY <1>2, <1>7 DEF Written
    <2> QED
      BY <1>3, <1>4, <1>6, <2>1 DEF Shown, AllShown
  <1> QED
    BY <1>8, <1>9 DEF AllShown

\* change_terminal_state puts one screen away and shows another.
LEMMA ShownChange ==
  ASSUME TypeOK, AllShown, NEW t \in Terminal \ {terminal_state}, change_terminal_state(t),
         UNCHANGED own
  PROVE  AllShown'
  <1>0. terminal_state \in Terminal /\ saved \in [Terminal -> Position] /\ DOMAIN page = Page
    BY Types DEF TypeOK
  <1>1. /\ Backing(t) \in Page /\ Backing(terminal_state) \in Page /\ VIDEO \in Page
        /\ Backing(t) # VIDEO /\ Backing(terminal_state) # VIDEO
        /\ \A u \in Terminal : Backing(u) = Backing(terminal_state) => u = terminal_state
    BY <1>0, Pages DEF Backing, Terminal
  <1>2. /\ page'[VIDEO] = page[Backing(t)]
        /\ page'[Backing(terminal_state)] = page[VIDEO]
        /\ \A u \in Terminal \ {terminal_state} : page'[Backing(u)] = page[Backing(u)]
    BY <1>0, <1>1, Pages DEF change_terminal_state, Copied
  <1>3. terminal_state' = t
    BY DEF change_terminal_state
  <1>4. Shown(t)' = Shown(t)
    <2>1. Pos(t)' = [x |-> saved[t].x, y |-> saved[t].y] /\ Pos(t) = saved[t]
      BY DEF change_terminal_state, Pos
    <2>2. PageOf(t)' = VIDEO /\ PageOf(t) = Backing(t)
      BY <1>3 DEF PageOf
    <2> QED
      BY <1>2, <2>1, <2>2 DEF Shown
  <1>5. ASSUME NEW u \in Terminal, u = terminal_state PROVE Shown(u)' = Shown(u)
    <2>1. saved'[u] = [x |-> screen_x, y |-> screen_y]
      BY <1>0, <1>5 DEF change_terminal_state
    <2>2. u # t
      BY <1>5
    <2>3. Pos(u)' = [x |-> screen_x, y |-> screen_y] /\ PageOf(u)' = Backing(u)
      BY <1>3, <2>1, <2>2 DEF Pos, PageOf
    <2>4. Pos(u) = [x |-> screen_x, y |-> screen_y] /\ PageOf(u) = VIDEO
      BY <1>5 DEF Pos, PageOf
    <2>5. page'[Backing(u)] = page[VIDEO]
      BY <1>2, <1>5
    <2> QED
      BY <2>3, <2>4, <2>5 DEF Shown
  <1>6. ASSUME NEW u \in Terminal, u # t, u # terminal_state PROVE Shown(u)' = Shown(u)
    <2>1. saved'[u] = saved[u]
      BY <1>0, <1>6 DEF change_terminal_state
    <2>2. Pos(u)' = saved[u] /\ PageOf(u)' = Backing(u)
      BY <1>3, <1>6, <2>1 DEF Pos, PageOf
    <2>3. Pos(u) = saved[u] /\ PageOf(u) = Backing(u)
      BY <1>6 DEF Pos, PageOf
    <2>4. page'[Backing(u)] = page[Backing(u)]
      BY <1>2, <1>6
    <2> QED
      BY <2>2, <2>3, <2>4 DEF Shown
  <1>7. \A u \in Terminal : Shown(u)' = Shown(u)
    BY <1>4, <1>5, <1>6
  <1> QED
    BY <1>7 DEF AllShown

\* The displayed terminal t shows s now; nothing else has changed.
ShownNow(t, s) ==
    /\ page' = [page EXCEPT ![VIDEO] = s.text] /\ screen_x' = s.x /\ screen_y' = s.y
    /\ \A u \in Terminal \ {t} : saved'[u] = saved[u]
    /\ terminal_state' = t
    /\ own'[t] = s /\ \A u \in Terminal \ {t} : own'[u] = own[u]

LEMMA ShownPut ==
  ASSUME TypeOK, AllShown, NEW t \in Terminal, t = terminal_state, NEW s \in Screens,
         ShownNow(t, s)
  PROVE  AllShown'
  <1>1. page \in [Page -> [Cell -> Char]] /\ VIDEO \in Page
        /\ \A u \in Terminal : Backing(u) \in Page /\ Backing(u) # VIDEO
    BY Types, Pages DEF Backing, Terminal, VIDEO
  <1>2. own'[t] = Shown(t)'
    <2>1. page'[VIDEO] = s.text
      BY <1>1 DEF ShownNow
    <2>2. PageOf(t)' = VIDEO /\ Pos(t)' = [x |-> s.x, y |-> s.y]
      BY DEF ShownNow, PageOf, Pos
    <2> QED
      BY <2>1, <2>2, AtScreen DEF Shown, ShownNow
  <1>3. ASSUME NEW u \in Terminal \ {t} PROVE own'[u] = Shown(u)'
    <2>1. page'[Backing(u)] = page[Backing(u)]
      BY <1>1 DEF ShownNow
    <2>2. PageOf(u)' = Backing(u) /\ Pos(u)' = saved[u]
      BY DEF ShownNow, PageOf, Pos
    <2>3. PageOf(u) = Backing(u) /\ Pos(u) = saved[u]
      BY DEF PageOf, Pos
    <2> QED
      BY <2>1, <2>2, <2>3 DEF Shown, ShownNow, AllShown
  <1> QED
    BY <1>2, <1>3 DEF AllShown

\* The displayed terminal has been launched: what Launch shows is another one.
OwnInv == TypeOK /\ AllShown /\ terminal_state \in terminals_launched

LEMMA OwnStep ==
  ASSUME ~BackgroundRefusal
  PROVE  OwnInv /\ TypeOK' /\ [Next]_vars => OwnInv'
  <1> SUFFICES ASSUME OwnInv, TypeOK', [Next]_vars
               PROVE  AllShown' /\ terminal_state' \in terminals_launched'
    BY DEF OwnInv
  <1>0. /\ TypeOK /\ AllShown /\ terminal_state \in terminals_launched
        /\ terminal_state \in Terminal /\ terminal_being_serviced \in Terminal
        /\ own \in [Terminal -> Screens] /\ page \in [Page -> [Cell -> Char]] /\ VIDEO \in Page
        /\ saved \in [Terminal -> Position]
    BY Types, Pages DEF OwnInv, TypeOK
  <1>01. \A u, t \in Terminal : PageOf(u) \in Page /\ (PageOf(u) = PageOf(t) => u = t)
    BY <1>0, Pages DEF PageOf, Backing, Terminal
  <1>1. ASSUME NEW str \in Output, WriteTerminal(str) PROVE AllShown'
    BY <1>0, <1>1, ShownWritten DEF WriteTerminal
  <1>2. ASSUME NEW i \in Cell, NEW c \in Printable, Draw(i, c) PROVE AllShown'
    <2>1. PICK t \in Terminal : t = terminal_being_serviced
      BY <1>0
    <2>2. PICK d : d = [page[PageOf(t)] EXCEPT ![i] = c]
      OBVIOUS
    <2>3. PICK p \in Page : p = PageOf(t)
      BY <1>01
    <2>4. page' = [page EXCEPT ![p] = d]
      BY <1>2, <2>1, <2>2, <2>3 DEF Draw
    <2>5. \A u \in Terminal : PageOf(u)' = PageOf(u) /\ Pos(u)' = Pos(u)
      BY <1>2 DEF Draw, PageOf, Pos
    <2>6. page'[p] = d /\ \A u \in Terminal \ {t} : page'[PageOf(u)] = page[PageOf(u)]
      BY <1>0, <1>01, <2>3, <2>4
    <2>7. PICK q \in Position : q = Pos(t)
      BY <1>0, PosType
    <2>8. own[t] = Screen(page[p], q.x, q.y)
      BY <1>0, <2>3, <2>7 DEF AllShown, Shown
    <2>9. own'[t] = [own[t] EXCEPT !.text = [@ EXCEPT ![i] = c]]
      BY <1>0, <1>2, <2>1 DEF Draw
    <2>10. own'[t] = Screen(d, q.x, q.y)
      BY <2>2, <2>3, <2>8, <2>9 DEF Screen
    <2>11. own'[t] = Shown(t)'
      BY <2>3, <2>5, <2>6, <2>7, <2>10 DEF Shown
    <2>12. ASSUME NEW u \in Terminal \ {t} PROVE own'[u] = Shown(u)'
      <3>1. own'[u] = own[u]
        BY <1>0, <1>2, <2>1 DEF Draw
      <3> QED
        BY <1>0, <2>5, <2>6, <3>1 DEF Shown, AllShown
    <2> QED
      BY <2>11, <2>12 DEF AllShown
  <1>3. ASSUME NEW t \in Terminal, Timer(t) PROVE AllShown'
    BY <1>0, <1>3 DEF Timer, AllShown, Shown, Pos, PageOf
  <1>4. ASSUME NEW c \in Key, Echo(c) PROVE AllShown'
    <2>1. PICK s : s = putc(Screen(page[VIDEO], screen_x, screen_y), c)
      OBVIOUS
    <2>2. PICK t \in Terminal : t = terminal_state
      BY <1>0
    <2>3. own[t] = Screen(page[VIDEO], screen_x, screen_y)
      BY <1>0, <2>2 DEF AllShown, Shown, Pos, PageOf
    <2>4. own'[t] = s /\ \A u \in Terminal \ {t} : own'[u] = own[u]
      BY <1>0, <1>4, <2>1, <2>2, <2>3 DEF Echo
    <2>5. s \in Screens
      BY <2>1, <2>3, <1>0, PutcScreen
    <2>6. /\ page' = [page EXCEPT ![VIDEO] = s.text] /\ screen_x' = s.x /\ screen_y' = s.y
          /\ saved' = saved /\ terminal_state' = t
      BY <1>4, <2>1, <2>2 DEF Echo
    <2> QED
      BY <1>0, <2>2, <2>4, <2>5, <2>6, ShownPut DEF ShownNow
  <1>5. ASSUME NEW str \in Output, ClearScreen(str) PROVE AllShown'
    <2>1. PICK s : s = put_t(Screen(Blank, 0, 0), str)
      OBVIOUS
    <2>2. PICK t \in Terminal : t = terminal_state
      BY <1>0
    <2>3. Screen(Blank, 0, 0) \in Screens
      BY Sizes, ScreensAre DEF Screen, Blank, Char, Column, Row
    <2>4. s \in Screens
      BY <2>1, <2>3, PutScreen, Strings
    <2>5. own'[t] = s /\ \A u \in Terminal \ {t} : own'[u] = own[u]
      BY <1>0, <1>5, <2>1, <2>2 DEF ClearScreen
    <2>6. /\ page' = [page EXCEPT ![VIDEO] = s.text] /\ screen_x' = s.x /\ screen_y' = s.y
          /\ \A u \in Terminal \ {t} : saved'[u] = saved[u]
          /\ terminal_state' = t
      BY <1>0, <1>5, <2>1, <2>2 DEF ClearScreen
    <2> QED
      BY <1>0, <2>2, <2>4, <2>5, <2>6, ShownPut DEF ShownNow
  <1>6. ASSUME NEW t \in Terminal, Switch(t) PROVE AllShown' /\ terminal_state' = t
    BY <1>0, <1>6, ShownChange DEF Switch, change_terminal_state
  <1>7. ASSUME NEW t \in Terminal, Launch(t) PROVE AllShown' /\ terminal_state' = t
    BY <1>0, <1>7, ShownChange DEF Launch, change_terminal_state
  <1>8. ASSUME NEW t \in Terminal, NEW str \in Output, RefuseLaunch(t, str) PROVE AllShown'
    <2>1. terminal_being_serviced = terminal_state
      BY <1>8 DEF RefuseLaunch
    <2>2. PageOf(terminal_being_serviced) = VIDEO
      BY <2>1 DEF PageOf
    <2> QED
      BY <1>0, <1>8, <2>1, <2>2, ShownWritten DEF RefuseLaunch
  <1>9. CASE UNCHANGED vars
    BY <1>0, <1>9 DEF vars, AllShown, Shown, Pos, PageOf
  <1>10. terminal_state' \in terminals_launched'
    BY <1>0 DEF Next, vars, WriteTerminal, Draw, Timer, Echo, ClearScreen, Switch, Launch,
                RefuseLaunch, change_terminal_state
  <1> QED
    BY <1>1, <1>2, <1>3, <1>4, <1>5, <1>6, <1>7, <1>8, <1>9, <1>10 DEF Next, Key

\* No order of output, echo, drawing, Ctrl+L and terminal switches mixes up the
\* text or the positions of two terminals, for every number of them, every size of
\* the screen and every output, as long as no launch is refused while a background
\* terminal has the CPU (keyboard.c:362: the message would take its position).
THEOREM OwnScreens == ASSUME ~BackgroundRefusal PROVE Spec => []EachItsOwnScreen
  <1>1. Init => OwnInv
    BY TypeInit, ShownInit DEF Init, OwnInv
  <1>2. OwnInv => EachItsOwnScreen
    BY ShownIsOwn DEF OwnInv
  <1> QED
    BY <1>1, <1>2, TypeCorrect, OwnStep, PTL DEF Spec
=============================================================================
