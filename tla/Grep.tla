--------------------------------- MODULE Grep ---------------------------------
(***************************************************************************)
(* Grep: the user program ece391grep.c, the one program of the repository  *)
(* whose correctness rests on what read returns.  It searches every file   *)
(* of the directory, through a buffer of BUFSIZE bytes on its stack: a     *)
(* line that the buffer's end cuts is moved down to the buffer's start,    *)
(* and the next read goes on behind it.                                    *)
(*                                                                         *)
(* A read of a file returns as many bytes as are asked for, while there    *)
(* are that many (SequentialReads and ZeroMeansEnd of Files), or fails for *)
(* a file with a bad block.  The directory yields any files in any order.  *)
(***************************************************************************)
EXTENDS Integers, Sequences

CONSTANTS
    BUFSIZE,        \* 1024
    Letter,         \* the bytes other than NUL and NL
    NUL, NL,
    Patterns,       \* what getargs may return; not the empty string
    MaxFile         \* bound: the length of a file

ASSUME GrepAssumption ==
    /\ BUFSIZE \in Nat \ {0} /\ MaxFile \in Nat
    /\ NUL # NL /\ {NUL, NL} \cap Letter = {}
    /\ \A s \in Patterns : s \in Seq(Letter) /\ s # << >>

Byte == Letter \cup {NUL, NL}
FileData == UNION {[1 .. n -> Byte] : n \in 0 .. MaxFile}

VARIABLES
    pc,           \* where the program is
    search,       \* its argument
    file,         \* the file it searches
    position,     \* how much of it has been read
    data, last, cnt, line_start,    \* do_one_file's locals
    garbage,      \* history: the byte data was full of when do_one_file began
    printed       \* history: the lines printed for this file

vars == <<pc, search, file, position, data, last, cnt, line_start, garbage, printed>>

NoFile ==
    /\ file' = << >> /\ position' = 0
    /\ data' = [i \in 0 .. BUFSIZE |-> NUL]
    /\ last' = 0 /\ cnt' = 0 /\ line_start' = 0
    /\ garbage' = NUL /\ printed' = << >>

Init ==
    /\ pc = "main"
    /\ search \in Patterns
    /\ file = << >> /\ position = 0
    /\ data = [i \in 0 .. BUFSIZE |-> NUL]
    /\ last = 0 /\ cnt = 0 /\ line_start = 0
    /\ garbage = NUL /\ printed = << >>

-----------------------------------------------------------------------------
(***************************************************************************)
(* main: one directory entry at a time; "." is passed over.                *)
(***************************************************************************)
\* do_one_file begins, with whatever is on the stack in its buffer.
OpenFile ==
    /\ pc = "main"
    /\ pc' = "read"
    /\ file' \in FileData /\ position' = 0
    /\ garbage' \in Byte
    /\ data' = [i \in 0 .. BUFSIZE |-> garbage']
    /\ last' = 0
    /\ printed' = << >>
    /\ UNCHANGED <<search, cnt, line_start>>

\* The directory read returns 0.
Exit ==
    /\ pc = "main"
    /\ pc' = "exit"
    /\ NoFile /\ UNCHANGED search

-----------------------------------------------------------------------------
(***************************************************************************)
(* do_one_file.                                                            *)
(***************************************************************************)
\* cnt = read(fd, data + last, BUFSIZE - last).
Read ==
    LET left == Len(file) - position
        n == IF left < BUFSIZE - last THEN left ELSE BUFSIZE - last
    IN
    /\ pc = "read"
    /\ data' = [i \in 0 .. BUFSIZE |->
                  IF i \in last .. last + n - 1 THEN file[position + (i - last) + 1] ELSE data[i]]
    /\ position' = position + n
    /\ cnt' = n
    /\ last' = last + n
    /\ line_start' = 0
    /\ pc' = "line"
    /\ UNCHANGED <<search, file, garbage, printed>>

\* The read fails: the program gives up, with its files open.
ReadFails ==
    /\ pc = "read"
    /\ pc' = "exit"
    /\ NoFile /\ UNCHANGED search

\* The scan for the end of the line.
line_end ==
    CHOOSE i \in line_start .. BUFSIZE :
        /\ i >= last \/ data[i] = NL
        /\ \A j \in line_start .. i - 1 : j < last /\ data[j] # NL

Terminated == [data EXCEPT ![line_end] = NUL]

\* Where a string ends that begins at i; the line's own end is NUL by now.
StringEnd(d, i) == CHOOSE e \in i .. BUFSIZE : d[e] = NUL /\ \A j \in i .. e - 1 : d[j] # NUL

\* ece391_strcpy (data, data + from).
strcpy(d, from) ==
    [i \in 0 .. BUFSIZE |-> IF i <= StringEnd(d, from) - from THEN d[from + i] ELSE d[i]]

\* The test for a line that goes on in the next read.  The mutant forgets that the
\* line may fill the buffer.
CutAtStart == data[line_end] # NL /\ cnt # 0
Cut == data[line_end] # NL /\ cnt # 0 /\ line_start # 0

\* What has been moved down.  The mutant loses its last byte.
RestButOne == last - line_start - 1
Rest == last - line_start

AfterPass == IF cnt = 0 THEN "close" ELSE "read"

MoveDown ==
    /\ pc = "line"
    /\ Cut
    /\ data' = strcpy(Terminated, line_start)
    /\ last' = Rest
    /\ pc' = AfterPass
    /\ UNCHANGED <<search, file, position, cnt, line_start, garbage, printed>>

\* s occurs in the line: strncmp cannot get past the NUL at its end.
Found(d) ==
    \E check \in line_start .. line_end - 1 :
        \A j \in 1 .. Len(search) :
            check + j - 1 < line_end /\ d[check + j - 1] = search[j]

SearchLine ==
    LET d == Terminated
        next == line_end + 1
        over == next >= last
    IN
    /\ pc = "line"
    /\ ~Cut
    /\ data' = d
    /\ printed' = IF Found(d)
                  THEN Append(printed, [i \in 1 .. StringEnd(d, line_start) - line_start |->
                                          d[line_start + i - 1]])
                  ELSE printed
    /\ line_start' = next
    /\ last' = IF over THEN 0 ELSE last
    /\ pc' = IF over THEN AfterPass ELSE "line"
    /\ UNCHANGED <<search, file, position, cnt, garbage>>

\* close, and back to main.
Close ==
    /\ pc = "close"
    /\ pc' = "main"
    /\ NoFile /\ UNCHANGED search

-----------------------------------------------------------------------------
Next ==
    \/ OpenFile
    \/ Exit
    \/ Read
    \/ ReadFails
    \/ MoveDown
    \/ SearchLine
    \/ Close

Spec == Init /\ [][Next]_vars

-----------------------------------------------------------------------------
(***************************************************************************)
(* Properties.                                                             *)
(***************************************************************************)
\* The reference: the line that begins at i, whether it has s in it, and the lines
\* of a text that do, in order.
LineAt(text, i) ==
    LET ends == {e \in i .. Len(text) + 1 : e = Len(text) + 1 \/ text[e] = NL}
    IN  SubSeq(text, i, (CHOOSE e \in ends : \A x \in ends : e <= x) - 1)
Occurs(s, line) ==
    \E i \in 1 .. Len(line) - Len(s) + 1 : SubSeq(line, i, i + Len(s) - 1) = s
Begins(text, i) == i = 1 \/ text[i - 1] = NL
Hits(s, text) ==
    LET upTo[i \in 0 .. Len(text)] ==
          IF i = 0 THEN << >>
          ELSE IF Begins(text, i) /\ Occurs(s, LineAt(text, i))
               THEN Append(upTo[i - 1], LineAt(text, i))
               ELSE upTo[i - 1]
    IN  upTo
Grepped(s, text) == Hits(s, text)[Len(text)]

\* A text whose lines fit into the buffer: no BUFSIZE + 1 bytes without a newline.
Plain(text) ==
    /\ \A i \in 1 .. Len(text) : text[i] # NUL
    /\ \A i \in 1 .. Len(text) - BUFSIZE : \E j \in i .. i + BUFSIZE : text[j] = NL

\* For a text file, grep prints the lines that contain the pattern, whole, in
\* order and once each, wherever the ends of the buffer fall: an unterminated
\* last line, a line as long as the buffer and one that ends at its end included.
\* (The stack byte behind the buffer must not happen to be a newline; the code
\* looks at it before it has written it.)
GrepExact ==
    pc = "close" /\ Plain(file) /\ garbage # NL => printed = Grepped(search, file)

\* Whatever the file holds, binary files included, a read is never asked for zero
\* bytes (grep would take its 0 for the end of the file), and a file is closed
\* only when all of it has been through the buffer.
NothingUnread ==
    /\ pc = "read" => last < BUFSIZE
    /\ pc = "close" => position = Len(file)
=============================================================================
