------------------------------ MODULE GrepProofs ------------------------------
(***************************************************************************)
(* Theorems about Grep, for every size of the buffer, every alphabet,      *)
(* every pattern and files of every length.                                *)
(***************************************************************************)
EXTENDS Grep, SequenceTheorems, WellFoundedInduction, TLAPS

(***************************************************************************)
(* The inductive invariant.  Ranges says where the indices are; Tracked,   *)
(* for a text file, what the buffer and the output hold: data, from the    *)
(* line to search next on, is the file behind its first Done bytes, and    *)
(* printed the matching lines that begin in those.                         *)
(***************************************************************************)
Index == 0 .. BUFSIZE

\* Where the line to search next begins in the buffer, and how much of the file
\* lies before it.
Start == IF pc = "line" THEN line_start ELSE 0
Done == position - last + Start

Ranges ==
    /\ pc \in {"main", "read", "line", "close", "exit"}
    /\ search \in Patterns
    /\ file \in Seq(Byte)
    /\ position \in 0 .. Len(file)
    /\ last \in Index /\ last <= position
    /\ data \in [Index -> Byte]
    /\ pc = "read" => last < BUFSIZE
    /\ pc = "line" => /\ line_start \in 0 .. last /\ (line_start < last \/ line_start = 0)
                      /\ cnt \in Nat
                      /\ cnt = 0 \/ last < BUFSIZE => position = Len(file)
    /\ pc = "close" => position = Len(file) /\ last = 0

\* The search goes on where a line begins, or where the newline stands of a line
\* that filled the buffer, or at the end.
Resumes(text, n) ==
    n = 0 \/ text[n] = NL \/ n = Len(text) \/ text[n + 1] = NL

Tracks ==
    /\ data[BUFSIZE] # NL
    /\ \A i \in Start .. last - 1 : data[i] = file[position - last + i + 1]
    /\ Resumes(file, Done)
    /\ printed = Hits(search, file)[Done]

IsText == Plain(file) /\ garbage # NL

Tracked == pc \in {"read", "line", "close"} /\ IsText => Tracks

-----------------------------------------------------------------------------
(***************************************************************************)
(* Induction up to n, by the least number for which the claim fails.       *)
(***************************************************************************)
LEMMA LeastNatural ==
  ASSUME NEW S, S \subseteq Nat, S # {}
  PROVE  \E x \in S : \A y \in S : x <= y
  <1> DEFINE R == {ss \in Nat \X Nat : ss[1] < ss[2]}
  <1>1. IsWellFoundedOn(R, Nat)
    BY NatLessThanWellFounded DEF OpToRel
  <1> HIDE DEF R
  <1>2. PICK x \in S : \A y \in S : ~(<<y, x>> \in R)
    BY <1>1, WFMin
  <1>3. ASSUME NEW y \in S PROVE x <= y
    <2>1. x \in Nat /\ y \in Nat
      OBVIOUS
    <2>2. <<y, x>> \in Nat \X Nat /\ <<y, x>>[1] = y /\ <<y, x>>[2] = x
      BY <2>1
    <2>3. y < x => <<y, x>> \in R
      BY <2>2, Zenon DEF R
    <2> QED
      BY <1>2, <2>1, <2>3
  <1> QED
    BY <1>3

LEMMA InductionUpTo ==
  ASSUME NEW n \in Nat, NEW S, 0 \in S, \A i \in 1 .. n : i - 1 \in S => i \in S
  PROVE  \A i \in 0 .. n : i \in S
  <1> DEFINE Bad == (0 .. n) \ S
  <1> SUFFICES ASSUME Bad # {} PROVE FALSE
    OBVIOUS
  <1>1. Bad \subseteq Nat
    OBVIOUS
  <1> HIDE DEF Bad
  <1>2. PICK x \in Bad : \A y \in Bad : x <= y
    BY <1>1, LeastNatural
  <1>3. x \in 1 .. n /\ x - 1 \in 0 .. n /\ x - 1 \in S
    BY <1>2 DEF Bad
  <1> QED
    BY <1>2, <1>3 DEF Bad

-----------------------------------------------------------------------------
(***************************************************************************)
(* The reference: what Hits holds at each position.                        *)
(***************************************************************************)
Hit(s, text, i) == Begins(text, i) /\ Occurs(s, LineAt(text, i))
HitsUpTo(s, text, n, g) ==
    [i \in 0 .. n |->
        IF i = 0 THEN << >>
        ELSE IF Hit(s, text, i) THEN Append(g[i - 1], LineAt(text, i)) ELSE g[i - 1]]

LEMMA HitsExist ==
  ASSUME NEW s, NEW text, NEW n \in Nat
  PROVE  \E g : g = HitsUpTo(s, text, n, g)
  <1> DEFINE After(g, i) == IF Hit(s, text, i) THEN Append(g[i - 1], LineAt(text, i)) ELSE g[i - 1]
             S == {m \in 0 .. n : \E g : g = HitsUpTo(s, text, m, g)}
  <1>1. 0 \in S
    <2> DEFINE g == [i \in 0 .. 0 |-> << >>]
    <2>1. g = HitsUpTo(s, text, 0, g)
      BY DEF HitsUpTo
    <2> QED
      BY <2>1
  <1>2. ASSUME NEW m \in 1 .. n, m - 1 \in S PROVE m \in S
    <2>1. PICK g : g = HitsUpTo(s, text, m - 1, g)
      BY <1>2
    <2> DEFINE new == After(g, m)
               h == [i \in 0 .. m |-> IF i = m THEN new ELSE g[i]]
    <2>2. ASSUME NEW i \in 0 .. m
          PROVE  h[i] = IF i = 0 THEN << >> ELSE After(h, i)
      <3>1. CASE i = m
        <4>1. m - 1 \in 0 .. m /\ m - 1 # m /\ m # 0
          OBVIOUS
        <4>2. h[m - 1] = g[m - 1] /\ h[i] = new
          BY <3>1, <4>1
        <4> QED
          BY <3>1, <4>1, <4>2
      <3>2. CASE i # m
        <4>1. i \in 0 .. m - 1 /\ h[i] = g[i]
          BY <3>2
        <4>2. g[i] = IF i = 0 THEN << >> ELSE After(g, i)
          BY <2>1, <4>1 DEF HitsUpTo
        <4>3. i # 0 => i - 1 \in 0 .. m /\ i - 1 # m /\ h[i - 1] = g[i - 1]
          BY <4>1
        <4> QED
          BY <4>1, <4>2, <4>3
      <3> QED
        BY <3>1, <3>2
    <2>3. h = [i \in 0 .. m |-> h[i]]
      OBVIOUS
    <2> HIDE DEF h, new
    <2>4. h = HitsUpTo(s, text, m, h)
      BY <2>2, <2>3 DEF HitsUpTo
    <2> QED
      BY <2>4
  <1> HIDE DEF S
  <1>3. n \in S
    BY <1>1, <1>2, InductionUpTo
  <1> QED
    BY <1>3 DEF S

LEMMA HitsAt ==
  ASSUME NEW s, NEW text \in Seq(Byte)
  PROVE  /\ Hits(s, text)[0] = << >>
         /\ \A i \in 1 .. Len(text) :
              Hits(s, text)[i] = IF Hit(s, text, i)
                                 THEN Append(Hits(s, text)[i - 1], LineAt(text, i))
                                 ELSE Hits(s, text)[i - 1]
  <1> DEFINE upTo == CHOOSE g : g = HitsUpTo(s, text, Len(text), g)
  <1>1. Len(text) \in Nat
    OBVIOUS
  <1>2. upTo = HitsUpTo(s, text, Len(text), upTo)
    BY <1>1, HitsExist
  <1>3. Hits(s, text) = upTo
    BY DEF Hits, HitsUpTo, Hit
  <1> HIDE DEF upTo
  <1>4. ASSUME NEW i \in 0 .. Len(text)
        PROVE  upTo[i] = IF i = 0 THEN << >>
                         ELSE IF Hit(s, text, i)
                              THEN Append(upTo[i - 1], LineAt(text, i)) ELSE upTo[i - 1]
    BY <1>2 DEF HitsUpTo
  <1> QED
    BY <1>1, <1>3, <1>4

\* Where no line begins, nothing is added.
LEMMA HitsSame ==
  ASSUME NEW s, NEW text \in Seq(Byte), NEW m \in 0 .. Len(text), NEW n \in m .. Len(text),
         \A k \in m + 1 .. n : ~Hit(s, text, k)
  PROVE  Hits(s, text)[n] = Hits(s, text)[m]
  <1> DEFINE S == {d \in Nat : Hits(s, text)[m + d] = Hits(s, text)[m]}
  <1>1. Len(text) \in Nat /\ m \in Nat /\ n \in Nat /\ m <= n /\ n <= Len(text)
    OBVIOUS
  <1>2. 0 \in S
    BY <1>1
  <1>3. ASSUME NEW d \in 1 .. n - m, d - 1 \in S PROVE d \in S
    <2>1. m + d \in 1 .. Len(text) /\ m + d \in m + 1 .. n /\ m + (d - 1) = (m + d) - 1
      BY <1>1
    <2>2. Hits(s, text)[m + d] = Hits(s, text)[(m + d) - 1]
      BY <2>1, HitsAt
    <2> QED
      BY <1>3, <2>1, <2>2
  <1>4. n - m \in Nat /\ n - m \in 0 .. n - m /\ m + (n - m) = n
    BY <1>1
  <1> HIDE DEF S
  <1>5. n - m \in S
    BY <1>2, <1>3, <1>4, InductionUpTo
  <1> QED
    BY <1>4, <1>5 DEF S

-----------------------------------------------------------------------------
(***************************************************************************)
(* Lines of the file, and occurrences in them.                             *)
(***************************************************************************)
\* Bytes m to n - 1 of text have no newline, and there is an end of a line at n.
Line(text, m, n) ==
    /\ n = Len(text) + 1 \/ text[n] = NL
    /\ \A k \in m .. n - 1 : text[k] # NL

LEMMA LineIs ==
  ASSUME NEW text \in Seq(Byte), NEW m \in 1 .. Len(text), NEW n \in m .. Len(text) + 1,
         Line(text, m, n)
  PROVE  LineAt(text, m) = SubSeq(text, m, n - 1)
  <1> DEFINE ends == {e \in m .. Len(text) + 1 : e = Len(text) + 1 \/ text[e] = NL}
             first == CHOOSE e \in ends : \A x \in ends : e <= x
  <1>0. Len(text) \in Nat /\ m \in Nat /\ n \in Nat
    OBVIOUS
  <1>1. n \in ends
    BY DEF Line
  <1>2. ASSUME NEW x \in ends PROVE n <= x
    <2>1. x \in Nat /\ x >= m /\ x <= Len(text) + 1
      BY <1>0
    <2>2. x < n => x \in m .. n - 1 /\ x # Len(text) + 1
      BY <1>0, <2>1
    <2> QED
      BY <1>0, <2>1, <2>2 DEF Line
  <1>3. \A e \in ends : e \in Int
    BY <1>0
  <1> HIDE DEF ends
  <1>4. first \in ends /\ \A x \in ends : first <= x
    BY <1>1, <1>2
  <1> HIDE DEF first
  <1>5. first = n
    BY <1>1, <1>2, <1>3, <1>4
  <1> QED
    BY <1>5 DEF LineAt, ends, first

\* No line begins behind m before the end of m's line.
LEMMA NoneBegins ==
  ASSUME NEW text \in Seq(Byte), NEW m \in 1 .. Len(text), NEW n \in m .. Len(text) + 1,
         Line(text, m, n), NEW s, NEW k \in m + 1 .. n
  PROVE  ~Hit(s, text, k)
  <1>1. k # 1 /\ k - 1 \in m .. n - 1
    OBVIOUS
  <1> QED
    BY <1>1 DEF Line, Hit, Begins

\* SubSeq(text, m, n - 1) has pattern s in it, read at its places in the text.
Within(s, text, m, n) ==
    \E c \in m .. n - 1 : \A j \in 1 .. Len(s) : c + j - 1 < n /\ text[c + j - 1] = s[j]

LEMMA OccursWithin ==
  ASSUME NEW s \in Seq(Letter), s # << >>, NEW text \in Seq(Byte),
         NEW m \in 1 .. Len(text) + 1, NEW n \in m .. Len(text) + 1
  PROVE  Occurs(s, SubSeq(text, m, n - 1)) <=> Within(s, text, m, n)
  <1>0. /\ Len(text) \in Nat /\ m \in Nat /\ n \in Nat /\ m <= n /\ n <= Len(text) + 1
        /\ Len(s) \in Nat /\ Len(s) # 0
    OBVIOUS
  <1>1. PICK line : line = SubSeq(text, m, n - 1)
    OBVIOUS
  <1>2. \A k \in m .. n - 1 : text[k] \in Byte
    BY <1>0
  <1>3. /\ line \in Seq(Byte)
        /\ Len(line) = n - m
        /\ \A k \in 1 .. n - m : line[k] = text[m + k - 1]
    BY <1>0, <1>1, <1>2, SubSeqProperties
  <1>4. ASSUME NEW i \in 1 .. Len(line) - Len(s) + 1
        PROVE  SubSeq(line, i, i + Len(s) - 1) = s <=>
                 \A j \in 1 .. Len(s) : text[m + i + j - 2] = s[j]
    <2>0. i \in Nat /\ i >= 1 /\ i + Len(s) - 1 <= n - m /\ i + Len(s) - 1 \in Int
      BY <1>0, <1>3
    <2>1. PICK q : q = SubSeq(line, i, i + Len(s) - 1)
      OBVIOUS
    <2>2. \A k \in i .. i + Len(s) - 1 : line[k] \in Byte
      BY <1>0, <1>3, <2>0
    <2>3. /\ q \in Seq(Byte) /\ Len(q) = Len(s)
          /\ \A j \in 1 .. Len(s) : q[j] = line[i + j - 1]
      BY <1>0, <2>0, <2>1, <2>2, SubSeqProperties
    <2>4. ASSUME NEW j \in 1 .. Len(s) PROVE q[j] = text[m + i + j - 2]
      <3>1. i + j - 1 \in 1 .. n - m /\ m + (i + j - 1) - 1 = m + i + j - 2
        BY <1>0, <2>0
      <3> QED
        BY <1>3, <2>3, <3>1
    <2>5. q = s <=> \A j \in 1 .. Len(s) : q[j] = s[j]
      <3>1. s \in Seq(Byte) /\ q \in Seq(Byte)
        BY <2>3 DEF Byte
      <3> QED
        BY <2>3, <3>1, SeqEqual
    <2> QED
      BY <2>1, <2>4, <2>5
  <1>5. ASSUME Occurs(s, line) PROVE Within(s, text, m, n)
    <2>1. PICK i \in 1 .. Len(line) - Len(s) + 1 : SubSeq(line, i, i + Len(s) - 1) = s
      BY <1>5 DEF Occurs
    <2>2. m + i - 1 \in m .. n - 1
      BY <1>0, <1>3
    <2>3. ASSUME NEW j \in 1 .. Len(s)
          PROVE  (m + i - 1) + j - 1 < n /\ text[(m + i - 1) + j - 1] = s[j]
      <3>1. (m + i - 1) + j - 1 = m + i + j - 2 /\ m + i + j - 2 < n
        BY <1>0, <1>3
      <3> QED
        BY <1>4, <2>1, <3>1
    <2> QED
      BY <2>2, <2>3 DEF Within
  <1>6. ASSUME Within(s, text, m, n) PROVE Occurs(s, line)
    <2>1. PICK c \in m .. n - 1 :
            \A j \in 1 .. Len(s) : c + j - 1 < n /\ text[c + j - 1] = s[j]
      BY <1>6 DEF Within
    <2>2. c + Len(s) - 1 < n
      BY <1>0, <2>1
    <2>3. PICK i \in Int : i = c - m + 1
      BY <1>0
    <2>4. i \in 1 .. Len(line) - Len(s) + 1
      BY <1>0, <1>3, <2>2, <2>3
    <2>5. ASSUME NEW j \in 1 .. Len(s) PROVE text[m + i + j - 2] = s[j]
      <3>1. m + i + j - 2 = c + j - 1
        BY <1>0, <2>3
      <3> QED
        BY <2>1, <3>1
    <2> QED
      BY <1>4, <2>4, <2>5 DEF Occurs
  <1> QED
    BY <1>1, <1>5, <1>6
-----------------------------------------------------------------------------
(***************************************************************************)
(* The buffer: the scan for the end of the line, and strcpy.               *)
(***************************************************************************)
LEMMA Numbers == BUFSIZE \in Nat \ {0} /\ NUL \in Byte /\ NL \in Byte /\ NUL # NL
  BY GrepAssumption DEF Byte

\* The scan of data from line_start on ends at e.
ScansTo(e) ==
    /\ e \in line_start .. last /\ e \in Index
    /\ e < last => data[e] = NL
    /\ \A j \in line_start .. e - 1 : data[j] # NL

LEMMA Scan == ASSUME Ranges, pc = "line" PROVE ScansTo(line_end)
  <1>0. /\ last \in Nat /\ line_start \in Nat /\ line_start <= last /\ last <= BUFSIZE
        /\ BUFSIZE \in Nat
    BY Numbers DEF Ranges, Index
  <1> DEFINE Ends == {i \in line_start .. last : i >= last \/ data[i] = NL}
             IsEnd(i) == /\ i >= last \/ data[i] = NL
                         /\ \A j \in line_start .. i - 1 : j < last /\ data[j] # NL
  <1>1. last \in Ends /\ Ends \subseteq Nat
    BY <1>0
  <1>2. PICK x \in Ends : \A y \in Ends : x <= y
    BY <1>1, LeastNatural
  <1>3. x \in line_start .. BUFSIZE /\ IsEnd(x)
    <2>1. x \in Nat /\ x >= line_start /\ x <= last
      BY <1>0
    <2>2. ASSUME NEW j \in line_start .. x - 1 PROVE j < last /\ data[j] # NL
      <3>1. j \in line_start .. last /\ j < x /\ j \in Nat
        BY <1>0, <2>1
      <3> QED
        BY <1>0, <1>2, <2>1, <3>1
    <2> QED
      BY <1>0, <2>1, <2>2
  <1>4. line_end = CHOOSE i \in line_start .. BUFSIZE : IsEnd(i)
    BY DEF line_end
  <1>5. PICK e : e = line_end
    OBVIOUS
  <1>6. e \in line_start .. BUFSIZE /\ IsEnd(e)
    BY <1>3, <1>4, <1>5
  <1>7. e <= last
    <2>1. ~(last < e) \/ last \in line_start .. e - 1
      BY <1>0, <1>6
    <2> QED
      BY <1>0, <1>6, <2>1
  <1>8. ScansTo(e)
    BY <1>0, <1>6, <1>7 DEF ScansTo, Index
  <1> QED
    BY <1>5, <1>8

\* The string in d from m on ends at e.
EndsAt(d, m, e) == e \in m .. BUFSIZE /\ d[e] = NUL /\ \A j \in m .. e - 1 : d[j] # NUL

LEMMA StringEnds ==
  ASSUME NEW d, NEW m \in Index, NEW e \in m .. BUFSIZE, d[e] = NUL
  PROVE  EndsAt(d, m, StringEnd(d, m)) /\ StringEnd(d, m) <= e
  <1>0. m \in Nat /\ BUFSIZE \in Nat /\ e \in Nat
    BY Numbers DEF Index
  <1> DEFINE Ends == {i \in m .. BUFSIZE : d[i] = NUL}
  <1>1. e \in Ends /\ Ends \subseteq Nat
    BY <1>0
  <1>2. PICK x \in Ends : \A y \in Ends : x <= y
    BY <1>1, LeastNatural
  <1>3. EndsAt(d, m, x)
    <2>1. ASSUME NEW j \in m .. x - 1 PROVE d[j] # NUL
      <3>1. j \in m .. BUFSIZE /\ j < x /\ j \in Nat /\ x \in Nat
        BY <1>0
      <3> QED
        BY <1>2, <3>1
    <2> QED
      BY <2>1 DEF EndsAt
  <1>4. PICK f : f = StringEnd(d, m)
    OBVIOUS
  <1>5. StringEnd(d, m) = CHOOSE i \in m .. BUFSIZE : d[i] = NUL /\ \A j \in m .. i - 1 : d[j] # NUL
    BY DEF StringEnd
  <1>6. EndsAt(d, m, f)
    BY <1>3, <1>4, <1>5 DEF EndsAt
  <1>7. f <= e
    <2>1. e < f => e \in m .. f - 1
      BY <1>0, <1>6 DEF EndsAt
    <2> QED
      BY <1>0, <1>6, <2>1 DEF EndsAt
  <1> QED
    BY <1>4, <1>6, <1>7

LEMMA StringEndIs ==
  ASSUME NEW d, NEW m \in Index, NEW e \in m .. BUFSIZE, EndsAt(d, m, e)
  PROVE  StringEnd(d, m) = e
  <1>1. PICK f : f = StringEnd(d, m)
    OBVIOUS
  <1>2. EndsAt(d, m, f) /\ f <= e
    BY <1>1, StringEnds DEF EndsAt
  <1>3. f < e => f \in m .. e - 1
    BY <1>2, Numbers DEF EndsAt, Index
  <1> QED
    BY <1>1, <1>2, <1>3, Numbers DEF EndsAt, Index

LEMMA TerminatedIs ==
  ASSUME Ranges, pc = "line"
  PROVE  /\ Terminated \in [Index -> Byte]
         /\ Terminated[line_end] = NUL
         /\ \A i \in Index : i # line_end => Terminated[i] = data[i]
  <1>1. PICK e : e = line_end
    OBVIOUS
  <1>2. e \in Index
    BY <1>1, Scan DEF ScansTo
  <1> QED
    BY <1>1, <1>2, Numbers DEF Terminated, Ranges

\* What is moved down is the string.
LEMMA Moved ==
  ASSUME NEW d \in [Index -> Byte], NEW m \in Index, NEW e \in m .. BUFSIZE, d[e] = NUL
  PROVE  strcpy(d, m) \in [Index -> Byte]
  <1>0. m \in Nat /\ BUFSIZE \in Nat
    BY Numbers DEF Index
  <1>1. PICK f : f = StringEnd(d, m)
    OBVIOUS
  <1>2. f \in m .. BUFSIZE
    BY <1>1, StringEnds DEF EndsAt
  <1>3. \A i \in Index : i <= f - m => m + i \in Index
    BY <1>0, <1>2 DEF Index
  <1>4. strcpy(d, m) = [i \in Index |-> IF i <= f - m THEN d[m + i] ELSE d[i]]
    BY <1>1 DEF strcpy, Index
  <1> QED
    BY <1>3, <1>4
-----------------------------------------------------------------------------
(***************************************************************************)
(* Ranges.                                                                 *)
(***************************************************************************)
LEMMA FileIsSeq == ASSUME NEW f \in FileData PROVE f \in Seq(Byte)
  BY GrepAssumption DEF FileData

LEMMA EmptyFile == << >> \in Seq(Byte) /\ Len(<< >>) = 0
  OBVIOUS

LEMMA ClearBuffer == ASSUME NEW c \in Byte PROVE [i \in 0 .. BUFSIZE |-> c] \in [Index -> Byte]
  BY DEF Index

LEMMA RangesInit == Init => Ranges
  <1>1. [i \in 0 .. BUFSIZE |-> NUL] \in [Index -> Byte]
    BY Numbers, ClearBuffer
  <1> QED
    BY <1>1, Numbers, EmptyFile DEF Init, Ranges, Index

\* The bytes that read asks for, and gets.
Got == IF Len(file) - position < BUFSIZE - last THEN Len(file) - position ELSE BUFSIZE - last

LEMMA ReadGets ==
  ASSUME Ranges, Read
  PROVE  /\ Got \in Nat /\ position' = position + Got /\ last' = last + Got /\ cnt' = Got
         /\ position' \in 0 .. Len(file) /\ last' \in Index /\ last' <= position'
         /\ Got = 0 \/ last' < BUFSIZE => position' = Len(file)
         /\ data' \in [Index -> Byte]
         /\ \A i \in Index : data'[i] = IF i \in last .. last' - 1
                                        THEN file[position - last + i + 1] ELSE data[i]
         /\ position' - last' = position - last
         /\ line_start' = 0 /\ pc' = "line"
         /\ UNCHANGED <<search, file, garbage, printed>>
  <1>0. /\ pc = "read" /\ last \in Nat /\ last < BUFSIZE /\ BUFSIZE \in Nat
        /\ position \in Nat /\ position <= Len(file) /\ Len(file) \in Nat /\ last <= position
        /\ file \in Seq(Byte) /\ data \in [Index -> Byte]
    BY Numbers DEF Ranges, Read, Index
  <1>1. PICK n : n = Got
    OBVIOUS
  <1>2. n \in Nat /\ n <= Len(file) - position /\ n <= BUFSIZE - last
        /\ (n = Len(file) - position \/ n = BUFSIZE - last)
    BY <1>0, <1>1 DEF Got
  <1>3. /\ position' = position + n /\ last' = last + n /\ cnt' = n
        /\ line_start' = 0 /\ pc' = "line"
        /\ UNCHANGED <<search, file, garbage, printed>>
    BY <1>1 DEF Read, Got
  <1>4. data' = [i \in Index |-> IF i \in last .. last + n - 1
                                 THEN file[position + (i - last) + 1] ELSE data[i]]
    BY <1>1 DEF Read, Got, Index
  <1>5. ASSUME NEW i \in last .. last + n - 1
        PROVE  /\ position + (i - last) + 1 = position - last + i + 1
               /\ position - last + i + 1 \in 1 .. Len(file)
    BY <1>0, <1>2
  <1>6. data' \in [Index -> Byte]
    BY <1>0, <1>4, <1>5
  <1>7. ASSUME NEW i \in Index
        PROVE data'[i] = IF i \in last .. last' - 1
                         THEN file[position - last + i + 1] ELSE data[i]
    <2>1. data'[i] = IF i \in last .. last + n - 1
                     THEN file[position + (i - last) + 1] ELSE data[i]
      BY <1>4
    <2>2. last .. last' - 1 = last .. last + n - 1
      BY <1>0, <1>2, <1>3
    <2>3. i \in last .. last + n - 1 => data'[i] = file[position - last + i + 1]
      BY <1>5, <2>1
    <2> QED
      BY <2>1, <2>2, <2>3
  <1>8. /\ position' \in 0 .. Len(file) /\ last' \in Index /\ last' <= position'
        /\ n = 0 \/ last' < BUFSIZE => position' = Len(file)
        /\ position' - last' = position - last
    BY <1>0, <1>2, <1>3 DEF Index
  <1> QED
    BY <1>1, <1>2, <1>3, <1>6, <1>7, <1>8

LEMMA RangesStep == Ranges /\ [Next]_vars => Ranges'
  <1> SUFFICES ASSUME Ranges, [Next]_vars PROVE Ranges'
    OBVIOUS
  <1>0. /\ search \in Patterns /\ file \in Seq(Byte) /\ Len(file) \in Nat
        /\ position \in Nat /\ position <= Len(file)
        /\ last \in Nat /\ last <= BUFSIZE /\ last <= position
        /\ BUFSIZE \in Nat /\ BUFSIZE # 0
    BY Numbers DEF Ranges, Index
  <1>1. CASE OpenFile
    <2>1. data' \in [Index -> Byte] /\ file' \in Seq(Byte)
      BY <1>1, FileIsSeq, ClearBuffer DEF OpenFile
    <2> QED
      BY <1>0, <1>1, <2>1 DEF OpenFile, Ranges, Index
  <1>2. ASSUME NoFile, UNCHANGED search, pc' \in {"main", "exit"} PROVE Ranges'
    <2>1. data' \in [Index -> Byte]
      BY <1>2, Numbers, ClearBuffer DEF NoFile
    <2> QED
      BY <1>0, <1>2, <2>1, EmptyFile DEF NoFile, Ranges, Index
  <1>3. CASE Read
    BY <1>0, <1>3, ReadGets DEF Ranges
  <1>4. CASE MoveDown
    <2>1. pc = "line" /\ line_start # 0 /\ cnt # 0
      BY <1>4 DEF MoveDown, Cut
    <2>2. line_start \in Nat /\ line_start < last
      BY <1>0, <2>1 DEF Ranges
    <2>3. line_end \in line_start .. BUFSIZE /\ line_start \in Index
      BY <1>0, <2>1, <2>2, Scan DEF ScansTo, Index
    <2>4. data' \in [Index -> Byte]
      BY <1>4, <2>1, <2>3, TerminatedIs, Moved DEF MoveDown
    <2>5. last' = last - line_start /\ pc' = "read"
      BY <1>4, <2>1 DEF MoveDown, Rest, AfterPass
    <2>6. last' \in Index /\ last' < BUFSIZE /\ last' <= position
      <3>1. last - line_start \in Nat /\ last - line_start < BUFSIZE /\ last - line_start <= position
        BY <1>0, <2>1, <2>2
      <3> QED
        BY <1>0, <2>5, <3>1 DEF Index
    <2> QED
      BY <1>0, <1>4, <2>4, <2>5, <2>6 DEF MoveDown, Ranges
  <1>5. CASE SearchLine
    <2>1. pc = "line" /\ data' = Terminated /\ line_start' = line_end + 1
      BY <1>5 DEF SearchLine
    <2>2. data' \in [Index -> Byte]
      BY <2>1, TerminatedIs
    <2>3. PICK e : e = line_end
      OBVIOUS
    <2>4. e \in Nat
      BY <1>0, <2>1, <2>3, Scan DEF ScansTo, Index
    <2>5. CASE e + 1 >= last
      <3>1. last' = 0 /\ pc' = AfterPass
        BY <1>5, <2>3, <2>5 DEF SearchLine
      <3>2. UNCHANGED <<search, file, position, cnt>>
        BY <1>5 DEF SearchLine
      <3>3. pc' = "read" \/ (pc' = "close" /\ position = Len(file))
        BY <2>1, <3>1 DEF AfterPass, Ranges
      <3> QED
        BY <1>0, <2>2, <3>1, <3>2, <3>3 DEF Ranges, Index
    <2>6. CASE ~(e + 1 >= last)
      <3>1. last' = last /\ pc' = "line" /\ line_start' = e + 1
        BY <1>5, <2>1, <2>3, <2>6 DEF SearchLine
      <3>2. UNCHANGED <<search, file, position, cnt>>
        BY <1>5 DEF SearchLine
      <3>3. line_start' \in 0 .. last /\ line_start' < last
        BY <1>0, <2>4, <2>6, <3>1
      <3> QED
        BY <1>0, <2>1, <2>2, <3>1, <3>2, <3>3 DEF Ranges
    <2> QED
      BY <2>5, <2>6
  <1>6. CASE UNCHANGED vars
    BY <1>6 DEF vars, Ranges
  <1> QED
    BY <1>1, <1>2, <1>3, <1>4, <1>5, <1>6 DEF Next, Exit, ReadFails, Close

\* For every file, binary ones included, and every size of the buffer: grep never
\* asks for zero bytes, and closes a file when it has read all of it.
THEOREM AllIsRead == Spec => []NothingUnread
  <1>1. Ranges => NothingUnread
    BY DEF Ranges, NothingUnread
  <1> QED
    BY <1>1, RangesInit, RangesStep, PTL DEF Spec
-----------------------------------------------------------------------------
(***************************************************************************)
(* The line to search, in the file: its bytes From to To - 1.              *)
(***************************************************************************)
From == position - last + line_start + 1
To == position - last + line_end + 1

LEMMA Window ==
  ASSUME Ranges, IsText, Tracks, pc = "line"
  PROVE  /\ From \in 1 .. Len(file) + 1 /\ To \in From .. Len(file) + 1
         /\ line_start \in Index
         /\ line_end \in line_start .. last
         /\ To - From = line_end - line_start
         /\ \A i \in line_start .. line_end - 1 :
              /\ Terminated[i] = file[From + (i - line_start)]
              /\ file[From + (i - line_start)] # NL
              /\ file[From + (i - line_start)] # NUL
         /\ StringEnd(Terminated, line_start) = line_end
  <1>0. /\ Len(file) \in Nat /\ position \in Nat /\ position <= Len(file)
        /\ last \in Nat /\ last <= BUFSIZE /\ last <= position /\ BUFSIZE \in Nat
        /\ line_start \in Nat /\ line_start <= last
    BY Numbers DEF Ranges, Index
  <1>1. PICK e : e = line_end
    OBVIOUS
  <1>2. ScansTo(e)
    BY <1>1, Scan
  <1>3. e \in Nat /\ e >= line_start /\ e <= last /\ line_start \in Index /\ e \in Index
    BY <1>0, <1>2 DEF ScansTo, Index
  <1>4. PICK m \in Nat : m = From
    BY <1>0 DEF From
  <1>5. PICK n \in Nat : n = To
    BY <1>0, <1>1, <1>3 DEF To
  <1>6. /\ m \in 1 .. Len(file) + 1 /\ n \in m .. Len(file) + 1
        /\ n - m = e - line_start
    BY <1>0, <1>1, <1>3, <1>4, <1>5 DEF From, To
  <1>7. ASSUME NEW i \in line_start .. e - 1
        PROVE  /\ Terminated[i] = file[m + (i - line_start)]
               /\ file[m + (i - line_start)] # NL
               /\ file[m + (i - line_start)] # NUL
    <2>1. i \in Start .. last - 1 /\ i \in Index /\ i # e
      BY <1>0, <1>3 DEF Start, Index
    <2>2. position - last + i + 1 = m + (i - line_start)
      BY <1>0, <1>4 DEF From
    <2>3. data[i] = file[m + (i - line_start)]
      BY <2>1, <2>2 DEF Tracks
    <2>4. data[i] # NL
      BY <1>2 DEF ScansTo
    <2>5. m + (i - line_start) \in 1 .. Len(file)
      BY <1>0, <1>3, <1>4 DEF From
    <2>6. file[m + (i - line_start)] # NUL
      BY <2>5 DEF IsText, Plain
    <2>7. Terminated[i] = data[i]
      BY <1>1, <2>1, TerminatedIs
    <2> QED
      BY <2>3, <2>4, <2>6, <2>7
  <1>8. EndsAt(Terminated, line_start, e)
    BY <1>0, <1>1, <1>3, <1>7, TerminatedIs DEF EndsAt
  <1>9. StringEnd(Terminated, line_start) = e
    BY <1>0, <1>3, <1>8, StringEndIs DEF EndsAt
  <1> QED
    BY <1>0, <1>1, <1>3, <1>4, <1>5, <1>6, <1>7, <1>9

\* A line that is searched is a whole one, or what is left of one that filled the
\* buffer: the newline behind it.
LEMMA WholeLine ==
  ASSUME Ranges, IsText, Tracks, pc = "line", ~Cut
  PROVE  Line(file, From, To)
  <1>0. /\ Len(file) \in Nat /\ position \in Nat /\ position <= Len(file)
        /\ last \in Nat /\ last <= BUFSIZE /\ last <= position /\ BUFSIZE \in Nat
        /\ line_start \in Nat /\ line_start <= last
    BY Numbers DEF Ranges, Index
  <1>1. PICK e : e = line_end
    OBVIOUS
  <1>2. ScansTo(e)
    BY <1>1, Scan
  <1>3. e \in Nat /\ e >= line_start /\ e <= last
    BY <1>0, <1>2 DEF ScansTo
  <1>4. PICK m \in Nat : m = From
    BY <1>0 DEF From
  <1>5. PICK n \in Nat : n = To
    BY <1>0, <1>1, <1>3 DEF To
  <1>6. ASSUME NEW k \in m .. n - 1 PROVE file[k] # NL
    <2>1. PICK i \in Int : i = line_start + (k - m)
      BY <1>0
    <2>2. i \in line_start .. e - 1 /\ m + (i - line_start) = k
      BY <1>0, <1>1, <1>3, <1>4, <1>5, <2>1 DEF From, To
    <2> QED
      BY <1>1, <1>4, <2>2, Window
  <1>7. CASE e < last
    <2>1. e \in Start .. last - 1 /\ position - last + e + 1 = n
      BY <1>0, <1>1, <1>3, <1>5, <1>7 DEF Start, To
    <2>2. file[n] = NL
      BY <1>2, <1>7, <2>1 DEF Tracks, ScansTo
    <2> QED
      BY <1>4, <1>5, <1>6, <2>2 DEF Line
  <1>8. CASE e = last
    <2>1. n = position + 1
      BY <1>0, <1>1, <1>5, <1>8 DEF To
    <2>2. CASE position = Len(file)
      BY <1>4, <1>5, <1>6, <2>1, <2>2 DEF Line
    <2>3. CASE position # Len(file)
      <3>1. last = BUFSIZE /\ cnt # 0
        BY <1>0, <2>3 DEF Ranges
      <3>2. line_start = 0
        BY <1>1, <1>8, <3>1 DEF Tracks, Cut
      <3>3. m \in 1 .. Len(file) - BUFSIZE /\ m + BUFSIZE = n
        BY <1>0, <1>4, <2>1, <2>3, <3>1, <3>2 DEF From
      <3>4. PICK j \in m .. m + BUFSIZE : file[j] = NL
        BY <3>3 DEF IsText, Plain
      <3>5. j = n
        BY <1>0, <1>6, <3>3, <3>4
      <3> QED
        BY <1>4, <1>5, <1>6, <3>4, <3>5 DEF Line
    <2> QED
      BY <2>2, <2>3
  <1> QED
    BY <1>3, <1>7, <1>8, <1>0
\* The search in the buffer is a search in the file.
LEMMA FoundIs ==
  ASSUME Ranges, IsText, Tracks, pc = "line"
  PROVE  Found(Terminated) <=> Within(search, file, From, To)
  <1>1. PICK e : e = line_end
    OBVIOUS
  <1>2. PICK m \in Nat : m = From
    BY Window
  <1>3. PICK n \in Nat : n = To
    BY Window
  <1>4. PICK d : d = Terminated
    OBVIOUS
  <1>5. PICK l \in Nat : l = line_start
    BY Window DEF Index
  <1>6. /\ e \in Nat /\ l <= e /\ n - m = e - l
        /\ \A i \in l .. e - 1 : d[i] = file[m + (i - l)]
    BY <1>1, <1>2, <1>3, <1>4, <1>5, Window
  <1>7. Len(search) \in Nat
    BY GrepAssumption DEF Ranges
  <1>8. Found(d) <=> \E c \in l .. e - 1 : \A j \in 1 .. Len(search) :
                         c + j - 1 < e /\ d[c + j - 1] = search[j]
    BY <1>1, <1>5 DEF Found
  <1>9. ASSUME NEW c \in l .. e - 1,
               \A j \in 1 .. Len(search) : c + j - 1 < e /\ d[c + j - 1] = search[j]
        PROVE  Within(search, file, m, n)
    <2>1. PICK g \in Int : g = m + (c - l)
      BY <1>6
    <2>2. g \in m .. n - 1
      BY <1>6, <2>1
    <2>3. ASSUME NEW j \in 1 .. Len(search)
          PROVE  g + j - 1 < n /\ file[g + j - 1] = search[j]
      <3>1. c + j - 1 \in l .. e - 1 /\ m + ((c + j - 1) - l) = g + j - 1
        BY <1>6, <1>7, <1>9, <2>1
      <3>2. g + j - 1 < n
        BY <1>6, <1>7, <2>1, <3>1
      <3> QED
        BY <1>6, <1>9, <3>1, <3>2
    <2> QED
      BY <2>2, <2>3 DEF Within
  <1>10. ASSUME NEW g \in m .. n - 1,
                \A j \in 1 .. Len(search) : g + j - 1 < n /\ file[g + j - 1] = search[j]
         PROVE  Found(d)
    <2>1. PICK c \in Int : c = l + (g - m)
      BY <1>6
    <2>2. c \in l .. e - 1
      BY <1>6, <2>1
    <2>3. ASSUME NEW j \in 1 .. Len(search)
          PROVE  c + j - 1 < e /\ d[c + j - 1] = search[j]
      <3>0. g + j - 1 < n
        BY <1>10
      <3>1. c + j - 1 \in l .. e - 1 /\ m + ((c + j - 1) - l) = g + j - 1
        BY <1>6, <1>7, <2>1, <3>0
      <3>2. d[c + j - 1] = file[g + j - 1]
        BY <1>6, <3>1
      <3>3. file[g + j - 1] = search[j]
        BY <1>10
      <3>4. c + j - 1 < e
        BY <1>6, <3>1
      <3> QED
        BY <3>2, <3>3, <3>4
    <2> QED
      BY <1>8, <2>2, <2>3
  <1>11. Found(d) <=> Within(search, file, m, n)
    BY <1>8, <1>9, <1>10 DEF Within
  <1> QED
    BY <1>2, <1>3, <1>4, <1>11

\* What ece391_fdputs prints for a line that matches.
LEMMA PrintsLine ==
  ASSUME Ranges, IsText, Tracks, pc = "line"
  PROVE  [i \in 1 .. StringEnd(Terminated, line_start) - line_start |->
             Terminated[line_start + i - 1]] = SubSeq(file, From, To - 1)
  <1>1. PICK e : e = line_end
    OBVIOUS
  <1>2. PICK m \in Nat : m = From
    BY Window
  <1>3. PICK n \in Nat : n = To
    BY Window
  <1>4. PICK d : d = Terminated
    OBVIOUS
  <1>5. PICK l \in Nat : l = line_start
    BY Window DEF Index
  <1>6. /\ e \in Nat /\ l <= e /\ n - m = e - l /\ StringEnd(d, l) = e
        /\ \A i \in l .. e - 1 : d[i] = file[m + (i - l)]
    BY <1>1, <1>2, <1>3, <1>4, <1>5, Window
  <1>7. ASSUME NEW i \in 1 .. e - l PROVE d[l + i - 1] = file[m + i - 1]
    <2>1. l + i - 1 \in l .. e - 1 /\ m + ((l + i - 1) - l) = m + i - 1
      BY <1>6
    <2> QED
      BY <1>6, <2>1
  <1>8. SubSeq(file, m, n - 1) = [i \in 1 .. e - l |-> file[m + i - 1]]
    <2>1. n - 1 - m + 1 = e - l
      BY <1>6
    <2> QED
      BY <2>1
  <1>9. [i \in 1 .. e - l |-> d[l + i - 1]] = [i \in 1 .. e - l |-> file[m + i - 1]]
    BY <1>7
  <1> QED
    BY <1>2, <1>3, <1>4, <1>5, <1>6, <1>8, <1>9

\* How much of the file is done with after the line.
Behind == IF line_end = last THEN To - 1 ELSE To

LEMMA Reported ==
  ASSUME Ranges, IsText, Tracks, SearchLine
  PROVE  /\ Behind \in 0 .. Len(file)
         /\ Resumes(file, Behind)
         /\ printed' = Hits(search, file)[Behind]
  <1>0. /\ pc = "line" /\ ~Cut /\ file \in Seq(Byte) /\ Len(file) \in Nat
        /\ search \in Seq(Letter) /\ search # << >>
    BY GrepAssumption DEF SearchLine, Ranges
  <1>1. PICK m \in Nat : m = From
    BY <1>0, Window
  <1>2. PICK n \in Nat : n = To
    BY <1>0, Window
  <1>3. m \in 1 .. Len(file) + 1 /\ n \in m .. Len(file) + 1 /\ Line(file, m, n)
    BY <1>0, <1>1, <1>2, Window, WholeLine
  <1>4. PICK line : line = SubSeq(file, m, n - 1)
    OBVIOUS
  <1>5. printed' = IF Within(search, file, m, n) THEN Append(printed, line) ELSE printed
    BY <1>0, <1>1, <1>2, <1>4, FoundIs, PrintsLine DEF SearchLine
  <1>6. printed = Hits(search, file)[m - 1] /\ Resumes(file, m - 1)
    <2>1. Done = m - 1
      BY <1>0, <1>1, Numbers DEF Done, Start, From, Ranges, Index
    <2> QED
      BY <2>1 DEF Tracks
  <1>7. PICK r : r = Behind
    OBVIOUS
  <1>8. /\ r \in 0 .. Len(file) /\ r \in m - 1 .. n
        /\ m <= Len(file) => r >= m
        /\ Resumes(file, r)
    <2>0. /\ position \in Nat /\ position <= Len(file)
          /\ last \in Nat /\ last <= position /\ last <= BUFSIZE /\ BUFSIZE \in Nat /\ BUFSIZE > 0
          /\ line_start \in Nat /\ line_start <= last
          /\ line_start < last \/ line_start = 0
          /\ last < BUFSIZE => position = Len(file)
      BY <1>0, Numbers DEF Ranges, Index
    <2>1. PICK e \in Nat : e = line_end /\ e >= line_start /\ e <= last
      BY <1>0, <2>0, Window
    <2>2. n = position - last + e + 1 /\ m = position - last + line_start + 1
      BY <1>1, <1>2, <2>1 DEF From, To
    <2>3. CASE e = last
      <3>1. r = n - 1 /\ n = position + 1
        BY <1>2, <1>7, <2>0, <2>1, <2>2, <2>3 DEF Behind
      <3>2. m <= Len(file) => m < n
        BY <1>0, <2>0, <2>2, <2>3
      <3>3. Resumes(file, r)
        BY <1>3, <3>1 DEF Line, Resumes
      <3> QED
        BY <1>0, <1>3, <3>1, <3>2, <3>3, <2>0
    <2>4. CASE e < last
      <3>1. r = n /\ n <= position
        BY <1>2, <1>7, <2>0, <2>1, <2>2, <2>4 DEF Behind
      <3>2. file[n] = NL
        BY <1>0, <1>3, <2>0, <3>1 DEF Line
      <3>3. Resumes(file, r)
        BY <3>1, <3>2 DEF Resumes
      <3> QED
        BY <1>0, <1>3, <3>1, <3>3, <2>0
    <2> QED
      BY <2>0, <2>1, <2>3, <2>4
  <1>9. printed' = Hits(search, file)[r]
    <2>1. CASE m = Len(file) + 1
      <3>1. r = m - 1 /\ n = m
        BY <1>0, <1>3, <1>8, <2>1
      <3>2. ~Within(search, file, m, n)
        BY <3>1 DEF Within
      <3> QED
        BY <1>5, <1>6, <3>1, <3>2
    <2>2. CASE m # Len(file) + 1
      <3>1. m \in 1 .. Len(file) /\ m \in 0 .. Len(file) /\ r \in m .. Len(file) /\ r <= n
        BY <1>0, <1>3, <1>8, <2>2
      <3>2. LineAt(file, m) = line
        BY <1>0, <1>3, <1>4, <3>1, LineIs
      <3>3. Occurs(search, line) <=> Within(search, file, m, n)
        BY <1>0, <1>3, <1>4, OccursWithin
      <3>4. printed' = Hits(search, file)[m]
        <4>1. Hits(search, file)[m] = IF Hit(search, file, m)
                                      THEN Append(Hits(search, file)[m - 1], line)
                                      ELSE Hits(search, file)[m - 1]
          BY <1>0, <3>1, <3>2, HitsAt
        <4>2. Hit(search, file, m) <=> Within(search, file, m, n)
          <5>1. CASE Begins(file, m)
            BY <3>2, <3>3, <5>1 DEF Hit
          <5>2. CASE ~Begins(file, m)
            <6>1. m - 1 # 0 /\ m - 1 # Len(file) /\ (m - 1) + 1 = m
              BY <3>1, <5>2 DEF Begins
            <6>2. file[m] = NL
              BY <1>6, <5>2, <6>1 DEF Begins, Resumes
            <6>3. n = m
              BY <1>3, <6>2 DEF Line
            <6> QED
              BY <5>2, <6>3 DEF Hit, Within
          <5> QED
            BY <5>1, <5>2
        <4> QED
          BY <1>5, <1>6, <4>1, <4>2
      <3>5. \A k \in m + 1 .. r : ~Hit(search, file, k)
        BY <1>0, <1>3, <3>1, NoneBegins
      <3>6. Hits(search, file)[r] = Hits(search, file)[m]
        BY <1>0, <3>1, <3>5, HitsSame
      <3> QED
        BY <3>4, <3>6
    <2> QED
      BY <2>1, <2>2
  <1> QED
    BY <1>7, <1>8, <1>9
-----------------------------------------------------------------------------
(***************************************************************************)
(* Tracked.                                                                *)
(***************************************************************************)
LEMMA TracksOpen == ASSUME OpenFile, IsText' PROVE Tracks'
  <1>1. /\ pc' = "read" /\ position' = 0 /\ last' = 0 /\ printed' = << >>
        /\ file' \in Seq(Byte) /\ data'[BUFSIZE] = garbage' /\ garbage' # NL
    BY Numbers, FileIsSeq DEF OpenFile, IsText
  <1>2. Start' = 0 /\ Done' = 0
    BY <1>1 DEF Start, Done
  <1>3. Hits(search, file)'[0] = << >>
    BY <1>1, HitsAt
  <1> QED
    BY <1>1, <1>2, <1>3 DEF Tracks, Resumes

LEMMA TracksRead == ASSUME Ranges, IsText, Tracks, Read PROVE Tracks'
  <1>0. /\ pc = "read" /\ last \in Nat /\ last <= BUFSIZE /\ BUFSIZE \in Nat /\ BUFSIZE \in Index
        /\ position \in Nat
    BY Numbers DEF Read, Ranges, Index
  <1>01. PICK n \in Nat : last' = last + n /\ last + n <= BUFSIZE
    BY <1>0, ReadGets DEF Index
  <1>1. /\ last' \in Nat /\ last' <= BUFSIZE /\ last' >= last
        /\ \A i \in Index : data'[i] = IF i \in last .. last' - 1
                                       THEN file[position - last + i + 1] ELSE data[i]
        /\ position' - last' = position - last
        /\ line_start' = 0 /\ pc' = "line" /\ UNCHANGED <<search, file, garbage, printed>>
    BY <1>0, <1>01, ReadGets
  <1>2. Start = 0 /\ Start' = 0 /\ Done' = Done
    BY <1>0, <1>1 DEF Start, Done
  <1>3. data'[BUFSIZE] = data[BUFSIZE]
    <2>1. BUFSIZE \notin last .. last + n - 1
      BY <1>0, <1>01
    <2>2. last .. last' - 1 = last .. last + n - 1
      BY <1>0, <1>01
    <2> QED
      BY <1>0, <1>1, <2>1, <2>2
  <1>4. ASSUME NEW i \in 0 .. last' - 1 PROVE data'[i] = file[position - last + i + 1]
    <2>1. i \in Index
      <3>1. 0 .. last' - 1 = 0 .. last + n - 1
        BY <1>0, <1>01
      <3>2. i \in 0 .. last + n - 1
        BY <3>1
      <3> QED
        BY <1>0, <1>01, <3>2 DEF Index
    <2>2. i \in last .. last' - 1 => data'[i] = file[position - last + i + 1]
      BY <1>1, <2>1
    <2>3. i \notin last .. last' - 1 => data'[i] = data[i]
      BY <1>1, <2>1
    <2>4. i \notin last .. last' - 1 => i \in Start .. last - 1
      <3>1. 0 .. last' - 1 = 0 .. last + n - 1 /\ last .. last' - 1 = last .. last + n - 1
        BY <1>0, <1>01
      <3>2. i \in 0 .. last + n - 1
        BY <3>1
      <3>3. i \notin last .. last + n - 1 => i \in 0 .. last - 1
        BY <1>0, <3>2
      <3> QED
        BY <1>2, <3>1, <3>3
    <2>5. i \in Start .. last - 1 => data[i] = file[position - last + i + 1]
      BY DEF Tracks
    <2> QED
      BY <2>2, <2>3, <2>4, <2>5, Zenon
  <1> QED
    BY <1>1, <1>2, <1>3, <1>4 DEF Tracks

LEMMA TracksMove == ASSUME Ranges, IsText, Tracks, MoveDown PROVE Tracks'
  <1>0. /\ pc = "line" /\ line_start # 0 /\ cnt # 0
        /\ last' = last - line_start /\ pc' = "read"
        /\ UNCHANGED <<search, file, position, garbage, printed>>
    BY DEF MoveDown, Cut, Rest, AfterPass
  <1>1. /\ last \in Nat /\ last <= BUFSIZE /\ BUFSIZE \in Nat /\ position \in Nat
        /\ line_start \in Nat /\ line_start < last
    BY <1>0, Numbers DEF Ranges, Index
  <1>2. PICK l \in Nat : l = line_start
    BY <1>1
  <1>3. PICK e : e = line_end
    OBVIOUS
  <1>4. PICK d : d = Terminated
    OBVIOUS
  <1>5. /\ e \in l .. last /\ StringEnd(d, l) = e
        /\ \A i \in l .. e - 1 : d[i] = file[From + (i - l)]
    BY <1>0, <1>2, <1>3, <1>4, Window
  <1>6. e = last
    <2>1. e < last => data[e] = NL
      BY <1>0, <1>3, Scan DEF ScansTo
    <2>2. data[e] # NL
      BY <1>3 DEF MoveDown, Cut
    <2> QED
      BY <1>1, <1>2, <1>5, <2>1, <2>2
  <1>7. data' = [i \in Index |-> IF i <= e - l THEN d[l + i] ELSE d[i]]
    BY <1>2, <1>4, <1>5 DEF MoveDown, strcpy, Index
  <1>8. Start' = 0 /\ Start = l /\ Done' = Done /\ position' - last' + 1 = From
    BY <1>0, <1>1, <1>2 DEF Start, Done, From
  <1>9. data'[BUFSIZE] # NL
    <2>1. BUFSIZE \in Index /\ ~(BUFSIZE <= e - l)
      BY <1>1, <1>2, <1>0, <1>6 DEF Index
    <2>2. data'[BUFSIZE] = d[BUFSIZE]
      BY <1>7, <2>1
    <2>3. d[BUFSIZE] = NUL \/ d[BUFSIZE] = data[BUFSIZE]
      BY <1>0, <1>3, <1>4, <2>1, TerminatedIs
    <2> QED
      BY <2>2, <2>3, Numbers DEF Tracks
  <1>10. ASSUME NEW i \in 0 .. last' - 1 PROVE data'[i] = file[position' - last' + i + 1]
    <2>1. i \in Index /\ i <= e - l /\ l + i \in l .. e - 1
      BY <1>0, <1>1, <1>2, <1>6 DEF Index
    <2>2. position' - last' + i + 1 = From + ((l + i) - l)
      BY <1>0, <1>1, <1>2 DEF From
    <2> QED
      BY <1>5, <1>7, <2>1, <2>2
  <1> QED
    BY <1>0, <1>8, <1>9, <1>10 DEF Tracks

LEMMA TracksSearch == ASSUME Ranges, IsText, Tracks, SearchLine PROVE Tracks'
  <1>0. /\ pc = "line" /\ data' = Terminated /\ line_start' = line_end + 1
        /\ UNCHANGED <<search, file, position, garbage>>
    BY DEF SearchLine
  <1>1. /\ last \in Nat /\ last <= BUFSIZE /\ BUFSIZE \in Nat /\ position \in Nat
        /\ line_start \in Nat
    BY <1>0, Numbers DEF Ranges, Index
  <1>2. PICK e \in Nat : e = line_end /\ e >= line_start /\ e <= last
    BY <1>0, <1>1, Window
  <1>3. data'[BUFSIZE] # NL
    <2>1. data'[BUFSIZE] = NUL \/ data'[BUFSIZE] = data[BUFSIZE]
      BY <1>0, <1>1, TerminatedIs DEF Index
    <2> QED
      BY <2>1, Numbers DEF Tracks
  <1>4. CASE e + 1 >= last
    <2>1. last' = 0 /\ pc' # "line"
      BY <1>2, <1>4 DEF SearchLine, AfterPass
    <2>2. Start' = 0 /\ Done' = position
      BY <1>0, <1>1, <2>1 DEF Start, Done
    <2>3. Behind = position
      BY <1>1, <1>2, <1>4 DEF Behind, To
    <2> QED
      BY <1>0, <1>3, <2>1, <2>2, <2>3, Reported DEF Tracks
  <1>5. CASE ~(e + 1 >= last)
    <2>1. last' = last /\ pc' = "line"
      BY <1>2, <1>5 DEF SearchLine
    <2>2. Start' = e + 1 /\ Done' = position - last + e + 1
      BY <1>0, <1>1, <1>2, <2>1 DEF Start, Done
    <2>3. Behind = position - last + e + 1
      BY <1>1, <1>2, <1>5 DEF Behind, To
    <2>4. ASSUME NEW i \in e + 1 .. last - 1 PROVE data'[i] = file[position - last + i + 1]
      <3>1. i \in Index /\ i # e /\ i \in Start .. last - 1
        BY <1>0, <1>1, <1>2 DEF Index, Start
      <3> QED
        BY <1>0, <1>2, <3>1, TerminatedIs DEF Tracks
    <2> QED
      BY <1>0, <1>3, <2>1, <2>2, <2>3, <2>4, Reported DEF Tracks
  <1> QED
    BY <1>4, <1>5

LEMMA TrackedStep == Ranges /\ Tracked /\ [Next]_vars => Tracked'
  <1> SUFFICES ASSUME Ranges, Tracked, [Next]_vars,
                      pc' \in {"read", "line", "close"}, IsText'
               PROVE  Tracks'
    BY DEF Tracked
  <1>1. CASE OpenFile
    BY <1>1, TracksOpen
  <1>2. ASSUME pc \in {"read", "line"}, UNCHANGED <<file, garbage>> PROVE IsText /\ Tracks
    BY <1>2 DEF Tracked, IsText, Plain
  <1>3. CASE Read
    BY <1>2, <1>3, TracksRead DEF Read
  <1>4. CASE MoveDown
    BY <1>2, <1>4, TracksMove DEF MoveDown
  <1>5. CASE SearchLine
    BY <1>2, <1>5, TracksSearch DEF SearchLine
  <1>6. CASE Exit \/ ReadFails \/ Close
    BY <1>6 DEF Exit, ReadFails, Close
  <1>7. CASE UNCHANGED vars
    <2>1. /\ pc' = pc /\ search' = search /\ file' = file /\ position' = position /\ data' = data
          /\ last' = last /\ line_start' = line_start /\ garbage' = garbage /\ printed' = printed
      BY <1>7 DEF vars
    <2>2. IsText /\ Tracks
      BY <2>1 DEF Tracked, IsText
    <2> QED
      BY <2>1, <2>2 DEF Tracks, Start, Done
  <1> QED
    BY <1>1, <1>3, <1>4, <1>5, <1>6, <1>7 DEF Next

\* grep is exact on text files, for every size of the buffer, every pattern and
\* files of every length: it prints the lines with the pattern in them, whole, in
\* order and once each.
THEOREM ExactOnText == Spec => []GrepExact
  <1>1. Init => Ranges /\ Tracked
    BY RangesInit DEF Init, Tracked
  <1>2. Ranges /\ Tracked => GrepExact
    <2> SUFFICES ASSUME Ranges, Tracked, pc = "close", IsText
                 PROVE  printed = Grepped(search, file)
      BY DEF GrepExact, IsText
    <2>1. Done = Len(file)
      BY DEF Ranges, Done, Start
    <2> QED
      BY <2>1 DEF Tracked, Tracks, Grepped
  <1> QED
    BY <1>1, <1>2, RangesStep, TrackedStep, PTL DEF Spec
=============================================================================
