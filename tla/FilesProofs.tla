----------------------------- MODULE FilesProofs -----------------------------
(***************************************************************************)
(* Theorems about Files and SysErr, for every file system image, every     *)
(* block size and every number of descriptors.                             *)
(*                                                                         *)
(* read_data's loops are recursive functions.  What they compute is proved *)
(* by induction in the form of a least counterexample, which the theorem   *)
(* WFMin gives for every set of naturals.                                  *)
(***************************************************************************)
EXTENDS SysErr, FiniteSetTheorems, WellFoundedInduction, TLAPS

B == FS_BLOCK_LENGTH

-----------------------------------------------------------------------------
(***************************************************************************)
(* Naturals.                                                               *)
(***************************************************************************)
LEMMA LeastNatural ==
  ASSUME NEW S, S \subseteq Nat, S # {}
  PROVE  \E x \in S : \A y \in S : x <= y
  <1> DEFINE R == {ss \in Nat \X Nat : ss[1] < ss[2]}
  <1>1. IsWellFoundedOn(R, Nat)
    BY NatLessThanWellFounded DEF OpToRel
  <1> HIDE DEF R
  <1>2. PICK x \in S : \A y \in S : ~(<<y, x>> \in R)
    BY <1>1, WFMin
  <1>3. ASSUME NEW y \in S PROVE x <= y
    <2>1. x \in Nat /\ y \in Nat
      OBVIOUS
    <2>2. <<y, x>> \in Nat \X Nat /\ <<y, x>>[1] = y /\ <<y, x>>[2] = x
      BY <2>1
    <2>3. y < x => <<y, x>> \in R
      BY <2>2, Zenon DEF R
    <2> QED
      BY <1>2, <2>1, <2>3
  <1> QED
    BY <1>3

\* Induction up to n: the set of the numbers for which the claim holds is S.
LEMMA InductionUpTo ==
  ASSUME NEW n \in Nat, NEW S, 0 \in S, \A i \in 1 .. n : i - 1 \in S => i \in S
  PROVE  \A i \in 0 .. n : i \in S
  <1> DEFINE Bad == (0 .. n) \ S
  <1> SUFFICES ASSUME Bad # {} PROVE FALSE
    OBVIOUS
  <1>1. Bad \subseteq Nat
    OBVIOUS
  <1> HIDE DEF Bad
  <1>2. PICK x \in Bad : \A y \in Bad : x <= y
    BY <1>1, LeastNatural
  <1>3. x \in 1 .. n /\ x - 1 \in 0 .. n /\ x - 1 \in S
    BY <1>2 DEF Bad
  <1> QED
    BY <1>2, <1>3 DEF Bad

LEMMA DivMod ==
  ASSUME NEW n \in Nat, NEW b \in Nat \ {0}
  PROVE  n \div b \in Nat /\ n % b \in 0 .. b - 1 /\ n = b * (n \div b) + (n % b)
  <1>1. n \div b \in Nat /\ n % b \in 0 .. b - 1
    OBVIOUS
  <1>2. n = b * (n \div b) + (n % b)
    OBVIOUS
  <1> QED
    BY <1>1, <1>2

LEMMA DivModUnique ==
  ASSUME NEW b \in Nat \ {0}, NEW q \in Nat, NEW r \in 0 .. b - 1
  PROVE  (b * q + r) \div b = q /\ (b * q + r) % b = r
  OBVIOUS

LEMMA DivModNext ==
  ASSUME NEW n \in Nat, NEW b \in Nat \ {0}
  PROVE  /\ n % b = b - 1 => (n + 1) \div b = n \div b + 1 /\ (n + 1) % b = 0
         /\ n % b # b - 1 => (n + 1) \div b = n \div b /\ (n + 1) % b = (n % b) + 1
  <1>1. PICK q \in Nat : q = n \div b
    BY DivMod
  <1>2. PICK r \in 0 .. b - 1 : r = n % b
    BY DivMod
  <1>3. n = b * q + r
    BY <1>1, <1>2, DivMod
  <1>4. CASE r = b - 1
    <2>1. n + 1 = b * (q + 1) + 0
      BY <1>3, <1>4
    <2>2. (b * (q + 1) + 0) \div b = q + 1 /\ (b * (q + 1) + 0) % b = 0
      OBVIOUS
    <2>3. (n + 1) \div b = q + 1 /\ (n + 1) % b = 0
      BY <2>1, <2>2
    <2> QED
      BY <1>1, <1>2, <1>4, <2>3
  <1>5. CASE r # b - 1
    <2>1. n + 1 = b * q + (r + 1) /\ r + 1 \in 0 .. b - 1
      BY <1>3, <1>5
    <2>2. (n + 1) \div b = q /\ (n + 1) % b = r + 1
      BY <2>1, DivModUnique, Zenon
    <2> QED
      BY <1>1, <1>2, <1>5, <2>2
  <1> QED
    BY <1>4, <1>5

-----------------------------------------------------------------------------
(***************************************************************************)
(* read_data.                                                              *)
(***************************************************************************)
\* The two places that the loops of read_data keep for the n-th byte: just behind
\* it in its block, and on it.
Behind(n) == [idx |-> n \div B, k |-> (n % B) + 1]
On(n) == [idx |-> n \div B, k |-> n % B]

LEMMA OnFields ==
  ASSUME NEW n
  PROVE  On(n).idx = n \div FS_BLOCK_LENGTH /\ On(n).k = n % FS_BLOCK_LENGTH
  BY DEF On, B

LEMMA BlockLength == B \in Nat \ {0}
  BY SizesAssumption DEF B

LEMMA TurnedBehind == ASSUME NEW n \in Nat PROVE Turned(Behind(n)) = On(n + 1)
  <1>1. n % B \in 0 .. B - 1 /\ B \in Nat \ {0}
    BY DivMod, BlockLength
  <1>2. CASE n % B = B - 1
    <2>1. (n % B) + 1 > 0 /\ ((n % B) + 1) % B = 0
      BY <1>1, <1>2
    <2> QED
      BY <1>2, <2>1, BlockLength, DivModNext DEF Turned, Behind, On, B
  <1>3. CASE n % B # B - 1
    <2>1. ((n % B) + 1) % B = (n % B) + 1
      BY <1>1, <1>3
    <2>2. ((n % B) + 1) % B # 0
      BY <1>1, <2>1
    <2>3. Turned(Behind(n)) = Behind(n)
      BY <2>2 DEF Turned, Behind, B
    <2> QED
      BY <1>3, <2>3, BlockLength, DivModNext DEF Behind, On
  <1> QED
    BY <1>2, <1>3

LEMMA TurnedZero == Turned([idx |-> 0, k |-> 0]) = On(0)
  <1>1. 0 \div B = 0 /\ 0 % B = 0
    BY BlockLength
  <1> QED
    BY <1>1 DEF Turned, On

\* The first loop of read_data passes the first `offset' bytes.
LEMMA SeekExact ==
  ASSUME NEW offset \in Nat
  PROVE  Seek(offset) = IF offset = 0 THEN [idx |-> 0, k |-> 0] ELSE Behind(offset - 1)
  <1> DEFINE Origin == [idx |-> 0, k |-> 0]
             Pass(b, i) == IF i - 1 > 0 /\ (i - 1) % FS_BLOCK_LENGTH = 0
                           THEN [idx |-> b.idx + 1, k |-> 1] ELSE [b EXCEPT !.k = @ + 1]
             Loop(g) == [i \in 0 .. offset |-> IF i = 0 THEN Origin ELSE Pass(g[i - 1], i)]
             Ref(i) == IF i = 0 THEN Origin ELSE Behind(i - 1)
             at == CHOOSE g : g = Loop(g)
  <1>1. ASSUME NEW i \in 1 .. offset PROVE Ref(i) = Pass(Ref(i - 1), i)
    <2>1. CASE i = 1
      <3>1. 0 \div B = 0 /\ 0 % B = 0
        BY BlockLength
      <3> QED
        BY <2>1, <3>1 DEF Behind
    <2>2. CASE i # 1
      <3>1. PICK n \in Nat : i = n + 2
        BY <2>2
      <3>2. /\ n % B \in 0 .. B - 1
            /\ n % B = B - 1 => (n + 1) \div B = n \div B + 1 /\ (n + 1) % B = 0
            /\ n % B # B - 1 => (n + 1) \div B = n \div B /\ (n + 1) % B = (n % B) + 1
        BY DivMod, DivModNext, BlockLength
      <3>3. Ref(i) = Behind(n + 1) /\ Ref(i - 1) = Behind(n) /\ i - 1 = n + 1
        BY <3>1
      <3> QED
        BY <3>1, <3>2, <3>3, BlockLength DEF Behind, B
    <2> QED
      BY <2>1, <2>2
  <1>2. Seek(offset) = at[offset]
    BY DEF Seek
  <1> HIDE DEF Pass, Ref, Origin
  <1>3. at = Loop(at)
    <2> DEFINE G == [i \in 0 .. offset |-> Ref(i)]
    <2>1. G = Loop(G)
      <3>1. Ref(0) = Origin
        BY DEF Ref
      <3>2. ASSUME NEW i \in 0 .. offset
            PROVE  Ref(i) = IF i = 0 THEN Origin ELSE Pass(G[i - 1], i)
        BY <1>1, <3>1
      <3> QED
        BY <3>2
    <2> HIDE DEF G
    <2> QED
      BY <2>1
  <1> HIDE DEF at
  <1>4. at[0] = Origin /\ \A i \in 1 .. offset : at[i] = Pass(at[i - 1], i)
    BY <1>3
  <1>5. \A i \in 0 .. offset : at[i] = Ref(i)
    <2> DEFINE S == {i \in 0 .. offset : at[i] = Ref(i)}
    <2>1. 0 \in S
      BY <1>4 DEF Ref
    <2>2. ASSUME NEW i \in 1 .. offset, i - 1 \in S PROVE i \in S
      BY <1>1, <1>4, <2>2
    <2> HIDE DEF S
    <2>3. \A i \in 0 .. offset : i \in S
      BY <2>1, <2>2, InductionUpTo
    <2> QED
      BY <2>3 DEF S
  <1> QED
    BY <1>2, <1>5 DEF Ref, Origin

\* The copy loop finds each byte of the file where it lies.
LEMMA PlacesExact ==
  ASSUME NEW offset \in Nat, NEW n \in Nat
  PROVE  Places(offset, n) = [i \in 1 .. n |-> On(offset + i - 1)]
  <1> DEFINE Next1(b) == [b EXCEPT !.k = @ + 1]
             Step(g, i) == Turned(IF i = 0 THEN Seek(offset) ELSE Next1(g[i - 1]))
             Loop(g) == [i \in 0 .. n |-> Step(g, i)]
             at == CHOOSE g : g = Loop(g)
  <1>1. Places(offset, n) = [i \in 1 .. n |-> at[i - 1]]
    BY DEF Places
  <1>2. Turned(Seek(offset)) = On(offset)
    <2>1. CASE offset = 0
      BY <2>1, SeekExact, TurnedZero
    <2>2. CASE offset # 0
      <3>1. PICK m \in Nat : offset = m + 1
        BY <2>2
      <3>2. Seek(offset) = Behind(m)
        BY <2>2, <3>1, SeekExact
      <3> QED
        BY <3>1, <3>2, TurnedBehind
    <2> QED
      BY <2>1, <2>2
  <1>3. ASSUME NEW i \in 1 .. n
        PROVE  Turned(Next1(On(offset + i - 1))) = On(offset + i)
    <2>1. PICK m \in Nat : m = offset + i - 1
      OBVIOUS
    <2>2. Next1(On(m)) = Behind(m)
      BY DEF On, Behind
    <2>3. Turned(Behind(m)) = On(m + 1)
      BY TurnedBehind
    <2>4. m + 1 = offset + i
      BY <2>1
    <2> QED
      BY <2>1, <2>2, <2>3, <2>4
  <1> HIDE DEF Next1
  <1>4. at = Loop(at)
    <2> DEFINE G == [i \in 0 .. n |-> On(offset + i)]
    <2>1. ASSUME NEW i \in 0 .. n PROVE On(offset + i) = Step(G, i)
      <3>1. CASE i = 0
        BY <1>2, <3>1
      <3>2. CASE i # 0
        <4>1. G[i - 1] = On(offset + i - 1)
          BY <3>2
        <4> QED
          BY <1>3, <3>2, <4>1
      <3> QED
        BY <3>1, <3>2
    <2>2. G = Loop(G)
      BY <2>1
    <2> HIDE DEF G, Step
    <2> QED
      BY <2>2
  <1> HIDE DEF at
  <1>5. at[0] = On(offset) /\ \A i \in 1 .. n : at[i] = Turned(Next1(at[i - 1]))
    <2>1. \A i \in 0 .. n : at[i] = Step(at, i)
      <3> HIDE DEF Step
      <3> QED
        BY <1>4
    <2> QED
      BY <1>2, <2>1
  <1>6. \A i \in 0 .. n : at[i] = On(offset + i)
    <2> DEFINE S == {i \in 0 .. n : at[i] = On(offset + i)}
    <2>1. 0 \in S
      BY <1>5
    <2>2. ASSUME NEW i \in 1 .. n, i - 1 \in S PROVE i \in S
      <3>1. at[i - 1] = On(offset + i - 1)
        BY <2>2
      <3>2. at[i] = On(offset + i)
        BY <1>3, <1>5, <3>1
      <3> QED
        BY <3>2
    <2> HIDE DEF S
    <2>3. \A i \in 0 .. n : i \in S
      BY <2>1, <2>2, InductionUpTo
    <2> QED
      BY <2>3 DEF S
  <1>7. ASSUME NEW i \in 1 .. n PROVE at[i - 1] = On(offset + i - 1)
    BY <1>6
  <1> QED
    BY <1>1, <1>7

\* What read_data returns for an inode that is there: the bytes from `offset' on, as
\* many as asked for or as there are, all from blocks of the file; and 0 bytes only if
\* none was asked for or none is left.
ReadUpTo(r, inode, offset, nbytes, n) ==
    /\ r.bytes = [i \in 1 .. n |-> ByteAt(inode, offset + i - 1)]
    /\ offset + n <= Inodes[inode].length
    /\ \A i \in offset .. offset + n - 1 : GoodBlock(inode, i \div FS_BLOCK_LENGTH)
    /\ r.ok /\ nbytes # 0 /\ n = 0 => offset = Inodes[inode].length

LEMMA ReadDataExact ==
  ASSUME NEW inode \in DOMAIN Inodes, NEW offset \in Nat, NEW nbytes \in Int,
         offset <= Inodes[inode].length,
         NEW r, r = read_data(inode, offset, nbytes)
  PROVE  \E n \in Nat : ReadUpTo(r, inode, offset, nbytes, n)
  <1> DEFINE left == Inodes[inode].length - offset
             len == IF left <= 0 THEN 0
                    ELSE IF nbytes < 0 \/ nbytes > left THEN left ELSE nbytes
             places == Places(offset, len)
  <1>1. left \in Nat /\ len \in Nat /\ len <= left
    BY ImageAssumption
  <1>2. CASE r = [ok |-> FALSE, bytes |-> << >>]
    <2>1. << >> = [i \in 1 .. 0 |-> ByteAt(inode, offset + i - 1)]
      OBVIOUS
    <2> WITNESS 0 \in Nat
    <2> QED
      BY <1>2, <2>1 DEF ReadUpTo
  <1>3. CASE r # [ok |-> FALSE, bytes |-> << >>]
    <2>1. /\ \A i \in 1 .. len : GoodBlock(inode, places[i].idx)
          /\ r = [ok |-> TRUE,
                  bytes |-> [i \in 1 .. len |->
                    DataBlocks[Inodes[inode].block_numbers[places[i].idx + 1]][places[i].k]]]
      BY <1>3, Zenon DEF read_data
    <2> HIDE DEF len
    <2>2. ASSUME NEW i \in 1 .. len
          PROVE  /\ places[i].idx = (offset + i - 1) \div FS_BLOCK_LENGTH
                 /\ places[i].k = (offset + i - 1) % FS_BLOCK_LENGTH
      <3>1. places[i] = On(offset + i - 1)
        BY <1>1, PlacesExact
      <3> HIDE DEF places
      <3> QED
        BY <3>1, OnFields, Zenon
    <2> HIDE DEF places
    <2>3. r.bytes = [i \in 1 .. len |-> ByteAt(inode, offset + i - 1)]
      <3> DEFINE Byte(i) ==
            DataBlocks[Inodes[inode].block_numbers[places[i].idx + 1]][places[i].k]
      <3>1. r.bytes = [i \in 1 .. len |-> Byte(i)]
        BY <2>1
      <3>2. ASSUME NEW i \in 1 .. len PROVE Byte(i) = ByteAt(inode, offset + i - 1)
        BY <2>2, Zenon DEF ByteAt
      <3> HIDE DEF Byte
      <3> QED
        BY <3>1, <3>2
    <2>4. ASSUME NEW i \in offset .. offset + len - 1
          PROVE  GoodBlock(inode, i \div FS_BLOCK_LENGTH)
      <3>1. PICK j \in 1 .. len : i = offset + j - 1
        <4>1. i - offset + 1 \in 1 .. len /\ i = offset + (i - offset + 1) - 1
          BY <1>1
        <4> QED
          BY <4>1
      <3>2. places[j].idx = i \div FS_BLOCK_LENGTH
        BY <2>2, <3>1, Zenon
      <3> QED
        BY <2>1, <3>1, <3>2
    <2>5. nbytes # 0 /\ len = 0 => offset = Inodes[inode].length
      BY <1>1, ImageAssumption DEF len
    <2>6. offset + len <= Inodes[inode].length
      BY <1>1, ImageAssumption
    <2> USE <1>1
    <2> WITNESS len \in Nat
    <2> QED
      BY <2>3, <2>4, <2>5, <2>6 DEF ReadUpTo
  <1> QED
    BY <1>2, <1>3

LEMMA DentryTypes ==
  /\ Len(Dentries) \in Nat
  /\ \A f \in File :
        /\ Dentries[f] \in [filetype : {"device", "directory", "regular"}, inode : Nat]
        /\ Dentries[f].filetype = "regular" => Dentries[f].inode \in DOMAIN Inodes
  <1> DEFINE S == [filetype : {"device", "directory", "regular"}, inode : Nat]
  <1>1. Dentries \in Seq(S)
    BY ImageAssumption
  <1>2. ASSUME NEW f \in File
        PROVE  Dentries[f].filetype = "regular" => Dentries[f].inode \in DOMAIN Inodes
    BY ImageAssumption DEF File
  <1> HIDE DEF S
  <1>3. ASSUME NEW f \in File PROVE Dentries[f] \in S
    BY <1>1 DEF File
  <1> QED
    BY <1>1, <1>2, <1>3 DEF S

LEMMA ReadDataLength ==
  ASSUME NEW inode, NEW offset \in Nat, NEW nbytes \in Int
  PROVE  Len(read_data(inode, offset, nbytes).bytes) \in Nat
  <1> DEFINE left == Inodes[inode].length - offset
             len == IF left <= 0 THEN 0
                    ELSE IF nbytes < 0 \/ nbytes > left THEN left ELSE nbytes
             places == Places(offset, len)
             Byte(i) == DataBlocks[Inodes[inode].block_numbers[places[i].idx + 1]][places[i].k]
             r == read_data(inode, offset, nbytes)
  <1>1. CASE r = [ok |-> FALSE, bytes |-> << >>]
    BY <1>1
  <1>2. CASE r # [ok |-> FALSE, bytes |-> << >>]
    <2>1. inode \in DOMAIN Inodes /\ r = [ok |-> TRUE, bytes |-> [i \in 1 .. len |-> Byte(i)]]
      BY <1>2, Zenon DEF read_data
    <2>2. len \in Nat
      <3>1. Inodes[inode].length \in Nat
        BY <2>1, ImageAssumption
      <3> HIDE DEF r, Byte
      <3> QED
        BY <3>1
    <2> HIDE DEF len, r, Byte
    <2>3. Len([i \in 1 .. len |-> Byte(i)]) = len
      BY <2>2
    <2> QED
      BY <2>1, <2>2, <2>3
  <1> QED
    BY <1>1, <1>2

\* get_inode_num takes back what get_inode_ptr has computed: the scaling that both
\* do twice cancels, and nothing wraps around.
LEMMA InodeRoundTrip ==
  ASSUME NEW i \in DOMAIN Inodes
  PROVE  InodePtr(i) \in 0 .. ADDRESSES - 1 /\ InodeNum(InodePtr(i)) = i
  <1> DEFINE N == Cardinality(DOMAIN Inodes)
             A == ADDRESSES
  <1>1. /\ N \in Nat /\ DOMAIN Inodes = 0 .. N - 1 /\ N * B * B <= A \div 2
        /\ A \in Nat /\ B \in Nat \ {0}
    BY ImageAssumption, SizesAssumption, FS_CardinalityType DEF B
  <1> HIDE DEF N, A
  <1>2. i \in Nat /\ i + 1 <= N
    BY <1>1
  <1>3. PICK y \in Nat : y = i * B
    BY <1>1, <1>2
  <1>4. PICK x \in Nat : x = y * B
    BY <1>1
  <1>5. i * B * B = x
    BY <1>3, <1>4
  <1>6. y <= x /\ x < A \div 2
    <2>1. y * 1 <= y * B
      BY <1>1
    <2>2. N * B * B = (i + 1) * B * B + (N - (i + 1)) * B * B
      BY <1>1, <1>2
    <2>3. (N - (i + 1)) * B * B >= 0
      BY <1>1, <1>2
    <2>4. (i + 1) * B * B = x + B * B
      <3>1. (i + 1) * B = y + B
        BY <1>1, <1>2, <1>3
      <3>2. (y + B) * B = x + B * B
        BY <1>1, <1>4
      <3> QED
        BY <3>1, <3>2, Zenon
    <2>5. B * B >= 1
      BY <1>1
    <2> QED
      BY <1>1, <1>4, <2>1, <2>2, <2>3, <2>4, <2>5
  <1>7. A \div 2 <= A /\ A \div 2 \in Nat
    BY <1>1
  <1>8. InodePtr(i) = x
    <2>1. x % A = x
      BY <1>1, <1>6, <1>7
    <2> QED
      BY <1>5, <2>1 DEF InodePtr, A, B
  <1>9. x \div B = y /\ y % A = y /\ y \div B = i
    <2>1. x \div B = y
      <3>1. x = B * y + 0 /\ 0 \in 0 .. B - 1
        BY <1>1, <1>4
      <3> QED
        BY <1>1, <3>1, DivModUnique
    <2>2. y \div B = i
      <3>1. y = B * i + 0 /\ 0 \in 0 .. B - 1
        BY <1>1, <1>2, <1>3
      <3> QED
        BY <1>1, <1>2, <3>1, DivModUnique
    <2> QED
      BY <1>1, <1>6, <1>7, <2>1, <2>2
  <1>10. InodeNum(x) = i
    BY <1>6, <1>9 DEF InodeNum, A, B
  <1> QED
    BY <1>1, <1>6, <1>7, <1>8, <1>10 DEF A

-----------------------------------------------------------------------------
(***************************************************************************)
(* The descriptor tables.                                                  *)
(***************************************************************************)
Descriptor == [table : {"none", "terminal", "device", "directory", "regular"},
               inode : 0 .. ADDRESSES - 1,
               position : Nat,
               in_use : BOOLEAN]
Table == [Fd -> Descriptor]

Types ==
    /\ live \subseteq Pid
    /\ fd_array \in [Pid -> Table]
    /\ DOMAIN got = Pid /\ \A p \in Pid : DOMAIN got[p] = Fd
    /\ size \in [Pid -> [Fd -> Nat]]
    /\ at_end \in [Pid -> [Fd -> BOOLEAN]]
    /\ held \in [Pid -> Int]

\* What open leaves in a table, and the constants that a new table consists of.
LEMMA TableValues ==
  /\ \A t : Cleared(t) \in Table
  /\ Free \in Descriptor /\ Terminal \in Descriptor
  /\ \A t \in Table, f \in File, fd \in Fd : Opened(t, f, fd) \in Table
  /\ \A t \in Table, fd \in Fd : Closed(t, fd) \in Table
  <1>1. Free \in Descriptor /\ Terminal \in Descriptor
    BY SizesAssumption DEF Free, Terminal, Descriptor
  <1>2. ASSUME NEW t PROVE Cleared(t) \in Table
    BY <1>1 DEF Cleared, Table
  <1>3. ASSUME NEW t \in Table, NEW f \in File, NEW fd \in Fd PROVE Opened(t, f, fd) \in Table
    <2>1. /\ Dentries[f].filetype \in {"device", "directory", "regular"}
          /\ Dentries[f].filetype = "regular" => InodePtr(Dentries[f].inode) \in 0 .. ADDRESSES - 1
      <3>1. Dentries[f] \in [filetype : {"device", "directory", "regular"}, inode : Nat]
        BY DentryTypes
      <3>2. Dentries[f].filetype = "regular" => Dentries[f].inode \in DOMAIN Inodes
        BY DentryTypes
      <3> QED
        BY <3>1, <3>2, InodeRoundTrip
    <2>2. 0 \in 0 .. ADDRESSES - 1
      BY SizesAssumption
    <2> DEFINE d == [table |-> Dentries[f].filetype,
                     inode |-> IF Dentries[f].filetype = "regular"
                               THEN InodePtr(Dentries[f].inode) ELSE 0,
                     position |-> 0,
                     in_use |-> TRUE]
    <2>3. d \in Descriptor
      BY <2>1, <2>2 DEF Descriptor
    <2>4. Opened(t, f, fd) = [t EXCEPT ![fd] = d]
      BY DEF Opened
    <2> HIDE DEF d
    <2> QED
      BY <2>3, <2>4 DEF Table
  <1>4. ASSUME NEW t \in Table, NEW fd \in Fd PROVE Closed(t, fd) \in Table
    BY DEF Closed, Table, Descriptor
  <1> QED
    BY <1>1, <1>2, <1>3, <1>4

\* The one table that a step writes, and the history with it.
LEMMA TypesInit == Init => Types
  BY TableValues DEF Init, Types, Table

LEMMA ReadPosition ==
  ASSUME NEW t \in Table, NEW fd \in Fd, NEW n \in Nat
  PROVE  [t EXCEPT ![fd].position = @ + n] \in Table
  BY DEF Table, Descriptor

LEMMA TypesStep == Types /\ [Next]_vars => Types'
  <1> SUFFICES ASSUME Types, [Next]_vars PROVE Types'
    OBVIOUS
  <1> USE DEF Types
  <1>1. ASSUME NEW p \in Pid, Start(p) PROVE Types'
    BY <1>1, TableValues DEF Start
  <1>2. ASSUME NEW p \in Pid, Halt(p) PROVE Types'
    BY <1>2 DEF Halt
  <1>3. ASSUME NEW p \in Pid, NEW f \in File, NEW fd \in Fd, Open(p, f, fd) PROVE Types'
    <2>1. size'[p][fd] \in Nat /\ size' = [size EXCEPT ![p][fd] = size'[p][fd]]
      <3>1. Len(Dentries) \in Nat
        BY ImageAssumption
      <3>2. Dentries[f].filetype = "regular" => Inodes[Dentries[f].inode].length \in Nat
        BY ImageAssumption DEF File
      <3> QED
        BY <1>3, <3>1, <3>2 DEF Open
    <2>2. fd_array' \in [Pid -> Table]
      BY <1>3, TableValues DEF Open
    <2> QED
      BY <1>3, <2>1, <2>2 DEF Open
  <1>4. ASSUME NEW p \in Pid, NEW fd \in Fd, Close(p, fd) PROVE Types'
    BY <1>4, TableValues DEF Close
  <1>5. ASSUME NEW p \in Pid, NEW fd \in Fd, NEW n \in Request, ReadFile(p, fd, n) PROVE Types'
    <2> DEFINE r == read_data(InodeNum(fd_array[p][fd].inode), fd_array[p][fd].position, n)
    <2>1. Len(r.bytes) \in Nat
      <3>1. fd_array[p][fd].position \in Nat /\ n \in Int
        BY SizesAssumption DEF Table, Descriptor
      <3> QED
        BY <3>1, ReadDataLength
    <2>2. fd_array' = [fd_array EXCEPT ![p] = [fd_array[p] EXCEPT ![fd].position = @ + Len(r.bytes)]]
      BY <1>5 DEF ReadFile
    <2>3. DOMAIN got' = Pid /\ \A q \in Pid : DOMAIN got'[q] = Fd
      BY <1>5 DEF ReadFile
    <2>4. at_end' \in [Pid -> [Fd -> BOOLEAN]]
      BY <1>5 DEF ReadFile
    <2> HIDE DEF r
    <2>5. fd_array' \in [Pid -> Table]
      BY <2>1, <2>2, ReadPosition
    <2> QED
      BY <1>5, <2>3, <2>4, <2>5 DEF ReadFile
  <1>6. ASSUME NEW p \in Pid, NEW fd \in Fd, ReadDirectory(p, fd) PROVE Types'
    <2>1. CASE NoEntryLeft(fd_array[p][fd].position)
      BY <1>6, <2>1 DEF ReadDirectory
    <2>2. CASE ~NoEntryLeft(fd_array[p][fd].position)
      <3>1. fd_array' = [fd_array EXCEPT ![p] = [fd_array[p] EXCEPT ![fd].position = @ + 1]]
        BY <1>6, <2>2 DEF ReadDirectory
      <3>2. fd_array' \in [Pid -> Table]
        BY <3>1, ReadPosition
      <3>3. DOMAIN got' = Pid /\ \A q \in Pid : DOMAIN got'[q] = Fd
        BY <1>6, <2>2 DEF ReadDirectory
      <3>4. at_end' \in [Pid -> [Fd -> BOOLEAN]]
        BY <1>6 DEF ReadDirectory, NoEntryLeft
      <3> QED
        BY <1>6, <3>2, <3>3, <3>4 DEF ReadDirectory
    <2> QED
      BY <2>1, <2>2
  <1>7. CASE UNCHANGED vars
    BY <1>7 DEF vars
  <1> QED
    BY <1>1, <1>2, <1>3, <1>4, <1>5, <1>6, <1>7 DEF Next

LEMMA TypesAlways == Spec => []Types
  BY TypesInit, TypesStep, PTL DEF Spec

-----------------------------------------------------------------------------
(***************************************************************************)
(* The descriptors a process holds.                                        *)
(***************************************************************************)
Used(t) == {fd \in Fd : t[fd].in_use}

LEMMA UsedFinite == \A t : IsFiniteSet(Used(t)) /\ Cardinality(Used(t)) \in Nat
  <1> TAKE t
  <1>1. IsFiniteSet(Fd)
    BY SizesAssumption, FS_Interval DEF Fd
  <1>2. IsFiniteSet(Used(t))
    BY <1>1, FS_Subset DEF Used
  <1> QED
    BY <1>2, FS_CardinalityType

LEMMA UsedCleared == \A t : Cardinality(Used(Cleared(t))) = MIN_FD_PER_PROCESS
  <1> TAKE t
  <1>1. Used(Cleared(t)) = 0 .. 1
    BY SizesAssumption DEF Used, Cleared, Fd, Free, Terminal, MIN_FD_PER_PROCESS
  <1>2. Cardinality(0 .. 1) = 2
    <2>1. ASSUME NEW b \in Nat PROVE Cardinality(0 .. b) = b + 1
      BY FS_Interval
    <2>2. PICK b \in Nat : b = 1
      OBVIOUS
    <2>3. Cardinality(0 .. b) = b + 1
      BY <2>1
    <2>4. b + 1 = 2
      BY <2>2
    <2> QED
      BY <2>2, <2>3, <2>4, Zenon
  <1> QED
    BY <1>1, <1>2 DEF MIN_FD_PER_PROCESS

LEMMA UsedOpened ==
  ASSUME NEW t \in Table, NEW f \in File, NEW fd \in Fd, FreeFd(t, fd)
  PROVE  Cardinality(Used(Opened(t, f, fd))) = Cardinality(Used(t)) + 1
  <1>1. Used(Opened(t, f, fd)) = Used(t) \cup {fd} /\ fd \notin Used(t)
    BY DEF Used, Opened, FreeFd, Table
  <1> QED
    BY <1>1, UsedFinite, FS_AddElement

LEMMA UsedClosed ==
  ASSUME NEW t \in Table, NEW fd \in Fd, Closeable(t, fd)
  PROVE  Cardinality(Used(Closed(t, fd))) = Cardinality(Used(t)) - 1
  <1>1. Used(Closed(t, fd)) = Used(t) \ {fd} /\ fd \in Used(t)
    BY DEF Used, Closed, Closeable, Table, Descriptor
  <1> QED
    BY <1>1, UsedFinite, FS_RemoveElement

LEMMA UsedRead ==
  ASSUME NEW t \in Table, NEW fd \in Fd, NEW n
  PROVE  Used([t EXCEPT ![fd].position = @ + n]) = Used(t)
  BY DEF Used, Table, Descriptor

\* A table that holds h descriptors besides the terminal's two.
Holds(t, h) ==
    /\ Cardinality(Used(t)) = h + MIN_FD_PER_PROCESS
    /\ \A fd \in 0 .. MIN_FD_PER_PROCESS - 1 : t[fd] = Terminal

LEMMA AccountedIsHolds ==
  DescriptorsAccountedFor <=> \A p \in live : Holds(fd_array[p], held[p])
  BY DEF DescriptorsAccountedFor, Holds, InUse, Used

\* A process has exactly the descriptors it opened and did not close, for every
\* number of descriptors: open finds a free one, close clears it, and a new process
\* inherits none of those that its pid's last process left open.
THEOREM DescriptorsExact == Spec => []DescriptorsAccountedFor
  <1> DEFINE Inv == \A p \in live : Holds(fd_array[p], held[p])
  <1>1. Init => Inv
    BY DEF Init
  <1>2. Types /\ Inv /\ [Next]_vars => Inv'
    <2> SUFFICES ASSUME Types, Inv, [Next]_vars PROVE Inv'
      OBVIOUS
    <2>0. 0 .. MIN_FD_PER_PROCESS - 1 \subseteq Fd /\ MIN_FD_PER_PROCESS = 2
      BY SizesAssumption DEF Fd, MIN_FD_PER_PROCESS
    <2>1. ASSUME NEW p \in Pid, Start(p) PROVE Inv'
      <3>1. Holds(Cleared(fd_array[p]), 0)
        BY <2>0, UsedCleared DEF Holds, Cleared
      <3> QED
        BY <2>1, <3>1 DEF Start, Types
    <2>2. ASSUME NEW p \in Pid, Halt(p) PROVE Inv'
      BY <2>2 DEF Halt
    <2>3. ASSUME NEW p \in Pid, NEW f \in File, NEW fd \in Fd, Open(p, f, fd) PROVE Inv'
      <3>1. p \in live /\ FreeFd(fd_array[p], fd) /\ fd_array[p] \in Table /\ held[p] \in Int
        BY <2>3 DEF Open, Types
      <3>2. Holds(Opened(fd_array[p], f, fd), held[p] + 1)
        <4>1. \A g \in 0 .. MIN_FD_PER_PROCESS - 1 : Opened(fd_array[p], f, fd)[g] = fd_array[p][g]
          BY <2>0, <3>1 DEF Opened, FreeFd, Table
        <4> QED
          BY <2>0, <3>1, <4>1, UsedOpened, UsedFinite DEF Holds
      <3> QED
        BY <2>3, <3>1, <3>2 DEF Open, Types
    <2>4. ASSUME NEW p \in Pid, NEW fd \in Fd, Close(p, fd) PROVE Inv'
      <3>1. p \in live /\ Closeable(fd_array[p], fd) /\ fd_array[p] \in Table /\ held[p] \in Int
        BY <2>4 DEF Close, Types
      <3>2. Holds(Closed(fd_array[p], fd), held[p] - 1)
        <4>1. \A g \in 0 .. MIN_FD_PER_PROCESS - 1 : Closed(fd_array[p], fd)[g] = fd_array[p][g]
          BY <2>0, <3>1 DEF Closed, Closeable, Table
        <4> QED
          BY <2>0, <3>1, <4>1, UsedClosed, UsedFinite DEF Holds
      <3> QED
        BY <2>4, <3>1, <3>2 DEF Close, Types
    <2>5. ASSUME NEW p \in live, NEW fd \in Fd, NEW n, fd_array[p][fd].table # "terminal",
                 fd_array' = [fd_array EXCEPT ![p][fd].position = @ + n], UNCHANGED <<live, held>>
          PROVE  Inv'
      <3> DEFINE t == [fd_array[p] EXCEPT ![fd].position = @ + n]
      <3>1. fd_array[p] \in Table /\ fd_array' = [fd_array EXCEPT ![p] = t]
        BY <2>5 DEF Types
      <3>2. Used(t) = Used(fd_array[p])
        BY <3>1, UsedRead
      <3>3. \A g \in 0 .. MIN_FD_PER_PROCESS - 1 : t[g] = fd_array[p][g]
        BY <2>0, <2>5, <3>1 DEF Holds, Terminal, Table
      <3> HIDE DEF t
      <3>4. Holds(t, held[p])
        BY <3>2, <3>3 DEF Holds
      <3> QED
        BY <2>5, <3>1, <3>4 DEF Types
    <2>6. ASSUME NEW p \in Pid, NEW fd \in Fd, NEW n \in Request, ReadFile(p, fd, n) PROVE Inv'
      <3>1. /\ p \in live /\ fd_array[p][fd].table # "terminal"
            /\ \E m : fd_array' = [fd_array EXCEPT ![p][fd].position = @ + m]
            /\ UNCHANGED <<live, held>>
        BY <2>6 DEF ReadFile
      <3> QED
        BY <2>5, <3>1
    <2>7. ASSUME NEW p \in Pid, NEW fd \in Fd, ReadDirectory(p, fd) PROVE Inv'
      <3>1. CASE NoEntryLeft(fd_array[p][fd].position)
        BY <2>7, <3>1 DEF ReadDirectory
      <3>2. CASE ~NoEntryLeft(fd_array[p][fd].position)
        <4>1. /\ p \in live /\ fd_array[p][fd].table # "terminal"
              /\ fd_array' = [fd_array EXCEPT ![p][fd].position = @ + 1]
              /\ UNCHANGED <<live, held>>
          BY <2>7, <3>2 DEF ReadDirectory
        <4> QED
          BY <2>5, <4>1
      <3> QED
        BY <3>1, <3>2
    <2>8. CASE UNCHANGED vars
      BY <2>8 DEF vars
    <2> QED
      BY <2>1, <2>2, <2>3, <2>4, <2>6, <2>7, <2>8 DEF Next
  <1> QED
    BY <1>1, <1>2, TypesAlways, AccountedIsHolds, PTL DEF Spec

-----------------------------------------------------------------------------
(***************************************************************************)
(* Reads.  An open descriptor e, with what its reads returned (g), what    *)
(* there is to read (s) and whether its last read said that it is the end  *)
(* (a): the position is what has been read and never passes the end.       *)
(***************************************************************************)
ReadOfFile(e, g, s, f) ==
    LET inode == Dentries[f].inode IN
    /\ Dentries[f].filetype = "regular"
    /\ InodePtr(inode) = e.inode
    /\ s = Inodes[inode].length
    /\ e.position <= s
    /\ \A i \in 0 .. e.position - 1 : GoodBlock(inode, i \div FS_BLOCK_LENGTH)
    /\ g = [i \in 1 .. e.position |-> ByteAt(inode, i - 1)]

ReadOfDirectory(e, g, s) ==
    /\ s = Len(Dentries)
    /\ e.position <= s
    /\ g = [i \in 1 .. e.position |-> i]

ReadSoFar(e, g, s, a) ==
    /\ e.table = "regular" => \E f \in File : ReadOfFile(e, g, s, f)
    /\ e.table = "directory" => ReadOfDirectory(e, g, s)
    /\ a => e.table \in {"regular", "directory"} /\ e.position = s

ReadInv ==
    \A p \in live : \A fd \in Fd :
        fd_array[p][fd].in_use =>
            ReadSoFar(fd_array[p][fd], got[p][fd], size[p][fd], at_end[p][fd])

\* A step that changes the descriptor fd of p at most.
LEMMA ReadInvOne ==
  ASSUME Types, ReadInv, NEW p \in Pid, NEW fd \in Fd,
         live' \subseteq live,
         \A q \in Pid : \A h \in Fd : <<q, h>> # <<p, fd>> =>
            /\ fd_array'[q][h] = fd_array[q][h]
            /\ got'[q][h] = got[q][h]
            /\ size'[q][h] = size[q][h]
            /\ at_end'[q][h] = at_end[q][h],
         fd_array'[p][fd].in_use =>
            ReadSoFar(fd_array'[p][fd], got'[p][fd], size'[p][fd], at_end'[p][fd])
  PROVE  ReadInv'
  <1> SUFFICES ASSUME NEW q \in live', NEW h \in Fd, fd_array'[q][h].in_use
               PROVE  ReadSoFar(fd_array'[q][h], got'[q][h], size'[q][h], at_end'[q][h])
    BY DEF ReadInv, ReadSoFar, ReadOfFile, ReadOfDirectory
  <1>1. CASE q = p /\ h = fd
    BY <1>1
  <1>2. CASE ~(q = p /\ h = fd)
    <2>1. q \in live /\ q \in Pid
      BY DEF Types
    <2>2. /\ fd_array'[q][h] = fd_array[q][h]
          /\ got'[q][h] = got[q][h]
          /\ size'[q][h] = size[q][h]
          /\ at_end'[q][h] = at_end[q][h]
      BY <1>2, <2>1
    <2> QED
      BY <2>1, <2>2 DEF ReadInv
  <1> QED
    BY <1>1, <1>2

\* Two parts of a sequence, one after the other.
LEMMA ConcatParts ==
  ASSUME NEW F(_), NEW m \in Nat, NEW n \in Nat
  PROVE  [i \in 1 .. m |-> F(i)] \o [i \in 1 .. n |-> F(m + i)] = [i \in 1 .. m + n |-> F(i)]
  OBVIOUS

\* read_file: what read_data returns goes on where the position stood.
LEMMA ReadFileStep ==
  ASSUME NEW e \in Descriptor, NEW g, NEW s, NEW a, NEW n \in Int,
         e.table = "regular", ReadSoFar(e, g, s, a),
         NEW r, r = read_data(InodeNum(e.inode), e.position, n),
         NEW e1, e1 = [e EXCEPT !.position = @ + Len(r.bytes)]
  PROVE  ReadSoFar(e1, g \o r.bytes, s, r.ok /\ n # 0 /\ r.bytes = << >>)
  <1>1. PICK f \in File : ReadOfFile(e, g, s, f)
    BY DEF ReadSoFar
  <1> DEFINE inode == Dentries[f].inode
  <1>2. inode \in DOMAIN Inodes /\ InodeNum(e.inode) = inode /\ Inodes[inode].length \in Nat
    BY <1>1, DentryTypes, InodeRoundTrip, ImageAssumption DEF ReadOfFile
  <1>3. e.position \in Nat /\ e.position <= Inodes[inode].length
    BY <1>1 DEF ReadOfFile, Descriptor
  <1>4. PICK m \in Nat : ReadUpTo(r, inode, e.position, n, m)
    <2> HIDE DEF inode
    <2>1. r = read_data(inode, e.position, n)
      BY <1>2
    <2> QED
      BY <1>2, <1>3, <2>1, ReadDataExact
  <1>5. Len(r.bytes) = m /\ (r.bytes = << >> => m = 0)
    BY <1>4 DEF ReadUpTo
  <1>6. /\ e1.position = e.position + m
        /\ e1.table = e.table /\ e1.inode = e.inode
    BY <1>5 DEF Descriptor
  <1>7. g \o r.bytes = [i \in 1 .. e1.position |-> ByteAt(inode, i - 1)]
    <2> DEFINE pos == e.position
               F(i) == ByteAt(inode, i - 1)
    <2>1. g = [i \in 1 .. pos |-> F(i)]
      BY <1>1 DEF ReadOfFile
    <2>2. r.bytes = [i \in 1 .. m |-> F(pos + i)]
      <3>1. ASSUME NEW i \in 1 .. m PROVE pos + i - 1 = (pos + i) - 1
        BY <1>3
      <3> QED
        BY <1>4, <3>1 DEF ReadUpTo
    <2> HIDE DEF F, pos
    <2>3. pos \in Nat
      BY <1>3 DEF pos
    <2>4. [i \in 1 .. pos |-> F(i)] \o [i \in 1 .. m |-> F(pos + i)]
             = [i \in 1 .. pos + m |-> F(i)]
      BY <2>3, ConcatParts
    <2> QED
      BY <1>6, <2>1, <2>2, <2>4 DEF F, pos
  <1>8. ReadOfFile(e1, g \o r.bytes, s, f)
    <2>1. ASSUME NEW i \in 0 .. e1.position - 1
          PROVE  GoodBlock(inode, i \div FS_BLOCK_LENGTH)
      <3>1. i \in 0 .. e.position - 1 \/ i \in e.position .. e.position + m - 1
        BY <1>3, <1>6
      <3>2. \A j \in 0 .. e.position - 1 : GoodBlock(inode, j \div FS_BLOCK_LENGTH)
        BY <1>1 DEF ReadOfFile
      <3> QED
        BY <1>4, <3>1, <3>2 DEF ReadUpTo
    <2> QED
      BY <1>1, <1>4, <1>6, <1>7, <2>1 DEF ReadOfFile, ReadUpTo
  <1>9. r.ok /\ n # 0 /\ r.bytes = << >> => e1.position = s
    BY <1>1, <1>3, <1>4, <1>5, <1>6 DEF ReadOfFile, ReadUpTo
  <1> QED
    BY <1>6, <1>8, <1>9 DEF ReadSoFar

\* read_directory: the next entry, and the end only when all have been read.
LEMMA ReadDirectoryStep ==
  ASSUME NEW e \in Descriptor, NEW g, NEW s, NEW a,
         e.table = "directory", ReadSoFar(e, g, s, a), ~NoEntryLeft(e.position),
         NEW e1, e1 = [e EXCEPT !.position = @ + 1]
  PROVE  ReadSoFar(e1, Append(g, e.position + 1), s, FALSE)
  <1>1. ReadOfDirectory(e, g, s)
    BY DEF ReadSoFar
  <1>2. PICK m \in Nat : m = e.position
    BY DEF Descriptor
  <1>3. e1.position = m + 1 /\ e1.table = e.table
    BY <1>2 DEF Descriptor
  <1>4. m + 1 <= s
    BY <1>1, <1>2, DentryTypes DEF NoEntryLeft, ReadOfDirectory
  <1>5. Append(g, m + 1) = [i \in 1 .. m + 1 |-> i]
    BY <1>1, <1>2 DEF ReadOfDirectory
  <1>6. ReadOfDirectory(e1, Append(g, e.position + 1), s)
    BY <1>1, <1>2, <1>3, <1>4, <1>5 DEF ReadOfDirectory
  <1> QED
    BY <1>3, <1>6 DEF ReadSoFar

\* open: nothing has been read of what is behind the new descriptor.
LEMMA OpenedRead ==
  ASSUME NEW t \in Table, NEW f \in File, NEW fd \in Fd, NEW s,
         Dentries[f].filetype = "regular" => s = Inodes[Dentries[f].inode].length,
         Dentries[f].filetype = "directory" => s = Len(Dentries)
  PROVE  ReadSoFar(Opened(t, f, fd)[fd], << >>, s, FALSE)
  <1> DEFINE e == Opened(t, f, fd)[fd]
  <1>1. /\ e.table = Dentries[f].filetype /\ e.position = 0
        /\ e.table = "regular" => e.inode = InodePtr(Dentries[f].inode)
    BY DEF Opened, Table
  <1> HIDE DEF e
  <1>2. e.table = "regular" => ReadOfFile(e, << >>, s, f)
    <2> SUFFICES ASSUME e.table = "regular" PROVE ReadOfFile(e, << >>, s, f)
      OBVIOUS
    <2>1. Inodes[Dentries[f].inode].length \in Nat
      BY <1>1, DentryTypes, ImageAssumption
    <2>2. << >> = [i \in 1 .. 0 |-> ByteAt(Dentries[f].inode, i - 1)]
      OBVIOUS
    <2> QED
      BY <1>1, <2>1, <2>2 DEF ReadOfFile
  <1>3. e.table = "directory" => ReadOfDirectory(e, << >>, s)
    BY <1>1, DentryTypes DEF ReadOfDirectory
  <1> QED
    BY <1>2, <1>3 DEF ReadSoFar, e

LEMMA ReadInvStep == Types /\ ReadInv /\ [Next]_vars => ReadInv'
  <1> SUFFICES ASSUME Types, ReadInv, [Next]_vars PROVE ReadInv'
    OBVIOUS
  <1>1. ASSUME NEW p \in Pid, Start(p) PROVE ReadInv'
    <2> SUFFICES ASSUME NEW q \in live', NEW h \in Fd, fd_array'[q][h].in_use
                 PROVE  ReadSoFar(fd_array'[q][h], got'[q][h], size'[q][h], at_end'[q][h])
      BY DEF ReadInv, ReadSoFar, ReadOfFile, ReadOfDirectory
    <2>1. CASE q = p
      <3>1. at_end'[q][h] = FALSE /\ fd_array'[q] = Cleared(fd_array[q])
        BY <1>1, <2>1 DEF Start, Types
      <3>2. fd_array'[q][h] = Terminal
        BY <3>1 DEF Cleared, Free
      <3> QED
        BY <3>1, <3>2 DEF ReadSoFar, Terminal
    <2>2. CASE q # p
      <3>1. q \in live /\ q \in Pid
        BY <1>1, <2>2 DEF Start, Types
      <3>2. /\ fd_array'[q] = fd_array[q] /\ got'[q] = got[q]
            /\ size'[q] = size[q] /\ at_end'[q] = at_end[q]
        BY <1>1, <2>2, <3>1 DEF Start, Types
      <3> QED
        BY <3>1, <3>2 DEF ReadInv
    <2> QED
      BY <2>1, <2>2
  <1>2. ASSUME NEW p \in Pid, Halt(p) PROVE ReadInv'
    BY <1>2 DEF Halt, ReadInv, ReadSoFar, ReadOfFile, ReadOfDirectory
  <1>3. ASSUME NEW p \in Pid, NEW f \in File, NEW fd \in Fd, Open(p, f, fd) PROVE ReadInv'
    <2>1. fd_array[p] \in Table /\ fd_array'[p] = Opened(fd_array[p], f, fd)
      BY <1>3 DEF Open, Types
    <2>2. /\ live' = live
          /\ got'[p][fd] = << >> /\ at_end'[p][fd] = FALSE
          /\ Dentries[f].filetype = "regular" => size'[p][fd] = Inodes[Dentries[f].inode].length
          /\ Dentries[f].filetype = "directory" => size'[p][fd] = Len(Dentries)
      BY <1>3 DEF Open, Types
    <2>3. ReadSoFar(fd_array'[p][fd], got'[p][fd], size'[p][fd], at_end'[p][fd])
      <3>1. ReadSoFar(Opened(fd_array[p], f, fd)[fd], << >>, size'[p][fd], FALSE)
        BY <2>1, <2>2, OpenedRead
      <3> QED
        BY <2>1, <2>2, <3>1
    <2>4. \A q \in Pid : \A h \in Fd : <<q, h>> # <<p, fd>> => fd_array'[q][h] = fd_array[q][h]
      BY <1>3 DEF Open, Types, Opened, Table
    <2>5. \A q \in Pid : \A h \in Fd : <<q, h>> # <<p, fd>> =>
            /\ got'[q][h] = got[q][h]
            /\ size'[q][h] = size[q][h]
            /\ at_end'[q][h] = at_end[q][h]
      BY <1>3 DEF Open, Types
    <2> QED
      BY <2>2, <2>3, <2>4, <2>5, ReadInvOne
  <1>4. ASSUME NEW p \in Pid, NEW fd \in Fd, Close(p, fd) PROVE ReadInv'
    <2>1. fd_array[p] \in Table /\ fd_array'[p] = Closed(fd_array[p], fd)
      BY <1>4 DEF Close, Types
    <2>2. fd_array'[p][fd].in_use = FALSE
      BY <2>1 DEF Closed, Table, Descriptor
    <2>3. \A q \in Pid : \A h \in Fd : <<q, h>> # <<p, fd>> => fd_array'[q][h] = fd_array[q][h]
      BY <1>4 DEF Close, Types, Closed, Table
    <2>4. live' = live /\ got' = got /\ size' = size /\ at_end' = at_end
      BY <1>4 DEF Close
    <2> QED
      BY <2>2, <2>3, <2>4, ReadInvOne
  <1>5. ASSUME NEW p \in Pid, NEW fd \in Fd, NEW n \in Request, ReadFile(p, fd, n) PROVE ReadInv'
    <2>1. PICK e, r : /\ e = fd_array[p][fd]
                      /\ r = read_data(InodeNum(e.inode), e.position, n)
      OBVIOUS
    <2>2. /\ p \in live /\ e.in_use /\ e.table = "regular" /\ e \in Descriptor
          /\ fd_array' = [fd_array EXCEPT ![p][fd].position = @ + Len(r.bytes)]
          /\ got' = [got EXCEPT ![p][fd] = @ \o r.bytes]
          /\ at_end' = [at_end EXCEPT ![p][fd] = r.ok /\ n # 0 /\ r.bytes = << >>]
          /\ UNCHANGED <<live, size, held>>
      BY <1>5, <2>1 DEF ReadFile, Usable, Types, Table
    <2>3. n \in Int
      BY SizesAssumption
    <2>4. ReadSoFar(e, got[p][fd], size[p][fd], at_end[p][fd])
      BY <2>1, <2>2 DEF ReadInv
    <2>5. PICK e1 : e1 = [e EXCEPT !.position = @ + Len(r.bytes)]
      OBVIOUS
    <2>6. ReadSoFar(e1, got[p][fd] \o r.bytes, size[p][fd],
                    r.ok /\ n # 0 /\ r.bytes = << >>)
      <3>1. e \in Descriptor /\ e.table = "regular"
        BY <2>2
      <3>2. r = read_data(InodeNum(e.inode), e.position, n)
        BY <2>1
      <3> QED
        BY <2>3, <2>4, <2>5, <3>1, <3>2, ReadFileStep
    <2>7. /\ fd_array'[p][fd] = e1 /\ got'[p][fd] = got[p][fd] \o r.bytes
          /\ size'[p][fd] = size[p][fd]
          /\ at_end'[p][fd] = (r.ok /\ n # 0 /\ r.bytes = << >>)
      BY <2>1, <2>2, <2>5 DEF Types, Table
    <2>8. \A q \in Pid : \A h \in Fd : <<q, h>> # <<p, fd>> =>
            /\ fd_array'[q][h] = fd_array[q][h]
            /\ got'[q][h] = got[q][h]
            /\ size'[q][h] = size[q][h]
            /\ at_end'[q][h] = at_end[q][h]
      BY <2>2 DEF Types, Table
    <2>9. ReadSoFar(fd_array'[p][fd], got'[p][fd], size'[p][fd], at_end'[p][fd])
      BY <2>6, <2>7
    <2> QED
      BY <2>2, <2>8, <2>9, ReadInvOne
  <1>6. ASSUME NEW p \in Pid, NEW fd \in Fd, ReadDirectory(p, fd) PROVE ReadInv'
    <2>1. PICK e : e = fd_array[p][fd]
      OBVIOUS
    <2>2. /\ p \in live /\ e.in_use /\ e.table = "directory" /\ e \in Descriptor
          /\ IF NoEntryLeft(e.position)
             THEN UNCHANGED <<fd_array, got>>
             ELSE /\ fd_array' = [fd_array EXCEPT ![p][fd].position = @ + 1]
                  /\ got' = [got EXCEPT ![p][fd] = Append(@, e.position + 1)]
          /\ at_end' = [at_end EXCEPT ![p][fd] = NoEntryLeft(e.position)]
          /\ UNCHANGED <<live, size, held>>
      BY <1>6, <2>1 DEF ReadDirectory, Usable, Types, Table
    <2>3. ReadSoFar(e, got[p][fd], size[p][fd], at_end[p][fd])
      BY <2>1, <2>2 DEF ReadInv
    <2>4. \A q \in Pid : \A h \in Fd : <<q, h>> # <<p, fd>> =>
            /\ fd_array'[q][h] = fd_array[q][h]
            /\ got'[q][h] = got[q][h]
            /\ size'[q][h] = size[q][h]
            /\ at_end'[q][h] = at_end[q][h]
      BY <2>2 DEF Types, Table
    <2>5. ReadSoFar(fd_array'[p][fd], got'[p][fd], size'[p][fd], at_end'[p][fd])
      <3>1. CASE NoEntryLeft(e.position)
        <4>1. /\ fd_array'[p][fd] = e /\ got'[p][fd] = got[p][fd]
              /\ size'[p][fd] = size[p][fd]
          BY <2>1, <2>2, <3>1
        <4>2. e.position = size[p][fd]
          BY <2>2, <2>3, <3>1, DentryTypes
             DEF ReadSoFar, ReadOfDirectory, NoEntryLeft, Descriptor
        <4> QED
          BY <2>2, <2>3, <4>1, <4>2 DEF ReadSoFar
      <3>2. CASE ~NoEntryLeft(e.position)
        <4>1. PICK e1 : e1 = [e EXCEPT !.position = @ + 1]
          OBVIOUS
        <4>2. ReadSoFar(e1, Append(got[p][fd], e.position + 1), size[p][fd], FALSE)
          BY <2>2, <2>3, <3>2, <4>1, ReadDirectoryStep
        <4>3. /\ fd_array' = [fd_array EXCEPT ![p][fd].position = @ + 1]
              /\ got' = [got EXCEPT ![p][fd] = Append(@, e.position + 1)]
          BY <2>2, <3>2
        <4>4. fd_array'[p][fd] = e1 /\ size'[p][fd] = size[p][fd]
          BY <2>1, <2>2, <4>1, <4>3 DEF Types, Table
        <4>5. got'[p][fd] = Append(got[p][fd], e.position + 1)
          BY <4>3 DEF Types
        <4>6. ~at_end'[p][fd]
          <5>1. at_end'[p][fd] = NoEntryLeft(e.position)
            BY <2>2 DEF Types
          <5> QED
            BY <3>2, <5>1, Zenon
        <4> QED
          BY <4>2, <4>4, <4>5, <4>6 DEF ReadSoFar
      <3> QED
        BY <3>1, <3>2
    <2> QED
      BY <2>2, <2>4, <2>5, ReadInvOne
  <1>7. CASE UNCHANGED vars
    BY <1>7 DEF vars, ReadInv, ReadSoFar, ReadOfFile, ReadOfDirectory
  <1> QED
    BY <1>1, <1>2, <1>3, <1>4, <1>5, <1>6, <1>7 DEF Next

LEMMA ReadInvAlways == Spec => []ReadInv
  <1>1. Init => ReadInv
    BY DEF Init, ReadInv
  <1> QED
    BY <1>1, ReadInvStep, TypesAlways, PTL DEF Spec

\* However a program cuts up its reads of a file, for every block size and every
\* image: the pieces are the file's bytes in order, at block boundaries too, and all
\* from blocks of that file; and the reads of a directory are its entries in order.
THEOREM ReadsAreSequential == Spec => []SequentialReads
  <1>1. ReadInv => SequentialReads
    BY DEF ReadInv, SequentialReads, InUse, ReadSoFar, ReadOfFile, ReadOfDirectory
  <1> QED
    BY <1>1, ReadInvAlways, PTL

\* A read of at least a byte that returns 0 has everything behind it: a program that
\* reads until 0 has seen the whole file, or the whole directory.
THEOREM ZeroIsTheEnd == Spec => []ZeroMeansEnd
  <1>1. Types /\ ReadInv => ZeroMeansEnd
    <2> SUFFICES ASSUME Types, ReadInv, NEW p \in live, NEW fd \in InUse(p), at_end[p][fd]
                 PROVE  Len(got[p][fd]) = size[p][fd]
      BY DEF ZeroMeansEnd
    <2>1. PICK e : e = fd_array[p][fd]
      OBVIOUS
    <2>2. e \in Descriptor /\ ReadSoFar(e, got[p][fd], size[p][fd], TRUE)
      <3>1. p \in Pid /\ fd \in Fd /\ fd_array[p][fd].in_use
        BY DEF Types, InUse
      <3>2. fd_array[p] \in Table
        BY <3>1 DEF Types
      <3>3. e \in Descriptor
        BY <2>1, <3>1, <3>2 DEF Table
      <3>4. at_end[p][fd] = TRUE
        BY <3>1 DEF Types
      <3> QED
        BY <2>1, <3>1, <3>3, <3>4 DEF ReadInv
    <2>3. PICK m \in Nat : m = e.position
      BY <2>2 DEF Descriptor
    <2>4. CASE e.table = "regular"
      <3>1. PICK f \in File : ReadOfFile(e, got[p][fd], size[p][fd], f)
        BY <2>2, <2>4 DEF ReadSoFar
      <3>2. got[p][fd] = [i \in 1 .. m |-> ByteAt(Dentries[f].inode, i - 1)]
        BY <2>3, <3>1 DEF ReadOfFile
      <3> QED
        BY <2>2, <2>3, <3>2 DEF ReadSoFar
    <2>5. CASE e.table = "directory"
      <3>1. got[p][fd] = [i \in 1 .. m |-> i]
        BY <2>2, <2>3, <2>5 DEF ReadSoFar, ReadOfDirectory
      <3> QED
        BY <2>2, <2>3, <3>1 DEF ReadSoFar
    <2> QED
      BY <2>2, <2>4, <2>5 DEF ReadSoFar
  <1> QED
    BY <1>1, TypesAlways, ReadInvAlways, PTL

-----------------------------------------------------------------------------
(***************************************************************************)
(* ece391syserr's tests.  The table of a process that holds no descriptor. *)
(***************************************************************************)
N == MAX_FD_PER_PROCESS

Fresh(t) ==
    /\ t \in Table
    /\ t[0] = Terminal /\ t[1] = Terminal
    /\ \A fd \in 2 .. N - 1 : ~t[fd].in_use

LEMMA Descriptors == N \in Nat /\ N > 2 /\ Fd = 0 .. N - 1 /\ MIN_FD_PER_PROCESS = 2
  BY SizesAssumption DEF N, Fd, MIN_FD_PER_PROCESS

LEMMA HoldsNone == ASSUME NEW t \in Table, Holds(t, 0) PROVE Fresh(t)
  <1>1. Cardinality(Used(t)) = 2 /\ t[0] = Terminal /\ t[1] = Terminal
    BY Descriptors DEF Holds
  <1>2. 0 .. 1 \subseteq Used(t) /\ 0 .. 1 = Used(Cleared(t))
    BY <1>1, Descriptors DEF Used, Cleared, Terminal, Free
  <1>3. Cardinality(0 .. 1) = 2
    BY <1>2, UsedCleared, Descriptors
  <1>4. 0 .. 1 = Used(t)
    BY <1>1, <1>2, <1>3, UsedFinite, FS_Subset
  <1> QED
    BY <1>1, <1>4, Descriptors DEF Fresh, Used

\* read_dentry_by_name finds ".", and none of the misspelled names.
LEMMA DotFound == read_dentry_by_name(Dot) \in File
  <1> DEFINE found == {f \in File : SameString(Dot, Names[f], FILE_NAME_SIZE)}
  <1>1. PICK f \in File : Names[f] = Dot
    BY NamesAssumption
  <1>2. Len(Dot) \in Nat
    BY <1>1, NamesAssumption DEF IsString
  <1>3. f \in found
    BY <1>1, <1>2, NamesAssumption DEF SameString
  <1>4. found \subseteq File /\ found \subseteq Nat
    BY DentryTypes DEF File
  <1>5. read_dentry_by_name(Dot)
          = IF found = {} THEN 0 ELSE CHOOSE x \in found : \A y \in found : x <= y
    BY DEF read_dentry_by_name
  <1> HIDE DEF found
  <1>6. \E x \in found : \A y \in found : x <= y
    BY <1>3, <1>4, LeastNatural
  <1> QED
    BY <1>3, <1>4, <1>5, <1>6

LEMMA MisspelledNotFound == \A m \in Misspelled : read_dentry_by_name(m) = 0
  <1> SUFFICES ASSUME NEW m \in Misspelled, NEW f \in File,
                      SameString(m, Names[f], FILE_NAME_SIZE)
               PROVE  FALSE
    BY DEF read_dentry_by_name
  <1>1. /\ IsString(m) /\ Len(m) < FILE_NAME_SIZE /\ Names[f] # m
        /\ IsString(Names[f]) /\ FILE_NAME_SIZE \in Nat \ {0}
    BY NamesAssumption
  <1>2. \A i \in 1 .. FILE_NAME_SIZE :
            \/ i <= Len(m) /\ i <= Len(Names[f]) /\ m[i] = Names[f][i]
            \/ Len(m) = Len(Names[f]) /\ i > Len(m)
    BY DEF SameString
  <1>3. Len(m) \in Nat /\ Len(Names[f]) \in Nat
    BY <1>1 DEF IsString
  <1>4. Len(m) = Len(Names[f])
    BY <1>1, <1>2, <1>3
  <1>5. \A i \in 1 .. Len(m) : m[i] = Names[f][i]
    BY <1>1, <1>2, <1>3
  <1>6. m = [i \in 1 .. Len(m) |-> m[i]] /\ Names[f] = [i \in 1 .. Len(m) |-> Names[f][i]]
    BY <1>1, <1>4, Zenon DEF IsString
  <1> QED
    BY <1>1, <1>5, <1>6

\* err_open_lots: the opens fill the table from below, and only the last one fails.
\* After it, every descriptor is in use, and the terminal's two are as they were.
LEMMA OpenLotsExact ==
  ASSUME NEW t, Fresh(t)
  PROVE  /\ OpenLots(t).failed = 1
         /\ OpenLots(t).table \in Table
         /\ OpenLots(t).table[0] = Terminal /\ OpenLots(t).table[1] = Terminal
         /\ \A fd \in 2 .. N - 1 : OpenLots(t).table[fd].in_use
  <1> DEFINE f0 == read_dentry_by_name(Dot)
             new == Opened(t, f0, 2)[2]
             Filled(i) == [fd \in Fd |-> IF fd \in 2 .. i + 1 THEN new ELSE t[fd]]
             First == [failed |-> 0, table |-> t]
             Pass(b) == LET r == open(b.table, Dot)
                        IN  [failed |-> b.failed + (IF r.ret = FAILURE THEN 1 ELSE 0),
                             table |-> r.table]
             Loop(g) == [i \in 0 .. N - 1 |-> IF i = 0 THEN First ELSE Pass(g[i - 1])]
             Ref(i) == [failed |-> IF i = N - 1 THEN 1 ELSE 0, table |-> Filled(i)]
             at == CHOOSE g : g = Loop(g)
  <1>1. N \in Nat /\ N > 2 /\ Fd = 0 .. N - 1
    BY Descriptors
  <1>2. t \in Table
    BY DEF Fresh
  <1>3. new \in Descriptor /\ new.in_use
    <2>1. Opened(t, f0, 2) \in Table
      BY <1>1, <1>2, DotFound, TableValues
    <2> QED
      BY <1>1, <1>2, <2>1 DEF Opened, Table
  <1>4. ASSUME NEW fd \in 2 .. N - 1, NEW u \in Table
        PROVE  Opened(u, f0, fd) = [u EXCEPT ![fd] = new]
    <2> DEFINE e == [table |-> Dentries[f0].filetype,
                     inode |-> IF Dentries[f0].filetype = "regular"
                               THEN InodePtr(Dentries[f0].inode) ELSE 0,
                     position |-> 0,
                     in_use |-> TRUE]
    <2>1. Opened(u, f0, fd) = [u EXCEPT ![fd] = e] /\ Opened(t, f0, 2) = [t EXCEPT ![2] = e]
      BY DEF Opened
    <2> HIDE DEF e, f0
    <2>2. new = e
      BY <1>1, <1>2, <2>1 DEF Table
    <2> HIDE DEF new
    <2> QED
      BY <2>1, <2>2
  <1> HIDE DEF f0, new
  <1>5. ASSUME NEW i \in Nat PROVE Filled(i) \in Table
    BY <1>2, <1>3 DEF Table
  <1>6. ASSUME NEW i \in 1 .. N - 1, NEW fd \in Fd
        PROVE  FreeFd(Filled(i - 1), fd) <=> fd = i + 1
    <2>1. \A g \in 2 .. N - 1 : Filled(i - 1)[g].in_use <=> g <= i
      BY <1>1, <1>3 DEF Fresh
    <2> QED
      <3> DEFINE u == Filled(i - 1)
      <3>1. FreeFd(u, fd) <=> /\ fd \in 2 .. N - 1
                              /\ \A g \in 2 .. fd - 1 : u[g].in_use
                              /\ ~u[fd].in_use
        BY Descriptors DEF FreeFd, N
      <3> HIDE DEF u
      <3>2. ASSUME FreeFd(u, fd) PROVE fd = i + 1
        <4>1. fd \in 2 .. N - 1 /\ fd > i
          BY <1>1, <2>1, <3>1, <3>2 DEF u
        <4>2. fd > i + 1 => i + 1 \in 2 .. fd - 1 /\ i + 1 \in 2 .. N - 1
          BY <1>1, <4>1
        <4>3. i + 1 \in 2 .. fd - 1 => i + 1 <= i
          BY <1>1, <2>1, <3>1, <3>2, <4>1, <4>2 DEF u
        <4> QED
          BY <4>1, <4>2, <4>3
      <3>3. ASSUME fd = i + 1 PROVE FreeFd(u, fd)
        <4>1. fd \in 2 .. N - 1 /\ ~(fd <= i)
          BY <1>1, <3>3
        <4>2. \A g \in 2 .. fd - 1 : g \in 2 .. N - 1 /\ g <= i
          BY <1>1, <3>3, <4>1
        <4> QED
          BY <2>1, <3>1, <4>1, <4>2 DEF u
      <3> QED
        BY <3>2, <3>3 DEF u
  <1>7. Filled(0) = t
    BY <1>2 DEF Table
  <1>8. ASSUME NEW i \in 1 .. N - 1 PROVE Ref(i) = Pass(Ref(i - 1))
    <2> DEFINE u == Filled(i - 1)
               free == {fd \in Fd : FreeFd(u, fd)}
    <2>1. u \in Table
      BY <1>5
    <2>2. f0 \in File /\ f0 # 0
      BY DotFound, DentryTypes DEF f0, File
    <2>3. CASE i = N - 1
      <3>1. free = {}
        BY <1>1, <1>6, <2>3
      <3> HIDE DEF u, free
      <3>2. open(u, Dot) = [ret |-> FAILURE, table |-> u]
        BY <3>1 DEF open, free
      <3>3. u = Filled(i)
        BY <1>1, <2>3 DEF u
      <3>4. i - 1 # N - 1
        BY <1>1
      <3> QED
        BY <2>3, <3>2, <3>3, <3>4 DEF u
    <2>4. CASE i # N - 1
      <3>1. free = {i + 1} /\ i + 1 \in 2 .. N - 1
        BY <1>1, <1>6, <2>4
      <3> HIDE DEF u, free
      <3>2. open(u, Dot) = [ret |-> i + 1, table |-> Opened(u, f0, i + 1)]
        <4>1. open(u, Dot) = LET fd == CHOOSE fd \in free : TRUE
                             IN  [ret |-> fd, table |-> Opened(u, f0, fd)]
          BY <2>2, <3>1, Zenon DEF open, free, f0
        <4>2. (CHOOSE fd \in free : TRUE) = i + 1
          BY <3>1
        <4> QED
          BY <4>1, <4>2, Zenon
      <3>3. Opened(u, f0, i + 1) = [u EXCEPT ![i + 1] = new]
        BY <1>4, <2>1, <3>1
      <3>4. [u EXCEPT ![i + 1] = new] = Filled(i)
        <4>1. ASSUME NEW g \in Fd PROVE [u EXCEPT ![i + 1] = new][g] = Filled(i)[g]
          <5>1. g \in 2 .. i + 1 <=> g \in 2 .. (i - 1) + 1 \/ g = i + 1
            BY <1>1, <3>1
          <5>2. u[g] = IF g \in 2 .. (i - 1) + 1 THEN new ELSE t[g]
            BY DEF u
          <5> QED
            BY <2>1, <5>1, <5>2 DEF Table
        <4> QED
          BY <2>1, <4>1 DEF Table
      <3>5. i - 1 # N - 1 /\ i + 1 # FAILURE
        BY <1>1 DEF FAILURE
      <3> QED
        BY <2>4, <3>2, <3>3, <3>4, <3>5 DEF u
    <2> QED
      BY <2>3, <2>4
  <1>9. OpenLots(t) = at[N - 1]
    BY DEF OpenLots, N
  <1>10. Ref(0) = First
    BY <1>1, <1>7
  <1> HIDE DEF Pass, Ref, First
  <1>11. at = Loop(at)
    <2> DEFINE G == [i \in 0 .. N - 1 |-> Ref(i)]
    <2>1. G = Loop(G)
      <3>1. ASSUME NEW i \in 0 .. N - 1
            PROVE  Ref(i) = IF i = 0 THEN First ELSE Pass(G[i - 1])
        BY <1>1, <1>8, <1>10
      <3> QED
        BY <3>1
    <2> HIDE DEF G
    <2> QED
      BY <2>1
  <1> HIDE DEF at
  <1>12. at[0] = First /\ \A i \in 1 .. N - 1 : at[i] = Pass(at[i - 1])
    BY <1>1, <1>11
  <1>13. at[N - 1] = Ref(N - 1)
    <2> DEFINE S == {i \in 0 .. N - 1 : at[i] = Ref(i)}
    <2>1. 0 \in S
      BY <1>1, <1>10, <1>12
    <2>2. ASSUME NEW i \in 1 .. N - 1, i - 1 \in S PROVE i \in S
      BY <1>1, <1>8, <1>12, <2>2
    <2> HIDE DEF S
    <2>3. PICK n \in Nat : n = N - 1
      BY <1>1
    <2>4. \A i \in 0 .. n : i \in S
      BY <2>1, <2>2, <2>3, InductionUpTo
    <2> QED
      BY <2>3, <2>4 DEF S
  <1>14. OpenLots(t).failed = 1 /\ OpenLots(t).table = Filled(N - 1)
    BY <1>9, <1>13 DEF Ref
  <1>15. \A fd \in 2 .. N - 1 : Filled(N - 1)[fd] = new
    BY <1>1
  <1>16. Filled(N - 1)[0] = t[0] /\ Filled(N - 1)[1] = t[1]
    BY <1>1
  <1>17. Filled(N - 1) \in Table
    <2>1. N - 1 \in Nat
      BY <1>1
    <2> HIDE DEF Filled
    <2> QED
      BY <1>5, <2>1
  <1> HIDE DEF Filled
  <1> QED
    BY <1>3, <1>14, <1>15, <1>16, <1>17 DEF Fresh

\* Its loop over close leaves no descriptor but the terminal's.
LEMMA CloseAllExact ==
  ASSUME NEW t \in Table, t[0] = Terminal, t[1] = Terminal,
         \A fd \in 2 .. N - 1 : t[fd].in_use
  PROVE  Fresh(CloseAll(t))
  <1> DEFINE Off(d) == [d EXCEPT !.in_use = FALSE]
             Upto(n) == [fd \in Fd |-> IF fd \in 2 .. n THEN Off(t[fd]) ELSE t[fd]]
             Pass(b, fd) == close(b, fd).table
             Loop(g) == [fd \in MIN_FD_PER_PROCESS - 1 .. MAX_FD_PER_PROCESS - 1 |->
                           IF fd < MIN_FD_PER_PROCESS THEN t ELSE Pass(g[fd - 1], fd)]
             at == CHOOSE g : g = Loop(g)
  <1>1. N \in Nat /\ N > 2 /\ Fd = 0 .. N - 1 /\ MIN_FD_PER_PROCESS = 2 /\ MAX_FD_PER_PROCESS = N
    BY Descriptors DEF N
  <1>2. CloseAll(t) = at[N - 1]
    BY DEF CloseAll, N
  <1>3. Upto(1) = t
    BY DEF Table
  <1>4. ASSUME NEW fd \in 2 .. N - 1 PROVE Upto(fd) = Pass(Upto(fd - 1), fd)
    <2> DEFINE u == Upto(fd - 1)
    <2>1. Closed(u, fd) = [u EXCEPT ![fd] = Off(u[fd])]
      BY DEF Closed
    <2> HIDE DEF Off
    <2>2. u[fd] = t[fd] /\ u = [g \in Fd |-> u[g]]
      BY <1>1
    <2>3. Upto(fd) = [u EXCEPT ![fd] = Off(u[fd])]
      <3>1. ASSUME NEW g \in Fd PROVE Upto(fd)[g] = [u EXCEPT ![fd] = Off(u[fd])][g]
        <4>1. g \in 2 .. fd <=> g \in 2 .. fd - 1 \/ g = fd
          BY <1>1
        <4> QED
          BY <1>1, <2>2, <4>1
      <3> QED
        BY <2>2, <3>1
    <2> HIDE DEF u
    <2>4. Closeable(u, fd)
      BY <1>1, <2>2 DEF Closeable
    <2> QED
      BY <2>1, <2>3, <2>4 DEF close, u
  <1> HIDE DEF Upto, Pass
  <1>5. at = Loop(at)
    <2> DEFINE G == [fd \in 1 .. N - 1 |-> Upto(fd)]
    <2>1. G = Loop(G)
      <3>1. ASSUME NEW fd \in 1 .. N - 1
            PROVE  Upto(fd) = IF fd < 2 THEN t ELSE Pass(G[fd - 1], fd)
        BY <1>1, <1>3, <1>4
      <3> QED
        BY <1>1, <3>1
    <2> HIDE DEF G
    <2> QED
      BY <2>1
  <1> HIDE DEF at
  <1>6. at[1] = t /\ \A fd \in 2 .. N - 1 : at[fd] = Pass(at[fd - 1], fd)
    BY <1>1, <1>5
  <1>7. at[N - 1] = Upto(N - 1)
    <2> DEFINE S == {i \in 0 .. N - 2 : at[i + 1] = Upto(i + 1)}
    <2>1. 0 \in S
      BY <1>1, <1>3, <1>6
    <2>2. ASSUME NEW i \in 1 .. N - 2, i - 1 \in S PROVE i \in S
      <3>1. i + 1 \in 2 .. N - 1 /\ (i + 1) - 1 = i /\ (i - 1) + 1 = i
        BY <1>1
      <3> QED
        BY <1>1, <1>4, <1>6, <2>2, <3>1
    <2> HIDE DEF S
    <2>3. PICK n \in Nat : n = N - 2
      BY <1>1
    <2>4. \A i \in 0 .. n : i \in S
      BY <2>1, <2>2, <2>3, InductionUpTo
    <2>5. n \in S /\ n + 1 = N - 1
      BY <1>1, <2>3, <2>4
    <2> QED
      BY <2>5 DEF S
  <1>8. ASSUME NEW d \in Descriptor PROVE Off(d) \in Descriptor /\ ~Off(d).in_use
    BY DEF Descriptor
  <1> HIDE DEF Off
  <1>9. Upto(N - 1) \in Table
    BY <1>8 DEF Upto, Table
  <1>10. \A fd \in 2 .. N - 1 : Upto(N - 1)[fd] = Off(t[fd]) /\ t[fd] \in Descriptor
    BY <1>1 DEF Upto, Table
  <1>11. Upto(N - 1)[0] = t[0] /\ Upto(N - 1)[1] = t[1]
    BY <1>1 DEF Upto
  <1> QED
    BY <1>2, <1>7, <1>8, <1>9, <1>10, <1>11 DEF Fresh

LEMMA FreshPasses ==
  ASSUME NEW t, Fresh(t), MAX_FD_PER_PROCESS <= BIG
  PROVE  AllTests(t) = 0
  <1> DEFINE rest == CloseAll(OpenLots(t).table)
  <1>1. NEG \notin Fd /\ BIG \notin Fd
    BY Descriptors DEF NEG, BIG, N
  <1>2. ASSUME NEW u, NEW fd, fd \notin Fd
        PROVE  ReadRefused(u, fd) /\ WriteRefused(u, fd) /\ close(u, fd).ret = FAILURE
    BY <1>2, Descriptors DEF ReadRefused, WriteRefused, Usable, close, Closeable, N
  <1>3. err_neg_fd(t) = 0 /\ err_big_fd(t) = 0
    BY <1>1, <1>2 DEF err_neg_fd, err_big_fd, BadFd, Verdict
  <1>4. err_open_lots(t) = 0
    BY OpenLotsExact DEF err_open_lots, Verdict
  <1>5. Fresh(rest)
    BY OpenLotsExact, CloseAllExact
  <1> HIDE DEF rest
  <1>6. err_open(rest) = 0
    BY MisspelledNotFound DEF err_open, Verdict, open
  <1>7. err_unopened(rest) = 0
    <2>1. ASSUME NEW fd \in Fd PROVE close(rest, fd).ret = FAILURE
      BY <1>5, Descriptors DEF Fresh, close, Closeable, N
    <2>2. ASSUME NEW fd \in 2 .. N - 1 PROVE ReadRefused(rest, fd) /\ WriteRefused(rest, fd)
      BY <1>5 DEF Fresh, ReadRefused, WriteRefused, Usable
    <2> QED
      BY <2>1, <2>2, Descriptors DEF err_unopened, Verdict, N
  <1>8. err_stdin_out(rest) = 0
    BY <1>5 DEF Fresh, err_stdin_out, Verdict, WriteRefused, ReadRefused, STDIN, STDOUT, Terminal
  <1>9. err_vidmap = 0 /\ err_syscall_num = 0
    BY DEF err_vidmap, err_syscall_num, Verdict, VidmapRefused, CallRefused, BIG, NEG,
           LITERAL_4MB, TASK_VIRTUAL_BASE_ADDRESS
  <1>10. AllTests(t) = err_neg_fd(t) + err_big_fd(t) + err_open_lots(t) + err_open(rest)
            + err_unopened(rest) + err_vidmap + err_stdin_out(rest) + err_syscall_num
    BY Zenon DEF AllTests, rest
  <1> QED
    BY <1>3, <1>4, <1>6, <1>7, <1>8, <1>9, <1>10

\* Whatever a process and those before it with its pid did with their descriptors, for
\* every size of the table below the tests' BIG: once the process holds none, all of
\* ece391syserr's tests pass.
THEOREM SysErrAlwaysPasses ==
  ASSUME MAX_FD_PER_PROCESS <= BIG
  PROVE  Spec => []SysErrPasses
  <1>1. Types /\ DescriptorsAccountedFor => SysErrPasses
    <2> SUFFICES ASSUME Types, DescriptorsAccountedFor, NEW p \in live, held[p] = 0
                 PROVE  AllTests(fd_array[p]) = 0
      BY DEF SysErrPasses
    <2>1. fd_array[p] \in Table /\ Holds(fd_array[p], 0)
      BY AccountedIsHolds DEF Types
    <2> QED
      BY <2>1, HoldsNone, FreshPasses
  <1> QED
    BY <1>1, TypesAlways, DescriptorsExact, PTL
=============================================================================
