-------------------------------- MODULE Files --------------------------------
(***************************************************************************)
(* Files: the descriptor table in each PCB (open, close, read of           *)
(* syscalls.c) and the read-only file system behind it (filesystem.c).     *)
(* The file system image is a constant.  A PCB outlives its process: the   *)
(* next process with the same pid finds the old table in it.               *)
(*                                                                         *)
(* A write to a file or a directory always fails and changes nothing;      *)
(* reads and writes of the terminal and the RTC are in TerminalInput and   *)
(* Rtc.                                                                    *)
(***************************************************************************)
EXTENDS Integers, Sequences, FiniteSets

CONSTANTS
    Pid,
    MAX_FD_PER_PROCESS,    \* 8 in the code
    FS_BLOCK_LENGTH,       \* 4096: the size of a data block and of an inode
    ADDRESSES,             \* 2^32: the size of the address space
    Dentries,              \* the boot block's directory: a sequence of records
                           \* [filetype, inode]; a file is named by its index
    Inodes,                \* [length, block_numbers], indexed from 0
    DataBlocks,            \* the blocks' bytes, both indexed from 0
    Request                \* the values of nbytes; a negative one is read_data's
                           \* largest uint32_t

ASSUME SizesAssumption ==
    /\ FS_BLOCK_LENGTH \in Nat \ {0}
    /\ ADDRESSES \in Nat \ {0}
    /\ MAX_FD_PER_PROCESS \in Nat /\ MAX_FD_PER_PROCESS > 2
    /\ Request \subseteq Int
\* The images createfs makes: regular files have an inode, and there are fewer
\* inodes than get_inode_ptr's addresses can tell apart (128; filesys_img has 64).
ASSUME ImageAssumption ==
    /\ Dentries \in Seq([filetype : {"device", "directory", "regular"}, inode : Nat])
    /\ IsFiniteSet(DOMAIN Inodes)
    /\ DOMAIN Inodes = 0 .. Cardinality(DOMAIN Inodes) - 1
    /\ \A i \in DOMAIN Inodes : Inodes[i].length \in Nat
    /\ \A d \in 1 .. Len(Dentries) :
        Dentries[d].filetype = "regular" => Dentries[d].inode \in DOMAIN Inodes
    /\ Cardinality(DOMAIN Inodes) * FS_BLOCK_LENGTH * FS_BLOCK_LENGTH <= ADDRESSES \div 2

MIN_FD_PER_PROCESS == 2
Fd == 0 .. MAX_FD_PER_PROCESS - 1
File == 1 .. Len(Dentries)

VARIABLES
    live,        \* the pids in use
    fd_array,    \* pcb_t.fd_array, by pid; 0 for the inode is NULL
    got,         \* history: what the reads of each descriptor returned, since its open
    size,        \* history: what there is to read behind each descriptor
    at_end,      \* history: did the last read of it, for at least a byte, return 0?
    held         \* history: how many files the process has open by its own count

vars == <<live, fd_array, got, size, at_end, held>>

Free == [table |-> "none", inode |-> 0, position |-> 0, in_use |-> FALSE]
Terminal == [table |-> "terminal", inode |-> 0, position |-> 0, in_use |-> TRUE]

TypeOK ==
    /\ live \subseteq Pid
    /\ fd_array \in [Pid -> [Fd -> [table : {"none", "terminal", "device", "directory", "regular"},
                                    inode : 0 .. ADDRESSES - 1,
                                    position : Nat,
                                    in_use : BOOLEAN]]]
    /\ held \in [Pid -> 0 .. MAX_FD_PER_PROCESS]
    /\ size \in [Pid -> [Fd -> Nat]]
    /\ at_end \in [Pid -> [Fd -> BOOLEAN]]

Init ==
    /\ live = {}
    /\ fd_array = [p \in Pid |-> [fd \in Fd |-> Free]]
    /\ got = [p \in Pid |-> [fd \in Fd |-> << >>]]
    /\ size = [p \in Pid |-> [fd \in Fd |-> 0]]
    /\ at_end = [p \in Pid |-> [fd \in Fd |-> FALSE]]
    /\ held = [p \in Pid |-> 0]

-----------------------------------------------------------------------------
(***************************************************************************)
(* filesystem.c.                                                           *)
(***************************************************************************)
\* get_inode_ptr: `inodes + idx*4096' is scaled by the size of an inode again, and
\* wraps around; as an offset from `inodes'.
InodePtr(idx) == (idx * FS_BLOCK_LENGTH * FS_BLOCK_LENGTH) % ADDRESSES

\* get_inode_num: a signed difference in inodes, divided once more as unsigned.
InodeNum(ptr) ==
    LET signed == IF ptr < ADDRESSES \div 2 THEN ptr ELSE ptr - ADDRESSES
    IN  ((signed \div FS_BLOCK_LENGTH) % ADDRESSES) \div FS_BLOCK_LENGTH

\* read_data's first loop: the place in block_numbers, and in that block, after
\* `offset' bytes have been passed.  It turns to the next block only when it
\* steps beyond the block's end.
Seek(offset) ==
    LET at[i \in 0 .. offset] ==
          IF i = 0 THEN [idx |-> 0, k |-> 0]
          ELSE LET b == at[i - 1] IN
               IF i - 1 > 0 /\ (i - 1) % FS_BLOCK_LENGTH = 0
               THEN [idx |-> b.idx + 1, k |-> 1] ELSE [b EXCEPT !.k = @ + 1]
    IN  at[offset]

\* The copy loop's test for the end of a block.  The mutant stays in the block.
TurnedBack(at) == [at EXCEPT !.k = @ % FS_BLOCK_LENGTH]
Turned(at) ==
    IF at.k > 0 /\ at.k % FS_BLOCK_LENGTH = 0 THEN [idx |-> at.idx + 1, k |-> 0] ELSE at

\* The copy loop: where each of the next n bytes is, as [idx, k].
Places(offset, n) ==
    LET at[i \in 0 .. n] ==
          Turned(IF i = 0 THEN Seek(offset) ELSE [at[i - 1] EXCEPT !.k = @ + 1])
    IN  [i \in 1 .. n |-> at[i - 1]]

GoodBlock(inode, idx) ==
    LET numbers == Inodes[inode].block_numbers IN
    idx + 1 \in DOMAIN numbers /\ numbers[idx + 1] \in DOMAIN DataBlocks

\* read_data: FAILURE for an inode or, on the way, a block that is not there.
read_data(inode, offset, nbytes) ==
    IF inode \notin DOMAIN Inodes \/ ~GoodBlock(inode, 0)
    THEN [ok |-> FALSE, bytes |-> << >>]
    ELSE LET left == Inodes[inode].length - offset
             n == IF left <= 0 THEN 0
                  ELSE IF nbytes < 0 \/ nbytes > left THEN left ELSE nbytes
             places == Places(offset, n)
         IN  IF \/ left > 0 /\ \E i \in 0 .. Seek(offset).idx : ~GoodBlock(inode, i)
                \/ \E i \in 1 .. n : ~GoodBlock(inode, places[i].idx)
             THEN [ok |-> FALSE, bytes |-> << >>]
             ELSE [ok |-> TRUE,
                   bytes |-> [i \in 1 .. n |->
                     DataBlocks[Inodes[inode].block_numbers[places[i].idx + 1]][places[i].k]]]

-----------------------------------------------------------------------------
(***************************************************************************)
(* Processes come and go.                                                  *)
(***************************************************************************)
\* clear_fd_array, after the two terminal descriptors have been set.  The mutant
\* leaves the first descriptor after them alone.
ClearedFromThree(old) ==
    [fd \in Fd |-> IF fd < MIN_FD_PER_PROCESS THEN Terminal
                   ELSE IF fd = MIN_FD_PER_PROCESS THEN old[fd] ELSE Free]
Cleared(old) == [fd \in Fd |-> IF fd < MIN_FD_PER_PROCESS THEN Terminal ELSE Free]

Start(p) ==
    /\ p \notin live
    /\ live' = live \cup {p}
    /\ fd_array' = [fd_array EXCEPT ![p] = Cleared(@)]
    /\ got' = [got EXCEPT ![p] = [fd \in Fd |-> << >>]]
    /\ size' = [size EXCEPT ![p] = [fd \in Fd |-> 0]]
    /\ at_end' = [at_end EXCEPT ![p] = [fd \in Fd |-> FALSE]]
    /\ held' = [held EXCEPT ![p] = 0]

\* halt closes nothing.
Halt(p) ==
    /\ p \in live
    /\ live' = live \ {p}
    /\ UNCHANGED <<fd_array, got, size, at_end, held>>

-----------------------------------------------------------------------------
(***************************************************************************)
(* The system calls.                                                       *)
(***************************************************************************)
\* open's search in a descriptor table t: the lowest free descriptor.
FreeFd(t, fd) ==
    /\ fd \in MIN_FD_PER_PROCESS .. MAX_FD_PER_PROCESS - 1
    /\ \A g \in MIN_FD_PER_PROCESS .. fd - 1 : t[g].in_use
    /\ ~t[fd].in_use

\* What open puts into the descriptor.
Opened(t, f, fd) ==
    [t EXCEPT ![fd] =
        [table |-> Dentries[f].filetype,
         inode |-> IF Dentries[f].filetype = "regular"
                   THEN InodePtr(Dentries[f].inode) ELSE 0,
         position |-> 0,
         in_use |-> TRUE]]

\* open of the f-th directory entry; a name that is not in the directory, or a
\* full table, fails and changes nothing.
Open(p, f, fd) ==
    LET d == Dentries[f] IN
    /\ p \in live
    /\ FreeFd(fd_array[p], fd)
    /\ fd_array' = [fd_array EXCEPT ![p] = Opened(@, f, fd)]
    /\ got' = [got EXCEPT ![p][fd] = << >>]
    /\ size' = [size EXCEPT ![p][fd] =
                  CASE d.filetype = "regular" -> Inodes[d.inode].length
                    [] d.filetype = "directory" -> Len(Dentries)
                    [] OTHER -> 0]
    /\ at_end' = [at_end EXCEPT ![p][fd] = FALSE]
    /\ held' = [held EXCEPT ![p] = @ + 1]
    /\ UNCHANGED live

\* close refuses the terminal's descriptors and those that are not open.  The
\* mutant refuses no terminal descriptor.
CloseableAny(t, fd) == fd \in Fd /\ t[fd].in_use
Closeable(t, fd) ==
    /\ fd \in MIN_FD_PER_PROCESS .. MAX_FD_PER_PROCESS - 1
    /\ t[fd].in_use

\* close only clears the in-use flag.
Closed(t, fd) == [t EXCEPT ![fd].in_use = FALSE]

Close(p, fd) ==
    /\ p \in live
    /\ Closeable(fd_array[p], fd)
    /\ fd_array' = [fd_array EXCEPT ![p] = Closed(@, fd)]
    /\ held' = [held EXCEPT ![p] = @ - 1]
    /\ UNCHANGED <<live, got, size, at_end>>

\* read's and write's tests; a descriptor that is not in use is refused.
Usable(t, fd) == fd \in Fd /\ t[fd].in_use

\* read_file: the position moves by what was read; a failure leaves it.
ReadFile(p, fd, n) ==
    LET e == fd_array[p][fd]
        r == read_data(InodeNum(e.inode), e.position, n)
    IN
    /\ p \in live
    /\ Usable(fd_array[p], fd)
    /\ e.table = "regular"
    /\ fd_array' = [fd_array EXCEPT ![p][fd].position = @ + Len(r.bytes)]
    /\ got' = [got EXCEPT ![p][fd] = @ \o r.bytes]
    /\ at_end' = [at_end EXCEPT ![p][fd] = r.ok /\ n # 0 /\ r.bytes = << >>]
    /\ UNCHANGED <<live, size, held>>

\* read_directory: the name of the next entry, then 0 for ever: the assignment at
\* the end of the directory is to a local.  The mutant stops one entry early.
NoEntryLeftEarly(position) == position >= Len(Dentries) - 1
NoEntryLeft(position) == position >= Len(Dentries)

ReadDirectory(p, fd) ==
    LET e == fd_array[p][fd] IN
    /\ p \in live
    /\ Usable(fd_array[p], fd)
    /\ e.table = "directory"
    /\ IF NoEntryLeft(e.position)
       THEN UNCHANGED <<fd_array, got>>
       ELSE /\ fd_array' = [fd_array EXCEPT ![p][fd].position = @ + 1]
            /\ got' = [got EXCEPT ![p][fd] = Append(@, e.position + 1)]
    /\ at_end' = [at_end EXCEPT ![p][fd] = NoEntryLeft(e.position)]
    /\ UNCHANGED <<live, size, held>>

-----------------------------------------------------------------------------
Next ==
    \/ \E p \in Pid : Start(p)
    \/ \E p \in Pid : Halt(p)
    \/ \E p \in Pid, f \in File, fd \in Fd : Open(p, f, fd)
    \/ \E p \in Pid, fd \in Fd : Close(p, fd)
    \/ \E p \in Pid, fd \in Fd, n \in Request : ReadFile(p, fd, n)
    \/ \E p \in Pid, fd \in Fd : ReadDirectory(p, fd)

Spec == Init /\ [][Next]_vars

-----------------------------------------------------------------------------
(***************************************************************************)
(* Properties.                                                             *)
(***************************************************************************)
InUse(p) == {fd \in Fd : fd_array[p][fd].in_use}

\* A process has exactly the descriptors it opened and did not close, and its two
\* terminal descriptors: none is left to it by an earlier process with its pid,
\* none is given out twice, none is lost.
DescriptorsAccountedFor ==
    \A p \in live :
        /\ Cardinality(InUse(p)) = held[p] + MIN_FD_PER_PROCESS
        /\ \A fd \in 0 .. MIN_FD_PER_PROCESS - 1 : fd_array[p][fd] = Terminal

\* The reference for reads: the i-th byte of a file.
ByteAt(inode, i) ==
    DataBlocks[Inodes[inode].block_numbers[(i \div FS_BLOCK_LENGTH) + 1]][i % FS_BLOCK_LENGTH]

\* However a program cuts up its reads, the pieces it got so far are the file's
\* bytes up to its position: none is skipped, repeated or taken from another
\* file at a block boundary (or the directory's entries, in order).
SequentialReads ==
    \A p \in live : \A fd \in InUse(p) :
        LET e == fd_array[p][fd] IN
        /\ e.table = "regular" =>
            \E f \in File :
                /\ Dentries[f].filetype = "regular"
                /\ InodePtr(Dentries[f].inode) = e.inode
                /\ \A i \in 0 .. e.position - 1 :
                    GoodBlock(Dentries[f].inode, i \div FS_BLOCK_LENGTH)
                /\ got[p][fd] = [i \in 1 .. e.position |-> ByteAt(Dentries[f].inode, i - 1)]
        /\ e.table = "directory" => got[p][fd] = [i \in 1 .. e.position |-> i]

\* A read that returns 0 means that everything has been read: a program that
\* reads until 0 has seen the whole file or directory.
ZeroMeansEnd ==
    \A p \in live : \A fd \in InUse(p) :
        at_end[p][fd] => Len(got[p][fd]) = size[p][fd]
=============================================================================
