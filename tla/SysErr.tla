-------------------------------- MODULE SysErr --------------------------------
(***************************************************************************)
(* SysErr: the repository's own test program, ece391syserr.c, run against  *)
(* the descriptor tables of Files.  Each test is an operator on the table  *)
(* t of the process that runs it, and has the test's value: 0 for PASS, 2  *)
(* for FAIL.  The program runs its tests once, in a fresh process; here    *)
(* they are asked of every table that a history of opens, closes, reads,   *)
(* halts and reused pids can leave behind.                                 *)
(*                                                                         *)
(* The tests' loops over descriptors 0..7 run to MAX_FD_PER_PROCESS here.  *)
(***************************************************************************)
EXTENDS Files

CONSTANTS
    FILE_NAME_SIZE,     \* 32: a longer name has no terminator in the directory
    Names,              \* the filenames of Dentries, as sequences of characters
    Dot,                \* the name "."
    Misspelled          \* the names err_open tries

IsString(s) == Len(s) \in Nat /\ s = [i \in 1 .. Len(s) |-> s[i]]

ASSUME NamesAssumption ==
    /\ FILE_NAME_SIZE \in Nat \ {0}
    /\ Len(Names) = Len(Dentries)
    /\ \A f \in File : IsString(Names[f]) /\ Len(Names[f]) \in 1 .. FILE_NAME_SIZE
    /\ \E f \in File : Names[f] = Dot
    /\ \A m \in Misspelled :
        /\ IsString(m) /\ Len(m) < FILE_NAME_SIZE
        /\ \A f \in File : Names[f] # m

STDIN == 0
STDOUT == 1
NEG == -1073741823
BIG == 1073741823
TASK_VIRTUAL_BASE_ADDRESS == 134217728
LITERAL_4MB == 4194304
FAILURE == -1

-----------------------------------------------------------------------------
(***************************************************************************)
(* What the tests call.                                                    *)
(***************************************************************************)
\* strncmp(s1, s2, n) = 0, where the end of a sequence is its terminator.
SameString(s1, s2, n) ==
    \A i \in 1 .. n : \/ i <= Len(s1) /\ i <= Len(s2) /\ s1[i] = s2[i]
                      \/ Len(s1) = Len(s2) /\ i > Len(s1)

\* read_dentry_by_name: the first entry with the name; 0 stands for FAILURE.
read_dentry_by_name(name) ==
    LET found == {f \in File : SameString(name, Names[f], FILE_NAME_SIZE)} IN
    IF found = {} THEN 0 ELSE CHOOSE f \in found : \A g \in found : f <= g

\* The open system call on a table: what it returns, and the table after it.
open(t, name) ==
    LET f == read_dentry_by_name(name)
        free == {fd \in Fd : FreeFd(t, fd)}
    IN  IF f = 0 \/ free = {} THEN [ret |-> FAILURE, table |-> t]
        ELSE LET fd == CHOOSE fd \in free : TRUE
             IN  [ret |-> fd, table |-> Opened(t, f, fd)]

close(t, fd) ==
    IF Closeable(t, fd) THEN [ret |-> 0, table |-> Closed(t, fd)]
    ELSE [ret |-> FAILURE, table |-> t]

\* read and write: refused by the table, or by the driver behind it (the terminal
\* reads STDIN and writes STDOUT only; files and directories cannot be written).
\* Anything else may return a count.
ReadRefused(t, fd) ==
    \/ ~Usable(t, fd)
    \/ t[fd].table = "terminal" /\ fd # STDIN
WriteRefused(t, fd) ==
    \/ ~Usable(t, fd)
    \/ t[fd].table = "terminal" /\ fd # STDOUT
    \/ t[fd].table \in {"regular", "directory"}

\* vidmap's test of its argument, and system_call_handler's of the call number.
VidmapRefused(address) ==
    \/ address < TASK_VIRTUAL_BASE_ADDRESS
    \/ address >= TASK_VIRTUAL_BASE_ADDRESS + LITERAL_4MB
CallRefused(number) == number < 1 \/ number > 8

-----------------------------------------------------------------------------
(***************************************************************************)
(* The tests.                                                              *)
(***************************************************************************)
Verdict(passed) == IF passed THEN 0 ELSE 2

\* err_neg_fd and err_big_fd.
BadFd(t, fd) ==
    Verdict(ReadRefused(t, fd) /\ WriteRefused(t, fd) /\ close(t, fd).ret = FAILURE)
err_neg_fd(t) == BadFd(t, NEG)
err_big_fd(t) == BadFd(t, BIG)

\* err_open_lots: one open more than there are free descriptors, then a close of
\* every descriptor from 2; the test counts the opens that failed.
OpenLots(t) ==
    LET after[i \in 0 .. MAX_FD_PER_PROCESS - 1] ==
          IF i = 0 THEN [failed |-> 0, table |-> t]
          ELSE LET r == open(after[i - 1].table, Dot)
               IN  [failed |-> after[i - 1].failed + (IF r.ret = FAILURE THEN 1 ELSE 0),
                    table |-> r.table]
    IN  after[MAX_FD_PER_PROCESS - 1]
CloseAll(t) ==
    LET after[fd \in MIN_FD_PER_PROCESS - 1 .. MAX_FD_PER_PROCESS - 1] ==
          IF fd < MIN_FD_PER_PROCESS THEN t ELSE close(after[fd - 1], fd).table
    IN  after[MAX_FD_PER_PROCESS - 1]
err_open_lots(t) == Verdict(OpenLots(t).failed = 1)

\* err_open.
err_open(t) == Verdict(\A m \in Misspelled : open(t, m).ret = FAILURE)

\* err_unopened: nothing can be closed, and nothing from 2 read or written.
err_unopened(t) ==
    Verdict(/\ \A fd \in Fd : close(t, fd).ret = FAILURE
            /\ \A fd \in MIN_FD_PER_PROCESS .. MAX_FD_PER_PROCESS - 1 :
                ReadRefused(t, fd) /\ WriteRefused(t, fd))

err_vidmap == Verdict(VidmapRefused(0) /\ VidmapRefused(LITERAL_4MB))

err_stdin_out(t) == Verdict(WriteRefused(t, STDIN) /\ ReadRefused(t, STDOUT))

err_syscall_num == Verdict(CallRefused(BIG) /\ CallRefused(NEG) /\ CallRefused(0))

\* main, choice 0: all tests in turn; err_open_lots has left its table to the rest.
AllTests(t) ==
    LET rest == CloseAll(OpenLots(t).table) IN
    err_neg_fd(t) + err_big_fd(t) + err_open_lots(t) + err_open(rest)
        + err_unopened(rest) + err_vidmap + err_stdin_out(rest) + err_syscall_num

-----------------------------------------------------------------------------
\* Whatever a process, and the processes that had its pid before, did with their
\* descriptors: once it holds none, ece391syserr's tests all pass.  (A descriptor
\* that is stale, lost or given out twice, or a standard one that could be
\* closed, makes one of them fail.)
SysErrPasses ==
    \A p \in live : held[p] = 0 => AllTests(fd_array[p]) = 0
=============================================================================
