------------------------------- MODULE Commands -------------------------------
(***************************************************************************)
(* What passes between a program and the one that started it: the command  *)
(* line that execute splits, the argument that getargs hands out, the      *)
(* status that halt or an exception leaves and execute returns, and the    *)
(* shell that reads it (syscalls.c, ece391shell.c), composed with          *)
(* Processes.                                                              *)
(*                                                                         *)
(* The argument is not copied for the child: pcb_t.args points into the    *)
(* local commandstring of the internal_execute that started it, on the     *)
(* stack of whoever ran it.  The part of a stack below a process that runs *)
(* is overwritten by its next system call or interrupt.                    *)
(*                                                                         *)
(* A line is a sequence of words and spaces, each of length one.           *)
(***************************************************************************)
EXTENDS Processes, Integers, Sequences

CONSTANTS
    MAX_EXECUTE_ARG_SIZE,   \* the size of commandstring (128)
    Line,                   \* the lines that may be given to execute
    Executable,             \* the names of the programs in the file system; any
                            \* other name is missing, or is not executable
    Status,                 \* the values that main of a program may return
    BufferSize              \* the buffer sizes given to getargs

ASSUME LinesAssumption ==
    /\ MAX_EXECUTE_ARG_SIZE \in Nat \ {0}
    /\ \A line \in Line : line \in Seq(STRING)
    /\ "shell" \in Executable
    /\ Status \subseteq Int
    /\ BufferSize \subseteq Nat

VARIABLES
    program,     \* the program each process runs
    string,      \* what the commandstring in the last execute frame of each stack
                 \* holds behind the name: the argument, or Garbage
    args,        \* pcb_t.args: the stack it points into
    ret_val,     \* pcb_t.ret_val
    answer,      \* what execute has returned to each process, until it looks
    argbuf,      \* what getargs has copied to each process, if it has
    given,       \* history: the argument on the line each process was started with
    caller,      \* history: the process that started it
    outcome      \* history: what has become of the last command of each process

commandVars == <<program, string, args, ret_val, answer, argbuf>>
historyVars == <<given, caller, outcome>>
allCommandVars == <<vars, commandVars, historyVars>>

Garbage == <<"garbage">>
None == -2          \* no answer, no outcome
FAILURE == -1
EXCEPTION == 256    \* the status the exception handlers give halt_excep

-----------------------------------------------------------------------------
(***************************************************************************)
(* The command line.                                                       *)
(***************************************************************************)
EMPTY_SPACE == " "

\* Where the first space is, or one beyond the end.
FirstSpace(line) ==
    CHOOSE i \in 1 .. Len(line) + 1 :
        /\ i = Len(line) + 1 \/ line[i] = EMPTY_SPACE
        /\ \A j \in 1 .. i - 1 : line[j] # EMPTY_SPACE

NameOf(line) == SubSeq(line, 1, FirstSpace(line) - 1)
ArgumentOf(line) == SubSeq(line, FirstSpace(line) + 1, Len(line))

\* execute's tests up to the magic number.
Runs(line) ==
    /\ Len(line) < MAX_EXECUTE_ARG_SIZE
    /\ Len(NameOf(line)) = 1
    /\ NameOf(line)[1] \in Executable

\* The reference for the split: a line is a name without a space, or a name, one
\* space and the argument.
IsSplit(line, name, argument) ==
    /\ \A i \in 1 .. Len(name) : name[i] # EMPTY_SPACE
    /\ \/ line = name /\ argument = << >>
       \/ line = name \o <<EMPTY_SPACE>> \o argument
ArgumentGiven(line) ==
    CHOOSE a \in {SubSeq(line, i, Len(line)) : i \in 1 .. Len(line) + 1} :
        \E n \in 0 .. Len(line) : IsSplit(line, SubSeq(line, 1, n), a)

-----------------------------------------------------------------------------
CommandsTypeOK ==
    /\ program \in [Pid -> Executable]
    /\ args \in [Pid -> Pid]
    /\ ret_val \in [Pid -> 0 .. EXCEPTION]
    /\ answer \in [Pid -> {None, FAILURE} \cup 0 .. EXCEPTION]
    /\ caller \in [Pid -> Pid]

\* entry() has run the first shell on the boot stack, which is that of pid 0.
CommandsInit ==
    /\ Init
    /\ program = [p \in Pid |-> "shell"]
    /\ string = [p \in Pid |-> Garbage]
    /\ args = [p \in Pid |-> 0]
    /\ ret_val = [p \in Pid |-> 0]
    /\ answer = [p \in Pid |-> None]
    /\ argbuf = [p \in Pid |-> Garbage]
    /\ given = [p \in Pid |-> << >>]
    /\ caller = [p \in Pid |-> 0]
    /\ outcome = [p \in Pid |-> None]

\* The stacks after a step: what lies below a running process is overwritten, and
\* what the internal_execute of this step (on stack p, for argument a) left is new.
Overwritten == [p \in Pid |-> IF kstack'[p] \in {"running", "none"} THEN Garbage ELSE string[p]]

\* The place of the child's argument.  The mutant keeps all in one static buffer,
\* which is not overwritten by system calls but by every execute.
PutStatic(p, a) == string' = [q \in Pid |-> a]
Put(p, a) == string' = [Overwritten EXCEPT ![p] = a]

\* What internal_execute, running on the stack `on', stores for the child: args in
\* its PCB, the program image.
StartProgram(pid, name, a, on) ==
    /\ program' = [program EXCEPT ![pid] = name]
    /\ args' = [args EXCEPT ![pid] = on]
    /\ argbuf' = [argbuf EXCEPT ![pid] = Garbage]
    /\ given' = [given EXCEPT ![pid] = a]
    /\ caller' = [caller EXCEPT ![pid] = on]
    /\ UNCHANGED <<ret_val, answer, outcome>>

\* A process that has the answer of its last execute looks at it before it goes on.
Free == answer[tss] = None /\ InUserCode /\ ~crashed

\* execute(line) that starts a process; the shell does so for a line that is not
\* empty and not "exit".
Run(line, pid) ==
    /\ Free
    /\ line \notin {<< >>, <<"exit">>}
    /\ Runs(line)
    /\ Execute(pid)
    /\ StartProgram(pid, NameOf(line)[1], ArgumentGiven(line), tss)
    /\ Put(tss, ArgumentOf(line))

\* execute(line) that fails: too long, no such program, or no pid.
Refuse(line) ==
    /\ Free
    /\ line \notin {<< >>, <<"exit">>}
    /\ \/ ~Runs(line)
       \/ pid_avail = Pid
    /\ answer' = [answer EXCEPT ![tss] = FAILURE]
    /\ outcome' = [outcome EXCEPT ![tss] = FAILURE]
    /\ UNCHANGED <<vars, program, string, args, ret_val, argbuf, given, caller>>

\* getargs; the shell never calls it.  The copy has no terminator when it fills
\* the buffer.
GetArgs(num_bytes) ==
    LET arguments == string[args[tss]] IN
    /\ Free
    /\ program[tss] # "shell"
    /\ argbuf' = [argbuf EXCEPT ![tss] =
                    IF Len(arguments) > num_bytes THEN @ ELSE arguments]
    /\ UNCHANGED <<vars, program, string, args, ret_val, answer, historyVars>>

\* The program looks at what execute returned.
Look ==
    /\ ~crashed
    /\ InUserCode
    /\ answer[tss] # None
    /\ answer' = [answer EXCEPT ![tss] = None]
    /\ outcome' = [outcome EXCEPT ![tss] = None]
    /\ UNCHANGED <<vars, program, string, args, ret_val, argbuf, given, caller>>

\* The parameter of halt is a byte.  The mutant takes the whole register.
WholeStatus(status) == status
ByteStatus(status) == status % 256

\* The end of p with ret_val: execute's frame on the stack gone back to reads the
\* PCB of the child it has started.
Delivers(p, status) ==
    /\ ret_val' = [ret_val EXCEPT ![p] = status]
    /\ answer' = [answer EXCEPT ![tss'] = ret_val'[pid_local[tss']]]

\* A program ends: the shell by "exit", with 0, any other with any status.
End(status) ==
    /\ Free
    /\ program[tss] = "shell" => status = 0
    /\ Halt
    /\ Delivers(tss, ByteStatus(status))
    /\ outcome' = [outcome EXCEPT ![caller[tss]] = status % 256]
    /\ string' = Overwritten
    /\ UNCHANGED <<program, args, argbuf, given, caller>>

EndFirstShell(pid) ==
    /\ Free
    /\ HaltFirstShell(pid)
    /\ StartProgram(pid, "shell", << >>, tss)
    /\ string' = Overwritten

Fault ==
    /\ Free
    /\ HaltExcep
    /\ Delivers(tss, EXCEPTION)
    /\ outcome' = [outcome EXCEPT ![caller[tss]] = EXCEPTION]
    /\ string' = Overwritten
    /\ UNCHANGED <<program, args, argbuf, given, caller>>

\* A terminal launch runs internal_execute on the stack of the interrupted process.
Launch(t, pid) ==
    /\ LaunchTerminal(t, pid)
    /\ StartProgram(pid, "shell", << >>, tss)
    /\ Put(tss, << >>)

\* Interrupts that start no process.
Interrupt ==
    /\ \/ KeyTyped
       \/ \E t \in Terminal : SwitchTerminal(t) \/ Timer(t)
       \/ RtcEnter \/ RtcSendEoi \/ RtcExit
    /\ string' = Overwritten
    /\ UNCHANGED <<program, args, ret_val, answer, argbuf, historyVars>>

CommandsNext ==
    \/ \E line \in Line, pid \in Pid : Run(line, pid)
    \/ \E line \in Line : Refuse(line)
    \/ \E n \in BufferSize : GetArgs(n)
    \/ Look
    \/ \E status \in Status : End(status)
    \/ \E pid \in Pid : EndFirstShell(pid)
    \/ Fault
    \/ \E t \in Terminal, pid \in Pid : Launch(t, pid)
    \/ Interrupt

CommandsSpec == CommandsInit /\ [][CommandsNext]_allCommandVars

-----------------------------------------------------------------------------
(***************************************************************************)
(* Properties.  They need ExecInForeground of Processes.                   *)
(***************************************************************************)
\* What the shell prints for the answer of execute (ece391shell.c:28-33).
message(rval) ==
    CASE rval = -1 -> "no such command"
      [] rval = 256 -> "program terminated by exception"
      [] rval \notin {-1, 256, 0} -> "program terminated abnormally"
      [] OTHER -> "nothing"

\* A program that asks for its argument gets the one on the command line that
\* started it, however many other programs have been started and have ended on
\* any terminal since: the string it points to is still on its parent's stack.
ArgumentsOwn ==
    \A p \in pid_avail :
        /\ argbuf[p] \in {Garbage, given[p]}
        /\ FIRST_TERM_SHELL \notin flags[p] => string[args[p]] = given[p]

\* The message of the shell is about the very command it ran, and true: no status
\* of a program passes for a missing command or an exception, and no status or
\* fault of another program reaches it.
AnswerTrue ==
    \A p \in pid_avail :
        /\ answer[p] # None <=> outcome[p] # None
        /\ answer[p] # None => message(answer[p]) = message(outcome[p])

=============================================================================
