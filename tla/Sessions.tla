------------------------------- MODULE Sessions -------------------------------
(***************************************************************************)
(* What the process layer promises a user.  Every launched terminal is a   *)
(* session of its own: a chain of processes in which each one waits for    *)
(* the one it started, from the first shell to the process in front.  Only *)
(* the session that has the CPU changes, and only at its front: a process  *)
(* starts another one, or ends and leaves the front to the one that waited *)
(* for it; a first shell that ends is replaced.  Which terminal is shown   *)
(* and which has the CPU are independent of that, but for the launch of a  *)
(* terminal, which gives it both.                                          *)
(***************************************************************************)
CONSTANTS Process, Session

VARIABLES
    alive,      \* the processes
    launched,   \* the sessions that have been launched
    front,      \* the process in front of each launched session
    home,       \* the session of each process
    waiter,     \* the process that waits for each process; a first shell's
                \* waiter is itself
    shown,      \* the session on the screen
    current     \* the session that has the CPU

sessionVars == <<alive, launched, front, home, waiter, shown, current>>

\* f extended to, or changed at, x; and restricted to the set S.
With(f, x, v) == [y \in DOMAIN f \cup {x} |-> IF y = x THEN v ELSE f[y]]
Without(f, x) == [y \in DOMAIN f \ {x} |-> f[y]]

\* The machine boots into one session with one shell.
SessionsInit ==
    /\ \E s \in Session, p \in Process :
        /\ alive = {p}
        /\ launched = {s}
        /\ front = [t \in {s} |-> p]
        /\ home = [q \in {p} |-> s]
        /\ waiter = [q \in {p} |-> p]
        /\ shown = s
        /\ current = s

Launch(s, p) ==
    /\ s \notin launched
    /\ p \notin alive
    /\ alive' = alive \cup {p}
    /\ launched' = launched \cup {s}
    /\ front' = With(front, s, p)
    /\ home' = With(home, p, s)
    /\ waiter' = With(waiter, p, p)
    /\ shown' = s
    /\ current' = s

Start(p) ==
    /\ p \notin alive
    /\ alive' = alive \cup {p}
    /\ front' = [front EXCEPT ![current] = p]
    /\ home' = With(home, p, current)
    /\ waiter' = With(waiter, p, front[current])
    /\ UNCHANGED <<launched, shown, current>>

End ==
    LET p == front[current] IN
    /\ waiter[p] # p
    /\ alive' = alive \ {p}
    /\ front' = [front EXCEPT ![current] = waiter[p]]
    /\ home' = Without(home, p)
    /\ waiter' = Without(waiter, p)
    /\ UNCHANGED <<launched, shown, current>>

\* The first shell ends; the new one may get the old one's name.
Replace(q) ==
    LET p == front[current] IN
    /\ waiter[p] = p
    /\ q \notin alive \ {p}
    /\ alive' = (alive \ {p}) \cup {q}
    /\ front' = [front EXCEPT ![current] = q]
    /\ home' = With(Without(home, p), q, current)
    /\ waiter' = With(Without(waiter, p), q, q)
    /\ UNCHANGED <<launched, shown, current>>

Show(s) ==
    /\ s \in launched
    /\ shown' = s
    /\ UNCHANGED <<alive, launched, front, home, waiter, current>>

Preempt(s) ==
    /\ s \in launched
    /\ current' = s
    /\ UNCHANGED <<alive, launched, front, home, waiter, shown>>

SessionsNext ==
    \/ \E s \in Session, p \in Process : Launch(s, p)
    \/ \E p \in Process : Start(p)
    \/ End
    \/ \E q \in Process : Replace(q)
    \/ \E s \in Session : Show(s) \/ Preempt(s)

SessionsSpec == SessionsInit /\ [][SessionsNext]_sessionVars
=============================================================================
