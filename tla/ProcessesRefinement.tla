------------------------- MODULE ProcessesRefinement -------------------------
(***************************************************************************)
(* Processes implements Sessions.  The chain of a session is the chain of  *)
(* parentPCB pointers; the parent of a first shell, which the code never   *)
(* follows, is forgotten.                                                  *)
(***************************************************************************)
EXTENDS Processes

waiterOf ==
    [p \in pid_avail |-> IF FIRST_TERM_SHELL \in flags[p] THEN p ELSE parentPCB[p]]

Sess == INSTANCE Sessions
          WITH Process <- Pid,
               Session <- Terminal,
               alive <- pid_avail,
               launched <- terminals_launched,
               front <- [t \in terminals_launched |-> terminals[t]],
               home <- [p \in pid_avail |-> owned_by_terminal[p]],
               waiter <- waiterOf,
               shown <- terminal_state,
               current <- terminal_being_serviced

\* execute, halt, the keyboard's terminal switches and the timer's round robin,
\* with all their saved contexts, give the user independent sessions.
ImplementsSessions == Sess!SessionsSpec
=============================================================================
