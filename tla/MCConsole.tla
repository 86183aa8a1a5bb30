------------------------------ MODULE MCConsole ------------------------------
(* Model checking of Console on a screen of two rows of two columns.       *)
EXTENDS Console

OutputValues == {<<"a">>, <<"a", NEW_LINE>>, <<BKSP_CHAR, "a", "a">>}

\* States that differ only in the displayed terminal's backing store and saved
\* position are taken for one: both are overwritten before they are read.
WithoutStale ==
    <<[p \in Page \ {Backing(terminal_state)} |-> page[p]],
      [t \in Terminal \ {terminal_state} |-> saved[t]],
      screen_x, screen_y, cursor, terminals_launched, terminal_state,
      terminal_being_serviced, own>>
=============================================================================
