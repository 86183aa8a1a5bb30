------------------------------ MODULE MCCommands ------------------------------
(* Model checking of Commands: lines with and without an argument, with    *)
(* two spaces, a leading space, a name that is not there, and one that is  *)
(* too long; statuses at both ends of the byte.                            *)
EXTENDS Commands

Lines == { <<"prog">>, <<"prog", " ", "a">>, <<"prog", " ", " ", "b">>, <<"shell">>,
           <<" ", "prog">>, <<"text", " ", "a">>, <<"prog", " ", "a", " ", "b">> }
Programs == {"shell", "prog"}
Statuses == {-1, 0, 256}
Sizes == {1, 4}
=============================================================================
