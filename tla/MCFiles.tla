------------------------------- MODULE MCFiles -------------------------------
(* Model checking of Files and SysErr on a small image: blocks of 2 bytes, *)
(* files that end in the middle and at the end of a block, an empty one,   *)
(* and one whose second block number is wrong.                             *)
EXTENDS SysErr

Blocks == [b \in 0 .. 3 |-> [k \in 0 .. 1 |-> 10 * b + k]]
InodeTable ==
    [i \in 0 .. 3 |->
        CASE i = 0 -> [length |-> 2, block_numbers |-> <<3>>]
          [] i = 1 -> [length |-> 5, block_numbers |-> <<1, 3, 2>>]
          [] i = 2 -> [length |-> 0, block_numbers |-> <<0>>]
          [] i = 3 -> [length |-> 3, block_numbers |-> <<2, 9>>]]
Directory ==
    << [filetype |-> "directory", inode |-> 0],
       [filetype |-> "regular", inode |-> 1],
       [filetype |-> "device", inode |-> 0],
       [filetype |-> "regular", inode |-> 3],
       [filetype |-> "regular", inode |-> 0],
       [filetype |-> "regular", inode |-> 2] >>
\* The names: one of them as long as a name can be.  err_open adds a letter to a
\* name, leaves one out, and tries the empty name.
NameTable ==
    << <<".">>, <<"h", "i">>, <<"r", "t", "c">>, <<"s", "h">>, <<"h", "i", "j", "k">>, <<"z">> >>
DotName == <<".">>
WrongNames == { <<"h", "i", "i">>, <<"s">>, << >> }
RequestValues == {-1, 0, 1, 3}
=============================================================================
