----------------------------- MODULE MCXFileCrypt -----------------------------
(* Three files of up to three blocks in a pool of up to four threads; a task      *)
(* may sleep when two blocks are in the next list.                             *)
EXTENDS XFileCrypt

SmallFiles == 1 .. NumFiles
Empty0 == [blocks |-> 0, aligned |-> TRUE]
Short(n) == [blocks |-> n, aligned |-> FALSE]
Whole(n) == [blocks |-> n, aligned |-> TRUE]
SmallDirectories ==
    {<<Empty0, Whole(2), Short(3)>>, <<Whole(2), Short(3), Empty0>>,
     <<Short(3), Short(1), Short(3)>>}
SmallLimit == [read |-> 1, crypt |-> 1]
==============================================================================
