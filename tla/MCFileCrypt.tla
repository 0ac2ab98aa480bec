----------------------------- MODULE MCFileCrypt -----------------------------
(* Small instances of FileCrypt.  The sizes keep the order they have in the     *)
(* source: 8 KB < 512 KB < 5 MB < 20 MB become 1 < 2 <= 2 < 3, so that a list    *)
(* of crypt blocks holds the reader back above 1 block, a list of written ones   *)
(* holds crypt back above 3, and a task notifies at 2 blocks or fewer.           *)
EXTENDS FileCrypt

NoFault == {{}}
NoThread == {{}, {"noThread"}}
StopFault == {{"stop"}}
AnyFault == {{"openIn"}, {"openOut"}, {"throw"}, {"resize"}, {"disk"}, {"stop"}}
==============================================================================
