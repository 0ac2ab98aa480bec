---------------------------- MODULE FileTransform ----------------------------
(* What a FileCrypt promises, without threads and lists: the blocks of the      *)
(* input reach the output one after the other, each transformed, the last one   *)
(* and no other with the end mark, and the work is reported done only when all  *)
(* of them are there.                                                           *)
EXTENDS Sequences, DataSizes

CONSTANTS ReadDataSize, Lengths

VARIABLES fileLen, isEncrypt, outFile, reported

NumBlocks == (fileLen + ReadDataSize - 1) \div ReadDataSize

(* The form block no may have in the output. *)
Transformed(no) ==
    LET rest == fileLen - (no - 1) * ReadDataSize
        len == IF rest < ReadDataSize THEN rest ELSE ReadDataSize
        end == no = NumBlocks
    IN  {[no |-> no, len |-> len, size |-> size, end |-> end] :
            size \in CryptSizes(isEncrypt, len, end)}

Init ==
    /\ fileLen \in Lengths
    /\ isEncrypt \in BOOLEAN
    /\ outFile = <<>>
    /\ reported = FALSE

Put ==
    /\ ~reported
    /\ Len(outFile) < NumBlocks
    /\ \E block \in Transformed(Len(outFile) + 1) : outFile' = Append(outFile, block)
    /\ UNCHANGED <<fileLen, isEncrypt, reported>>

Report ==
    /\ ~reported
    /\ Len(outFile) = NumBlocks
    /\ reported' = TRUE
    /\ UNCHANGED <<fileLen, isEncrypt, outFile>>

Next == Put \/ Report

Spec == Init /\ [][Next]_<<fileLen, isEncrypt, outFile, reported>>

==============================================================================
