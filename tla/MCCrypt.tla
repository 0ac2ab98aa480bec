------------------------------- MODULE MCCrypt -------------------------------
(* Small instances of the two parts of crypt/, which do not use each other: a    *)
(* behaviour is one of BlockCrypt or one of Des, and the other part stays where  *)
(* it is.  A cipher block has 2 bytes, a chunk 2 blocks, a byte 2 bits.          *)
EXTENDS BlockCrypt, Des

VARIABLE part

SmallXor(a, b) == ((a + b) % 2) + 2 * (((a \div 2) + (b \div 2)) % 2)

(* Two rounds of adding one half to the other make a permutation of the blocks.  *)
SmallEncrypt(key, block) ==
    LET one == (block[1] + 2 * block[2] + key.residue + (key.size \div 8)) % 4
    IN  <<one, (block[2] + one * one + 1) % 4>>
SmallDecrypt(key, block) ==
    LET two == (block[2] - block[1] * block[1] - 1) % 4
    IN  <<(block[1] - 2 * two - key.residue - (key.size \div 8)) % 4, two>>

(* All files of up to one chunk, and two kinds of each length up to two and a bit. *)
SmallFiles ==
    UNION {[1 .. n -> 0 .. 3] : n \in 1 .. 4}
        \cup {[k \in 1 .. n |-> (k + s) % 4] : n \in 5 .. 9, s \in 0 .. 1}

ByteOf(n) == [j \in 0 .. 7 |-> BitOf(n, j)]
SmallPasswords ==
    {<<>>, <<ByteOf(49), ByteOf(50), ByteOf(51)>>, [k \in 1 .. 8 |-> ByteOf(31 * k)]}
SmallTexts == {[k \in 0 .. 7 |-> ByteOf((17 * k * s + s) % 256)] : s \in 0 .. 4}

Init ==
    \/ /\ part = "BlockCrypt"
       /\ leftFirst = TRUE /\ password = <<>> /\ text = [k \in 0 .. 7 |-> ByteOf(0)]
       /\ BlockInit /\ DesInit
    \/ /\ part = "Des"
       /\ class = "DesCrypt" /\ passwordSize = 16 /\ file = <<1>> /\ roundTrip = TRUE
       /\ BlockInit /\ DesInit

Next ==
    \/ part = "BlockCrypt" /\ BlockNext /\ UNCHANGED <<part, desVars>>
    \/ part = "Des" /\ DesNext /\ UNCHANGED <<part, blockVars>>

Spec == Init /\ [][Next]_<<part, blockVars, desVars>>
==============================================================================
