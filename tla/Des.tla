--------------------------------- MODULE Des ---------------------------------
(***************************************************************************)
(* The DES of crypt/des/: a password becomes 16 subkeys (Des::Init), a text  *)
(* of 8 bytes is encrypted under them (Des::Encrypt) and what comes out is    *)
(* decrypted again (Des::Decrypt).  One action is one round.                  *)
(*                                                                         *)
(* A std::bitset is a function from 0 .. n - 1 to bits, a byte is a function  *)
(* from 0 .. 7 with its lowest bit at 0.                                      *)
(***************************************************************************)
EXTENDS Integers, Sequences, SequencesExt

CONSTANTS Passwords,   (* sequences of 8 bytes or fewer; Des::Init copies all  *)
                       (* bytes of a password into an array of 8              *)
          Texts        (* functions from 0 .. 7 to bytes                       *)

Bit == {0, 1}
Bitset(n) == [0 .. n - 1 -> Bit]
Byte == Bitset(8)

ASSUME DesAssumption ==
    /\ Passwords \subseteq Seq(Byte)
    /\ \A password \in Passwords : Len(password) <= 8
    /\ Texts \subseteq [0 .. 7 -> Byte]

------------------------------------------------------------------------------
(* The tables.  They number the bits from 1.                                  *)

(* The initial permutation and its inverse. *)
kIP ==
    << 58, 50, 42, 34, 26, 18, 10, 2, 60, 52, 44, 36, 28, 20, 12, 4,
       62, 54, 46, 38, 30, 22, 14, 6, 64, 56, 48, 40, 32, 24, 16, 8,
       57, 49, 41, 33, 25, 17, 9, 1, 59, 51, 43, 35, 27, 19, 11, 3,
       61, 53, 45, 37, 29, 21, 13, 5, 63, 55, 47, 39, 31, 23, 15, 7 >>

kIP_1 ==
    << 40, 8, 48, 16, 56, 24, 64, 32, 39, 7, 47, 15, 55, 23, 63, 31,
       38, 6, 46, 14, 54, 22, 62, 30, 37, 5, 45, 13, 53, 21, 61, 29,
       36, 4, 44, 12, 52, 20, 60, 28, 35, 3, 43, 11, 51, 19, 59, 27,
       34, 2, 42, 10, 50, 18, 58, 26, 33, 1, 41, 9, 49, 17, 57, 25 >>

(* The choices of key bits, and the shifts between the rounds. *)
kPC_1 ==
    << 57, 49, 41, 33, 25, 17, 9, 1, 58, 50, 42, 34, 26, 18,
       10, 2, 59, 51, 43, 35, 27, 19, 11, 3, 60, 52, 44, 36,
       63, 55, 47, 39, 31, 23, 15, 7, 62, 54, 46, 38, 30, 22,
       14, 6, 61, 53, 45, 37, 29, 21, 13, 5, 28, 20, 12, 4 >>

kPC_2 ==
    << 14, 17, 11, 24, 1, 5, 3, 28, 15, 6, 21, 10,
       23, 19, 12, 4, 26, 8, 16, 7, 27, 20, 13, 2,
       41, 52, 31, 37, 47, 55, 30, 40, 51, 45, 33, 48,
       44, 49, 39, 56, 34, 53, 46, 42, 50, 36, 29, 32 >>

kShiftBits ==
    << 1, 1, 2, 2, 2, 2, 2, 2, 1, 2, 2, 2, 2, 2, 2, 1 >>

(* The round function: expansion, the boxes, the permutation after them. *)
kE ==
    << 32, 1, 2, 3, 4, 5, 4, 5, 6, 7, 8, 9,
       8, 9, 10, 11, 12, 13, 12, 13, 14, 15, 16, 17,
       16, 17, 18, 19, 20, 21, 20, 21, 22, 23, 24, 25,
       24, 25, 26, 27, 28, 29, 28, 29, 30, 31, 32, 1 >>

kP ==
    << 16, 7, 20, 21, 29, 12, 28, 17, 1, 15, 23, 26, 5, 18, 31, 10,
       2, 8, 24, 14, 32, 27, 3, 9, 19, 13, 30, 6, 22, 11, 4, 25 >>

kSBox ==
    << << <<14, 4, 13, 1, 2, 15, 11, 8, 3, 10, 6, 12, 5, 9, 0, 7>>,
          <<0, 15, 7, 4, 14, 2, 13, 1, 10, 6, 12, 11, 9, 5, 3, 8>>,
          <<4, 1, 14, 8, 13, 6, 2, 11, 15, 12, 9, 7, 3, 10, 5, 0>>,
          <<15, 12, 8, 2, 4, 9, 1, 7, 5, 11, 3, 14, 10, 0, 6, 13>> >>,
       << <<15, 1, 8, 14, 6, 11, 3, 4, 9, 7, 2, 13, 12, 0, 5, 10>>,
          <<3, 13, 4, 7, 15, 2, 8, 14, 12, 0, 1, 10, 6, 9, 11, 5>>,
          <<0, 14, 7, 11, 10, 4, 13, 1, 5, 8, 12, 6, 9, 3, 2, 15>>,
          <<13, 8, 10, 1, 3, 15, 4, 2, 11, 6, 7, 12, 0, 5, 14, 9>> >>,
       << <<10, 0, 9, 14, 6, 3, 15, 5, 1, 13, 12, 7, 11, 4, 2, 8>>,
          <<13, 7, 0, 9, 3, 4, 6, 10, 2, 8, 5, 14, 12, 11, 15, 1>>,
          <<13, 6, 4, 9, 8, 15, 3, 0, 11, 1, 2, 12, 5, 10, 14, 7>>,
          <<1, 10, 13, 0, 6, 9, 8, 7, 4, 15, 14, 3, 11, 5, 2, 12>> >>,
       << <<7, 13, 14, 3, 0, 6, 9, 10, 1, 2, 8, 5, 11, 12, 4, 15>>,
          <<13, 8, 11, 5, 6, 15, 0, 3, 4, 7, 2, 12, 1, 10, 14, 9>>,
          <<10, 6, 9, 0, 12, 11, 7, 13, 15, 1, 3, 14, 5, 2, 8, 4>>,
          <<3, 15, 0, 6, 10, 1, 13, 8, 9, 4, 5, 11, 12, 7, 2, 14>> >>,
       << <<2, 12, 4, 1, 7, 10, 11, 6, 8, 5, 3, 15, 13, 0, 14, 9>>,
          <<14, 11, 2, 12, 4, 7, 13, 1, 5, 0, 15, 10, 3, 9, 8, 6>>,
          <<4, 2, 1, 11, 10, 13, 7, 8, 15, 9, 12, 5, 6, 3, 0, 14>>,
          <<11, 8, 12, 7, 1, 14, 2, 13, 6, 15, 0, 9, 10, 4, 5, 3>> >>,
       << <<12, 1, 10, 15, 9, 2, 6, 8, 0, 13, 3, 4, 14, 7, 5, 11>>,
          <<10, 15, 4, 2, 7, 12, 9, 5, 6, 1, 13, 14, 0, 11, 3, 8>>,
          <<9, 14, 15, 5, 2, 8, 12, 3, 7, 0, 4, 10, 1, 13, 11, 6>>,
          <<4, 3, 2, 12, 9, 5, 15, 10, 11, 14, 1, 7, 6, 0, 8, 13>> >>,
       << <<4, 11, 2, 14, 15, 0, 8, 13, 3, 12, 9, 7, 5, 10, 6, 1>>,
          <<13, 0, 11, 7, 4, 9, 1, 10, 14, 3, 5, 12, 2, 15, 8, 6>>,
          <<1, 4, 11, 13, 12, 3, 7, 14, 10, 15, 6, 8, 0, 5, 9, 2>>,
          <<6, 11, 13, 8, 1, 4, 10, 7, 9, 5, 0, 15, 14, 2, 3, 12>> >>,
       << <<13, 2, 8, 4, 6, 15, 11, 1, 10, 9, 3, 14, 5, 0, 12, 7>>,
          <<1, 15, 13, 8, 10, 3, 7, 4, 12, 5, 6, 11, 0, 14, 9, 2>>,
          <<7, 11, 4, 1, 9, 12, 14, 2, 0, 6, 10, 13, 15, 3, 5, 8>>,
          <<2, 1, 14, 7, 4, 10, 8, 13, 15, 12, 9, 0, 3, 5, 6, 11>> >> >>
------------------------------------------------------------------------------
(* Operations on bitsets. *)

(* Bit i of the result is the bit of b that the table names. *)
Permute(n, table, b) == [i \in 0 .. n - 1 |-> b[table[i + 1] - 1]]

Half(b, n, first) == [i \in 0 .. n - 1 |-> b[first + i]]

Join(low, high, n) == [i \in 0 .. 2 * n - 1 |-> IF i < n THEN low[i] ELSE high[i - n]]

(* operator^ *)
Xor(a, b, n) == [i \in 0 .. n - 1 |-> IF a[i] = b[i] THEN 0 ELSE 1]

BitOf(x, j) == IF (x \div 2 ^ j) % 2 = 1 THEN 1 ELSE 0

(* The bitset of 8 bytes, and the bytes that memcpy takes out of a bitset.     *)
Bytes2Bits(c) == [n \in 0 .. 63 |-> c[n \div 8][n % 8]]

(* A mutated form: the bits keep their weights. *)
WeighedBytes(b) == [i \in 0 .. 7 |-> [j \in 0 .. 7 |-> 2 ^ j * b[8 * i + j]]]

StoredBytes(b) == [i \in 0 .. 7 |-> [j \in 0 .. 7 |-> b[8 * i + j]]]

(* A mutated form: the bits that leave at the top do not come back. *)
ShiftWithoutCarry(k, num) ==
    [i \in 0 .. 27 |-> IF i >= num THEN k[i - num] ELSE 0]

(* Bit i goes up to i + num; the num bits at the top come back at the bottom. *)
KeyLeftShift(k, num) ==
    [i \in 0 .. 27 |-> IF i >= num THEN k[i - num] ELSE k[28 - num + i]]

(* The weights that ExpendBin2Dec gives to n bits.  BCD_8421 is doubled by each *)
(* operand of the fold when it is evaluated; in which order is up to the build. *)
Weights(n, leftFirst) ==
    [p \in 1 .. n |-> IF leftFirst THEN 2 ^ (p - 1) ELSE 2 ^ (n - p)]

ExpendBin2Dec(e, args, leftFirst) ==
    FoldLeft(LAMBDA sum, p : sum + e[args[p]] * Weights(Len(args), leftFirst)[p],
             0, [p \in 1 .. Len(args) |-> p])

(* What the box makes of 6 bits of e. *)
SBox(box, e, leftFirst) ==
    LET i == 6 * box
        row == ExpendBin2Dec(e, <<i + 1, i>>, leftFirst)
        column == ExpendBin2Dec(e, <<i + 5, i + 4, i + 3, i + 2>>, leftFirst)
    IN  kSBox[box + 1][row + 1][column + 1]

RoundFunc(r, k, leftFirst) ==
    LET expended == Xor(Permute(48, kE, r), k, 48)
        boxes == [box \in 0 .. 7 |-> SBox(box, expended, leftFirst)]
        tmp == [i \in 0 .. 31 |-> BitOf(boxes[i \div 4], i % 4)]
    IN  Permute(32, kP, tmp)

------------------------------------------------------------------------------
VARIABLES
    leftFirst,   (* the order in which the build evaluates the fold            *)
    password,    (* the argument of Des::Init                                 *)
    text,        (* the 8 bytes given to Des::Encrypt                         *)
    place,       (* what the object is doing                                  *)
    leftKey,     (* left_key and right_key of GenSubKey                       *)
    rightKey,
    subKeys,     (* sub_keys_, as far as they are there                       *)
    encrypting,  (* _is_encrypt of the call of Crypt                          *)
    given,       (* _text of the call of Crypt                                *)
    left,        (* left and right of Crypt                                   *)
    right,
    round,       (* the rounds that are done                                  *)
    output,      (* the bytes that the last call has put out                  *)
    pairs        (* auxiliary: left and right before and after each round of    *)
                 (* the encryption                                             *)

keyVars == <<password, leftKey, rightKey, subKeys>>
desVars == <<leftFirst, text, place, keyVars, encrypting, given, left, right, round, output, pairs>>

Places == {"init", "subKeys", "permute", "rounds", "done"}

DesInit ==
    /\ leftFirst \in BOOLEAN
    /\ password \in Passwords
    /\ text \in Texts
    /\ place = "init"
    /\ leftKey = [i \in 0 .. 27 |-> 0]
    /\ rightKey = [i \in 0 .. 27 |-> 0]
    /\ subKeys = <<>>
    /\ encrypting = TRUE
    /\ given = Bytes2Bits(text)
    /\ left = [i \in 0 .. 31 |-> 0]
    /\ right = [i \in 0 .. 31 |-> 0]
    /\ round = 0
    /\ output = text
    /\ pairs = <<>>

------------------------------------------------------------------------------
(* Des::Init: what is missing of 8 bytes is 0. *)
Key == Bytes2Bits([i \in 0 .. 7 |-> IF i < Len(password) THEN password[i + 1]
                                                        ELSE [j \in 0 .. 7 |-> 0]])

(* Des::Init and GenSubKey up to its loop. *)
InitKey ==
    LET key56 == Permute(56, kPC_1, Key)
    IN  /\ place = "init"
        /\ place' = "subKeys"
        /\ leftKey' = Half(key56, 28, 28)
        /\ rightKey' = Half(key56, 28, 0)
        /\ UNCHANGED <<leftFirst, password, text, subKeys, encrypting, given, left, right,
                       round, output, pairs>>

(* One round of GenSubKey. *)
GenSubKey ==
    LET num == kShiftBits[Len(subKeys) + 1]
    IN  /\ place = "subKeys"
        /\ Len(subKeys) < 16
        /\ leftKey' = KeyLeftShift(leftKey, num)
        /\ rightKey' = KeyLeftShift(rightKey, num)
        /\ subKeys' = Append(subKeys, Permute(48, kPC_2, Join(rightKey', leftKey', 28)))
        /\ place' = IF Len(subKeys) = 15 THEN "permute" ELSE "subKeys"
        /\ UNCHANGED <<leftFirst, password, text, encrypting, given, left, right, round,
                       output, pairs>>

(* Crypt up to its rounds. *)
PermuteIn ==
    LET temp == Permute(64, kIP, given)
    IN  /\ place = "permute"
        /\ place' = "rounds"
        /\ left' = Half(temp, 32, 32)
        /\ right' = Half(temp, 32, 0)
        /\ round' = 0
        /\ pairs' = IF encrypting THEN <<<<left', right'>>>> ELSE pairs
        /\ UNCHANGED <<leftFirst, text, keyVars, encrypting, given, output>>

(* A mutated form: the subkeys are used in the same order for both. *)
SubKeyNeverReversed(n) == subKeys[n + 1]

(* The subkey of the round after n rounds. *)
SubKey(n) == IF encrypting THEN subKeys[n + 1] ELSE subKeys[16 - n]

(* One of the 16 rounds of Crypt. *)
Round ==
    /\ place = "rounds"
    /\ round < 16
    /\ left' = right
    /\ right' = Xor(left, RoundFunc(right, SubKey(round), leftFirst), 32)
    /\ round' = round + 1
    /\ pairs' = IF encrypting THEN Append(pairs, <<left', right'>>) ELSE pairs
    /\ UNCHANGED <<leftFirst, text, place, keyVars, encrypting, given, output>>

(* The end of Crypt, and the call of Decrypt after that of Encrypt. *)
PermuteOut ==
    /\ place = "rounds"
    /\ round = 16
    /\ output' = StoredBytes(Permute(64, kIP_1, Join(left, right, 32)))
    /\ IF encrypting
       THEN place' = "permute" /\ encrypting' = FALSE /\ given' = Bytes2Bits(output')
       ELSE place' = "done" /\ UNCHANGED <<encrypting, given>>
    /\ UNCHANGED <<leftFirst, text, keyVars, left, right, round, pairs>>

DesNext == InitKey \/ GenSubKey \/ PermuteIn \/ Round \/ PermuteOut

DesSpec == DesInit /\ [][DesNext]_desVars

------------------------------------------------------------------------------
DesTypeOK ==
    /\ leftFirst \in BOOLEAN /\ encrypting \in BOOLEAN
    /\ password \in Passwords /\ text \in Texts /\ output \in [0 .. 7 -> Byte]
    /\ place \in Places
    /\ leftKey \in Bitset(28) /\ rightKey \in Bitset(28)
    /\ subKeys \in Seq(Bitset(48)) /\ Len(subKeys) <= 16
    /\ given \in Bitset(64)
    /\ left \in Bitset(32) /\ right \in Bitset(32)
    /\ round \in 0 .. 16
    /\ pairs \in Seq(Bitset(32) \X Bitset(32))

(* Decrypt gives back the text that Encrypt was given, whatever weights the     *)
(* build gives to the bits that choose in the boxes: the halves that the rounds  *)
(* leave are exchanged between the two permutations, and the subkeys reversed.   *)
DecryptUndoesEncrypt == place = "done" => output = text

(* A subkey is the key seen from further round: the halves only turn, lose no   *)
(* bit on the way, and after 16 rounds are where they were.                     *)
KeyBit(turn, j) ==
    IF j < 28 THEN Key[kPC_1[((j - turn) % 28) + 1] - 1]
              ELSE Key[kPC_1[((j - 28 - turn) % 28) + 29] - 1]
SubKeysAreTurnedKeys ==
    /\ \A n \in 1 .. Len(subKeys) :
           LET turn == FoldLeft(+, 0, SubSeq(kShiftBits, 1, n))
           IN  subKeys[n] = [j \in 0 .. 47 |-> KeyBit(turn, kPC_2[j + 1] - 1)]
    /\ Len(subKeys) = 16 =>
           \A i \in 0 .. 27 : rightKey[i] = KeyBit(0, i) /\ leftKey[i] = KeyBit(0, i + 28)

==============================================================================
