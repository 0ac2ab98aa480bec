------------------------------ MODULE DesProofs ------------------------------
(* Proofs about Des: decryption undoes encryption for every password and text,  *)
(* and the subkeys are the key seen from further round.                          *)
EXTENDS Des, DataInduction, TLAPS

(* Left and right after the initial permutation of what is given to Crypt.      *)
Halves(b) == <<Half(Permute(64, kIP, b), 32, 32), Half(Permute(64, kIP, b), 32, 0)>>

(* What Crypt puts out when its rounds have ended with these halves. *)
Outcome(l, r) == Permute(64, kIP_1, Join(l, r, 32))

(* The halves after a round with subkey k. *)
HalfPair == Bitset(32) \X Bitset(32)
Turned(p, k, l) == <<p[2], Xor(p[1], RoundFunc(p[2], k, l), 32)>>

(* The subkeys are there before Crypt is called. *)
KeysComeFirst ==
    /\ place = "init" => Len(subKeys) = 0
    /\ place = "subKeys" => Len(subKeys) < 16
    /\ place \in {"permute", "rounds", "done"} => Len(subKeys) = 16
    /\ place \in {"init", "subKeys"} => encrypting
    /\ place = "done" => ~encrypting

(* The rounds of the encryption, as far as they are done. *)
Forward ==
    /\ encrypting => given = Bytes2Bits(text)
    /\ encrypting /\ place = "rounds" =>
           Len(pairs) = round + 1 /\ pairs[round + 1] = <<left, right>>
    /\ pairs # <<>> => pairs[1] = Halves(Bytes2Bits(text))
    /\ encrypting /\ place # "rounds" => pairs = <<>>
    /\ \A n \in 1 .. Len(pairs) - 1 :
           n <= 16 /\ pairs[n + 1] = Turned(pairs[n], subKeys[n], leftFirst)

(* The rounds of the decryption go through the same halves backwards. *)
Backward ==
    ~encrypting =>
        /\ Len(pairs) = 17
        /\ given = Outcome(pairs[17][1], pairs[17][2])
        /\ place = "rounds" => pairs[17 - round] = <<right, left>>
        /\ place = "done" => output = text

DesInv == DesTypeOK /\ KeysComeFirst /\ Forward /\ Backward

------------------------------------------------------------------------------
(* The tables. *)

(* The two permutations are inverse to each other. *)
LEMMA PermutationsAreInverse ==
    \A i \in 1 .. 64 : /\ kIP[i] \in 1 .. 64 /\ kIP_1[i] \in 1 .. 64
                       /\ kIP[kIP_1[i]] = i /\ kIP_1[kIP[i]] = i
  <1>1. \A i \in 1 .. 64 : kIP[i] \in 1 .. 64 /\ kIP_1[i] \in 1 .. 64
    BY SMTT(60) DEF kIP, kIP_1
  <1>2. \A i \in 1 .. 64 : kIP[kIP_1[i]] = i
    BY SMTT(60) DEF kIP, kIP_1
  <1>3. \A i \in 1 .. 64 : kIP_1[kIP[i]] = i
    BY SMTT(60) DEF kIP, kIP_1
  <1> QED BY <1>1, <1>2, <1>3

(* The other tables name bits that are there. *)
LEMMA TablesAreTyped ==
    /\ \A i \in 1 .. 56 : kPC_1[i] \in 1 .. 64
    /\ \A i \in 1 .. 48 : kPC_2[i] \in 1 .. 56
    /\ \A i \in 1 .. 32 : kP[i] \in 1 .. 32
    /\ \A i \in 1 .. 16 : kShiftBits[i] \in 1 .. 2
  <1>1. \A i \in 1 .. 56 : kPC_1[i] \in 1 .. 64
    BY SMTT(60) DEF kPC_1
  <1>2. \A i \in 1 .. 48 : kPC_2[i] \in 1 .. 56
    BY SMTT(60) DEF kPC_2
  <1>3. \A i \in 1 .. 32 : kP[i] \in 1 .. 32
    BY SMTT(60) DEF kP
  <1>4. \A i \in 1 .. 16 : kShiftBits[i] \in 1 .. 2
    BY SMTT(60) DEF kShiftBits
  <1> QED BY <1>1, <1>2, <1>3, <1>4

------------------------------------------------------------------------------
(* The operations on bitsets. *)

LEMMA XorTwice ==
    ASSUME NEW n \in Nat, NEW a \in Bitset(n), NEW b \in Bitset(n)
    PROVE  Xor(a, b, n) \in Bitset(n) /\ Xor(Xor(a, b, n), b, n) = a
  <1>1. ASSUME NEW i \in 0 .. n - 1
        PROVE  Xor(a, b, n)[i] \in Bit /\ Xor(Xor(a, b, n), b, n)[i] = a[i]
    BY DEF Xor, Bitset, Bit
  <1>2. Xor(a, b, n) \in Bitset(n)
    BY <1>1 DEF Xor, Bitset, Bit
  <1>3. Xor(Xor(a, b, n), b, n) = a
    <2> DEFINE c == Xor(Xor(a, b, n), b, n)
    <2>1. DOMAIN c = 0 .. n - 1 /\ c = [i \in 0 .. n - 1 |-> c[i]]
      BY DEF Xor
    <2>2. a = [i \in 0 .. n - 1 |-> a[i]]
      BY DEF Bitset
    <2>3. \A i \in 0 .. n - 1 : c[i] = a[i]
      BY <1>1
    <2> HIDE DEF c
    <2>4. c = a
      BY <2>1, <2>2, <2>3
    <2> QED BY <2>4 DEF c
  <1> QED BY <1>2, <1>3

(* The round function gives bits, whatever the boxes hold. *)
LEMMA RoundFuncTyped ==
    ASSUME NEW r, NEW k, NEW l
    PROVE  RoundFunc(r, k, l) \in Bitset(32)
  <1> DEFINE expended == Xor(Permute(48, kE, r), k, 48)
             boxes == [box \in 0 .. 7 |-> SBox(box, expended, l)]
             tmp == [i \in 0 .. 31 |-> BitOf(boxes[i \div 4], i % 4)]
  <1>1. \A i \in 0 .. 31 : tmp[i] \in Bit
    BY DEF BitOf, Bit
  <1>2. RoundFunc(r, k, l) = [i \in 0 .. 31 |-> tmp[kP[i + 1] - 1]]
    BY DEF RoundFunc, Permute
  <1> HIDE DEF tmp
  <1>3. \A i \in 0 .. 31 : kP[i + 1] - 1 \in 0 .. 31
    BY TablesAreTyped
  <1>4. \A i \in 0 .. 31 : tmp[kP[i + 1] - 1] \in Bit
    BY <1>1, <1>3
  <1> QED BY <1>2, <1>4 DEF Bitset

(* The permutation at the end undoes the one at the start, and the other way.    *)
LEMMA PermuteTwice ==
    ASSUME NEW b \in Bitset(64)
    PROVE  /\ Permute(64, kIP, b) \in Bitset(64) /\ Permute(64, kIP_1, b) \in Bitset(64)
           /\ Permute(64, kIP_1, Permute(64, kIP, b)) = b
           /\ Permute(64, kIP, Permute(64, kIP_1, b)) = b
  <1>1. \A i \in 0 .. 63 : /\ kIP[i + 1] - 1 \in 0 .. 63 /\ kIP_1[i + 1] - 1 \in 0 .. 63
                           /\ kIP[(kIP_1[i + 1] - 1) + 1] - 1 = i
                           /\ kIP_1[(kIP[i + 1] - 1) + 1] - 1 = i
    <2>1. ASSUME NEW i \in 0 .. 63
          PROVE  /\ kIP[i + 1] - 1 \in 0 .. 63 /\ kIP_1[i + 1] - 1 \in 0 .. 63
                 /\ kIP[(kIP_1[i + 1] - 1) + 1] - 1 = i
                 /\ kIP_1[(kIP[i + 1] - 1) + 1] - 1 = i
      <3>1. i + 1 \in 1 .. 64
        OBVIOUS
      <3>2. /\ kIP[i + 1] \in 1 .. 64 /\ kIP_1[i + 1] \in 1 .. 64
            /\ kIP[kIP_1[i + 1]] = i + 1 /\ kIP_1[kIP[i + 1]] = i + 1
        BY <3>1, PermutationsAreInverse
      <3>3. (kIP_1[i + 1] - 1) + 1 = kIP_1[i + 1] /\ (kIP[i + 1] - 1) + 1 = kIP[i + 1]
        BY <3>2
      <3> QED BY <3>2, <3>3
    <2> QED BY <2>1
  <1>2. b \in [0 .. 63 -> Bit] /\ b = [i \in 0 .. 63 |-> b[i]]
    BY DEF Bitset
  <1>3. /\ Permute(64, kIP, b) = [i \in 0 .. 63 |-> b[kIP[i + 1] - 1]]
        /\ Permute(64, kIP_1, b) = [i \in 0 .. 63 |-> b[kIP_1[i + 1] - 1]]
    BY DEF Permute
  <1>4. Permute(64, kIP, b) \in Bitset(64) /\ Permute(64, kIP_1, b) \in Bitset(64)
    BY <1>1, <1>2, <1>3 DEF Bitset
  <1>5. Permute(64, kIP_1, Permute(64, kIP, b)) = b
    <2>1. Permute(64, kIP_1, Permute(64, kIP, b)) =
             [i \in 0 .. 63 |-> b[kIP[(kIP_1[i + 1] - 1) + 1] - 1]]
      BY <1>1, <1>3 DEF Permute
    <2> QED BY <1>1, <1>2, <2>1
  <1>6. Permute(64, kIP, Permute(64, kIP_1, b)) = b
    <2>1. Permute(64, kIP, Permute(64, kIP_1, b)) =
             [i \in 0 .. 63 |-> b[kIP_1[(kIP[i + 1] - 1) + 1] - 1]]
      BY <1>1, <1>3 DEF Permute
    <2> QED BY <1>1, <1>2, <2>1
  <1> QED BY <1>4, <1>5, <1>6

(* A bitset taken apart and put together. *)
LEMMA JoinHalves ==
    ASSUME NEW b \in Bitset(64)
    PROVE  /\ Half(b, 32, 0) \in Bitset(32) /\ Half(b, 32, 32) \in Bitset(32)
           /\ Join(Half(b, 32, 0), Half(b, 32, 32), 32) = b
  <1>1. b \in [0 .. 63 -> Bit] /\ b = [i \in 0 .. 63 |-> b[i]]
    BY DEF Bitset
  <1>2. Half(b, 32, 0) \in Bitset(32) /\ Half(b, 32, 32) \in Bitset(32)
    BY <1>1 DEF Half, Bitset
  <1>3. ASSUME NEW i \in 0 .. 63
        PROVE  Join(Half(b, 32, 0), Half(b, 32, 32), 32)[i] = b[i]
    <2>1. CASE i < 32
      <3>1. i \in 0 .. 31 /\ 0 + i = i
        BY <2>1
      <3> QED BY <2>1, <3>1 DEF Join, Half
    <2>2. CASE ~(i < 32)
      <3>1. i - 32 \in 0 .. 31 /\ 32 + (i - 32) = i
        BY <2>2
      <3> QED BY <2>2, <3>1 DEF Join, Half
    <2> QED BY <2>1, <2>2
  <1>4. Join(Half(b, 32, 0), Half(b, 32, 32), 32) = b
    <2> DEFINE c == Join(Half(b, 32, 0), Half(b, 32, 32), 32)
    <2>1. c = [i \in 0 .. 63 |-> c[i]]
      BY DEF Join
    <2>2. \A i \in 0 .. 63 : c[i] = b[i]
      BY <1>3
    <2> HIDE DEF c
    <2>3. c = b
      BY <1>1, <2>1, <2>2
    <2> QED BY <2>3 DEF c
  <1> QED BY <1>2, <1>4

LEMMA HalvesOfJoin ==
    ASSUME NEW l \in Bitset(32), NEW h \in Bitset(32)
    PROVE  /\ Join(l, h, 32) \in Bitset(64)
           /\ Half(Join(l, h, 32), 32, 0) = l /\ Half(Join(l, h, 32), 32, 32) = h
  <1>1. /\ l \in [0 .. 31 -> Bit] /\ l = [i \in 0 .. 31 |-> l[i]]
        /\ h \in [0 .. 31 -> Bit] /\ h = [i \in 0 .. 31 |-> h[i]]
    BY DEF Bitset
  <1> DEFINE c == Join(l, h, 32)
  <1>2. c = [i \in 0 .. 63 |-> IF i < 32 THEN l[i] ELSE h[i - 32]]
    BY DEF Join
  <1>3. \A i \in 0 .. 63 : c[i] \in Bit
    <2>1. ASSUME NEW i \in 0 .. 63 PROVE c[i] \in Bit
      <3>1. CASE i < 32
        BY <1>1, <1>2, <3>1
      <3>2. CASE ~(i < 32)
        <4>1. i - 32 \in 0 .. 31
          BY <3>2
        <4> QED BY <1>1, <1>2, <3>2, <4>1
      <3> QED BY <3>1, <3>2
    <2> QED BY <2>1
  <1>4. \A i \in 0 .. 31 : c[0 + i] = l[i] /\ c[32 + i] = h[i]
    <2>1. ASSUME NEW i \in 0 .. 31 PROVE c[0 + i] = l[i] /\ c[32 + i] = h[i]
      <3>1. 0 + i = i /\ i \in 0 .. 63 /\ i < 32
        OBVIOUS
      <3>2. 32 + i \in 0 .. 63 /\ ~(32 + i < 32) /\ (32 + i) - 32 = i
        OBVIOUS
      <3> QED BY <1>2, <3>1, <3>2
    <2> QED BY <2>1
  <1> HIDE DEF c
  <1>5. c \in Bitset(64)
    BY <1>2, <1>3 DEF Bitset
  <1>6. Half(c, 32, 0) = l /\ Half(c, 32, 32) = h
    BY <1>1, <1>4 DEF Half
  <1> QED BY <1>5, <1>6 DEF c

(* Eight bytes and 64 bits are the same. *)
LEMMA BytesAreBits ==
    ASSUME NEW c \in [0 .. 7 -> Byte]
    PROVE  Bytes2Bits(c) \in Bitset(64) /\ StoredBytes(Bytes2Bits(c)) = c
  <1>1. \A i \in 0 .. 7 : c[i] \in [0 .. 7 -> Bit]
    BY DEF Byte, Bitset
  <1>2. \A n \in 0 .. 63 : n \div 8 \in 0 .. 7 /\ n % 8 \in 0 .. 7
    OBVIOUS
  <1>3. Bytes2Bits(c) \in Bitset(64)
    BY <1>1, <1>2 DEF Bytes2Bits, Bitset
  <1>4. \A i, j \in 0 .. 7 : /\ 8 * i + j \in 0 .. 63
                             /\ (8 * i + j) \div 8 = i /\ (8 * i + j) % 8 = j
    OBVIOUS
  <1>5. StoredBytes(Bytes2Bits(c)) = [i \in 0 .. 7 |-> [j \in 0 .. 7 |-> c[i][j]]]
    BY <1>4 DEF StoredBytes, Bytes2Bits
  <1>6. \A i \in 0 .. 7 : [j \in 0 .. 7 |-> c[i][j]] = c[i]
    BY <1>1
  <1>7. [i \in 0 .. 7 |-> c[i]] = c
    OBVIOUS
  <1> QED BY <1>3, <1>5, <1>6, <1>7

LEMMA BitsAreBytes ==
    ASSUME NEW b \in Bitset(64)
    PROVE  StoredBytes(b) \in [0 .. 7 -> Byte] /\ Bytes2Bits(StoredBytes(b)) = b
  <1>1. b \in [0 .. 63 -> Bit] /\ b = [n \in 0 .. 63 |-> b[n]]
    BY DEF Bitset
  <1>2. \A i, j \in 0 .. 7 : 8 * i + j \in 0 .. 63
    OBVIOUS
  <1>3. \A n \in 0 .. 63 : /\ n \div 8 \in 0 .. 7 /\ n % 8 \in 0 .. 7
                           /\ 8 * (n \div 8) + (n % 8) = n
    OBVIOUS
  <1>4. StoredBytes(b) \in [0 .. 7 -> Byte]
    BY <1>1, <1>2 DEF StoredBytes, Byte, Bitset
  <1>5. Bytes2Bits(StoredBytes(b)) = [n \in 0 .. 63 |-> b[8 * (n \div 8) + (n % 8)]]
    BY <1>3 DEF Bytes2Bits, StoredBytes
  <1>6. Bytes2Bits(StoredBytes(b)) = [n \in 0 .. 63 |-> b[n]]
    BY <1>3, <1>5
  <1> QED BY <1>1, <1>4, <1>6

(* What Crypt puts out, given to Crypt, comes out of the first permutation with   *)
(* its halves exchanged.                                                        *)
LEMMA OutcomeFacts ==
    ASSUME NEW l \in Bitset(32), NEW r \in Bitset(32)
    PROVE  Outcome(l, r) \in Bitset(64) /\ Halves(Outcome(l, r)) = <<r, l>>
  <1> DEFINE c == Join(l, r, 32)
  <1>1. c \in Bitset(64) /\ Half(c, 32, 0) = l /\ Half(c, 32, 32) = r
    BY HalvesOfJoin
  <1> HIDE DEF c
  <1>2. Outcome(l, r) = Permute(64, kIP_1, c)
    BY DEF Outcome, c
  <1>3. Permute(64, kIP_1, c) \in Bitset(64) /\ Permute(64, kIP, Permute(64, kIP_1, c)) = c
    BY <1>1, PermuteTwice
  <1> QED BY <1>1, <1>2, <1>3 DEF Halves

(* Halves that are put together in the other order give what they are halves of. *)
LEMMA HalvesFacts ==
    ASSUME NEW b \in Bitset(64)
    PROVE  /\ Halves(b)[1] \in Bitset(32) /\ Halves(b)[2] \in Bitset(32)
           /\ Outcome(Halves(b)[2], Halves(b)[1]) = b
  <1> DEFINE c == Permute(64, kIP, b)
  <1>1. c \in Bitset(64) /\ Permute(64, kIP_1, c) = b
    BY PermuteTwice
  <1>2. Halves(b) = <<Half(c, 32, 32), Half(c, 32, 0)>>
    BY DEF Halves
  <1> HIDE DEF c
  <1>3. /\ Half(c, 32, 0) \in Bitset(32) /\ Half(c, 32, 32) \in Bitset(32)
        /\ Join(Half(c, 32, 0), Half(c, 32, 32), 32) = c
    BY <1>1, JoinHalves
  <1> QED BY <1>1, <1>2, <1>3 DEF Outcome

(* The subkeys are bits of the halves of the key. *)
LEMMA KeyTyped ==
    ASSUME password \in Passwords
    PROVE  /\ Half(Permute(56, kPC_1, Key), 28, 28) \in Bitset(28)
           /\ Half(Permute(56, kPC_1, Key), 28, 0) \in Bitset(28)
  <1>1. password \in Seq(Byte) /\ Len(password) <= 8
    BY DesAssumption
  <1> DEFINE c == [i \in 0 .. 7 |-> IF i < Len(password) THEN password[i + 1]
                                                        ELSE [j \in 0 .. 7 |-> 0]]
  <1>2. c \in [0 .. 7 -> Byte]
    <2>1. ASSUME NEW i \in 0 .. 7 PROVE c[i] \in Byte
      <3>1. CASE i < Len(password)
        <4>1. i + 1 \in 1 .. Len(password)
          BY <1>1, <3>1
        <4> QED BY <1>1, <3>1, <4>1
      <3>2. CASE ~(i < Len(password))
        BY <3>2 DEF Byte, Bitset, Bit
      <3> QED BY <3>1, <3>2
    <2> QED BY <2>1
  <1>3. Key = Bytes2Bits(c)
    BY DEF Key
  <1> HIDE DEF c
  <1>4. Key \in [0 .. 63 -> Bit]
    BY <1>2, <1>3, BytesAreBits DEF Bitset
  <1>5. \A i \in 0 .. 55 : kPC_1[i + 1] - 1 \in 0 .. 63
    BY TablesAreTyped
  <1> DEFINE d == Permute(56, kPC_1, Key)
  <1>6. d \in [0 .. 55 -> Bit]
    <2>1. d = [i \in 0 .. 55 |-> Key[kPC_1[i + 1] - 1]]
      BY DEF Permute
    <2>2. \A i \in 0 .. 55 : Key[kPC_1[i + 1] - 1] \in Bit
      BY <1>4, <1>5
    <2> HIDE DEF d
    <2> QED BY <2>1, <2>2
  <1> HIDE DEF d
  <1>7. Half(d, 28, 28) \in Bitset(28) /\ Half(d, 28, 0) \in Bitset(28)
    BY <1>6 DEF Half, Bitset
  <1> QED BY <1>7 DEF d

LEMMA ShiftTyped ==
    ASSUME NEW k \in Bitset(28), NEW num \in 1 .. 2
    PROVE  KeyLeftShift(k, num) \in Bitset(28)
  <1>1. ASSUME NEW i \in 0 .. 27 PROVE KeyLeftShift(k, num)[i] \in Bit
    <2>1. CASE i >= num
      <3>1. i - num \in 0 .. 27
        BY <2>1
      <3> QED BY <2>1, <3>1 DEF KeyLeftShift, Bitset
    <2>2. CASE ~(i >= num)
      <3>1. 28 - num + i \in 0 .. 27
        BY <2>2
      <3> QED BY <2>2, <3>1 DEF KeyLeftShift, Bitset
    <2> QED BY <2>1, <2>2
  <1> QED BY <1>1 DEF KeyLeftShift, Bitset

LEMMA SubKeyTyped ==
    ASSUME NEW l \in Bitset(28), NEW h \in Bitset(28)
    PROVE  Permute(48, kPC_2, Join(l, h, 28)) \in Bitset(48)
  <1>1. ASSUME NEW i \in 0 .. 55 PROVE Join(l, h, 28)[i] \in Bit
    <2>1. CASE i < 28
      BY <2>1 DEF Join, Bitset
    <2>2. CASE ~(i < 28)
      <3>1. i - 28 \in 0 .. 27
        BY <2>2
      <3> QED BY <2>2, <3>1 DEF Join, Bitset
    <2> QED BY <2>1, <2>2
  <1>2. \A i \in 0 .. 47 : kPC_2[i + 1] - 1 \in 0 .. 55
    BY TablesAreTyped
  <1> DEFINE c == Join(l, h, 28)
  <1>3. Permute(48, kPC_2, c) = [i \in 0 .. 47 |-> c[kPC_2[i + 1] - 1]]
    BY DEF Permute
  <1>4. \A i \in 0 .. 47 : c[kPC_2[i + 1] - 1] \in Bit
    BY <1>1, <1>2
  <1> HIDE DEF c
  <1>5. Permute(48, kPC_2, c) \in Bitset(48)
    BY <1>3, <1>4 DEF Bitset
  <1> QED BY <1>5 DEF c

------------------------------------------------------------------------------
(* The invariant. *)

LEMMA DesInitInv ==
    ASSUME DesInit
    PROVE  DesInv
  <1>1. text \in [0 .. 7 -> Byte]
    BY DesAssumption DEF DesInit
  <1>2. given \in Bitset(64) /\ given = Bytes2Bits(text)
    BY <1>1, BytesAreBits DEF DesInit
  <1>3. /\ leftKey \in Bitset(28) /\ rightKey \in Bitset(28)
        /\ left \in Bitset(32) /\ right \in Bitset(32)
    BY DEF DesInit, Bitset, Bit
  <1>4. DesTypeOK
    BY <1>1, <1>2, <1>3 DEF DesInit, DesTypeOK, Places
  <1> QED BY <1>2, <1>4 DEF DesInit, DesInv, KeysComeFirst, Forward, Backward

(* The recorded halves are halves. *)
LEMMA PairsTyped ==
    ASSUME DesTypeOK
    PROVE  pairs \in Seq(HalfPair) /\ \A n \in 1 .. Len(pairs) : pairs[n] \in HalfPair
  <1>1. pairs \in Seq(HalfPair)
    BY DEF DesTypeOK, HalfPair
  <1> QED BY <1>1

LEMMA HalfPairFacts ==
    /\ \A l, h \in Bitset(32) : <<l, h>> \in HalfPair
    /\ \A p \in HalfPair : p[1] \in Bitset(32) /\ p[2] \in Bitset(32) /\ p = <<p[1], p[2]>>
  BY DEF HalfPair

LEMMA InitKeyInv ==
    ASSUME DesInv, InitKey
    PROVE  DesInv'
  <1>1. leftKey' \in Bitset(28) /\ rightKey' \in Bitset(28)
    BY KeyTyped DEF InitKey, DesInv, DesTypeOK
  <1>2. DesTypeOK'
    BY <1>1 DEF InitKey, DesInv, DesTypeOK, Places
  <1>3. KeysComeFirst'
    BY DEF InitKey, DesInv, KeysComeFirst
  <1>4. Forward' /\ Backward'
    BY DEF InitKey, DesInv, Forward, Backward, KeysComeFirst
  <1> QED BY <1>2, <1>3, <1>4 DEF DesInv

LEMMA GenSubKeyInv ==
    ASSUME DesInv, GenSubKey
    PROVE  DesInv'
  <1>1. /\ leftKey \in Bitset(28) /\ rightKey \in Bitset(28)
        /\ subKeys \in Seq(Bitset(48)) /\ Len(subKeys) < 16 /\ Len(subKeys) \in Nat
    BY DEF DesInv, DesTypeOK, GenSubKey
  <1>2. kShiftBits[Len(subKeys) + 1] \in 1 .. 2
    <2>1. Len(subKeys) + 1 \in 1 .. 16
      BY <1>1
    <2> QED BY <2>1, TablesAreTyped
  <1>3. leftKey' \in Bitset(28) /\ rightKey' \in Bitset(28)
    BY <1>1, <1>2, ShiftTyped DEF GenSubKey
  <1>4. PICK k \in Bitset(48) : subKeys' = Append(subKeys, k)
    <2>1. Permute(48, kPC_2, Join(rightKey', leftKey', 28)) \in Bitset(48)
      BY <1>3, SubKeyTyped
    <2> QED BY <2>1 DEF GenSubKey
  <1>5. subKeys' \in Seq(Bitset(48)) /\ Len(subKeys') = Len(subKeys) + 1
    BY <1>1, <1>4
  <1>6. DesTypeOK'
    BY <1>1, <1>3, <1>5 DEF DesInv, DesTypeOK, GenSubKey, Places
  <1>7. KeysComeFirst'
    <2>1. /\ place = "subKeys" /\ UNCHANGED encrypting
          /\ place' = IF Len(subKeys) = 15 THEN "permute" ELSE "subKeys"
      BY DEF GenSubKey
    <2>2. encrypting
      BY <2>1 DEF DesInv, KeysComeFirst
    <2>3. \A n \in Nat : n < 16 => IF n = 15 THEN n + 1 = 16 ELSE n + 1 < 16
      OBVIOUS
    <2>4. IF Len(subKeys) = 15 THEN Len(subKeys') = 16 ELSE Len(subKeys') < 16
      BY <1>1, <1>5, <2>3
    <2> QED BY <2>1, <2>2, <2>4 DEF KeysComeFirst
  <1>8. /\ place = "subKeys" /\ place' \in {"subKeys", "permute"}
        /\ UNCHANGED <<leftFirst, text, encrypting, given, pairs, output, round>>
    BY DEF GenSubKey
  <1>9. encrypting
    BY <1>8 DEF DesInv, KeysComeFirst
  <1>10. pairs = <<>> /\ given = Bytes2Bits(text)
    BY <1>8, <1>9 DEF DesInv, Forward
  <1>11. Forward' /\ Backward'
    BY <1>8, <1>9, <1>10 DEF Forward, Backward
  <1> QED BY <1>6, <1>7, <1>11 DEF DesInv

LEMMA PermuteInInv ==
    ASSUME DesInv, PermuteIn
    PROVE  DesInv'
  <1>1. /\ given \in Bitset(64) /\ place = "permute" /\ place' = "rounds" /\ round' = 0
        /\ UNCHANGED <<leftFirst, text, keyVars, encrypting, given, output>>
        /\ pairs' = IF encrypting THEN <<<<left', right'>>>> ELSE pairs
    BY DEF DesInv, DesTypeOK, PermuteIn
  <1>2. left' = Halves(given)[1] /\ right' = Halves(given)[2]
    BY DEF PermuteIn, Halves
  <1>3. left' \in Bitset(32) /\ right' \in Bitset(32)
    BY <1>1, <1>2, HalvesFacts
  <1>4. DesTypeOK'
    <2>1. pairs' \in Seq(HalfPair)
      <3>1. <<left', right'>> \in HalfPair /\ pairs \in Seq(HalfPair)
        BY <1>3, HalfPairFacts, PairsTyped DEF DesInv
      <3> QED BY <1>1, <3>1
    <2> QED BY <1>1, <1>3, <2>1 DEF DesInv, DesTypeOK, Places, keyVars, HalfPair
  <1>5. KeysComeFirst'
    BY <1>1 DEF DesInv, KeysComeFirst, keyVars
  <1>6. Forward'
    <2>1. CASE encrypting
      <3>1. pairs' = <<Halves(given)>> /\ given = Bytes2Bits(text)
        BY <1>1, <1>2, <2>1 DEF DesInv, Forward, Halves
      <3>2. Len(pairs') = 1 /\ pairs'[1] = Halves(given) /\ pairs'[1] = <<left', right'>>
        BY <1>1, <2>1, <3>1
      <3> QED BY <1>1, <2>1, <3>1, <3>2 DEF Forward
    <2>2. CASE ~encrypting
      BY <1>1, <2>2 DEF DesInv, Forward, keyVars
    <2> QED BY <2>1, <2>2
  <1>7. Backward'
    <2>1. ASSUME ~encrypting PROVE pairs'[17 - round'] = <<right', left'>>
      <3>1. pairs' = pairs /\ Len(pairs) = 17 /\ given = Outcome(pairs[17][1], pairs[17][2])
        BY <1>1, <2>1 DEF DesInv, Backward
      <3>2. pairs[17] \in HalfPair
        BY <3>1, PairsTyped DEF DesInv
      <3>3. Halves(given) = <<pairs[17][2], pairs[17][1]>>
        BY <3>1, <3>2, HalfPairFacts, OutcomeFacts
      <3>4. pairs[17] = <<right', left'>>
        BY <1>2, <3>2, <3>3, HalfPairFacts
      <3> QED BY <1>1, <3>1, <3>4
    <2> QED BY <1>1, <2>1 DEF DesInv, Backward
  <1> QED BY <1>4, <1>5, <1>6, <1>7 DEF DesInv

LEMMA RoundInv ==
    ASSUME DesInv, Round
    PROVE  DesInv'
  <1>1. /\ place = "rounds" /\ round \in 0 .. 15 /\ left' = right /\ round' = round + 1
        /\ UNCHANGED <<leftFirst, text, place, keyVars, encrypting, given, output>>
        /\ pairs' = IF encrypting THEN Append(pairs, <<left', right'>>) ELSE pairs
        /\ left \in Bitset(32) /\ right \in Bitset(32)
    BY DEF DesInv, DesTypeOK, Round
  <1>2. /\ pairs \in Seq(HalfPair) /\ Len(pairs) \in Nat
        /\ \A n \in 1 .. Len(pairs) : pairs[n] \in HalfPair
    BY PairsTyped DEF DesInv
  <1> DEFINE f(n, half) == RoundFunc(half, subKeys[n], leftFirst)
             turned(p, n) == Turned(p, subKeys[n], leftFirst)
  <1>3. right' = Xor(left, f(IF encrypting THEN round + 1 ELSE 16 - round, right), 32)
    BY <1>1 DEF Round, SubKey
  <1>4. \A n, half : f(n, half) \in Bitset(32)
    BY RoundFuncTyped
  <1>5. \A p, n : turned(p, n) = <<p[2], Xor(p[1], f(n, p[2]), 32)>>
    BY DEF Turned
  <1>6. \A n \in 1 .. Len(pairs) - 1 : n <= 16 /\ pairs[n + 1] = turned(pairs[n], n)
    BY DEF DesInv, Forward
  <1>7. subKeys' = subKeys /\ leftFirst' = leftFirst
    BY <1>1 DEF keyVars
  <1> HIDE DEF f
  <1>8. right' \in Bitset(32)
    BY <1>1, <1>3, <1>4, XorTwice
  <1>9. DesTypeOK'
    <2>1. pairs' \in Seq(HalfPair)
      <3>1. <<left', right'>> \in HalfPair
        BY <1>1, <1>8, HalfPairFacts
      <3> QED BY <1>1, <1>2, <3>1
    <2> QED BY <1>1, <1>8, <2>1 DEF DesInv, DesTypeOK, keyVars, HalfPair
  <1>10. KeysComeFirst'
    BY <1>1 DEF DesInv, KeysComeFirst, keyVars
  <1>11. CASE encrypting
    <2>1. Len(pairs) = round + 1 /\ pairs[round + 1] = <<left, right>>
      BY <1>1, <1>11 DEF DesInv, Forward
    <2>2. /\ Len(pairs') = round + 2 /\ pairs'[round + 2] = <<left', right'>>
          /\ \A n \in 1 .. round + 1 : pairs'[n] = pairs[n]
      <3> DEFINE new == <<left', right'>>
      <3>1. new \in HalfPair /\ pairs' = Append(pairs, new)
        BY <1>1, <1>8, <1>11, HalfPairFacts
      <3> HIDE DEF new
      <3>2. Len(pairs') = round + 2 /\ pairs'[round + 2] = new
        <4>1. Len(pairs') = Len(pairs) + 1 /\ pairs'[Len(pairs) + 1] = new
          BY <1>2, <3>1
        <4>2. Len(pairs) + 1 = round + 2
          BY <1>1, <2>1
        <4> QED BY <4>1, <4>2
      <3>3. \A n \in 1 .. round + 1 : pairs'[n] = pairs[n]
        BY <1>1, <1>2, <2>1, <3>1
      <3> QED BY <3>2, <3>3 DEF new
    <2>3. <<left', right'>> = turned(<<left, right>>, round + 1)
      <3>1. right' = Xor(left, f(round + 1, right), 32)
        BY <1>3, <1>11
      <3>2. turned(<<left, right>>, round + 1) = <<right, Xor(left, f(round + 1, right), 32)>>
        BY <1>5
      <3> QED BY <1>1, <3>1, <3>2
    <2> HIDE DEF turned
    <2>4. ASSUME NEW n \in 1 .. Len(pairs') - 1
          PROVE  n <= 16 /\ pairs'[n + 1] = turned(pairs'[n], n)
      <3>1. CASE n = round + 1
        <4>1. n <= 16 /\ n + 1 = round + 2 /\ n \in 1 .. round + 1
          BY <1>1, <3>1
        <4>2. pairs'[n] = <<left, right>> /\ pairs'[n + 1] = <<left', right'>>
          BY <2>1, <2>2, <3>1, <4>1
        <4> QED BY <2>3, <3>1, <4>1, <4>2
      <3>2. CASE n # round + 1
        <4>1. n \in 1 .. Len(pairs) - 1 /\ n \in 1 .. round + 1 /\ n + 1 \in 1 .. round + 1
          BY <1>1, <2>1, <2>2, <3>2
        <4>2. n <= 16 /\ pairs[n + 1] = turned(pairs[n], n)
          BY <1>6, <4>1
        <4> QED BY <2>2, <4>1, <4>2
      <3> QED BY <3>1, <3>2
    <2>5. pairs'[1] = Halves(Bytes2Bits(text)) /\ given = Bytes2Bits(text)
      <3>1. pairs # <<>> /\ 1 \in 1 .. round + 1
        BY <1>1, <2>1
      <3> QED BY <1>11, <2>2, <3>1 DEF DesInv, Forward
    <2>6. \A n \in 1 .. Len(pairs') - 1 :
             n <= 16 /\ pairs'[n + 1] = Turned(pairs'[n], subKeys'[n], leftFirst')
      BY <1>7, <2>4 DEF turned
    <2>7. Forward'
      <3>1. Len(pairs') = round' + 1 /\ pairs'[round' + 1] = <<left', right'>>
        <4>1. round' + 1 = round + 2
          BY <1>1
        <4> QED BY <2>2, <4>1
      <3>2. place' = "rounds" /\ text' = text /\ given' = given
        BY <1>1
      <3> QED BY <2>5, <2>6, <3>1, <3>2 DEF Forward
    <2>8. Backward'
      BY <1>1, <1>11 DEF Backward
    <2> QED BY <1>9, <1>10, <2>7, <2>8 DEF DesInv
  <1>12. CASE ~encrypting
    <2>1. pairs' = pairs /\ Len(pairs) = 17 /\ pairs[17 - round] = <<right, left>>
      BY <1>1, <1>12 DEF DesInv, Backward
    <2> DEFINE n == 16 - round
               p == pairs[n]
    <2>2. n \in 1 .. 16 /\ n + 1 = 17 - round /\ n = 17 - round'
      BY <1>1
    <2> HIDE DEF n
    <2>3. p \in HalfPair /\ pairs[n + 1] = turned(p, n)
      BY <1>2, <1>6, <2>1, <2>2
    <2>4. pairs[n + 1] = <<p[2], Xor(p[1], f(n, p[2]), 32)>>
      BY <1>5, <2>3
    <2> HIDE DEF p
    <2>5. right = p[2] /\ left = Xor(p[1], f(n, p[2]), 32)
      BY <2>1, <2>2, <2>4
    <2>6. p[1] \in Bitset(32) /\ p[2] \in Bitset(32) /\ p = <<p[1], p[2]>>
      BY <2>3, HalfPairFacts
    <2>7. right' = p[1]
      <3>1. right' = Xor(left, f(n, right), 32)
        BY <1>3, <1>12 DEF n
      <3> QED BY <1>4, <2>5, <2>6, <3>1, XorTwice
    <2>8. pairs'[17 - round'] = <<right', left'>>
      BY <1>1, <2>1, <2>2, <2>5, <2>6, <2>7 DEF p
    <2>9. Forward'
      BY <1>1, <1>7, <1>12, <2>1 DEF DesInv, Forward
    <2>10. Backward'
      BY <1>1, <1>12, <2>1, <2>8 DEF DesInv, Backward
    <2> QED BY <1>9, <1>10, <2>9, <2>10 DEF DesInv
  <1> QED BY <1>11, <1>12

LEMMA PermuteOutInv ==
    ASSUME DesInv, PermuteOut
    PROVE  DesInv'
  <1>1. /\ place = "rounds" /\ round = 16
        /\ output' = StoredBytes(Outcome(left, right))
        /\ UNCHANGED <<leftFirst, text, keyVars, left, right, round, pairs>>
        /\ left \in Bitset(32) /\ right \in Bitset(32)
    BY DEF DesInv, DesTypeOK, PermuteOut, Outcome
  <1>2. Outcome(left, right) \in Bitset(64)
    BY <1>1, OutcomeFacts
  <1>3. output' \in [0 .. 7 -> Byte] /\ Bytes2Bits(output') = Outcome(left, right)
    BY <1>1, <1>2, BitsAreBytes
  <1>4. CASE encrypting
    <2>1. place' = "permute" /\ ~encrypting' /\ given' = Outcome(left, right)
      BY <1>3, <1>4 DEF PermuteOut
    <2>2. encrypting' \in BOOLEAN
      BY <1>4 DEF PermuteOut
    <2>3. DesTypeOK'
      BY <1>1, <1>2, <1>3, <2>1, <2>2 DEF DesInv, DesTypeOK, Places, keyVars
    <2>4. KeysComeFirst'
      BY <1>1, <2>1 DEF DesInv, KeysComeFirst, keyVars
    <2>5. Len(pairs) = 17 /\ pairs[17] = <<left, right>>
      BY <1>1, <1>4 DEF DesInv, Forward
    <2>6. Forward'
      BY <1>1, <2>1 DEF DesInv, Forward, keyVars
    <2>7. Backward'
      BY <1>1, <2>1, <2>5 DEF Backward
    <2> QED BY <2>3, <2>4, <2>6, <2>7 DEF DesInv
  <1>5. CASE ~encrypting
    <2>1. place' = "done" /\ UNCHANGED <<encrypting, given>>
      BY <1>5 DEF PermuteOut
    <2>2. DesTypeOK'
      BY <1>1, <1>3, <2>1 DEF DesInv, DesTypeOK, Places, keyVars
    <2>3. KeysComeFirst'
      BY <1>1, <1>5, <2>1 DEF DesInv, KeysComeFirst, keyVars
    <2>4. Forward'
      BY <1>1, <1>5, <2>1 DEF DesInv, Forward, keyVars
    <2>5. output' = text
      <3>1. Len(pairs) = 17 /\ pairs[1] = <<right, left>>
        BY <1>1, <1>5 DEF DesInv, Backward
      <3>2. pairs[1] = Halves(Bytes2Bits(text))
        <4>1. Len(pairs) = 17
          BY <3>1
        <4>2. pairs # <<>>
          BY <4>1
        <4> QED BY <4>2 DEF DesInv, Forward
      <3>3. text \in [0 .. 7 -> Byte]
        BY DesAssumption DEF DesInv, DesTypeOK
      <3>4. Outcome(left, right) = Bytes2Bits(text)
        BY <3>1, <3>2, <3>3, BytesAreBits, HalvesFacts
      <3> QED BY <1>1, <3>3, <3>4, BytesAreBits
    <2>6. Backward'
      BY <1>1, <1>5, <2>1, <2>5 DEF DesInv, Backward
    <2> QED BY <2>2, <2>3, <2>4, <2>6 DEF DesInv
  <1> QED BY <1>4, <1>5

------------------------------------------------------------------------------
(* The theorems. *)

(* The invariant of an encryption followed by a decryption. *)
THEOREM DesSafety == DesSpec => []DesInv
  <1>1. DesInit => DesInv
    BY DesInitInv
  <1>2. DesInv /\ [DesNext]_desVars => DesInv'
    <2>1. ASSUME DesInv, UNCHANGED desVars PROVE DesInv'
      BY <2>1 DEF DesInv, DesTypeOK, KeysComeFirst, Forward, Backward, desVars, keyVars
    <2> QED BY <2>1, InitKeyInv, GenSubKeyInv, PermuteInInv, RoundInv, PermuteOutInv DEF DesNext
  <1> QED BY <1>1, <1>2, PTL DEF DesSpec

(* DesTypeOK: every table names bits that are there, and every shift keeps to     *)
(* the 28 bits of its half (des.cc:146-164, 278-313).                            *)
THEOREM DesTyping == DesSpec => []DesTypeOK
  <1>1. DesInv => DesTypeOK
    BY DEF DesInv
  <1> QED BY <1>1, DesSafety, PTL

(* DecryptUndoesEncrypt, for every password and text and both orders of the fold: *)
(* the rounds go back through the same halves, since the halves are exchanged     *)
(* between the permutations and the subkeys taken from the end (des.cc:275-314).  *)
THEOREM DecryptionIsInverse == DesSpec => []DecryptUndoesEncrypt
  <1>1. DesInv => DecryptUndoesEncrypt
    BY DEF DesInv, KeysComeFirst, Backward, DecryptUndoesEncrypt
  <1> QED BY <1>1, DesSafety, PTL

------------------------------------------------------------------------------
(* The subkeys. *)

(* How far the halves of the key have turned after n rounds. *)
Total(s) == FoldLeft(+, 0, s)
Turn(n) == Total(SubSeq(kShiftBits, 1, n))

(* The fold from the left adds the greatest index last; it is a sum all the same. *)
LEMMA FoldLeftIsSum ==
    ASSUME NEW s \in Seq(Nat)
    PROVE  \E g : IsSum(g, s, DOMAIN s) /\ Total(s) = g[DOMAIN s]
  <1> DEFINE D == DOMAIN s
             Greatest(t) == CHOOSE x \in t : \A y \in t : x >= y
             Unfolds(g) == g = [t \in SUBSET D |->
                 IF t = {} THEN 0 ELSE g[t \ {Greatest(t)}] + s[Greatest(t)]]
             sum == CHOOSE g : Unfolds(g)
  <1>1. IsFiniteSet(D) /\ \A i \in D : s[i] \in Nat
    <2>1. D = 1 .. Len(s) /\ Len(s) \in Nat
      OBVIOUS
    <2>2. IsFiniteSet(D)
      BY <2>1, FS_Interval
    <2> QED BY <2>2
  <1>2. Total(s) = sum[D]
    BY DEF Total, FoldLeft, MapThenFoldSet, Max
  <1> HIDE DEF D
  <1>3. \A t \in SUBSET D : t # {} => Greatest(t) \in t
    <2> DEFINE F == {t \in SUBSET D : t # {} => \E x \in t : \A y \in t : x >= y}
    <2>1. {} \in F
      OBVIOUS
    <2>2. ASSUME NEW t \in SUBSET D, t # {}, \A x \in t : t \ {x} \in F
          PROVE  t \in F
      <3>1. PICK x : x \in t
        BY <2>2
      <3>2. t \subseteq Int
        BY DEF D
      <3>3. CASE t \ {x} = {}
        <4>1. \A y \in t : x >= y
          BY <3>1, <3>2, <3>3
        <4> QED BY <3>1, <4>1
      <3>4. CASE t \ {x} # {}
        <4>1. PICK z \in t \ {x} : \A y \in t \ {x} : z >= y
          BY <2>2, <3>1, <3>4
        <4>2. (\A y \in t : x >= y) \/ (\A y \in t : z >= y)
          BY <3>1, <3>2, <4>1
        <4> QED BY <3>1, <4>1, <4>2
      <3> QED BY <3>3, <3>4
    <2>3. SUBSET D \subseteq F
      <3> HIDE DEF F
      <3> QED BY <1>1, <2>1, <2>2, SubsetInduction
    <2> QED BY <2>3
  <1>4. PICK g : IsSum(g, s, D)
    BY <1>1, SumExists
  <1>5. \A t \in SUBSET D : \A x \in t : g[t] = s[x] + g[t \ {x}]
    <2> HIDE DEF Greatest, Unfolds, sum
    <2>1. IsFiniteSet(D)
      BY <1>1
    <2>2. \A i \in D : s[i] \in Nat
      BY <1>1
    <2> SUFFICES ASSUME NEW t \in SUBSET D, NEW x \in t PROVE g[t] = s[x] + g[t \ {x}]
      OBVIOUS
    <2> QED BY <1>4, <2>1, <2>2, SumAnyOrder, SMTT(30)
  <1> HIDE DEF Greatest
  <1>6. Unfolds(g)
    <2>1. g = [t \in SUBSET D |-> g[t]]
      BY <1>4 DEF IsSum
    <2>2. ASSUME NEW t \in SUBSET D
          PROVE  g[t] = IF t = {} THEN 0 ELSE g[t \ {Greatest(t)}] + s[Greatest(t)]
      <3>1. CASE t = {}
        BY <1>4, <3>1 DEF IsSum, Adds
      <3>2. CASE t # {}
        <4>1. Greatest(t) \in t /\ Greatest(t) \in D
          BY <1>3, <3>2
        <4>2. g[t] = s[Greatest(t)] + g[t \ {Greatest(t)}]
          BY <1>5, <4>1
        <4>3. t \ {Greatest(t)} \in SUBSET D
          OBVIOUS
        <4>4. s[Greatest(t)] \in Nat /\ g[t \ {Greatest(t)}] \in Nat
          BY <1>1, <1>4, <4>1, <4>3 DEF IsSum
        <4> QED BY <3>2, <4>2, <4>4
      <3> QED BY <3>1, <3>2
    <2> QED BY <2>1, <2>2
  <1>7. Unfolds(sum)
    <2> HIDE DEF Unfolds
    <2> QED BY <1>6
  <1>8. PICK h : Unfolds(h) /\ Total(s) = h[D]
    <2> HIDE DEF sum, Unfolds
    <2> QED BY <1>2, <1>7
  <1>9. h[D] = g[D]
    <2> DEFINE F == {t \in SUBSET D : h[t] = g[t]}
    <2>1. {} \in F
      BY <1>4, <1>8 DEF IsSum, Adds
    <2>2. ASSUME NEW t \in SUBSET D, t # {}, \A x \in t : t \ {x} \in F
          PROVE  t \in F
      <3>1. Greatest(t) \in t
        BY <1>3, <2>2
      <3>2. h[t \ {Greatest(t)}] = g[t \ {Greatest(t)}]
        BY <2>2, <3>1
      <3>3. h[t] = h[t \ {Greatest(t)}] + s[Greatest(t)]
        BY <1>8, <2>2
      <3>4. g[t] = g[t \ {Greatest(t)}] + s[Greatest(t)]
        BY <1>6, <2>2
      <3> QED BY <3>2, <3>3, <3>4
    <2>3. SUBSET D \subseteq F
      <3> HIDE DEF F
      <3> QED BY <1>1, <2>1, <2>2, SubsetInduction
    <2> QED BY <2>3
  <1>10. Total(s) = g[D]
    BY <1>8, <1>9
  <1> QED BY <1>4, <1>10 DEF D

LEMMA FoldLeftOfOneMore ==
    ASSUME NEW s \in Seq(Nat), NEW n \in Nat
    PROVE  Total(Append(s, n)) = Total(s) + n
  <1> DEFINE longer == Append(s, n)
             last == Len(s) + 1
             D == DOMAIN s
             E == DOMAIN longer
  <1>1. longer \in Seq(Nat) /\ longer[last] = n
    OBVIOUS
  <1>2. \A i \in D : longer[i] = s[i]
    OBVIOUS
  <1>3. D = 1 .. Len(s) /\ E = 1 .. Len(s) + 1 /\ Len(s) \in Nat
    OBVIOUS
  <1>4. last \in E /\ D = E \ {last} /\ IsFiniteSet(E)
    <2>1. \A m \in Nat : IsFiniteSet(1 .. m)
      BY FS_Interval
    <2>2. \A m \in Nat : m + 1 \in Nat /\ m + 1 \in 1 .. m + 1 /\ 1 .. m = (1 .. m + 1) \ {m + 1}
      OBVIOUS
    <2> HIDE DEF D, E, longer
    <2> QED BY <1>3, <2>1, <2>2
  <1>5. \A i \in E : longer[i] \in Nat
    BY <1>1
  <1>6. PICK g : IsSum(g, s, D) /\ Total(s) = g[D]
    BY FoldLeftIsSum
  <1>7. PICK h : IsSum(h, longer, E) /\ Total(longer) = h[E]
    <2> HIDE DEF longer
    <2> QED BY <1>1, FoldLeftIsSum DEF E
  <1> HIDE DEF D, E, longer, last
  <1>8. \A i \in D : s[i] = longer[i]
    BY <1>2
  <1>9. h[E] = g[D] + longer[last]
    BY <1>4, <1>5, <1>6, <1>7, <1>8, SumOfOneMore
  <1>10. Total(longer) = Total(s) + n
    BY <1>1, <1>6, <1>7, <1>9
  <1> QED BY <1>10 DEF longer

LEMMA OneMore ==
    ASSUME NEW s \in Seq(Nat), NEW n \in Nat, n < Len(s)
    PROVE  /\ SubSeq(s, 1, n) \in Seq(Nat) /\ s[n + 1] \in Nat
           /\ SubSeq(s, 1, n + 1) = Append(SubSeq(s, 1, n), s[n + 1])
  <1> DEFINE p == SubSeq(s, 1, n)
             q == SubSeq(s, 1, n + 1)
             r == Append(p, s[n + 1])
  <1>1. s[n + 1] \in Nat
    OBVIOUS
  <1>2. p \in Seq(Nat) /\ Len(p) = n /\ \A i \in 1 .. n : p[i] = s[i]
    OBVIOUS
  <1>3. q \in Seq(Nat) /\ Len(q) = n + 1 /\ \A i \in 1 .. n + 1 : q[i] = s[i]
    OBVIOUS
  <1> HIDE DEF p, q
  <1>4. r \in Seq(Nat) /\ Len(r) = n + 1 /\ \A i \in 1 .. n + 1 : r[i] = s[i]
    BY <1>1, <1>2
  <1> HIDE DEF r
  <1>5. q = r
    <2>1. q = [i \in 1 .. n + 1 |-> q[i]]
      BY <1>3
    <2>2. r = [i \in 1 .. n + 1 |-> r[i]]
      BY <1>4
    <2> QED BY <1>3, <1>4, <2>1, <2>2
  <1> QED BY <1>1, <1>2, <1>5 DEF p, q, r

(* The turns add up the shifts, and make one full turn in the end. *)
LEMMA TurnFacts ==
    /\ Turn(0) = 0
    /\ \A n \in 0 .. 15 : Turn(n + 1) = Turn(n) + kShiftBits[n + 1]
    /\ \A n \in 0 .. 16 : Turn(n) \in Nat
    /\ Turn(16) = 28
  <1>1. kShiftBits \in Seq(Nat) /\ Len(kShiftBits) = 16
    BY DEF kShiftBits
  <1>2. Turn(0) = 0
    <2>1. SubSeq(kShiftBits, 1, 0) = <<>> /\ <<>> \in Seq(Nat) /\ DOMAIN <<>> = {}
      BY <1>1
    <2>2. \A g, w : IsSum(g, w, {}) => g[{}] = 0
      BY DEF IsSum, Adds
    <2>3. Total(<<>>) = 0
      BY <2>1, <2>2, FoldLeftIsSum
    <2> QED BY <2>1, <2>3 DEF Turn
  <1>3. ASSUME NEW n \in 0 .. 15
        PROVE  Turn(n + 1) = Turn(n) + kShiftBits[n + 1]
    <2> DEFINE s == SubSeq(kShiftBits, 1, n)
               t == SubSeq(kShiftBits, 1, n + 1)
               x == kShiftBits[n + 1]
    <2>1. s \in Seq(Nat) /\ x \in Nat /\ t = Append(s, x)
      <3>1. n \in Nat /\ n < Len(kShiftBits)
        BY <1>1
      <3> QED BY <1>1, <3>1, OneMore
    <2> HIDE DEF s, t, x
    <2>2. Total(t) = Total(s) + x
      BY <2>1, FoldLeftOfOneMore
    <2> QED BY <2>2 DEF Turn, s, t, x
  <1>4. \A i \in 0 .. 15 : kShiftBits[i + 1] \in Nat
    BY DEF kShiftBits
  <1>5. \A n \in 0 .. 16 : Turn(n) \in Nat
    <2> DEFINE S == {n \in 0 .. 16 : Turn(n) \in Nat}
    <2>1. 0 \in S
      BY <1>2
    <2>2. \A n \in 0 .. 16 - 1 : n \in S => n + 1 \in S
      BY <1>3, <1>4
    <2>3. 0 .. 16 \subseteq S
      <3> HIDE DEF S
      <3> QED BY <2>1, <2>2, UpToInduction
    <2> QED BY <2>3
  <1>6. Turn(16) = 28
    <2>1. /\ Turn(1) = 1 /\ Turn(2) = 2 /\ Turn(3) = 4 /\ Turn(4) = 6 /\ Turn(5) = 8
          /\ Turn(6) = 10 /\ Turn(7) = 12 /\ Turn(8) = 14
      <3>1. /\ Turn(0 + 1) = Turn(0) + kShiftBits[1] /\ Turn(1 + 1) = Turn(1) + kShiftBits[2]
            /\ Turn(2 + 1) = Turn(2) + kShiftBits[3] /\ Turn(3 + 1) = Turn(3) + kShiftBits[4]
            /\ Turn(4 + 1) = Turn(4) + kShiftBits[5] /\ Turn(5 + 1) = Turn(5) + kShiftBits[6]
            /\ Turn(6 + 1) = Turn(6) + kShiftBits[7] /\ Turn(7 + 1) = Turn(7) + kShiftBits[8]
        BY <1>3
      <3> QED BY <1>2, <3>1 DEF kShiftBits
    <2>2. /\ Turn(8 + 1) = Turn(8) + kShiftBits[9] /\ Turn(9 + 1) = Turn(9) + kShiftBits[10]
          /\ Turn(10 + 1) = Turn(10) + kShiftBits[11] /\ Turn(11 + 1) = Turn(11) + kShiftBits[12]
          /\ Turn(12 + 1) = Turn(12) + kShiftBits[13] /\ Turn(13 + 1) = Turn(13) + kShiftBits[14]
          /\ Turn(14 + 1) = Turn(14) + kShiftBits[15] /\ Turn(15 + 1) = Turn(15) + kShiftBits[16]
      BY <1>3
    <2> QED BY <2>1, <2>2 DEF kShiftBits
  <1> QED BY <1>2, <1>3, <1>5, <1>6

(* Bit j of the chosen key bits, seen t turns further round, and the 48 of them   *)
(* that make a subkey.                                                          *)
Seen(key, t, j) ==
    IF j < 28 THEN key[kPC_1[((j - t) % 28) + 1] - 1]
              ELSE key[kPC_1[((j - 28 - t) % 28) + 29] - 1]
Chosen(key, t) == [j \in 0 .. 47 |-> Seen(key, t, kPC_2[j + 1] - 1)]

TurnedHalves(key, t, l, r) ==
    \A i \in 0 .. 27 : r[i] = Seen(key, t, i) /\ l[i] = Seen(key, t, i + 28)

(* The halves of the key and the subkeys so far are the key from further round.   *)
KeyTurns ==
    /\ place # "init" => TurnedHalves(Key, Turn(Len(subKeys)), leftKey, rightKey)
    /\ \A n \in 1 .. Len(subKeys) : subKeys[n] = Chosen(Key, Turn(n))

LEMMA FullTurn == \A a \in Int : (a + 28) % 28 = a % 28 /\ (a - 28) % 28 = a % 28
  OBVIOUS

LEMMA HalvesStart ==
    ASSUME NEW key
    PROVE  TurnedHalves(key, 0, Half(Permute(56, kPC_1, key), 28, 28),
                                Half(Permute(56, kPC_1, key), 28, 0))
  <1> DEFINE chosen == Permute(56, kPC_1, key)
  <1>1. \A i \in 0 .. 55 : chosen[i] = key[kPC_1[i + 1] - 1]
    BY DEF Permute
  <1> HIDE DEF chosen
  <1>2. ASSUME NEW i \in 0 .. 27
        PROVE  Half(chosen, 28, 0)[i] = Seen(key, 0, i) /\ Half(chosen, 28, 28)[i] = Seen(key, 0, i + 28)
    <2>1. (i - 0) % 28 = i /\ (i + 28 - 28 - 0) % 28 = i /\ i < 28 /\ ~(i + 28 < 28)
      OBVIOUS
    <2>2. Half(chosen, 28, 0)[i] = chosen[0 + i] /\ Half(chosen, 28, 28)[i] = chosen[28 + i]
      BY DEF Half
    <2>3. 0 + i \in 0 .. 55 /\ 28 + i \in 0 .. 55 /\ 0 + i + 1 = i + 1 /\ 28 + i + 1 = i + 29
      OBVIOUS
    <2>4. chosen[0 + i] = key[kPC_1[i + 1] - 1] /\ chosen[28 + i] = key[kPC_1[i + 29] - 1]
      BY <1>1, <2>3
    <2>5. Seen(key, 0, i) = key[kPC_1[i + 1] - 1]
      BY <2>1 DEF Seen
    <2>6. Seen(key, 0, i + 28) = key[kPC_1[i + 29] - 1]
      BY <2>1 DEF Seen
    <2> QED BY <2>2, <2>4, <2>5, <2>6
  <1> QED BY <1>2 DEF TurnedHalves, chosen

LEMMA HalvesTurn ==
    ASSUME NEW key, NEW t \in Nat, NEW num \in 1 .. 2, NEW l, NEW r,
           TurnedHalves(key, t, l, r)
    PROVE  TurnedHalves(key, t + num, KeyLeftShift(l, num), KeyLeftShift(r, num))
  <1>1. ASSUME NEW i \in 0 .. 27
        PROVE  /\ KeyLeftShift(r, num)[i] = Seen(key, t + num, i)
               /\ KeyLeftShift(l, num)[i] = Seen(key, t + num, i + 28)
    <2> DEFINE from == IF i >= num THEN i - num ELSE 28 - num + i
    <2>1. KeyLeftShift(r, num)[i] = r[from] /\ KeyLeftShift(l, num)[i] = l[from]
      BY DEF KeyLeftShift
    <2>2. from \in 0 .. 27
      OBVIOUS
    <2>3. (from - t) % 28 = (i - (t + num)) % 28
      <3>1. i - (t + num) \in Int
        OBVIOUS
      <3>2. from - t = i - (t + num) \/ from - t = (i - (t + num)) + 28
        OBVIOUS
      <3> HIDE DEF from
      <3> QED BY <3>1, <3>2, FullTurn
    <2>4. from \in Int /\ from < 28 /\ ~(from + 28 < 28) /\ i < 28 /\ ~(i + 28 < 28)
      BY <2>2
    <2> HIDE DEF from
    <2>5. from + 28 - 28 - t = from - t /\ i + 28 - 28 - (t + num) = i - (t + num)
      BY <2>4
    <2>6. r[from] = Seen(key, t, from) /\ l[from] = Seen(key, t, from + 28)
      BY <2>2 DEF TurnedHalves
    <2>7. Seen(key, t, from) = Seen(key, t + num, i)
      BY <2>3, <2>4 DEF Seen
    <2>8. Seen(key, t, from + 28) = Seen(key, t + num, i + 28)
      BY <2>3, <2>4, <2>5 DEF Seen
    <2> QED BY <2>1, <2>6, <2>7, <2>8
  <1> QED BY <1>1 DEF TurnedHalves

LEMMA SubKeyIsChosen ==
    ASSUME NEW key, NEW t \in Nat, NEW l, NEW r, TurnedHalves(key, t, l, r)
    PROVE  Permute(48, kPC_2, Join(r, l, 28)) = Chosen(key, t)
  <1> DEFINE whole == Join(r, l, 28)
  <1>1. ASSUME NEW i \in 0 .. 55 PROVE whole[i] = Seen(key, t, i)
    <2>1. CASE i < 28
      BY <2>1 DEF Join, TurnedHalves
    <2>2. CASE ~(i < 28)
      <3>1. i - 28 \in 0 .. 27 /\ (i - 28) + 28 = i
        BY <2>2
      <3>2. whole[i] = l[i - 28]
        BY <2>2 DEF Join
      <3> QED BY <3>1, <3>2 DEF TurnedHalves
    <2> QED BY <2>1, <2>2
  <1>2. \A j \in 0 .. 47 : kPC_2[j + 1] - 1 \in 0 .. 55
    BY TablesAreTyped
  <1> HIDE DEF whole
  <1>3. \A j \in 0 .. 47 : whole[kPC_2[j + 1] - 1] = Seen(key, t, kPC_2[j + 1] - 1)
    BY <1>1, <1>2
  <1>4. Permute(48, kPC_2, whole) = Chosen(key, t)
    BY <1>3 DEF Permute, Chosen
  <1> QED BY <1>4 DEF whole

LEMMA InitKeyTurns ==
    ASSUME DesInv, KeyTurns, InitKey
    PROVE  KeyTurns'
  <1>1. Len(subKeys) = 0 /\ subKeys' = subKeys /\ Key' = Key
    BY DEF DesInv, KeysComeFirst, InitKey, Key
  <1>2. /\ leftKey' = Half(Permute(56, kPC_1, Key), 28, 28)
        /\ rightKey' = Half(Permute(56, kPC_1, Key), 28, 0)
    BY DEF InitKey
  <1>3. TurnedHalves(Key, 0, leftKey', rightKey')
    BY <1>2, HalvesStart
  <1>4. TurnedHalves(Key', Turn(Len(subKeys')), leftKey', rightKey')
    BY <1>1, <1>3, TurnFacts
  <1> QED BY <1>1, <1>4 DEF KeyTurns

LEMMA GenSubKeyTurns ==
    ASSUME DesInv, KeyTurns, GenSubKey
    PROVE  KeyTurns'
  <1> DEFINE n == Len(subKeys)
             num == kShiftBits[n + 1]
             k == Permute(48, kPC_2, Join(rightKey', leftKey', 28))
  <1>1. subKeys \in Seq(Bitset(48)) /\ n \in 0 .. 15 /\ place = "subKeys"
    <2>1. subKeys \in Seq(Bitset(48)) /\ place = "subKeys" /\ Len(subKeys) < 16
      BY DEF DesInv, DesTypeOK, GenSubKey
    <2>2. Len(subKeys) \in Nat
      BY <2>1
    <2>3. \A m \in Nat : m < 16 => m \in 0 .. 15
      OBVIOUS
    <2>4. n \in 0 .. 15
      BY <2>1, <2>2, <2>3, Zenon
    <2> QED BY <2>1, <2>4, Zenon
  <1>2. Key' = Key /\ leftKey' = KeyLeftShift(leftKey, num)
        /\ rightKey' = KeyLeftShift(rightKey, num) /\ subKeys' = Append(subKeys, k)
    BY DEF GenSubKey, Key
  <1>3. num \in 1 .. 2 /\ Turn(n) \in Nat /\ Turn(n + 1) = Turn(n) + num /\ Turn(n + 1) \in Nat
    <2> HIDE DEF n
    <2>1. n + 1 \in 1 .. 16 /\ n \in 0 .. 16 /\ n + 1 \in 0 .. 16
      BY <1>1
    <2>2. kShiftBits[n + 1] \in 1 .. 2
      BY <2>1, TablesAreTyped
    <2> QED BY <1>1, <2>1, <2>2, TurnFacts
  <1>4. /\ Len(subKeys') = n + 1 /\ subKeys'[n + 1] = k
        /\ \A m \in 1 .. n : subKeys'[m] = subKeys[m]
    <2> HIDE DEF k
    <2> QED BY <1>1, <1>2
  <1>5. TurnedHalves(Key, Turn(n), leftKey, rightKey)
    BY <1>1 DEF KeyTurns
  <1>6. TurnedHalves(Key, Turn(n + 1), leftKey', rightKey')
    <2> HIDE DEF n, num
    <2> QED BY <1>2, <1>3, <1>5, HalvesTurn
  <1>7. k = Chosen(Key, Turn(n + 1))
    <2> HIDE DEF n, num
    <2> QED BY <1>3, <1>6, SubKeyIsChosen
  <1>8. TurnedHalves(Key', Turn(Len(subKeys')), leftKey', rightKey')
    BY <1>2, <1>4, <1>6
  <1>9. \A m \in 1 .. Len(subKeys') : subKeys'[m] = Chosen(Key', Turn(m))
    <2>1. \A m \in 1 .. n : subKeys[m] = Chosen(Key, Turn(m))
      BY DEF KeyTurns
    <2>2. \A m \in 1 .. n + 1 : m \in 1 .. n \/ m = n + 1
      BY <1>1
    <2> HIDE DEF n, k, num
    <2>3. ASSUME NEW m \in 1 .. n + 1 PROVE subKeys'[m] = Chosen(Key, Turn(m))
      BY <1>4, <1>7, <2>1, <2>2
    <2> QED BY <1>2, <1>4, <2>3
  <1> QED BY <1>8, <1>9 DEF KeyTurns

(* KeyTurns is the inductive form of SubKeysAreTurnedKeys: it also says where the *)
(* halves have turned to between two rounds of GenSubKey (des.cc:246-269).       *)
THEOREM KeySafety == DesSpec => []KeyTurns
  <1>1. DesInit => KeyTurns
    BY DEF DesInit, KeyTurns
  <1>2. ASSUME DesInv, KeyTurns, [DesNext]_desVars PROVE KeyTurns'
    <2>1. ASSUME place # "init", place' # "init", UNCHANGED keyVars PROVE KeyTurns'
      BY <1>2, <2>1 DEF KeyTurns, keyVars, Key
    <2>2. CASE UNCHANGED desVars
      BY <1>2, <2>2 DEF KeyTurns, desVars, keyVars, Key
    <2>3. CASE PermuteIn \/ Round \/ PermuteOut
      BY <2>1, <2>3 DEF PermuteIn, Round, PermuteOut
    <2> QED BY <1>2, <2>2, <2>3, InitKeyTurns, GenSubKeyTurns DEF DesNext
  <1> QED BY <1>1, <1>2, DesSafety, PTL DEF DesSpec

(* SubKeysAreTurnedKeys, for every password: no bit of the key is lost between    *)
(* the subkeys, and the shifts add up to one full turn (des.cc:38, 246-269).      *)
THEOREM SubKeysTurn == DesSpec => []SubKeysAreTurnedKeys
  <1>1. ASSUME DesInv, KeyTurns PROVE SubKeysAreTurnedKeys
    <2>1. \A t, j : KeyBit(t, j) = Seen(Key, t, j)
      BY DEF KeyBit, Seen
    <2>2. \A n : Turn(n) = FoldLeft(+, 0, SubSeq(kShiftBits, 1, n))
      BY DEF Turn, Total
    <2>3. ASSUME NEW n \in 1 .. Len(subKeys)
          PROVE  subKeys[n] = [j \in 0 .. 47 |-> KeyBit(Turn(n), kPC_2[j + 1] - 1)]
      BY <1>1, <2>1 DEF KeyTurns, Chosen
    <2>4. ASSUME Len(subKeys) = 16, NEW i \in 0 .. 27
          PROVE  rightKey[i] = KeyBit(0, i) /\ leftKey[i] = KeyBit(0, i + 28)
      <3>1. place # "init"
        BY <1>1, <2>4 DEF DesInv, KeysComeFirst
      <3>2. TurnedHalves(Key, 28, leftKey, rightKey)
        BY <1>1, <2>4, <3>1, TurnFacts DEF KeyTurns
      <3>3. (i - 28) % 28 = (i - 0) % 28 /\ (i + 28 - 28 - 28) % 28 = (i + 28 - 28 - 0) % 28
        OBVIOUS
      <3>4. Seen(Key, 28, i) = Seen(Key, 0, i) /\ Seen(Key, 28, i + 28) = Seen(Key, 0, i + 28)
        BY <3>3 DEF Seen
      <3> QED BY <2>1, <3>2, <3>4 DEF TurnedHalves
    <2> QED BY <2>2, <2>3, <2>4 DEF SubKeysAreTurnedKeys
  <1> QED BY <1>1, DesSafety, KeySafety, PTL

==============================================================================
