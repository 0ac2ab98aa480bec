--------------------------- MODULE BlockCryptProofs ---------------------------
(* Proofs about BlockCrypt: how many bytes Encrypt and Decrypt put out, and that  *)
(* Decrypt gives back what Encrypt was given, for any sizes of blocks and chunks, *)
(* any file and any cipher.                                                      *)
EXTENDS BlockCrypt, TLAPS

(* Numbers of bytes that fill blocks. *)
Aligned(n) == n \in Nat /\ n % BlockSize = 0

(* Where the loop is in its chunk, and what it returns. *)
LoopInv ==
    /\ source # <<>> /\ file # <<>>
    /\ offset < Len(source)
    /\ pc = "loop" => i < InSize /\ Len(written) = i
    /\ pc = "return" => Len(written) \in CryptSizes(isEncrypt, InSize, IsEnd)

CallInv == BlockTypeOK /\ LoopInv

(* The bytes of file f with its padding, and the block of them behind byte p.     *)
PlainSize(f) == Len(f) + GetMaxPaddingSize(Len(f))
PlainByte(f, n) == IF n <= Len(f) THEN f[n] ELSE GetMaxPaddingSize(Len(f))
PlainAt(f, p) == [n \in 1 .. BlockSize |-> PlainByte(f, p + n)]

(* The block of s behind byte p, and what it is chained to: nothing at the start  *)
(* of a chunk.                                                                   *)
BlockAt(s, p) == [n \in 1 .. BlockSize |-> s[p + n]]
VectorAt(s, p) == IF p % ReadDataSize = 0 THEN ZeroBlock ELSE BlockAt(s, p - BlockSize)

(* Chained and Encrypted for a class and a key.                                  *)
Mixed(c, block, vector) ==
    IF c = "AesCBCCrypt" THEN [n \in 1 .. BlockSize |-> XorByte(block[n], vector[n])] ELSE block
Cipher(c, key, block, vector) == EncryptBlock(key, Mixed(c, block, vector))

(* Every block of s is what the class makes of the block of f at its place.       *)
IsCipherText(s, f, c, key) ==
    /\ Aligned(Len(s))
    /\ \A p \in 0 .. Len(s) :
           Aligned(p) /\ p < Len(s) =>
               BlockAt(s, p) = Cipher(c, key, PlainAt(f, p), VectorAt(s, p))

(* s is the first m bytes of f. *)
IsFront(s, f, m) == m <= Len(f) /\ Len(s) = m /\ \A n \in 1 .. m : s[n] = f[n]

Recoverable ==
    /\ roundTrip /\ KeysAreDetermined
    /\ class = "DesCrypt" \/ Len(file) % ReadDataSize # 0

(* Chunks begin where they should, with keys of this password. *)
PlaceInv ==
    /\ offset % ReadDataSize = 0
    /\ keys.encrypt \in Keys(class, passwordSize)

(* While the file is encrypted, what is there so far is its cipher text.          *)
Encrypting ==
    isEncrypt =>
        /\ source = file /\ Len(target) = offset
        /\ pc = "call" => IsCipherText(target, file, class, keys.encrypt)
        /\ pc \in {"loop", "return"} =>
               IsCipherText(target \o written, file, class, keys.encrypt)
        /\ pc = "loop" => iv = VectorAt(target \o written, offset + i)
        /\ pc = "return" =>
               offset + Len(written) = IF IsEnd THEN PlainSize(file) ELSE offset + InSize
        /\ pc \notin {"done", "crashed"}

(* While it is decrypted, what is there so far is the front of the file.          *)
Decrypting ==
    ~isEncrypt =>
        /\ IsCipherText(source, file, class, keys.encrypt) /\ Len(source) = PlainSize(file)
        /\ pc # "done" => IsFront(target, file, offset)
        /\ pc = "loop" => /\ IsFront(target \o written, file, offset + i)
                          /\ iv = VectorAt(source, offset + i)
        /\ pc = "return" =>
               IsFront(target \o written, file, IF IsEnd THEN Len(file) ELSE offset + InSize)
        /\ pc = "done" => target = file
        /\ pc # "crashed"

RecoverInv == PlaceInv /\ (Recoverable => Encrypting /\ Decrypting)

------------------------------------------------------------------------------
(* Arithmetic. *)

LEMMA Sizes ==
    /\ BlockSize \in Nat /\ BlockSize >= 1
    /\ ReadDataSize \in Nat /\ ReadDataSize >= 1 /\ Aligned(ReadDataSize)
    /\ MaxByte \in Nat /\ BlockSize <= MaxByte
    /\ SizeRange \in Nat /\ SizeRange > BlockSize + MaxByte
  BY BlockSizeAssumption, WrapperAssumption DEF Aligned

(* A number has one quotient and one remainder. *)
LEMMA DivideOnce ==
    ASSUME NEW b \in Nat \ {0}, NEW q \in Int, NEW r \in 0 .. b - 1
    PROVE  (q * b + r) \div b = q /\ (q * b + r) % b = r
  <1> DEFINE n == q * b + r
             p == n \div b
             s == n % b
  <1>1. n \in Int /\ p \in Int /\ s \in 0 .. b - 1 /\ n = b * p + s
    BY SMTT(30)
  <1> HIDE DEF p, s
  <1>2. b * p + s = q * b + r
    BY <1>1
  <1>3. ASSUME p >= q + 1 PROVE FALSE
    <2>1. b * p >= b * (q + 1) /\ b * (q + 1) = q * b + b
      BY <1>1, <1>3, SMTT(30)
    <2> QED BY <1>1, <1>2, <2>1
  <1>4. ASSUME q >= p + 1 PROVE FALSE
    <2>1. b * q >= b * (p + 1) /\ b * (p + 1) = b * p + b /\ b * q = q * b
      BY <1>1, <1>4, SMTT(30)
    <2> QED BY <1>1, <1>2, <2>1
  <1>5. p = q
    BY <1>1, <1>3, <1>4
  <1>6. s = r
    BY <1>1, <1>2, <1>5
  <1> QED BY <1>5, <1>6 DEF p, s

LEMMA AlignedFacts ==
    ASSUME NEW n \in Nat
    PROVE  /\ Aligned(n) <=> \E q \in Nat : n = q * BlockSize
           /\ Aligned(n) => Aligned(n + BlockSize)
  <1>1. Aligned(n) => n = (n \div BlockSize) * BlockSize /\ n \div BlockSize \in Nat
    BY Sizes, SMTT(30) DEF Aligned
  <1>2. ASSUME NEW q \in Nat, n = q * BlockSize PROVE Aligned(n)
    <2>1. (q * BlockSize + 0) % BlockSize = 0
      BY Sizes, DivideOnce
    <2> QED BY <1>2, <2>1, Sizes DEF Aligned
  <1>3. ASSUME Aligned(n) PROVE Aligned(n + BlockSize)
    <2>1. PICK q \in Nat : n = q * BlockSize
      BY <1>1, <1>3
    <2>2. n + BlockSize = (q + 1) * BlockSize + 0
      BY <2>1, Sizes, SMTT(30)
    <2>3. ((q + 1) * BlockSize + 0) % BlockSize = 0
      BY Sizes, DivideOnce
    <2> QED BY <2>2, <2>3, Sizes DEF Aligned
  <1> QED BY <1>1, <1>2, <1>3

(* The sizes of n bytes of which k are done and at most a block is left.         *)
LEMMA LastBlockSizes ==
    ASSUME NEW k \in Nat, NEW n \in Nat, Aligned(k), k < n, n <= k + BlockSize
    PROVE  /\ RoundUp(n) = k + BlockSize
           /\ n = k + BlockSize => GetMaxPaddingSize(n) = BlockSize
           /\ n # k + BlockSize => /\ n + GetMaxPaddingSize(n) = k + BlockSize
                                   /\ GetMaxPaddingSize(n) # BlockSize
                                   /\ n % BlockSize = n - k
           /\ RoundUp(n) <= n + GetMaxPaddingSize(n)
  <1>1. PICK q \in Nat : k = q * BlockSize
    BY AlignedFacts
  <1>2. RoundUp(n) = k + BlockSize
    <2> DEFINE r == n - k - 1
    <2>1. r \in 0 .. BlockSize - 1
      BY Sizes
    <2>2. n + BlockSize - 1 = (q + 1) * BlockSize + r
      <3>1. (q + 1) * BlockSize = q * BlockSize + BlockSize
        BY Sizes, SMTT(30)
      <3> QED BY <1>1, <3>1, Sizes
    <2> HIDE DEF r
    <2>3. ((q + 1) * BlockSize + r) \div BlockSize = q + 1
      <3>1. q + 1 \in Int /\ BlockSize \in Nat \ {0}
        BY Sizes
      <3> QED BY <2>1, <3>1, DivideOnce
    <2>4. (q + 1) * BlockSize = q * BlockSize + BlockSize
      BY Sizes, SMTT(30)
    <2> QED BY <1>1, <2>2, <2>3, <2>4 DEF RoundUp
  <1>3. ASSUME n = k + BlockSize PROVE GetMaxPaddingSize(n) = BlockSize
    <2>1. Aligned(k + BlockSize)
      BY AlignedFacts
    <2>2. n % BlockSize = 0
      BY <1>3, <2>1 DEF Aligned
    <2> QED BY <2>2, Sizes DEF GetMaxPaddingSize
  <1>4. ASSUME n # k + BlockSize
        PROVE  /\ n + GetMaxPaddingSize(n) = k + BlockSize
               /\ GetMaxPaddingSize(n) # BlockSize
               /\ n % BlockSize = n - k
    <2> DEFINE r == n - k
    <2>1. r \in 0 .. BlockSize - 1 /\ r # 0
      BY <1>4, Sizes
    <2>2. n = q * BlockSize + r
      BY <1>1, Sizes
    <2> HIDE DEF r
    <2>3. n % BlockSize = r
      BY <2>1, <2>2, Sizes, DivideOnce
    <2> QED BY <2>1, <2>3, Sizes DEF GetMaxPaddingSize, r
  <1> QED BY <1>2, <1>3, <1>4, Sizes

(* The begun blocks of n bytes are at most the padded ones. *)
LEMMA RoundUpFits ==
    ASSUME NEW n \in Nat, n >= 1
    PROVE  RoundUp(n) \in Nat /\ RoundUp(n) <= n + GetMaxPaddingSize(n)
  <1> DEFINE q == (n - 1) \div BlockSize
             k == q * BlockSize
  <1>1. q \in Nat /\ k \in Nat /\ k <= n - 1 /\ n - 1 < k + BlockSize
    <2>1. /\ n - 1 \in Nat /\ q \in Nat /\ (n - 1) % BlockSize \in 0 .. BlockSize - 1
          /\ n - 1 = BlockSize * q + ((n - 1) % BlockSize)
      BY Sizes, SMTT(30)
    <2>2. BlockSize * q = k /\ k \in Nat
      BY <2>1, Sizes, SMTT(30)
    <2> HIDE DEF q, k
    <2> QED BY <2>1, <2>2, Sizes
  <1>2. Aligned(k)
    BY <1>1, AlignedFacts
  <1> HIDE DEF q, k
  <1>3. RoundUp(n) = k + BlockSize /\ RoundUp(n) <= n + GetMaxPaddingSize(n)
    BY <1>1, <1>2, Sizes, LastBlockSizes
  <1> QED BY <1>1, <1>3, Sizes

------------------------------------------------------------------------------
(* Sequences of bytes. *)

LEMMA PartOf ==
    ASSUME NEW S, NEW s \in Seq(S), NEW m \in Int, NEW n \in Int, 1 <= m, m <= n + 1, n <= Len(s)
    PROVE  SubSeq(s, m, n) \in Seq(S) /\ Len(SubSeq(s, m, n)) = n - m + 1
  <1>1. Len(s) \in Nat /\ n - m + 1 \in Nat
    OBVIOUS
  <1>2. \A k \in 1 .. n - m + 1 : s[k + m - 1] \in S
    BY <1>1
  <1> QED BY <1>1, <1>2

LEMMA JoinOf ==
    ASSUME NEW S, NEW s \in Seq(S), NEW t \in Seq(S)
    PROVE  s \o t \in Seq(S) /\ Len(s \o t) = Len(s) + Len(t)
  OBVIOUS

(* A block is a sequence of BlockSize bytes. *)
LEMMA BlockIsSeq ==
    /\ \A b \in Block : b \in Seq(Char) /\ Len(b) = BlockSize
    /\ \A s \in Seq(Char) : Len(s) = BlockSize => s \in Block
  BY Sizes DEF Block

LEMMA FunctionIsSeq ==
    ASSUME NEW n \in Nat, NEW f \in [1 .. n -> Char]
    PROVE  f \in Seq(Char) /\ Len(f) = n
  OBVIOUS

(* The chunk of a call is part of the file, and only the last one is not aligned. *)
LEMMA ChunkFacts ==
    ASSUME CallInv
    PROVE  /\ InSize \in Nat /\ InSize >= 1 /\ offset + InSize <= Len(source)
           /\ offset \in Nat /\ Len(source) \in Nat
           /\ IsEnd \in BOOLEAN
           /\ ~IsEnd => offset + InSize < Len(source) /\ Aligned(InSize)
           /\ InData \in Seq(Char) /\ Len(InData) = InSize
  <1>1. source \in Seq(Char) /\ Len(source) \in Nat /\ offset \in Nat /\ offset < Len(source)
    BY DEF CallInv, BlockTypeOK, LoopInv
  <1>2. Rest \in Nat /\ Rest >= 1 /\ Rest = Len(source) - offset
    BY <1>1 DEF Rest
  <1>3. InSize \in Nat /\ InSize >= 1 /\ offset + InSize <= Len(source)
    BY <1>1, <1>2, Sizes DEF InSize
  <1>4. ASSUME ~IsEnd PROVE offset + InSize < Len(source) /\ Aligned(InSize)
    <2>1. offset + InSize < Len(source)
      BY <1>1, <1>3, <1>4 DEF IsEnd
    <2>2. InSize = ReadDataSize
      BY <1>1, <1>2, <2>1 DEF InSize
    <2> QED BY <2>1, <2>2, Sizes
  <1>5. InData \in Seq(Char) /\ Len(InData) = InSize
    <2>1. offset + 1 \in Int /\ offset + InSize \in Int /\ 1 <= offset + 1
          /\ offset + 1 <= (offset + InSize) + 1 /\ (offset + InSize) - (offset + 1) + 1 = InSize
      BY <1>1, <1>3
    <2> QED BY <1>1, <1>3, <2>1, PartOf DEF InData
  <1>6. IsEnd \in BOOLEAN
    BY DEF IsEnd
  <1> QED BY <1>1, <1>3, <1>4, <1>5, <1>6

(* The blocks of the loops are blocks. *)
LEMMA CipherFacts ==
    ASSUME CallInv, NEW b \in Block, NEW v \in Block
    PROVE  /\ Encrypted(b, v) \in Block /\ Decrypted(b, v) \in Block
           /\ Chained(b, v) \in Block
  <1>1. \A a, c \in Block : Chained(a, c) \in Block
    <2>1. \A x, y \in Char : XorByte(x, y) \in Char
      BY CipherAssumption
    <2> QED BY <2>1 DEF Chained, Block
  <1>2. keys.encrypt \in AllKeys /\ keys.decrypt \in AllKeys
    BY DEF CallInv, BlockTypeOK
  <1>3. \A a \in Block : EncryptBlock(keys.encrypt, a) \in Block
    BY <1>2, CipherAssumption
  <1>4. \A a \in Block : DecryptBlock(keys.decrypt, a) \in Block
    BY <1>2, CipherAssumption
  <1> QED BY <1>1, <1>3, <1>4 DEF Encrypted, Decrypted

LEMMA LoadedFacts ==
    ASSUME CallInv, pc = "loop"
    PROVE  Loaded \in Block
  <1>1. /\ InSize \in Nat /\ InData \in Seq(Char) /\ Len(InData) = InSize
        /\ i \in Nat /\ i < InSize /\ Len(written) = i
        /\ in \in Seq(Char) /\ Len(in) = BlockSize
    BY ChunkFacts, BlockIsSeq DEF CallInv, BlockTypeOK, LoopInv
  <1> DEFINE size == IF InSize - i < BlockSize THEN InSize - i ELSE BlockSize
             front == SubSeq(InData, Len(written) + 1, Len(written) + size)
  <1>2. size \in Nat /\ size >= 1 /\ size <= BlockSize /\ i + size <= InSize
    BY <1>1, Sizes
  <1>3. front \in Seq(Char) /\ Len(front) = size
    <2> HIDE DEF size
    <2>1. i + 1 \in Int /\ i + size \in Int /\ 1 <= i + 1 /\ i + 1 <= (i + size) + 1
          /\ (i + size) - (i + 1) + 1 = size
      BY <1>1, <1>2
    <2> QED BY <1>1, <1>2, <2>1, PartOf
  <1> HIDE DEF front, size
  <1>4. SubSeq(in, Len(front) + 1, BlockSize) \in Seq(Char)
        /\ Len(SubSeq(in, Len(front) + 1, BlockSize)) = BlockSize - size
    <2>1. size + 1 \in Int /\ BlockSize \in Int /\ 1 <= size + 1 /\ size + 1 <= BlockSize + 1
          /\ BlockSize - (size + 1) + 1 = BlockSize - size
      BY <1>2, Sizes
    <2> QED BY <1>1, <1>3, <2>1, PartOf
  <1>5. Overlay(in, front) \in Seq(Char) /\ Len(Overlay(in, front)) = BlockSize
    <2>1. size + (BlockSize - size) = BlockSize
      BY <1>2, Sizes
    <2> QED BY <1>3, <1>4, <2>1, JoinOf DEF Overlay
  <1>6. Loaded = Overlay(in, front)
    BY DEF Loaded, front, size
  <1> QED BY <1>5, <1>6, BlockIsSeq

(* The padding is bytes. *)
LEMMA PaddingFacts ==
    ASSUME CallInv
    PROVE  /\ GetMaxPaddingSize(InSize) \in 1 .. BlockSize
           /\ [n \in 1 .. BlockSize |-> GetMaxPaddingSize(InSize)] \in Block
           /\ \A b \in Block : PadFrom(b, InSize % BlockSize) \in Block
  <1>1. InSize % BlockSize \in 0 .. BlockSize - 1
    BY ChunkFacts, Sizes
  <1>2. GetMaxPaddingSize(InSize) \in 1 .. BlockSize
    BY <1>1, Sizes DEF GetMaxPaddingSize
  <1>3. GetMaxPaddingSize(InSize) \in Char
    BY <1>2, Sizes DEF Char
  <1>4. [n \in 1 .. BlockSize |-> GetMaxPaddingSize(InSize)] \in Block
    BY <1>3 DEF Block
  <1>5. ASSUME NEW b \in Block PROVE PadFrom(b, InSize % BlockSize) \in Block
    <2> DEFINE m == InSize % BlockSize
               pad == [k \in 1 .. BlockSize - m |-> GetMaxPaddingSize(InSize)]
    <2>1. m \in 0 .. BlockSize - 1 /\ BlockSize - m \in Nat /\ m + (BlockSize - m) = BlockSize
      BY <1>1, Sizes
    <2>2. PadFrom(b, m) = SubSeq(b, 1, m) \o pad
      BY DEF PadFrom
    <2> HIDE DEF m
    <2>3. pad \in [1 .. BlockSize - m -> Char]
      BY <1>3
    <2> HIDE DEF pad
    <2>4. pad \in Seq(Char) /\ Len(pad) = BlockSize - m
      BY <2>1, <2>3, FunctionIsSeq
    <2>5. SubSeq(b, 1, m) \in Seq(Char) /\ Len(SubSeq(b, 1, m)) = m
      <3>1. b \in Seq(Char) /\ Len(b) = BlockSize
        BY BlockIsSeq
      <3>2. m \in Int /\ 1 <= m + 1 /\ m <= BlockSize /\ m - 1 + 1 = m
        BY <2>1, Sizes
      <3> QED BY <3>1, <3>2, PartOf
    <2>6. SubSeq(b, 1, m) \o pad \in Seq(Char) /\ Len(SubSeq(b, 1, m) \o pad) = BlockSize
      BY <2>1, <2>4, <2>5, JoinOf
    <2>7. PadFrom(b, m) \in Block
      BY <2>2, <2>6, BlockIsSeq
    <2> QED BY <2>7 DEF m
  <1> QED BY <1>2, <1>4, <1>5

------------------------------------------------------------------------------
(* The invariant. *)

LEMMA BlockInitInv ==
    ASSUME BlockInit
    PROVE  CallInv
  <1>1. file \in Seq(Char) /\ file # <<>> /\ Len(file) \in Nat /\ Len(file) > 0
    <2>1. file \in Seq(Char) \ {<<>>}
      BY WrapperAssumption DEF BlockInit
    <2> QED BY <2>1
  <1>2. ZeroBlock \in Block
    BY Sizes DEF ZeroBlock, Block, Char
  <1>3. Keys(class, passwordSize) \subseteq AllKeys
    BY DEF BlockInit, AllKeys
  <1>4. keys \in [encrypt : AllKeys, decrypt : AllKeys]
    BY <1>3 DEF BlockInit
  <1>5. 0 % BlockSize = 0
    BY Sizes
  <1>6. BlockTypeOK
    BY <1>1, <1>2, <1>4, <1>5 DEF BlockInit, BlockTypeOK
  <1>7. LoopInv
    BY <1>1 DEF BlockInit, LoopInv
  <1> QED BY <1>6, <1>7 DEF CallInv

LEMMA BeginCallInv ==
    ASSUME CallInv, BeginCall
    PROVE  CallInv'
  <1>1. ZeroBlock \in Block /\ 0 % BlockSize = 0
    BY Sizes DEF ZeroBlock, Block, Char
  <1>2. BlockTypeOK'
    BY <1>1 DEF CallInv, BlockTypeOK, BeginCall, files
  <1>3. InSize' = InSize /\ InSize >= 1
    <2>1. InSize' = InSize
      BY DEF InSize, Rest, BeginCall
    <2> QED BY <2>1, ChunkFacts
  <1>4. LoopInv'
    <2>1. /\ pc' = "loop" /\ i' = 0 /\ Len(written') = 0
          /\ UNCHANGED <<file, source, offset>>
      BY DEF BeginCall, files
    <2>2. i' < InSize'
      BY <1>3, <2>1, ChunkFacts
    <2> QED BY <2>1, <2>2 DEF CallInv, LoopInv
  <1> QED BY <1>2, <1>4 DEF CallInv

LEMMA EndCallInv ==
    ASSUME CallInv, EndCall
    PROVE  CallInv'
  <1>1. /\ target \in Seq(Char) /\ written \in Seq(Char) /\ source \in Seq(Char)
        /\ pc = "return" /\ pc' \in {"call", "done"} /\ UNCHANGED <<files, call>>
        /\ Len(written) \in CryptSizes(isEncrypt, InSize, IsEnd)
    BY DEF CallInv, BlockTypeOK, LoopInv, EndCall
  <1>2. target \o written \in Seq(Char) /\ Len(target \o written) = Len(target) + Len(written)
    BY <1>1, JoinOf
  <1>3. CASE ~IsEnd
    <2>1. /\ pc' = "call" /\ offset' = offset + InSize /\ target' = target \o written
          /\ UNCHANGED <<isEncrypt, source>>
      BY <1>3 DEF EndCall
    <2>2. offset' \in Nat /\ offset' < Len(source)
      BY <1>3, <2>1, ChunkFacts
    <2>3. offset' \in 0 .. Len(source')
      BY <2>1, <2>2, ChunkFacts
    <2>4. BlockTypeOK'
      BY <1>1, <1>2, <2>1, <2>3 DEF CallInv, BlockTypeOK, files, call
    <2>5. LoopInv'
      BY <1>1, <2>1, <2>2 DEF CallInv, LoopInv, files
    <2> QED BY <2>4, <2>5 DEF CallInv
  <1>4. CASE IsEnd /\ isEncrypt
    <2>1. /\ pc' = "call" /\ isEncrypt' = FALSE /\ offset' = 0 /\ target' = <<>>
          /\ source' = target \o written
      BY <1>4 DEF EndCall
    <2>2. Len(written) = InSize + GetMaxPaddingSize(InSize)
      BY <1>1, <1>4 DEF CryptSizes
    <2>3. Len(source') \in Nat /\ Len(source') >= 1
      <3>1. GetMaxPaddingSize(InSize) \in Nat /\ InSize \in Nat /\ InSize >= 1
        BY PaddingFacts, ChunkFacts, Sizes
      <3> QED BY <1>1, <1>2, <2>1, <2>2, <3>1
    <2>4. source' \in Seq(Char) /\ source' # <<>> /\ offset' \in 0 .. Len(source')
      BY <1>2, <2>1, <2>3
    <2>5. BlockTypeOK'
      <3>1. target' \in Seq(Char)
        BY <2>1
      <3>2. isEncrypt' \in BOOLEAN
        BY <2>1, Zenon
      <3>3. pc' \in {"call", "loop", "return", "done", "crashed"}
        BY <2>1
      <3> QED BY <1>1, <2>4, <3>1, <3>2, <3>3 DEF CallInv, BlockTypeOK, files, call
    <2>6. LoopInv'
      BY <1>1, <2>1, <2>3, <2>4 DEF CallInv, LoopInv, files
    <2> QED BY <2>5, <2>6 DEF CallInv
  <1>5. CASE IsEnd /\ ~isEncrypt
    <2>1. /\ pc' = "done" /\ target' = target \o written
          /\ UNCHANGED <<isEncrypt, offset, source>>
      BY <1>5 DEF EndCall
    <2>2. BlockTypeOK'
      BY <1>1, <1>2, <2>1 DEF CallInv, BlockTypeOK, files, call
    <2>3. LoopInv'
      BY <1>1, <2>1 DEF CallInv, LoopInv, files
    <2> QED BY <2>2, <2>3 DEF CallInv
  <1> QED BY <1>3, <1>4, <1>5

(* What an iteration leaves alone. *)
chunk == <<files, isEncrypt, source, offset, target>>

LEMMA ChunkStays ==
    ASSUME UNCHANGED chunk
    PROVE  InSize' = InSize /\ (IsEnd' <=> IsEnd) /\ UNCHANGED <<isEncrypt, source, offset, file>>
  <1>1. UNCHANGED <<isEncrypt, source, offset, file>>
    BY DEF chunk, files
  <1>2. InSize' = InSize
    BY <1>1 DEF InSize, Rest
  <1> QED BY <1>1, <1>2 DEF IsEnd

(* An iteration that adds n bytes to the output and goes on behind its block.     *)
LEMMA IterationInv ==
    ASSUME CallInv, pc = "loop", UNCHANGED chunk, NextBlock,
           in' \in Block, iv' \in Block,
           NEW new \in Seq(Char), written' = written \o new,
           i + BlockSize < InSize => Len(new) = BlockSize,
           i + BlockSize >= InSize => i + Len(new) \in CryptSizes(isEncrypt, InSize, IsEnd)
    PROVE  CallInv'
  <1>1. /\ i \in Nat /\ Aligned(i) /\ written \in Seq(Char) /\ Len(written) = i
        /\ source \in Seq(Char)
    BY DEF CallInv, BlockTypeOK, LoopInv, Aligned
  <1>2. written' \in Seq(Char) /\ Len(written') = i + Len(new)
    BY <1>1, JoinOf
  <1>3. i' = i + BlockSize /\ pc' = IF i + BlockSize < InSize THEN "loop" ELSE "return"
    BY DEF NextBlock
  <1>4. i' \in Nat /\ i' % BlockSize = 0
    BY <1>1, <1>3, AlignedFacts, Sizes DEF Aligned
  <1>5. BlockTypeOK'
    BY <1>2, <1>3, <1>4 DEF CallInv, BlockTypeOK, chunk, files
  <1>6. InSize' = InSize /\ (IsEnd' <=> IsEnd) /\ UNCHANGED <<isEncrypt, source, offset, file>>
    BY ChunkStays
  <1>7. InSize \in Nat
    BY ChunkFacts
  <1>8. LoopInv'
    <2>1. CASE i + BlockSize < InSize
      <3>1. pc' = "loop" /\ i' < InSize' /\ Len(written') = i'
        BY <1>2, <1>3, <1>6, <2>1
      <3> QED BY <1>6, <3>1 DEF CallInv, LoopInv
    <2>2. CASE ~(i + BlockSize < InSize)
      <3>1. i + BlockSize >= InSize
        BY <1>1, <1>7, <2>2, Sizes
      <3>2. Len(written') \in CryptSizes(isEncrypt, InSize, IsEnd)
        BY <1>2, <3>1
      <3>3. CryptSizes(isEncrypt, InSize, IsEnd)' = CryptSizes(isEncrypt, InSize, IsEnd)
        BY <1>6 DEF CryptSizes, RoundUp, GetMaxPaddingSize
      <3>4. pc' = "return" /\ Len(written') \in CryptSizes(isEncrypt, InSize, IsEnd)'
        BY <1>3, <2>2, <3>2, <3>3
      <3> QED BY <1>6, <3>4 DEF CallInv, LoopInv
    <2> QED BY <2>1, <2>2
  <1> QED BY <1>5, <1>8 DEF CallInv

LEMMA EncryptInnerInv ==
    ASSUME CallInv, EncryptInner
    PROVE  CallInv'
  <1>1. /\ pc = "loop" /\ isEncrypt /\ ~LastBlock /\ UNCHANGED chunk /\ NextBlock
        /\ in' = Loaded /\ iv' = Encrypted(Loaded, iv)
        /\ written' = written \o Encrypted(Loaded, iv)
    BY DEF EncryptInner, PutOne, chunk, NextBlock
  <1>2. Loaded \in Block /\ iv \in Block
    BY <1>1, LoadedFacts DEF CallInv, BlockTypeOK
  <1>3. in' \in Block /\ iv' \in Block /\ iv' \in Seq(Char) /\ Len(iv') = BlockSize
    BY <1>1, <1>2, CipherFacts, BlockIsSeq
  <1>4. i \in Nat /\ Aligned(i) /\ i < InSize
    BY <1>1 DEF CallInv, BlockTypeOK, LoopInv, Aligned
  <1>5. ASSUME i + BlockSize >= InSize
        PROVE  i + Len(iv') \in CryptSizes(isEncrypt, InSize, IsEnd)
    <2>1. ~IsEnd /\ InSize \in Nat
      BY <1>1, <1>5, ChunkFacts DEF LastBlock
    <2>2. RoundUp(InSize) = i + BlockSize
      BY <1>4, <1>5, <2>1, LastBlockSizes
    <2> QED BY <1>3, <2>1, <2>2 DEF CryptSizes
  <1> QED BY <1>1, <1>3, <1>5, IterationInv

LEMMA EncryptLastPaddedInv ==
    ASSUME CallInv, EncryptLastPadded
    PROVE  CallInv'
  <1> DEFINE padded == PadFrom(Loaded, InSize % BlockSize)
  <1>1. /\ pc = "loop" /\ isEncrypt /\ LastBlock /\ UNCHANGED chunk /\ NextBlock
        /\ in' = padded /\ iv' = Encrypted(padded, iv)
        /\ written' = written \o Encrypted(padded, iv)
        /\ GetMaxPaddingSize(InSize) # BlockSize
    BY DEF EncryptLastPadded, PutOne, chunk, NextBlock
  <1>2. padded \in Block /\ iv \in Block
    BY <1>1, LoadedFacts, PaddingFacts DEF CallInv, BlockTypeOK
  <1> HIDE DEF padded
  <1>3. in' \in Block /\ iv' \in Block /\ iv' \in Seq(Char) /\ Len(iv') = BlockSize
    BY <1>1, <1>2, CipherFacts, BlockIsSeq
  <1>4. i \in Nat /\ Aligned(i) /\ i < InSize /\ InSize \in Nat
    BY <1>1, ChunkFacts DEF CallInv, BlockTypeOK, LoopInv, Aligned
  <1>5. IsEnd /\ i + BlockSize >= InSize
    BY <1>1 DEF LastBlock
  <1>6. InSize + GetMaxPaddingSize(InSize) = i + BlockSize
    BY <1>1, <1>4, <1>5, LastBlockSizes
  <1>7. i + Len(iv') \in CryptSizes(isEncrypt, InSize, IsEnd)
    BY <1>1, <1>3, <1>5, <1>6 DEF CryptSizes
  <1>8. ~(i + BlockSize < InSize)
    BY <1>4, <1>5, Sizes
  <1> QED BY <1>1, <1>3, <1>7, <1>8, IterationInv

LEMMA EncryptLastFullInv ==
    ASSUME CallInv, EncryptLastFull
    PROVE  CallInv'
  <1> DEFINE padding == [n \in 1 .. BlockSize |-> GetMaxPaddingSize(InSize)]
             one == Encrypted(Loaded, iv)
             two == Encrypted(padding, one)
  <1>1. /\ pc = "loop" /\ isEncrypt /\ LastBlock /\ UNCHANGED chunk /\ NextBlock
        /\ in' = padding /\ iv' = two /\ written' = (written \o one) \o two
        /\ GetMaxPaddingSize(InSize) = BlockSize
    BY DEF EncryptLastFull, chunk, NextBlock
  <1>2. Loaded \in Block /\ iv \in Block /\ padding \in Block
    BY <1>1, LoadedFacts, PaddingFacts DEF CallInv, BlockTypeOK
  <1> HIDE DEF padding
  <1>3. one \in Block
    BY <1>2, CipherFacts
  <1> HIDE DEF one
  <1>4. two \in Block
    BY <1>2, <1>3, CipherFacts
  <1> HIDE DEF two
  <1> DEFINE new == one \o two
  <1>5. new \in Seq(Char) /\ Len(new) = 2 * BlockSize
    <2>1. /\ one \in Seq(Char) /\ Len(one) = BlockSize
          /\ two \in Seq(Char) /\ Len(two) = BlockSize
      BY <1>3, <1>4, BlockIsSeq
    <2>2. BlockSize + BlockSize = 2 * BlockSize
      BY Sizes
    <2> QED BY <2>1, <2>2, JoinOf
  <1>6. written' = written \o new
    <2>1. written \in Seq(Char) /\ one \in Seq(Char) /\ two \in Seq(Char)
      BY <1>3, <1>4, BlockIsSeq DEF CallInv, BlockTypeOK
    <2> QED BY <1>1, <2>1
  <1> HIDE DEF new
  <1>7. i \in Nat /\ Aligned(i) /\ i < InSize /\ InSize \in Nat
    BY <1>1, ChunkFacts DEF CallInv, BlockTypeOK, LoopInv, Aligned
  <1>8. IsEnd /\ i + BlockSize >= InSize
    BY <1>1 DEF LastBlock
  <1>9. InSize = i + BlockSize
    BY <1>1, <1>7, <1>8, LastBlockSizes
  <1>10. InSize + GetMaxPaddingSize(InSize) = i + Len(new)
    BY <1>1, <1>5, <1>7, <1>9, Sizes
  <1>11. i + Len(new) \in CryptSizes(isEncrypt, InSize, IsEnd)
    BY <1>1, <1>8, <1>10 DEF CryptSizes
  <1>12. ~(i + BlockSize < InSize)
    BY <1>7, <1>8, Sizes
  <1> QED BY <1>1, <1>2, <1>4, <1>5, <1>6, <1>11, <1>12, IterationInv

(* What is fetched to be decrypted is a block, whatever is behind the data. *)
LEMMA FetchedFacts ==
    ASSUME CallInv, pc = "loop", NEW block \in Fetched
    PROVE  block \in Block
  <1>1. /\ InSize \in Nat /\ InData \in Seq(Char) /\ Len(InData) = InSize
        /\ i \in Nat /\ i < InSize /\ Len(written) = i
    BY ChunkFacts DEF CallInv, BlockTypeOK, LoopInv
  <1> DEFINE end == IF Len(written) + BlockSize < InSize THEN Len(written) + BlockSize ELSE InSize
             front == SubSeq(InData, Len(written) + 1, end)
             size == end - i
  <1>2. PICK rest \in [1 .. BlockSize - Len(front) -> Char] : block = front \o rest
    BY DEF Fetched
  <1>3. end \in Nat /\ end <= InSize /\ size \in Nat /\ size <= BlockSize /\ i + 1 <= end + 1
    BY <1>1, Sizes
  <1> HIDE DEF end
  <1>4. front \in Seq(Char) /\ Len(front) = size
    <2>1. i + 1 \in Int /\ end \in Int /\ 1 <= i + 1 /\ end - (i + 1) + 1 = size
      BY <1>1, <1>3
    <2> QED BY <1>1, <1>3, <2>1, PartOf
  <1> HIDE DEF front, size
  <1>5. BlockSize - size \in Nat /\ size + (BlockSize - size) = BlockSize
    BY <1>3, Sizes
  <1>6. rest \in Seq(Char) /\ Len(rest) = BlockSize - size
    BY <1>2, <1>4, <1>5, FunctionIsSeq
  <1>7. block \in Seq(Char) /\ Len(block) = BlockSize
    BY <1>2, <1>4, <1>5, <1>6, JoinOf
  <1> QED BY <1>7, BlockIsSeq

LEMMA DecryptInnerInv ==
    ASSUME CallInv, DecryptInner
    PROVE  CallInv'
  <1>1. PICK block \in Fetched :
           /\ in' = block /\ iv' = block /\ written' = written \o Decrypted(block, iv)
    BY DEF DecryptInner
  <1>2. pc = "loop" /\ ~isEncrypt /\ ~LastToDecrypt /\ UNCHANGED chunk /\ NextBlock
    BY DEF DecryptInner, chunk, NextBlock
  <1> DEFINE new == Decrypted(block, iv)
  <1>3. block \in Block /\ iv \in Block
    BY <1>2, FetchedFacts DEF CallInv, BlockTypeOK
  <1>4. new \in Seq(Char) /\ Len(new) = BlockSize
    BY <1>3, CipherFacts, BlockIsSeq
  <1>5. i \in Nat /\ Aligned(i) /\ i < InSize /\ InSize \in Nat
    BY <1>2, ChunkFacts DEF CallInv, BlockTypeOK, LoopInv, Aligned
  <1> HIDE DEF new
  <1>6. ASSUME i + BlockSize >= InSize
        PROVE  i + Len(new) \in CryptSizes(isEncrypt, InSize, IsEnd)
    <2>1. InSize - i <= BlockSize
      BY <1>5, <1>6, Sizes
    <2>2. ~IsEnd
      BY <1>2, <2>1 DEF LastToDecrypt
    <2>3. RoundUp(InSize) = i + BlockSize
      BY <1>5, <1>6, LastBlockSizes
    <2> QED BY <1>4, <2>2, <2>3 DEF CryptSizes
  <1>7. written' = written \o new
    BY <1>1 DEF new
  <1> QED BY <1>1, <1>2, <1>3, <1>4, <1>6, <1>7, IterationInv

LEMMA DecryptLastInv ==
    ASSUME CallInv, DecryptLast
    PROVE  CallInv'
  <1>1. PICK block \in Fetched :
           /\ in' = block /\ iv' = block
           /\ IF DataSize(Decrypted(block, iv)) > BlockSize
              THEN pc' = "crashed" /\ UNCHANGED <<i, written>>
              ELSE IF DataSize(Decrypted(block, iv)) = 0
              THEN pc' = "return" /\ UNCHANGED <<i, written>>
              ELSE /\ written' = written \o SubSeq(Decrypted(block, iv), 1,
                                                   DataSize(Decrypted(block, iv)))
                   /\ NextBlock
    BY DEF DecryptLast, NextBlock
  <1>2. pc = "loop" /\ ~isEncrypt /\ LastToDecrypt /\ UNCHANGED chunk
    BY DEF DecryptLast, chunk
  <1>3. block \in Block /\ iv \in Block
    BY <1>2, FetchedFacts DEF CallInv, BlockTypeOK
  <1>4. i \in Nat /\ Aligned(i) /\ i < InSize /\ InSize \in Nat /\ Len(written) = i
    BY <1>2, ChunkFacts DEF CallInv, BlockTypeOK, LoopInv, Aligned
  <1>5. IsEnd /\ i + BlockSize >= InSize
    BY <1>2, <1>4, Sizes DEF LastToDecrypt
  <1>6. RoundUp(InSize) = i + BlockSize
    BY <1>4, <1>5, LastBlockSizes
  <1> DEFINE out == Decrypted(block, iv)
             n == DataSize(out)
  <1>7. out \in Block
    BY <1>3, CipherFacts
  <1>8. n \in Nat
    <2>1. out[BlockSize] \in Char
      BY <1>7, Sizes DEF Block
    <2> QED BY <2>1, Sizes DEF DataSize, Char
  <1>9. \A k \in 0 .. BlockSize : i + k \in CryptSizes(isEncrypt, InSize, IsEnd)
    <2>1. ASSUME NEW k \in 0 .. BlockSize
          PROVE  i + k \in CryptSizes(isEncrypt, InSize, IsEnd)
      <3>1. BlockSize - k \in 0 .. BlockSize /\ i + k = RoundUp(InSize) - (BlockSize - k)
        BY <1>4, <1>6, Sizes
      <3> QED BY <1>2, <1>5, <3>1 DEF CryptSizes
    <2> QED BY <2>1
  <1> HIDE DEF n, out
  <1>10. CASE n > BlockSize \/ n = 0
    <2>1. UNCHANGED <<i, written>> /\ pc' \in {"crashed", "return"}
          /\ in' \in Block /\ iv' \in Block
      BY <1>1, <1>3, <1>8, <1>10, Sizes DEF n, out
    <2>2. pc' = "return" => Len(written') \in CryptSizes(isEncrypt, InSize, IsEnd)
      BY <1>4, <1>9, <2>1, Sizes
    <2>3. BlockTypeOK'
      BY <1>2, <2>1 DEF CallInv, BlockTypeOK, chunk, files
    <2>4. CryptSizes(isEncrypt, InSize, IsEnd)' = CryptSizes(isEncrypt, InSize, IsEnd)
      BY <1>2, ChunkStays DEF CryptSizes, RoundUp, GetMaxPaddingSize
    <2>5. LoopInv'
      BY <1>2, <2>1, <2>2, <2>4, ChunkStays DEF CallInv, LoopInv
    <2> QED BY <2>3, <2>5 DEF CallInv
  <1>11. CASE ~(n > BlockSize \/ n = 0)
    <2> DEFINE new == SubSeq(out, 1, n)
    <2>1. written' = written \o new /\ NextBlock
      BY <1>1, <1>11 DEF n, out
    <2>2. n \in 1 .. BlockSize
      BY <1>8, <1>11, Sizes
    <2>3. new \in Seq(Char) /\ Len(new) = n
      <3>1. out \in Seq(Char) /\ Len(out) = BlockSize
        BY <1>7, BlockIsSeq
      <3>2. 1 \in Int /\ n \in Int /\ 1 <= 1 /\ 1 <= n + 1 /\ n <= BlockSize /\ n - 1 + 1 = n
        BY <2>2, Sizes
      <3> QED BY <3>1, <3>2, PartOf
    <2> HIDE DEF new
    <2>4. i + Len(new) \in CryptSizes(isEncrypt, InSize, IsEnd)
      BY <1>9, <2>2, <2>3
    <2>5. ~(i + BlockSize < InSize)
      BY <1>4, <1>5, Sizes
    <2> QED BY <1>1, <1>2, <1>3, <2>1, <2>3, <2>4, <2>5, IterationInv
  <1> QED BY <1>10, <1>11

------------------------------------------------------------------------------
(* The theorems. *)

(* The invariant of the calls. *)
THEOREM CallSafety == BlockSpec => []CallInv
  <1>1. BlockInit => CallInv
    BY BlockInitInv
  <1>2. CallInv /\ [BlockNext]_blockVars => CallInv'
    <2>1. ASSUME CallInv, UNCHANGED blockVars PROVE CallInv'
      <3>1. BlockTypeOK'
        BY <2>1 DEF CallInv, BlockTypeOK, blockVars, files, call
      <3>2. UNCHANGED chunk /\ UNCHANGED <<pc, i, written>>
        BY <2>1 DEF blockVars, call, chunk
      <3>3. CryptSizes(isEncrypt, InSize, IsEnd)' = CryptSizes(isEncrypt, InSize, IsEnd)
        BY <3>2, ChunkStays DEF CryptSizes, RoundUp, GetMaxPaddingSize
      <3>4. LoopInv'
        BY <2>1, <3>2, <3>3, ChunkStays DEF CallInv, LoopInv
      <3> QED BY <3>1, <3>4 DEF CallInv
    <2> QED BY <2>1, BeginCallInv, EndCallInv, EncryptInnerInv, EncryptLastPaddedInv,
               EncryptLastFullInv, DecryptInnerInv, DecryptLastInv DEF BlockNext
  <1> QED BY <1>1, <1>2, PTL DEF BlockSpec

(* BlockTypeOK: what goes through the cipher are blocks, also at the end of a     *)
(* chunk that is not aligned (aes_cbc_crypt.cc:71-110, 133-169).                 *)
THEOREM BlockTyping == BlockSpec => []BlockTypeOK
  <1>1. CallInv => BlockTypeOK
    BY DEF CallInv
  <1> QED BY <1>1, CallSafety, PTL

(* SizeAsPromised: Encrypt and Decrypt return one of the sizes that the chain of  *)
(* tasks is modelled and proved with, for any input (crypt_task.cc:71-90).       *)
THEOREM SizesArePromised == BlockSpec => []SizeAsPromised
  <1>1. CallInv => SizeAsPromised
    BY DEF CallInv, LoopInv, SizeAsPromised
  <1> QED BY <1>1, CallSafety, PTL

(* FitsBuffer: the loops never write behind the buffer that CryptTask allocates,  *)
(* for any size of chunk and block, any input and any key (crypt_task.cc:66).     *)
THEOREM OutputFitsBuffer == BlockSpec => []FitsBuffer
  <1>1. ASSUME CallInv PROVE FitsBuffer
    <2>1. InSize \in Nat /\ InSize >= 1 /\ IsEnd \in BOOLEAN
      BY <1>1, ChunkFacts
    <2>2. GetMaxPaddingSize(InSize) \in Nat /\ GetMaxPaddingSize(InSize) >= 1
      BY <1>1, PaddingFacts, Sizes
    <2>3. CASE pc = "loop"
      BY <1>1, <2>1, <2>2, <2>3 DEF CallInv, LoopInv, BlockTypeOK, FitsBuffer
    <2>4. CASE pc = "return"
      <3>1. RoundUp(InSize) \in Nat /\ RoundUp(InSize) <= InSize + GetMaxPaddingSize(InSize)
        BY <2>1, RoundUpFits
      <3>2. \A size \in CryptSizes(isEncrypt, InSize, IsEnd) :
               size <= InSize + GetMaxPaddingSize(InSize)
        BY <2>1, <2>2, <3>1, Sizes DEF CryptSizes
      <3> QED BY <1>1, <2>4, <3>2 DEF CallInv, LoopInv, FitsBuffer
    <2> QED BY <2>3, <2>4 DEF FitsBuffer
  <1> QED BY <1>1, CallSafety, PTL

------------------------------------------------------------------------------
(* What is needed to see that Decrypt recovers the file. *)

LEMMA AlignedSteps ==
    ASSUME NEW p, NEW q, Aligned(p), Aligned(q)
    PROVE  Aligned(p + q) /\ (p < q => p + BlockSize <= q)
  <1>1. p \in Nat /\ q \in Nat
    BY DEF Aligned
  <1>2. PICK a \in Nat : p = a * BlockSize
    BY <1>1, AlignedFacts
  <1>3. PICK b \in Nat : q = b * BlockSize
    BY <1>1, AlignedFacts
  <1>4. Aligned(p + q)
    <2>1. p + q = (a + b) * BlockSize
      BY <1>2, <1>3, Sizes, SMTT(30)
    <2>2. p + q \in Nat /\ a + b \in Nat
      BY <1>1
    <2> QED BY <2>1, <2>2, AlignedFacts
  <1>5. ASSUME p < q PROVE p + BlockSize <= q
    <2>1. CASE b >= a + 1
      <3>1. b * BlockSize >= (a + 1) * BlockSize /\ (a + 1) * BlockSize = p + BlockSize
        BY <1>2, <2>1, Sizes, SMTT(30)
      <3> QED BY <1>1, <1>3, <3>1, Sizes
    <2>2. CASE a >= b
      <3>1. a * BlockSize >= b * BlockSize
        BY <2>2, Sizes, SMTT(30)
      <3> QED BY <1>1, <1>2, <1>3, <1>5, <3>1
    <2> QED BY <2>1, <2>2
  <1> QED BY <1>4, <1>5

LEMMA PlainSizeFacts ==
    ASSUME NEW n \in Nat
    PROVE  Aligned(n + GetMaxPaddingSize(n)) /\ GetMaxPaddingSize(n) \in 1 .. BlockSize
  <1> DEFINE q == n \div BlockSize
             r == n % BlockSize
  <1>1. q \in Nat /\ r \in 0 .. BlockSize - 1 /\ n = BlockSize * q + r
    BY Sizes, SMTT(30)
  <1>2. GetMaxPaddingSize(n) = BlockSize - r
    BY DEF GetMaxPaddingSize
  <1> HIDE DEF q, r
  <1>3. n + GetMaxPaddingSize(n) = (q + 1) * BlockSize
    <2>1. (q + 1) * BlockSize = BlockSize * q + BlockSize
      BY <1>1, Sizes, SMTT(30)
    <2>2. BlockSize * q \in Nat
      BY <1>1, Sizes, SMTT(30)
    <2> QED BY <1>1, <1>2, <2>1, <2>2, Sizes
  <1>4. GetMaxPaddingSize(n) \in 1 .. BlockSize
    BY <1>1, <1>2, Sizes
  <1>5. n + GetMaxPaddingSize(n) \in Nat /\ q + 1 \in Nat
    BY <1>1, <1>4, Sizes
  <1> QED BY <1>3, <1>4, <1>5, AlignedFacts

(* The blocks in front of a chunk do not change its padding. *)
LEMMA SamePadding ==
    ASSUME NEW k, Aligned(k), NEW n \in Nat
    PROVE  GetMaxPaddingSize(k + n) = GetMaxPaddingSize(n)
  <1> DEFINE q == n \div BlockSize
             r == n % BlockSize
  <1>1. q \in Nat /\ r \in 0 .. BlockSize - 1 /\ n = BlockSize * q + r
    BY Sizes, SMTT(30)
  <1>2. k \in Nat
    BY DEF Aligned
  <1>3. PICK a \in Nat : k = a * BlockSize
    BY <1>2, AlignedFacts
  <1>4. GetMaxPaddingSize(n) = BlockSize - r
    BY DEF GetMaxPaddingSize
  <1> HIDE DEF q, r
  <1>5. k + n = (a + q) * BlockSize + r
    BY <1>1, <1>3, Sizes, SMTT(30)
  <1>6. (k + n) % BlockSize = r
    <2>1. a + q \in Int /\ BlockSize \in Nat \ {0}
      BY <1>1, Sizes
    <2> QED BY <1>1, <1>5, <2>1, DivideOnce
  <1> QED BY <1>4, <1>6 DEF GetMaxPaddingSize

(* Places in a chunk that begins at o. *)
LEMMA ChunkPlaces ==
    ASSUME NEW o \in Nat, o % ReadDataSize = 0
    PROVE  /\ Aligned(o) /\ (o + ReadDataSize) % ReadDataSize = 0
           /\ \A j \in 0 .. ReadDataSize - 1 : (o + j) % ReadDataSize = j
  <1>1. PICK q \in Nat : o = q * ReadDataSize
    <2>1. o \div ReadDataSize \in Nat /\ o = (o \div ReadDataSize) * ReadDataSize
      BY Sizes, SMTT(30)
    <2> QED BY <2>1
  <1>2. PICK a \in Nat : ReadDataSize = a * BlockSize
    BY Sizes, AlignedFacts
  <1>3. Aligned(o)
    <2>1. o = (q * a) * BlockSize /\ q * a \in Nat
      BY <1>1, <1>2, Sizes, SMTT(30)
    <2> QED BY <2>1, AlignedFacts
  <1>4. ASSUME NEW j \in 0 .. ReadDataSize - 1 PROVE (o + j) % ReadDataSize = j
    <2>1. q \in Int /\ ReadDataSize \in Nat \ {0}
      BY Sizes
    <2>2. (q * ReadDataSize + j) % ReadDataSize = j
      BY <2>1, DivideOnce
    <2> QED BY <1>1, <2>2
  <1>5. (o + ReadDataSize) % ReadDataSize = 0
    <2>1. o + ReadDataSize = (q + 1) * ReadDataSize + 0
      BY <1>1, Sizes, SMTT(30)
    <2>2. q + 1 \in Int /\ ReadDataSize \in Nat \ {0} /\ 0 \in 0 .. ReadDataSize - 1
      BY Sizes
    <2>3. ((q + 1) * ReadDataSize + 0) % ReadDataSize = 0
      BY <2>2, DivideOnce
    <2> QED BY <2>1, <2>3
  <1> QED BY <1>3, <1>4, <1>5

LEMMA PlainAtIsBlock ==
    ASSUME NEW f \in Seq(Char), NEW p \in Nat
    PROVE  PlainAt(f, p) \in Block
  <1>1. ASSUME NEW n \in 1 .. BlockSize PROVE PlainByte(f, p + n) \in Char
    <2>1. GetMaxPaddingSize(Len(f)) \in Char
      <3>1. Len(f) \in Nat
        OBVIOUS
      <3>2. GetMaxPaddingSize(Len(f)) \in 1 .. BlockSize
        BY <3>1, PlainSizeFacts
      <3> QED BY <3>2, Sizes DEF Char
    <2>2. CASE p + n <= Len(f)
      <3>1. p + n \in 1 .. Len(f)
        BY <2>2, Sizes
      <3> QED BY <2>2, <3>1 DEF PlainByte
    <2>3. CASE ~(p + n <= Len(f))
      BY <2>1, <2>3 DEF PlainByte
    <2> QED BY <2>2, <2>3
  <1> QED BY <1>1 DEF PlainAt, Block

(* A block is added at the end. *)
LEMMA GrowBlocks ==
    ASSUME NEW s \in Seq(Char), NEW b \in Block
    PROVE  /\ s \o b \in Seq(Char) /\ Len(s \o b) = Len(s) + BlockSize
           /\ BlockAt(s \o b, Len(s)) = b
           /\ \A p \in Nat : p + BlockSize <= Len(s) => BlockAt(s \o b, p) = BlockAt(s, p)
  <1>1. b \in Seq(Char) /\ Len(b) = BlockSize /\ Len(s) \in Nat
    BY BlockIsSeq
  <1> DEFINE t == s \o b
  <1>2. t \in Seq(Char) /\ Len(t) = Len(s) + BlockSize
    BY <1>1, JoinOf
  <1>3. (\A n \in 1 .. Len(s) : t[n] = s[n]) /\ (\A n \in 1 .. BlockSize : t[Len(s) + n] = b[n])
    BY <1>1, Sizes
  <1> HIDE DEF t
  <1>4. BlockAt(t, Len(s)) = b
    <2>1. b = [n \in 1 .. BlockSize |-> b[n]]
      BY DEF Block
    <2> QED BY <1>3, <2>1 DEF BlockAt
  <1>5. ASSUME NEW p \in Nat, p + BlockSize <= Len(s) PROVE BlockAt(t, p) = BlockAt(s, p)
    <2>1. \A n \in 1 .. BlockSize : p + n \in 1 .. Len(s)
      BY <1>1, <1>5, Sizes
    <2>2. \A n \in 1 .. BlockSize : t[p + n] = s[p + n]
      BY <1>3, <2>1
    <2> QED BY <2>2 DEF BlockAt
  <1> QED BY <1>2, <1>4, <1>5 DEF t

(* The vectors of the blocks that are there stay the same when a block is added. *)
LEMMA GrowVectors ==
    ASSUME NEW s \in Seq(Char), Aligned(Len(s)), NEW b \in Block, NEW p, Aligned(p), p <= Len(s)
    PROVE  VectorAt(s \o b, p) = VectorAt(s, p)
  <1>1. p \in Nat /\ Len(s) \in Nat
    BY DEF Aligned
  <1>2. CASE p % ReadDataSize = 0
    BY <1>2 DEF VectorAt
  <1>3. CASE p % ReadDataSize # 0
    <2>1. p # 0
      <3>1. 0 % ReadDataSize = 0
        BY Sizes
      <3> QED BY <1>3, <3>1
    <2>2. 0 < p /\ Aligned(0)
      BY <1>1, <2>1, Sizes DEF Aligned
    <2>3. 0 + BlockSize <= p
      BY <2>2, AlignedSteps
    <2>4. p - BlockSize \in Nat /\ (p - BlockSize) + BlockSize <= Len(s)
      BY <1>1, <2>3, Sizes
    <2>5. BlockAt(s \o b, p - BlockSize) = BlockAt(s, p - BlockSize)
      BY <2>4, GrowBlocks
    <2> QED BY <1>3, <2>5 DEF VectorAt
  <1> QED BY <1>2, <1>3

(* The next block of the cipher text is added. *)
LEMMA GrowCipherText ==
    ASSUME NEW s \in Seq(Char), NEW f, NEW c \in Classes, NEW key,
           IsCipherText(s, f, c, key),
           NEW v, v = VectorAt(s, Len(s)) \/ c = "DesCrypt",
           NEW b \in Block, b = Cipher(c, key, PlainAt(f, Len(s)), v)
    PROVE  /\ IsCipherText(s \o b, f, c, key)
           /\ VectorAt(s \o b, Len(s) + BlockSize) =
                  IF (Len(s) + BlockSize) % ReadDataSize = 0 THEN ZeroBlock ELSE b
  <1> DEFINE t == s \o b
  <1>1. Aligned(Len(s)) /\ Len(s) \in Nat
    BY DEF IsCipherText
  <1>2. /\ t \in Seq(Char) /\ Len(t) = Len(s) + BlockSize /\ BlockAt(t, Len(s)) = b
        /\ \A p \in Nat : p + BlockSize <= Len(s) => BlockAt(t, p) = BlockAt(s, p)
    BY GrowBlocks
  <1>3. \A p : Aligned(p) /\ p <= Len(s) => VectorAt(t, p) = VectorAt(s, p)
    BY <1>1, GrowVectors
  <1>4. Aligned(Len(s) + BlockSize)
    BY <1>1, AlignedFacts
  <1> HIDE DEF t
  <1>5. b = Cipher(c, key, PlainAt(f, Len(s)), VectorAt(s, Len(s)))
    <2>1. CASE c = "DesCrypt"
      BY <2>1 DEF Cipher, Mixed
    <2> QED BY <2>1
  <1>6. ASSUME NEW p \in 0 .. Len(t), Aligned(p), p < Len(t)
        PROVE  BlockAt(t, p) = Cipher(c, key, PlainAt(f, p), VectorAt(t, p))
    <2>1. CASE p < Len(s)
      <3>1. p + BlockSize <= Len(s) /\ p \in Nat
        BY <1>1, <1>6, <2>1, AlignedSteps
      <3>2. p \in 0 .. Len(s) /\ p <= Len(s)
        BY <1>1, <2>1, <3>1
      <3>3. BlockAt(s, p) = Cipher(c, key, PlainAt(f, p), VectorAt(s, p))
        BY <1>6, <2>1, <3>2 DEF IsCipherText
      <3>4. BlockAt(t, p) = BlockAt(s, p) /\ VectorAt(t, p) = VectorAt(s, p)
        BY <1>2, <1>3, <1>6, <3>1, <3>2
      <3> QED BY <3>3, <3>4
    <2>2. CASE ~(p < Len(s))
      <3>1. p = Len(s)
        <4>1. CASE Len(s) < p
          <5>1. Len(s) + BlockSize <= p
            BY <1>1, <1>6, <4>1, AlignedSteps
          <5> QED BY <1>1, <1>2, <1>6, <5>1, Sizes
        <4> QED BY <1>1, <2>2, <4>1
      <3>2. VectorAt(t, Len(s)) = VectorAt(s, Len(s))
        BY <1>1, <1>3
      <3> QED BY <1>2, <1>5, <3>1, <3>2
    <2> QED BY <2>1, <2>2
  <1>7. IsCipherText(t, f, c, key)
    BY <1>2, <1>4, <1>6 DEF IsCipherText
  <1>8. VectorAt(t, Len(s) + BlockSize) =
            IF (Len(s) + BlockSize) % ReadDataSize = 0 THEN ZeroBlock ELSE b
    <2>1. (Len(s) + BlockSize) - BlockSize = Len(s)
      BY <1>1, Sizes
    <2> QED BY <1>2, <2>1 DEF VectorAt
  <1> QED BY <1>7, <1>8 DEF t

LEMMA GrowFront ==
    ASSUME NEW s \in Seq(Char), NEW f \in Seq(Char), NEW m \in Nat, IsFront(s, f, m),
           NEW w \in Seq(Char), m + Len(w) <= Len(f),
           \A n \in 1 .. Len(w) : w[n] = f[m + n]
    PROVE  IsFront(s \o w, f, m + Len(w))
  <1> DEFINE t == s \o w
  <1>1. Len(t) = m + Len(w) /\ Len(w) \in Nat
    <2>1. Len(s) = m
      BY DEF IsFront
    <2>2. Len(s \o w) = Len(s) + Len(w) /\ Len(w) \in Nat
      OBVIOUS
    <2> QED BY <2>1, <2>2
  <1>2. (\A n \in 1 .. m : t[n] = s[n]) /\ (\A n \in 1 .. Len(w) : t[m + n] = w[n])
    BY DEF IsFront
  <1> HIDE DEF t
  <1>3. ASSUME NEW n \in 1 .. m + Len(w) PROVE t[n] = f[n]
    <2>1. CASE n <= m
      BY <1>2, <2>1 DEF IsFront
    <2>2. CASE ~(n <= m)
      <3>1. n - m \in 1 .. Len(w) /\ m + (n - m) = n
        BY <1>1, <2>2
      <3> QED BY <1>2, <3>1
    <2> QED BY <2>1, <2>2
  <1> QED BY <1>1, <1>3 DEF IsFront, t

LEMMA PartAt ==
    ASSUME NEW S, NEW s \in Seq(S), NEW m \in Int, NEW n \in Int, 1 <= m, m <= n + 1, n <= Len(s)
    PROVE  \A k \in 1 .. n - m + 1 : SubSeq(s, m, n)[k] = s[m + k - 1]
  OBVIOUS

LEMMA JoinAt ==
    ASSUME NEW S, NEW s \in Seq(S), NEW t \in Seq(S)
    PROVE  /\ \A k \in 1 .. Len(s) : (s \o t)[k] = s[k]
           /\ \A k \in 1 .. Len(t) : (s \o t)[Len(s) + k] = t[k]
  OBVIOUS

LEMMA JoinThree ==
    ASSUME NEW r \in Seq(Char), NEW s \in Seq(Char), NEW t \in Seq(Char)
    PROVE  (r \o s) \o t = r \o (s \o t)
  OBVIOUS

(* Decrypt takes a block back to what it was before Encrypt. *)
LEMMA CipherUndone ==
    ASSUME CallInv, PlaceInv, Recoverable,
           NEW b \in Block, NEW v \in Block, NEW w \in Block, w = v \/ class = "DesCrypt",
           NEW x, x = Cipher(class, keys.encrypt, b, v)
    PROVE  x \in Block /\ Decrypted(x, w) = b
  <1>1. keys.encrypt = keys.decrypt
    BY DEF PlaceInv, Recoverable, KeysAreDetermined
  <1>2. keys.encrypt \in AllKeys /\ class \in Classes
    BY DEF CallInv, BlockTypeOK
  <1> DEFINE mixed == Mixed(class, b, v)
  <1>3. /\ \A y, z \in Char : XorByte(y, z) \in Char
        /\ \A y, z \in Char : XorByte(XorByte(y, z), z) = y
    BY CipherAssumption
  <1>4. mixed \in Block
    BY <1>3 DEF Mixed, Block
  <1>5. Chained(mixed, w) = b
    <2>1. CASE class = "AesCBCCrypt"
      <3>1. w = v
        BY <2>1
      <3>2. \A n \in 1 .. BlockSize : XorByte(mixed[n], v[n]) = b[n]
        BY <1>3, <2>1 DEF Mixed, Block
      <3>3. b = [n \in 1 .. BlockSize |-> b[n]]
        BY DEF Block
      <3> HIDE DEF mixed
      <3>4. Chained(mixed, v) = [n \in 1 .. BlockSize |-> b[n]]
        BY <2>1, <3>2 DEF Chained
      <3> QED BY <3>1, <3>3, <3>4
    <2>2. CASE class # "AesCBCCrypt"
      BY <2>2 DEF Mixed, Chained
    <2> QED BY <2>1, <2>2
  <1> HIDE DEF mixed
  <1>6. x = EncryptBlock(keys.encrypt, mixed)
    BY DEF Cipher, mixed
  <1>7. x \in Block /\ DecryptBlock(keys.decrypt, x) = mixed
    BY <1>1, <1>2, <1>4, <1>6, CipherAssumption
  <1> QED BY <1>5, <1>7 DEF Decrypted

LEMMA EncryptedIsCipher ==
    ASSUME NEW b, NEW v
    PROVE  Encrypted(b, v) = Cipher(class, keys.encrypt, b, v)
  BY DEF Encrypted, Chained, Cipher, Mixed

(* Where an iteration is. *)
LEMMA PlaceFacts ==
    ASSUME CallInv, PlaceInv, pc = "loop"
    PROVE  /\ i \in Nat /\ Aligned(i) /\ i < InSize /\ InSize \in Nat /\ InSize <= ReadDataSize
           /\ offset \in Nat /\ Aligned(offset) /\ Aligned(offset + i)
           /\ (offset + i) % ReadDataSize = i
           /\ i + BlockSize < InSize => (offset + i + BlockSize) % ReadDataSize = i + BlockSize
           /\ offset + InSize <= Len(source) /\ Len(source) \in Nat
           /\ Len(written) = i /\ written \in Seq(Char) /\ target \in Seq(Char)
           /\ source \in Seq(Char) /\ file \in Seq(Char) /\ iv \in Block
           /\ IsEnd => offset + InSize = Len(source)
           /\ ~IsEnd => Aligned(InSize)
  <1>1. /\ i \in Nat /\ Aligned(i) /\ i < InSize /\ Len(written) = i
        /\ written \in Seq(Char) /\ target \in Seq(Char) /\ source \in Seq(Char)
        /\ file \in Seq(Char) /\ iv \in Block
    BY DEF CallInv, BlockTypeOK, LoopInv, Aligned
  <1>2. /\ offset \in Nat /\ InSize \in Nat /\ Len(source) \in Nat
        /\ offset + InSize <= Len(source)
        /\ ~IsEnd => Aligned(InSize)
    BY ChunkFacts
  <1>3. InSize <= ReadDataSize
    <2>1. Rest \in Int
      BY <1>1, <1>2 DEF Rest
    <2> QED BY <2>1, Sizes DEF InSize
  <1>4. Aligned(offset) /\ \A j \in 0 .. ReadDataSize - 1 : (offset + j) % ReadDataSize = j
    BY <1>2, ChunkPlaces DEF PlaceInv
  <1>5. (offset + i) % ReadDataSize = i
    <2>1. i \in 0 .. ReadDataSize - 1
      BY <1>1, <1>2, <1>3, Sizes
    <2> QED BY <1>4, <2>1
  <1>6. ASSUME i + BlockSize < InSize
        PROVE  (offset + i + BlockSize) % ReadDataSize = i + BlockSize
    <2>1. i + BlockSize \in 0 .. ReadDataSize - 1
      BY <1>1, <1>2, <1>3, <1>6, Sizes
    <2>2. offset + (i + BlockSize) = offset + i + BlockSize
      BY <1>1, <1>2, Sizes
    <2> QED BY <1>4, <2>1, <2>2
  <1>7. Aligned(offset + i)
    BY <1>1, <1>4, AlignedSteps
  <1>8. IsEnd => offset + InSize = Len(source)
    BY DEF IsEnd
  <1> QED BY <1>1, <1>2, <1>3, <1>4, <1>5, <1>6, <1>7, <1>8

(* The bytes of the chunk that Encrypt copies. *)
LEMMA LoadedBytes ==
    ASSUME CallInv, pc = "loop"
    PROVE  \A k \in 1 .. BlockSize : k <= InSize - i => Loaded[k] = source[offset + i + k]
  <1>1. /\ InSize \in Nat /\ InData \in Seq(Char) /\ Len(InData) = InSize
        /\ i \in Nat /\ i < InSize /\ Len(written) = i
        /\ in \in Seq(Char) /\ Len(in) = BlockSize
        /\ source \in Seq(Char) /\ offset \in Nat /\ offset + InSize <= Len(source)
    BY ChunkFacts, BlockIsSeq DEF CallInv, BlockTypeOK, LoopInv
  <1> DEFINE size == IF InSize - i < BlockSize THEN InSize - i ELSE BlockSize
             front == SubSeq(InData, Len(written) + 1, Len(written) + size)
             back == SubSeq(in, Len(front) + 1, BlockSize)
  <1>2. size \in Nat /\ size >= 1 /\ size <= BlockSize /\ i + size <= InSize
        /\ \A k \in 1 .. BlockSize : k <= InSize - i => k \in 1 .. size
    BY <1>1, Sizes
  <1>3. ASSUME NEW n \in 1 .. InSize PROVE InData[n] = source[offset + n]
    <2>1. offset + 1 \in Int /\ offset + InSize \in Int /\ 1 <= offset + 1
          /\ offset + 1 <= (offset + InSize) + 1 /\ n \in 1 .. (offset + InSize) - (offset + 1) + 1
          /\ (offset + 1) + n - 1 = offset + n
      BY <1>1
    <2> QED BY <1>1, <2>1, PartAt DEF InData
  <1>4. front \in Seq(Char) /\ Len(front) = size /\ \A k \in 1 .. size : front[k] = InData[i + k]
    <2> HIDE DEF size
    <2>1. i + 1 \in Int /\ i + size \in Int /\ 1 <= i + 1 /\ i + 1 <= (i + size) + 1
          /\ (i + size) - (i + 1) + 1 = size /\ \A k \in 1 .. size : (i + 1) + k - 1 = i + k
      BY <1>1, <1>2
    <2>2. front \in Seq(Char) /\ Len(front) = size
      BY <1>1, <1>2, <2>1, PartOf
    <2>3. ASSUME NEW k \in 1 .. size PROVE front[k] = InData[i + k]
      <3>1. k \in 1 .. (i + size) - (i + 1) + 1 /\ i + size <= Len(InData)
        BY <1>1, <1>2, <2>1
      <3>2. SubSeq(InData, i + 1, i + size)[k] = InData[(i + 1) + k - 1]
        <4> DEFINE one == i + 1
                   end == i + size
        <4>1. one \in Int /\ end \in Int /\ 1 <= one /\ one <= end + 1 /\ end <= Len(InData)
              /\ k \in 1 .. end - one + 1 /\ InData \in Seq(Char)
          BY <1>1, <2>1, <3>1
        <4> HIDE DEF one, end
        <4>2. SubSeq(InData, one, end)[k] = InData[one + k - 1]
          BY <4>1, PartAt
        <4> QED BY <4>2 DEF one, end
      <3> QED BY <1>1, <2>1, <3>2
    <2> QED BY <2>2, <2>3
  <1>5. back \in Seq(Char)
    <2> HIDE DEF front, size
    <2>1. size + 1 \in Int /\ BlockSize \in Int /\ 1 <= size + 1 /\ size + 1 <= BlockSize + 1
      BY <1>2, Sizes
    <2> QED BY <1>1, <1>4, <2>1, PartOf
  <1>6. Loaded = front \o back
    BY DEF Loaded, Overlay
  <1> HIDE DEF front, back, size
  <1>7. \A k \in 1 .. size : Loaded[k] = front[k]
    BY <1>4, <1>5, <1>6, JoinAt
  <1>8. ASSUME NEW k \in 1 .. BlockSize, k <= InSize - i
        PROVE  Loaded[k] = source[offset + i + k]
    <2>1. k \in 1 .. size /\ i + k \in 1 .. InSize /\ offset + (i + k) = offset + i + k
      BY <1>1, <1>2, <1>8
    <2> QED BY <1>3, <1>4, <1>7, <2>1
  <1> QED BY <1>8

LEMMA LoadedIsPlain ==
    ASSUME CallInv, PlaceInv, pc = "loop", source = file, i + BlockSize <= InSize
    PROVE  Loaded = PlainAt(file, offset + i)
  <1>1. Loaded \in Block /\ Loaded = [k \in 1 .. BlockSize |-> Loaded[k]]
    BY LoadedFacts DEF Block
  <1>2. ASSUME NEW k \in 1 .. BlockSize PROVE Loaded[k] = PlainByte(file, offset + i + k)
    <2>1. k <= InSize - i /\ offset + i + k <= Len(file)
      <3>1. /\ i \in Nat /\ InSize \in Nat /\ offset \in Nat /\ Len(file) \in Nat
            /\ offset + InSize <= Len(file)
        BY PlaceFacts
      <3> QED BY <3>1, Sizes
    <2>2. Loaded[k] = file[offset + i + k]
      BY <2>1, LoadedBytes
    <2> QED BY <2>1, <2>2 DEF PlainByte
  <1> QED BY <1>1, <1>2 DEF PlainAt

(* The last block with its padding. *)
LEMMA PaddedIsPlain ==
    ASSUME CallInv, PlaceInv, pc = "loop", source = file, IsEnd, InSize < i + BlockSize
    PROVE  PadFrom(Loaded, InSize % BlockSize) = PlainAt(file, offset + i)
  <1> DEFINE m == InSize - i
             pad == GetMaxPaddingSize(InSize)
             front == SubSeq(Loaded, 1, m)
             back == [k \in 1 .. BlockSize - m |-> pad]
  <1>1. m \in 1 .. BlockSize - 1 /\ BlockSize - m \in Nat /\ Len(file) = offset + InSize
        /\ InSize \in Nat /\ i \in Nat /\ offset \in Nat /\ offset + i + m = Len(file)
    <2>1. /\ i \in Nat /\ InSize \in Nat /\ offset \in Nat /\ Len(file) \in Nat
          /\ offset + InSize = Len(file) /\ i < InSize
      BY PlaceFacts
    <2> QED BY <2>1, Sizes
  <1>2. InSize % BlockSize = m
    <2>1. /\ i \in Nat /\ InSize \in Nat /\ Aligned(i) /\ i < InSize
          /\ InSize <= i + BlockSize /\ InSize # i + BlockSize
      <3>1. i \in Nat /\ InSize \in Nat /\ Aligned(i) /\ i < InSize
        BY PlaceFacts
      <3> QED BY <3>1, Sizes
    <2> QED BY <2>1, LastBlockSizes
  <1>3. pad = GetMaxPaddingSize(Len(file)) /\ pad \in Char
    <2>1. pad = GetMaxPaddingSize(offset + InSize)
      BY PlaceFacts, SamePadding
    <2>2. pad \in 1 .. BlockSize
      BY PaddingFacts
    <2> QED BY <1>1, <2>1, <2>2, Sizes DEF Char
  <1>4. PadFrom(Loaded, InSize % BlockSize) = front \o back
    BY <1>2 DEF PadFrom
  <1>5. Loaded \in Seq(Char) /\ Len(Loaded) = BlockSize
    BY LoadedFacts, BlockIsSeq
  <1> HIDE DEF m, pad
  <1>6. front \in Seq(Char) /\ Len(front) = m /\ \A k \in 1 .. m : front[k] = Loaded[k]
    <2>1. 1 \in Int /\ m \in Int /\ 1 <= 1 /\ 1 <= m + 1 /\ m <= BlockSize /\ m - 1 + 1 = m
          /\ \A k \in 1 .. m : 1 + k - 1 = k
      BY <1>1, Sizes
    <2>2. front \in Seq(Char) /\ Len(front) = m
      BY <1>5, <2>1, PartOf
    <2>3. \A k \in 1 .. m : front[k] = Loaded[k]
      BY <1>5, <2>1, PartAt
    <2> QED BY <2>2, <2>3
  <1>7. back \in Seq(Char) /\ Len(back) = BlockSize - m /\ \A k \in 1 .. BlockSize - m : back[k] = pad
    <2>1. back \in [1 .. BlockSize - m -> Char] /\ \A k \in 1 .. BlockSize - m : back[k] = pad
      BY <1>3
    <2> HIDE DEF back
    <2> QED BY <1>1, <2>1, FunctionIsSeq
  <1> HIDE DEF front, back
  <1> DEFINE whole == front \o back
  <1>8. /\ \A k \in 1 .. m : whole[k] = front[k]
        /\ \A k \in 1 .. BlockSize - m : whole[m + k] = back[k]
    BY <1>6, <1>7, JoinAt
  <1>9. whole \in Block
    <2>1. whole \in Seq(Char) /\ Len(whole) = BlockSize
      <3>1. m + (BlockSize - m) = BlockSize
        BY <1>1, Sizes
      <3> QED BY <1>6, <1>7, <3>1, JoinOf
    <2> HIDE DEF whole
    <2> QED BY <2>1, BlockIsSeq
  <1> HIDE DEF whole
  <1>10. ASSUME NEW k \in 1 .. BlockSize PROVE whole[k] = PlainByte(file, offset + i + k)
    <2>1. CASE k <= m
      <3>1. k \in 1 .. m /\ k <= InSize - i /\ offset + i + k <= Len(file)
        BY <1>1, <2>1 DEF m
      <3>2. Loaded[k] = file[offset + i + k]
        BY <3>1, LoadedBytes
      <3>3. whole[k] = Loaded[k]
        BY <1>6, <1>8, <3>1
      <3> QED BY <3>1, <3>2, <3>3 DEF PlainByte
    <2>2. CASE ~(k <= m)
      <3>1. k - m \in 1 .. BlockSize - m /\ m + (k - m) = k /\ ~(offset + i + k <= Len(file))
        BY <1>1, <2>2, Sizes
      <3>2. whole[k] = pad
        BY <1>7, <1>8, <3>1
      <3> QED BY <1>3, <3>1, <3>2 DEF PlainByte
    <2> QED BY <2>1, <2>2
  <1>11. whole = [k \in 1 .. BlockSize |-> whole[k]]
    BY <1>9 DEF Block
  <1>12. whole = PlainAt(file, offset + i)
    BY <1>10, <1>11 DEF PlainAt
  <1> QED BY <1>4, <1>12 DEF whole

(* What is fetched to be decrypted, as long as the data reach. *)
LEMMA FetchedIsData ==
    ASSUME CallInv, pc = "loop", i + BlockSize <= InSize, NEW block \in Fetched
    PROVE  block = BlockAt(source, offset + i)
  <1>1. /\ InSize \in Nat /\ InData \in Seq(Char) /\ Len(InData) = InSize
        /\ i \in Nat /\ Len(written) = i
        /\ source \in Seq(Char) /\ offset \in Nat /\ offset + InSize <= Len(source)
    BY ChunkFacts DEF CallInv, BlockTypeOK, LoopInv
  <1> DEFINE end == IF Len(written) + BlockSize < InSize THEN Len(written) + BlockSize ELSE InSize
             front == SubSeq(InData, Len(written) + 1, end)
  <1>2. PICK rest \in [1 .. BlockSize - Len(front) -> Char] : block = front \o rest
    BY DEF Fetched
  <1>3. end = i + BlockSize
    BY <1>1, Sizes
  <1> HIDE DEF end
  <1>4. i + 1 \in Int /\ end \in Int /\ 1 <= i + 1 /\ i + 1 <= end + 1 /\ end <= InSize
        /\ end - (i + 1) + 1 = BlockSize /\ \A k \in 1 .. BlockSize : (i + 1) + k - 1 = i + k
    BY <1>1, <1>3, Sizes
  <1>5. front \in Seq(Char) /\ Len(front) = BlockSize
    BY <1>1, <1>4, PartOf
  <1>6. \A k \in 1 .. BlockSize : front[k] = InData[i + k]
    BY <1>1, <1>4, PartAt
  <1> HIDE DEF front
  <1>7. rest \in Seq(Char) /\ Len(rest) = 0
    <2>1. BlockSize - Len(front) = 0 /\ 0 \in Nat
      BY <1>5, Sizes
    <2>2. rest \in [1 .. 0 -> Char]
      BY <1>2, <2>1
    <2> QED BY <2>2, FunctionIsSeq
  <1>8. block = front
    BY <1>2, <1>5, <1>7
  <1>9. ASSUME NEW k \in 1 .. BlockSize PROVE block[k] = source[offset + i + k]
    <2>1. offset + 1 \in Int /\ offset + InSize \in Int /\ 1 <= offset + 1
          /\ offset + 1 <= (offset + InSize) + 1 /\ i + k \in 1 .. (offset + InSize) - (offset + 1) + 1
          /\ (offset + 1) + (i + k) - 1 = offset + i + k
      BY <1>1, Sizes
    <2>2. InData[i + k] = source[offset + i + k]
      BY <1>1, <2>1, PartAt DEF InData
    <2> QED BY <1>6, <1>8, <2>2
  <1>10. block = [k \in 1 .. BlockSize |-> block[k]]
    <2>1. front \in Block
      BY <1>5, BlockIsSeq
    <2> QED BY <1>8, <2>1 DEF Block
  <1> QED BY <1>9, <1>10 DEF BlockAt

------------------------------------------------------------------------------
(* The steps keep RecoverInv. *)

LEMMA RecoverableStays ==
    ASSUME UNCHANGED files
    PROVE  /\ Recoverable' <=> Recoverable
           /\ UNCHANGED <<class, passwordSize, keys, file>>
  BY DEF files, Recoverable, KeysAreDetermined, Keys, KeySize

LEMMA RecoverInit ==
    ASSUME BlockInit
    PROVE  RecoverInv
  <1>1. offset = 0 /\ 0 % ReadDataSize = 0
    BY Sizes DEF BlockInit
  <1>2. keys.encrypt \in Keys(class, passwordSize)
    BY DEF BlockInit
  <1>3. Recoverable => Encrypting
    <2>1. ASSUME isEncrypt PROVE IsCipherText(target, file, class, keys.encrypt)
      <3>1. target = <<>> /\ Len(target) = 0 /\ Aligned(0)
        BY Sizes DEF BlockInit, Aligned
      <3>2. \A p \in 0 .. 0 : ~(p < 0)
        OBVIOUS
      <3> QED BY <3>1, <3>2 DEF IsCipherText
    <2>2. source = file /\ Len(target) = offset /\ pc = "call"
      BY DEF BlockInit
    <2> QED BY <2>1, <2>2 DEF Encrypting
  <1>4. Recoverable => isEncrypt
    BY DEF BlockInit, Recoverable
  <1> QED BY <1>1, <1>2, <1>3, <1>4 DEF RecoverInv, PlaceInv, Decrypting

LEMMA BeginCallRecovers ==
    ASSUME CallInv, RecoverInv, BeginCall
    PROVE  RecoverInv'
  <1>1. /\ pc = "call" /\ pc' = "loop" /\ i' = 0 /\ iv' = ZeroBlock /\ written' = <<>>
        /\ UNCHANGED <<files, isEncrypt, source, offset, target>>
    BY DEF BeginCall
  <1>2. PlaceInv'
    BY <1>1, RecoverableStays DEF RecoverInv, PlaceInv
  <1>3. target \in Seq(Char) /\ target \o <<>> = target /\ offset \in Nat /\ offset + 0 = offset
    <2>1. target \in Seq(Char)
      BY DEF CallInv, BlockTypeOK
    <2> QED BY <2>1, ChunkFacts
  <1>4. \A s : VectorAt(s, offset + 0) = ZeroBlock
    BY <1>3 DEF RecoverInv, PlaceInv, VectorAt
  <1>5. ASSUME Recoverable' PROVE Encrypting' /\ Decrypting'
    <2>1. Encrypting /\ Decrypting
      BY <1>1, <1>5, RecoverableStays DEF RecoverInv
    <2>2. Encrypting'
      BY <1>1, <1>3, <1>4, <2>1, RecoverableStays DEF Encrypting
    <2>3. Decrypting'
      BY <1>1, <1>3, <1>4, <2>1, RecoverableStays DEF Decrypting
    <2> QED BY <2>2, <2>3
  <1> QED BY <1>2, <1>5 DEF RecoverInv

(* A front of f as long as f is f. *)
LEMMA WholeFront ==
    ASSUME NEW s \in Seq(Char), NEW f \in Seq(Char), IsFront(s, f, Len(f))
    PROVE  s = f
  <1>1. Len(s) = Len(f) /\ \A n \in 1 .. Len(f) : s[n] = f[n]
    BY DEF IsFront
  <1> QED BY <1>1

LEMMA EndCallRecovers ==
    ASSUME CallInv, RecoverInv, EndCall
    PROVE  RecoverInv'
  <1>1. /\ pc = "return" /\ UNCHANGED <<files, call>>
        /\ target \in Seq(Char) /\ written \in Seq(Char) /\ file \in Seq(Char)
    BY DEF EndCall, CallInv, BlockTypeOK
  <1>2. Len(target \o written) = Len(target) + Len(written) /\ Len(target) \in Nat
        /\ Len(written) \in Nat /\ target \o written \in Seq(Char)
    BY <1>1, JoinOf
  <1>3. /\ offset \in Nat /\ InSize \in Nat
        /\ IsEnd \in BOOLEAN
    BY ChunkFacts
  <1>4. offset' % ReadDataSize = 0
    <2>1. CASE ~IsEnd
      <3>1. offset + InSize < Len(source) /\ Len(source) \in Nat
        BY <2>1, ChunkFacts
      <3>2. InSize = ReadDataSize
        BY <1>3, <3>1, Sizes DEF InSize, Rest
      <3>3. offset' = offset + ReadDataSize
        BY <2>1, <3>2 DEF EndCall
      <3>4. (offset + ReadDataSize) % ReadDataSize = 0
        BY <1>3, ChunkPlaces DEF RecoverInv, PlaceInv
      <3> QED BY <3>3, <3>4
    <2>2. CASE IsEnd
      <3>1. offset' = 0 \/ offset' = offset
        BY <2>2 DEF EndCall
      <3>2. 0 % ReadDataSize = 0 /\ offset % ReadDataSize = 0
        BY Sizes DEF RecoverInv, PlaceInv
      <3> QED BY <3>1, <3>2
    <2> QED BY <1>3, <2>1, <2>2
  <1>5. PlaceInv'
    BY <1>1, <1>4, RecoverableStays DEF RecoverInv, PlaceInv
  <1>6. ASSUME Recoverable' PROVE Encrypting' /\ Decrypting'
    <2>1. Encrypting /\ Decrypting /\ UNCHANGED <<class, keys, file>>
      BY <1>1, <1>6, RecoverableStays DEF RecoverInv
    <2>2. CASE ~IsEnd /\ isEncrypt
      <3>1. /\ pc' = "call" /\ offset' = offset + InSize /\ target' = target \o written
            /\ UNCHANGED <<isEncrypt, source>>
        BY <2>2 DEF EndCall
      <3>2. /\ source = file /\ Len(target) = offset
            /\ IsCipherText(target \o written, file, class, keys.encrypt)
            /\ offset + Len(written) = offset + InSize
        BY <1>1, <2>1, <2>2 DEF Encrypting
      <3>3. Len(target') = offset'
        BY <1>2, <3>1, <3>2
      <3> QED BY <2>1, <2>2, <3>1, <3>2, <3>3 DEF Encrypting, Decrypting
    <2>3. CASE ~IsEnd /\ ~isEncrypt
      <3>1. /\ pc' = "call" /\ offset' = offset + InSize /\ target' = target \o written
            /\ UNCHANGED <<isEncrypt, source>>
        BY <2>3 DEF EndCall
      <3>2. /\ IsCipherText(source, file, class, keys.encrypt) /\ Len(source) = PlainSize(file)
            /\ IsFront(target \o written, file, offset + InSize)
        BY <1>1, <2>1, <2>3 DEF Decrypting
      <3> QED BY <2>1, <2>3, <3>1, <3>2 DEF Encrypting, Decrypting
    <2>4. CASE IsEnd /\ isEncrypt
      <3>1. /\ pc' = "call" /\ offset' = 0 /\ target' = <<>> /\ source' = target \o written
            /\ isEncrypt' = FALSE
        BY <2>4 DEF EndCall
      <3>2. /\ Len(target) = offset /\ IsCipherText(target \o written, file, class, keys.encrypt)
            /\ offset + Len(written) = PlainSize(file)
        BY <1>1, <2>1, <2>4 DEF Encrypting
      <3>3. Len(source') = PlainSize(file)
        BY <1>2, <3>1, <3>2
      <3>4. IsFront(<<>>, file, 0)
        <4>1. Len(file) \in Nat /\ Len(<<>>) = 0
          BY <1>1
        <4> QED BY <4>1 DEF IsFront
      <3> QED BY <2>1, <3>1, <3>2, <3>3, <3>4 DEF Encrypting, Decrypting
    <2>5. CASE IsEnd /\ ~isEncrypt
      <3>1. pc' = "done" /\ target' = target \o written /\ UNCHANGED <<isEncrypt, offset, source>>
        BY <2>5 DEF EndCall
      <3>2. /\ IsCipherText(source, file, class, keys.encrypt) /\ Len(source) = PlainSize(file)
            /\ IsFront(target \o written, file, Len(file))
        BY <1>1, <2>1, <2>5 DEF Decrypting
      <3>3. target' = file
        BY <1>1, <1>2, <3>1, <3>2, WholeFront
      <3> QED BY <2>1, <2>5, <3>1, <3>2, <3>3 DEF Encrypting, Decrypting
    <2>6. isEncrypt \in BOOLEAN
      BY DEF CallInv, BlockTypeOK
    <2> QED BY <1>3, <2>2, <2>3, <2>4, <2>5, <2>6
  <1> QED BY <1>5, <1>6 DEF RecoverInv

(* The cipher text after an iteration of Encrypt on the block at its place.       *)
LEMMA EncryptGrows ==
    ASSUME CallInv, PlaceInv, Encrypting, pc = "loop", isEncrypt,
           NEW b \in Block, b = PlainAt(file, offset + i), NEW x, x = Encrypted(b, iv)
    PROVE  /\ x \in Block
           /\ target \o (written \o x) = (target \o written) \o x
           /\ Len(target \o (written \o x)) = offset + i + BlockSize
           /\ target \o (written \o x) \in Seq(Char)
           /\ IsCipherText(target \o (written \o x), file, class, keys.encrypt)
           /\ VectorAt(target \o (written \o x), offset + i + BlockSize) =
                  IF (offset + i + BlockSize) % ReadDataSize = 0 THEN ZeroBlock ELSE x
  <1> DEFINE s == target \o written
  <1>1. /\ written \in Seq(Char) /\ target \in Seq(Char) /\ iv \in Block
        /\ Len(written) = i /\ i \in Nat /\ offset \in Nat /\ class \in Classes
    BY PlaceFacts DEF CallInv, BlockTypeOK
  <1>2. /\ Len(target) = offset /\ IsCipherText(s, file, class, keys.encrypt)
        /\ iv = VectorAt(s, offset + i)
    BY DEF Encrypting
  <1>3. s \in Seq(Char) /\ Len(s) = offset + i
    BY <1>1, <1>2, JoinOf
  <1>4. x \in Block /\ x \in Seq(Char)
    BY <1>1, CipherFacts, BlockIsSeq
  <1>5. s \o x = target \o (written \o x)
    BY <1>1, <1>4, JoinThree
  <1> HIDE DEF s
  <1>6. x = Cipher(class, keys.encrypt, PlainAt(file, Len(s)), iv)
    BY <1>3, EncryptedIsCipher
  <1>7. /\ IsCipherText(s \o x, file, class, keys.encrypt)
        /\ VectorAt(s \o x, Len(s) + BlockSize) =
               IF (Len(s) + BlockSize) % ReadDataSize = 0 THEN ZeroBlock ELSE x
    <2>1. iv = VectorAt(s, Len(s)) \/ class = "DesCrypt"
      BY <1>2, <1>3
    <2>2. s \in Seq(Char) /\ class \in Classes /\ x \in Block
          /\ IsCipherText(s, file, class, keys.encrypt)
      BY <1>1, <1>2, <1>3, <1>4
    <2> QED BY <1>6, <2>1, <2>2, GrowCipherText
  <1>8. s \o x \in Seq(Char) /\ Len(s \o x) = Len(s) + BlockSize
    BY <1>3, <1>4, GrowBlocks
  <1> QED BY <1>3, <1>4, <1>5, <1>7, <1>8 DEF s

LEMMA EncryptInnerRecovers ==
    ASSUME CallInv, RecoverInv, EncryptInner
    PROVE  RecoverInv'
  <1> DEFINE x == Encrypted(Loaded, iv)
  <1>1. /\ pc = "loop" /\ isEncrypt /\ ~LastBlock /\ UNCHANGED chunk
        /\ iv' = x /\ written' = written \o x /\ i' = i + BlockSize
        /\ pc' = IF i + BlockSize < InSize THEN "loop" ELSE "return"
    BY DEF EncryptInner, PutOne, chunk, NextBlock
  <1>2. UNCHANGED files /\ UNCHANGED <<isEncrypt, source, offset, target>>
    BY <1>1 DEF chunk
  <1>3. PlaceInv'
    BY <1>2, RecoverableStays DEF RecoverInv, PlaceInv
  <1>4. ASSUME Recoverable' PROVE Encrypting'
    <2>1. Encrypting /\ PlaceInv /\ UNCHANGED <<class, keys, file>>
      BY <1>2, <1>4, RecoverableStays DEF RecoverInv
    <2>2. source = file /\ Len(target) = offset
      BY <1>1, <2>1 DEF Encrypting
    <2>3. /\ i \in Nat /\ Aligned(i) /\ i < InSize /\ InSize \in Nat /\ offset \in Nat
          /\ i + BlockSize < InSize => (offset + i + BlockSize) % ReadDataSize = i + BlockSize
          /\ ~IsEnd => Aligned(InSize)
          /\ Len(written) = i /\ written \in Seq(Char)
      BY <1>1, <2>1, PlaceFacts
    <2>4. i + BlockSize <= InSize
      <3>1. CASE IsEnd
        BY <1>1, <2>3, <3>1, Sizes DEF LastBlock
      <3>2. CASE ~IsEnd
        BY <2>3, <3>2, AlignedSteps
      <3> QED BY <3>1, <3>2
    <2>5. Loaded = PlainAt(file, offset + i) /\ Loaded \in Block
      BY <1>1, <2>1, <2>2, <2>4, LoadedIsPlain, LoadedFacts
    <2>6. /\ x \in Block
          /\ IsCipherText(target \o (written \o x), file, class, keys.encrypt)
          /\ VectorAt(target \o (written \o x), offset + i + BlockSize) =
                 IF (offset + i + BlockSize) % ReadDataSize = 0 THEN ZeroBlock ELSE x
      BY <1>1, <2>1, <2>5, EncryptGrows
    <2> HIDE DEF x
    <2>7. Len(written') = i + BlockSize
      <3>1. x \in Seq(Char) /\ Len(x) = BlockSize
        BY <2>6, BlockIsSeq
      <3> QED BY <1>1, <2>3, <3>1, JoinOf
    <2>8. InSize' = InSize /\ (IsEnd' <=> IsEnd)
      BY <1>1, ChunkStays
    <2>9. IsCipherText(target' \o written', file', class', keys'.encrypt)
      BY <1>1, <1>2, <2>1, <2>6
    <2>10. ASSUME pc' = "loop" PROVE iv' = VectorAt(target' \o written', offset' + i')
      <3>1. i + BlockSize < InSize
        BY <1>1, <2>10
      <3>2. (offset + i + BlockSize) % ReadDataSize # 0
        BY <2>3, <3>1, Sizes
      <3>3. offset + (i + BlockSize) = offset + i + BlockSize
        BY <2>3, Sizes
      <3> QED BY <1>1, <1>2, <2>6, <3>2, <3>3
    <2>11. ASSUME pc' = "return"
           PROVE  ~IsEnd' /\ offset' + Len(written') = offset' + InSize'
      <3>1. ~(i + BlockSize < InSize)
        BY <1>1, <2>11
      <3>2. i + BlockSize = InSize
        BY <2>3, <2>4, <3>1, Sizes
      <3>3. ~IsEnd
        BY <1>1, <2>3, <3>2, Sizes DEF LastBlock
      <3> QED BY <2>7, <2>8, <3>2, <3>3
    <2>12. pc' \in {"loop", "return"} /\ source' = file' /\ Len(target') = offset'
      BY <1>1, <1>2, <2>1, <2>2
    <2> QED BY <2>9, <2>10, <2>11, <2>12 DEF Encrypting
  <1>5. Decrypting'
    BY <1>1, <1>2 DEF Decrypting
  <1> QED BY <1>3, <1>4, <1>5 DEF RecoverInv

(* An iteration with which Encrypt ends the file. *)
LEMMA EncryptEnds ==
    ASSUME CallInv, RecoverInv, pc = "loop", isEncrypt, IsEnd, UNCHANGED chunk, pc' = "return",
           Recoverable =>
               /\ IsCipherText(target \o written', file, class, keys.encrypt)
               /\ offset + Len(written') = PlainSize(file)
    PROVE  RecoverInv'
  <1>1. UNCHANGED files /\ UNCHANGED <<isEncrypt, source, offset, target>>
    BY DEF chunk
  <1>2. PlaceInv'
    BY <1>1, RecoverableStays DEF RecoverInv, PlaceInv
  <1>3. ASSUME Recoverable' PROVE Encrypting'
    <2>1. Encrypting /\ UNCHANGED <<class, keys, file>> /\ Recoverable
      BY <1>1, <1>3, RecoverableStays DEF RecoverInv
    <2>2. source = file /\ Len(target) = offset
      BY <2>1 DEF Encrypting
    <2>3. IsEnd' <=> IsEnd
      BY ChunkStays
    <2>4. /\ IsCipherText(target' \o written', file', class', keys'.encrypt)
          /\ offset' + Len(written') = PlainSize(file')
      BY <1>1, <2>1
    <2>5. source' = file' /\ Len(target') = offset'
      BY <1>1, <2>1, <2>2
    <2> QED BY <2>3, <2>4, <2>5 DEF Encrypting
  <1>4. Decrypting'
    BY <1>1 DEF Decrypting
  <1> QED BY <1>2, <1>3, <1>4 DEF RecoverInv

LEMMA EncryptLastPaddedRecovers ==
    ASSUME CallInv, RecoverInv, EncryptLastPadded
    PROVE  RecoverInv'
  <1> DEFINE padded == PadFrom(Loaded, InSize % BlockSize)
             x == Encrypted(padded, iv)
  <1>1. /\ pc = "loop" /\ isEncrypt /\ LastBlock /\ UNCHANGED chunk /\ written' = written \o x
        /\ pc' = IF i + BlockSize < InSize THEN "loop" ELSE "return"
        /\ GetMaxPaddingSize(InSize) # BlockSize
    BY DEF EncryptLastPadded, PutOne, chunk, NextBlock
  <1>2. IsEnd /\ i + BlockSize >= InSize
    BY <1>1 DEF LastBlock
  <1>3. padded \in Block
    BY <1>1, LoadedFacts, PaddingFacts
  <1>4. PlaceInv
    BY DEF RecoverInv
  <1>5. /\ i \in Nat /\ Aligned(i) /\ i < InSize /\ InSize \in Nat /\ offset \in Nat
        /\ Aligned(offset + i) /\ Len(written) = i /\ written \in Seq(Char)
        /\ Len(source) = offset + InSize
    BY <1>1, <1>2, <1>4, PlaceFacts
  <1>6. InSize # i + BlockSize
    BY <1>1, <1>5, LastBlockSizes
  <1>7. InSize < i + BlockSize /\ pc' = "return"
    BY <1>1, <1>2, <1>5, <1>6, Sizes
  <1>8. ASSUME Recoverable
        PROVE  /\ IsCipherText(target \o written', file, class, keys.encrypt)
               /\ offset + Len(written') = PlainSize(file)
    <2>1. Encrypting
      BY <1>8 DEF RecoverInv
    <2>2. source = file
      BY <1>1, <2>1 DEF Encrypting
    <2>3. padded = PlainAt(file, offset + i)
      BY <1>1, <1>2, <1>4, <1>7, <2>2, PaddedIsPlain
    <2> HIDE DEF padded
    <2>4. x \in Block /\ IsCipherText(target \o (written \o x), file, class, keys.encrypt)
      BY <1>1, <1>3, <1>4, <2>1, <2>3, EncryptGrows
    <2> HIDE DEF x
    <2>5. Len(written') = i + BlockSize
      <3>1. x \in Seq(Char) /\ Len(x) = BlockSize
        BY <2>4, BlockIsSeq
      <3> QED BY <1>1, <1>5, <3>1, JoinOf
    <2>6. offset + (i + BlockSize) = PlainSize(file)
      <3> DEFINE k == offset + i
                 n == Len(file)
      <3>1. k \in Nat /\ n \in Nat /\ Aligned(k) /\ k < n /\ n <= k + BlockSize
            /\ n # k + BlockSize /\ offset + (i + BlockSize) = k + BlockSize
        BY <1>5, <1>7, <2>2, Sizes
      <3> HIDE DEF k, n
      <3>2. n + GetMaxPaddingSize(n) = k + BlockSize
        BY <3>1, LastBlockSizes
      <3> QED BY <3>1, <3>2 DEF PlainSize, n
    <2> QED BY <1>1, <2>4, <2>5, <2>6
  <1> QED BY <1>1, <1>2, <1>7, <1>8, EncryptEnds

LEMMA EncryptLastFullRecovers ==
    ASSUME CallInv, RecoverInv, EncryptLastFull
    PROVE  RecoverInv'
  <1> DEFINE padding == [n \in 1 .. BlockSize |-> GetMaxPaddingSize(InSize)]
             one == Encrypted(Loaded, iv)
             two == Encrypted(padding, one)
  <1>1. /\ pc = "loop" /\ isEncrypt /\ LastBlock /\ UNCHANGED chunk
        /\ written' = (written \o one) \o two
        /\ pc' = IF i + BlockSize < InSize THEN "loop" ELSE "return"
        /\ GetMaxPaddingSize(InSize) = BlockSize
    BY DEF EncryptLastFull, chunk, NextBlock
  <1>2. IsEnd /\ i + BlockSize >= InSize
    BY <1>1 DEF LastBlock
  <1>3. PlaceInv
    BY DEF RecoverInv
  <1>4. /\ i \in Nat /\ Aligned(i) /\ i < InSize /\ InSize \in Nat /\ offset \in Nat
        /\ Aligned(offset) /\ Len(written) = i /\ written \in Seq(Char) /\ target \in Seq(Char)
        /\ Len(source) = offset + InSize /\ iv \in Block
    BY <1>1, <1>2, <1>3, PlaceFacts
  <1>5. InSize = i + BlockSize
    BY <1>1, <1>2, <1>4, LastBlockSizes
  <1>6. pc' = "return"
    BY <1>1, <1>4, <1>5, Sizes
  <1>7. ASSUME Recoverable
        PROVE  /\ IsCipherText(target \o written', file, class, keys.encrypt)
               /\ offset + Len(written') = PlainSize(file)
    <2> DEFINE s == target \o (written \o one)
    <2>1. Encrypting
      BY <1>7 DEF RecoverInv
    <2>2. source = file
      BY <1>1, <2>1 DEF Encrypting
    <2>3. Loaded = PlainAt(file, offset + i) /\ Loaded \in Block
      <3>1. i + BlockSize <= InSize
        BY <1>4, <1>5, Sizes
      <3> QED BY <1>1, <1>3, <2>2, <3>1, LoadedIsPlain, LoadedFacts
    <2>4. /\ one \in Block
          /\ Len(s) = offset + i + BlockSize /\ s \in Seq(Char)
          /\ IsCipherText(s, file, class, keys.encrypt)
          /\ VectorAt(s, offset + i + BlockSize) =
                 IF (offset + i + BlockSize) % ReadDataSize = 0 THEN ZeroBlock ELSE one
      BY <1>1, <1>3, <2>1, <2>3, EncryptGrows
    <2> HIDE DEF one
    <2>5. Len(s) = Len(file) /\ offset + i + BlockSize = Len(file)
      BY <1>4, <1>5, <2>2, <2>4, Sizes
    <2>6. GetMaxPaddingSize(Len(file)) = BlockSize
      <3>1. GetMaxPaddingSize(offset + InSize) = GetMaxPaddingSize(InSize)
        BY <1>4, SamePadding
      <3> QED BY <1>1, <1>4, <2>2, <3>1
    <2>7. padding \in Block /\ padding = PlainAt(file, Len(s))
      <3>1. padding \in Block
        BY PaddingFacts
      <3>2. Len(file) \in Nat
        BY <1>4, <2>2
      <3>3. \A n \in 1 .. BlockSize : PlainByte(file, Len(file) + n) = GetMaxPaddingSize(InSize)
        BY <1>1, <2>6, <3>2, Sizes DEF PlainByte
      <3>4. padding = PlainAt(file, Len(file))
        BY <3>3 DEF PlainAt
      <3> QED BY <2>5, <3>1, <3>4
    <2> HIDE DEF padding
    <2>8. one = VectorAt(s, Len(s)) \/ class = "DesCrypt"
      BY <1>7, <2>4, <2>5 DEF Recoverable
    <2>9. two \in Block /\ two = Cipher(class, keys.encrypt, PlainAt(file, Len(s)), one)
      <3>1. two \in Block
        BY <2>4, <2>7, CipherFacts
      <3> QED BY <2>7, <3>1, EncryptedIsCipher
    <2> HIDE DEF two
    <2>10. class \in Classes
      BY DEF CallInv, BlockTypeOK
    <2> HIDE DEF s
    <2>11. IsCipherText(s \o two, file, class, keys.encrypt)
      BY <2>4, <2>8, <2>9, <2>10, GrowCipherText
    <2>12. /\ one \in Seq(Char) /\ Len(one) = BlockSize
           /\ two \in Seq(Char) /\ Len(two) = BlockSize
      BY <2>4, <2>9, BlockIsSeq
    <2>13. written \o one \in Seq(Char) /\ Len(written \o one) = i + BlockSize
      <3>1. Len(written \o one) = Len(written) + Len(one) /\ written \o one \in Seq(Char)
        BY <1>4, <2>12, JoinOf
      <3> QED BY <1>4, <2>12, <3>1
    <2>14. s \o two = target \o written'
      BY <1>1, <1>4, <2>12, <2>13, JoinThree DEF s
    <2>15. Len(written') = i + BlockSize + BlockSize
      <3>1. Len((written \o one) \o two) = Len(written \o one) + Len(two)
        BY <2>12, <2>13, JoinOf
      <3> QED BY <1>1, <2>12, <2>13, <3>1
    <2>16. offset + (i + BlockSize + BlockSize) = PlainSize(file)
      BY <1>4, <2>5, <2>6, Sizes DEF PlainSize
    <2> QED BY <2>11, <2>14, <2>15, <2>16
  <1> QED BY <1>1, <1>2, <1>6, <1>7, EncryptEnds

(* What Decrypt gets out of the block at its place. *)
LEMMA DecryptFacts ==
    ASSUME CallInv, PlaceInv, Recoverable, Decrypting, pc = "loop", ~isEncrypt,
           NEW block \in Fetched
    PROVE  /\ i + BlockSize <= InSize /\ Aligned(InSize)
           /\ block = BlockAt(source, offset + i)
           /\ Decrypted(block, iv) = PlainAt(file, offset + i)
           /\ Len(source) = PlainSize(file) /\ Aligned(PlainSize(file))
           /\ PlainSize(file) = Len(file) + GetMaxPaddingSize(Len(file))
           /\ GetMaxPaddingSize(Len(file)) \in 1 .. BlockSize /\ Len(file) \in Nat
           /\ IsFront(target \o written, file, offset + i)
           /\ target \o written \in Seq(Char)
  <1>1. /\ i \in Nat /\ Aligned(i) /\ i < InSize /\ InSize \in Nat
        /\ offset \in Nat /\ Aligned(offset) /\ Aligned(offset + i)
        /\ Len(source) \in Nat /\ source \in Seq(Char) /\ file \in Seq(Char) /\ iv \in Block
        /\ offset + InSize <= Len(source)
        /\ written \in Seq(Char) /\ target \in Seq(Char)
    BY PlaceFacts
  <1>2. (IsEnd => offset + InSize = Len(source)) /\ (~IsEnd => Aligned(InSize))
    BY PlaceFacts
  <1>3. /\ IsCipherText(source, file, class, keys.encrypt) /\ Len(source) = PlainSize(file)
        /\ IsFront(target \o written, file, offset + i) /\ iv = VectorAt(source, offset + i)
    BY DEF Decrypting
  <1>4. /\ PlainSize(file) = Len(file) + GetMaxPaddingSize(Len(file)) /\ Len(file) \in Nat
        /\ Aligned(PlainSize(file)) /\ GetMaxPaddingSize(Len(file)) \in 1 .. BlockSize
    <2>1. Len(file) \in Nat
      BY <1>1
    <2> QED BY <2>1, PlainSizeFacts DEF PlainSize
  <1>5. i + BlockSize <= InSize
    <2>1. CASE IsEnd
      <3>1. offset + i < Len(source) /\ Aligned(Len(source)) /\ Len(source) = offset + InSize
        BY <1>1, <1>2, <1>3, <1>4, <2>1
      <3>2. offset + i + BlockSize <= Len(source)
        BY <1>1, <3>1, AlignedSteps
      <3> QED BY <1>1, <3>1, <3>2, Sizes
    <2>2. CASE ~IsEnd
      BY <1>1, <1>2, <2>2, AlignedSteps
    <2> QED BY <2>1, <2>2
  <1>6. Aligned(InSize)
    <2>1. CASE IsEnd
      <3>1. Len(source) % BlockSize = 0 /\ Len(source) = offset + InSize
        BY <1>2, <1>3, <1>4, <2>1 DEF Aligned
      <3>2. PICK a \in Nat : offset = a * BlockSize
        BY <1>1, AlignedFacts
      <3>3. PICK b \in Nat : Len(source) = b * BlockSize
        BY <1>1, <1>3, <1>4, AlignedFacts
      <3>4. InSize = (b - a) * BlockSize + 0
        BY <1>1, <3>1, <3>2, <3>3, Sizes, SMTT(30)
      <3>5. ((b - a) * BlockSize + 0) % BlockSize = 0
        <4>1. b - a \in Int /\ BlockSize \in Nat \ {0} /\ 0 \in 0 .. BlockSize - 1
          BY Sizes
        <4> QED BY <4>1, DivideOnce
      <3> QED BY <1>1, <3>4, <3>5 DEF Aligned
    <2>2. CASE ~IsEnd
      BY <1>2, <2>2
    <2> QED BY <2>1, <2>2
  <1>7. block = BlockAt(source, offset + i)
    BY <1>5, FetchedIsData
  <1>8. block = Cipher(class, keys.encrypt, PlainAt(file, offset + i), iv)
    <2> DEFINE p == offset + i
    <2>1. Aligned(p) /\ p < Len(source) /\ p \in 0 .. Len(source)
      BY <1>1
    <2> HIDE DEF p
    <2>2. BlockAt(source, p) = Cipher(class, keys.encrypt, PlainAt(file, p), VectorAt(source, p))
      BY <1>3, <2>1 DEF IsCipherText
    <2> QED BY <1>3, <1>7, <2>2 DEF p
  <1>9. Decrypted(block, iv) = PlainAt(file, offset + i)
    <2>1. offset + i \in Nat
      BY <1>1
    <2>2. PlainAt(file, offset + i) \in Block
      BY <1>1, <2>1, PlainAtIsBlock
    <2> QED BY <1>1, <1>8, <2>2, CipherUndone
  <1>10. target \o written \in Seq(Char)
    BY <1>1, JoinOf
  <1> QED BY <1>3, <1>4, <1>5, <1>6, <1>7, <1>9, <1>10

LEMMA DecryptInnerRecovers ==
    ASSUME CallInv, RecoverInv, DecryptInner
    PROVE  RecoverInv'
  <1>1. PICK block \in Fetched :
           /\ in' = block /\ iv' = block /\ written' = written \o Decrypted(block, iv)
    BY DEF DecryptInner
  <1>2. /\ pc = "loop" /\ ~isEncrypt /\ ~LastToDecrypt /\ UNCHANGED chunk /\ i' = i + BlockSize
        /\ pc' = IF i + BlockSize < InSize THEN "loop" ELSE "return"
    BY DEF DecryptInner, chunk, NextBlock
  <1>3. UNCHANGED files /\ UNCHANGED <<isEncrypt, source, offset, target>>
    BY <1>2 DEF chunk
  <1>4. PlaceInv'
    BY <1>3, RecoverableStays DEF RecoverInv, PlaceInv
  <1>5. ASSUME Recoverable' PROVE Decrypting'
    <2> DEFINE out == Decrypted(block, iv)
    <2>1. Decrypting /\ PlaceInv /\ Recoverable /\ UNCHANGED <<class, keys, file>>
      BY <1>3, <1>5, RecoverableStays DEF RecoverInv
    <2>2. /\ i \in Nat /\ i < InSize /\ InSize \in Nat /\ offset \in Nat /\ Aligned(offset + i)
          /\ i + BlockSize < InSize => (offset + i + BlockSize) % ReadDataSize = i + BlockSize
          /\ offset + InSize <= Len(source) /\ Len(source) \in Nat
          /\ written \in Seq(Char) /\ target \in Seq(Char) /\ file \in Seq(Char)
      BY <1>2, <2>1, PlaceFacts
    <2>3. /\ i + BlockSize <= InSize /\ block = BlockAt(source, offset + i)
          /\ out = PlainAt(file, offset + i)
      BY <1>2, <2>1, DecryptFacts
    <2>4. /\ Len(source) = PlainSize(file) /\ Aligned(PlainSize(file))
          /\ PlainSize(file) = Len(file) + GetMaxPaddingSize(Len(file))
          /\ GetMaxPaddingSize(Len(file)) \in 1 .. BlockSize /\ Len(file) \in Nat
          /\ IsFront(target \o written, file, offset + i) /\ target \o written \in Seq(Char)
      BY <1>2, <2>1, DecryptFacts
    <2> HIDE DEF out
    <2>5. offset + i + BlockSize < Len(source)
      <3>1. CASE IsEnd
        <4>1. ~(InSize - i <= BlockSize)
          BY <1>2, <3>1 DEF LastToDecrypt
        <4> QED BY <2>2, <4>1, Sizes
      <3>2. CASE ~IsEnd
        <4>1. offset + InSize < Len(source)
          BY <3>2, ChunkFacts
        <4> QED BY <2>2, <2>3, <4>1, Sizes
      <3> QED BY <3>1, <3>2
    <2>6. offset + i + BlockSize <= Len(file)
      <3>1. Aligned(offset + i + BlockSize) /\ offset + i + BlockSize \in Nat
        BY <2>2, AlignedFacts, Sizes
      <3>2. (offset + i + BlockSize) + BlockSize <= PlainSize(file)
        BY <2>4, <2>5, <3>1, AlignedSteps
      <3> QED BY <2>4, <3>1, <3>2, Sizes
    <2>7. out \in Block /\ out \in Seq(Char) /\ Len(out) = BlockSize
      <3>1. offset + i \in Nat
        BY <2>2
      <3> QED BY <2>2, <2>3, <3>1, PlainAtIsBlock, BlockIsSeq
    <2>8. ASSUME NEW n \in 1 .. BlockSize PROVE out[n] = file[offset + i + n]
      <3>1. offset + i + n <= Len(file)
        BY <2>2, <2>4, <2>6, Sizes
      <3>2. out[n] = PlainByte(file, offset + i + n)
        BY <2>3 DEF PlainAt
      <3> QED BY <3>1, <3>2 DEF PlainByte
    <2>9. IsFront(target' \o written', file', offset' + i')
      <3> DEFINE s == target \o written
                 m == offset + i
      <3>1. IsFront(s, file, m) /\ s \in Seq(Char) /\ m \in Nat /\ m + Len(out) <= Len(file)
            /\ \A n \in 1 .. Len(out) : out[n] = file[m + n]
        BY <2>2, <2>4, <2>6, <2>7, <2>8
      <3>2. target' \o written' = s \o out /\ offset' + i' = m + Len(out)
        <4>1. (target \o written) \o out = target \o (written \o out)
          BY <2>2, <2>7, JoinThree
        <4>2. offset + (i + BlockSize) = offset + i + BlockSize
          BY <2>2, Sizes
        <4> QED BY <1>1, <1>2, <1>3, <2>7, <4>1, <4>2 DEF out
      <3> HIDE DEF s, m
      <3>3. IsFront(s \o out, file, m + Len(out))
        BY <2>2, <2>7, <3>1, GrowFront
      <3> QED BY <2>1, <3>2, <3>3
    <2>10. ASSUME pc' = "loop" PROVE iv' = VectorAt(source', offset' + i')
      <3>1. i + BlockSize < InSize
        BY <1>2, <2>10
      <3>2. (offset + i + BlockSize) % ReadDataSize # 0
        BY <2>2, <3>1, Sizes
      <3>3. offset + (i + BlockSize) = offset + i + BlockSize
            /\ (offset + i + BlockSize) - BlockSize = offset + i
        BY <2>2, Sizes
      <3>4. VectorAt(source, offset + i + BlockSize) = BlockAt(source, offset + i)
        BY <3>2, <3>3 DEF VectorAt
      <3> QED BY <1>1, <1>2, <1>3, <2>3, <3>3, <3>4
    <2>11. ASSUME pc' = "return" PROVE ~IsEnd' /\ i' = InSize'
      <3>1. InSize = i + BlockSize
        BY <1>2, <2>2, <2>3, <2>11, Sizes
      <3>2. ~IsEnd
        BY <1>2, <2>2, <3>1, Sizes DEF LastToDecrypt
      <3> QED BY <1>2, <3>1, <3>2, ChunkStays
    <2>12. IsCipherText(source', file', class', keys'.encrypt) /\ Len(source') = PlainSize(file')
      BY <1>2, <1>3, <2>1 DEF Decrypting
    <2>13. pc' \in {"loop", "return"} /\ IsFront(target', file', offset')
      BY <1>2, <1>3, <2>1 DEF Decrypting
    <2> QED BY <2>9, <2>10, <2>11, <2>12, <2>13 DEF Decrypting
  <1>6. Encrypting'
    BY <1>2, <1>3 DEF Encrypting
  <1> QED BY <1>4, <1>5, <1>6 DEF RecoverInv

LEMMA DecryptLastRecovers ==
    ASSUME CallInv, RecoverInv, DecryptLast
    PROVE  RecoverInv'
  <1>1. PICK block \in Fetched :
           IF DataSize(Decrypted(block, iv)) > BlockSize
           THEN pc' = "crashed" /\ UNCHANGED <<i, written>>
           ELSE IF DataSize(Decrypted(block, iv)) = 0
           THEN pc' = "return" /\ UNCHANGED <<i, written>>
           ELSE /\ written' = written \o SubSeq(Decrypted(block, iv), 1,
                                                DataSize(Decrypted(block, iv)))
                /\ NextBlock
    BY DEF DecryptLast, NextBlock
  <1>2. pc = "loop" /\ ~isEncrypt /\ LastToDecrypt /\ UNCHANGED chunk
    BY DEF DecryptLast, chunk
  <1>3. UNCHANGED files /\ UNCHANGED <<isEncrypt, source, offset, target>>
    BY <1>2 DEF chunk
  <1>4. PlaceInv'
    BY <1>3, RecoverableStays DEF RecoverInv, PlaceInv
  <1>5. ASSUME Recoverable' PROVE Decrypting'
    <2> DEFINE out == Decrypted(block, iv)
               n == DataSize(out)
               pad == GetMaxPaddingSize(Len(file))
               s == target \o written
               m == offset + i
               new == SubSeq(out, 1, n)
    <2>1. Decrypting /\ PlaceInv /\ Recoverable /\ UNCHANGED <<class, keys, file>>
      BY <1>3, <1>5, RecoverableStays DEF RecoverInv
    <2>2. /\ i \in Nat /\ InSize \in Nat /\ offset \in Nat
          /\ written \in Seq(Char) /\ target \in Seq(Char) /\ file \in Seq(Char)
      BY <1>2, <2>1, PlaceFacts
    <2>3. IsEnd /\ InSize - i <= BlockSize
      BY <1>2 DEF LastToDecrypt
    <2>4. i + BlockSize <= InSize /\ out = PlainAt(file, m)
      BY <1>2, <2>1, DecryptFacts
    <2>5. /\ Len(source) = Len(file) + pad /\ pad \in 1 .. BlockSize /\ Len(file) \in Nat
          /\ IsFront(s, file, m) /\ s \in Seq(Char)
      BY <1>2, <2>1, DecryptFacts
    <2> HIDE DEF out, pad, s
    <2>6. InSize = i + BlockSize /\ m + BlockSize = Len(file) + pad /\ m \in Nat
      <3>1. InSize = i + BlockSize
        BY <2>2, <2>3, <2>4, Sizes
      <3>2. offset + InSize = Len(source)
        BY <2>3 DEF IsEnd
      <3> QED BY <2>2, <2>5, <3>1, <3>2, Sizes
    <2> HIDE DEF m
    <2>7. out \in Block /\ out \in Seq(Char) /\ Len(out) = BlockSize
      BY <2>2, <2>4, <2>6, PlainAtIsBlock, BlockIsSeq
    <2>8. n = BlockSize - pad
      <3>1. ~(m + BlockSize <= Len(file)) /\ BlockSize \in 1 .. BlockSize
        BY <2>5, <2>6, Sizes
      <3>2. out[BlockSize] = pad
        BY <2>4, <3>1 DEF PlainAt, PlainByte, pad
      <3>3. BlockSize - pad \in Nat /\ BlockSize - pad < SizeRange /\ SizeRange \in Nat
        BY <2>5, Sizes
      <3>4. (BlockSize - pad) % SizeRange = BlockSize - pad
        BY <3>3
      <3> QED BY <3>2, <3>4 DEF DataSize
    <2>9. n \in Nat /\ ~(n > BlockSize) /\ m + n = Len(file)
      BY <2>5, <2>6, <2>8, Sizes
    <2>10. pc' = "return" /\ IsFront(target' \o written', file', Len(file'))
      <3>1. CASE n = 0
        <4>1. pc' = "return" /\ written' = written
          BY <1>1, <2>9, <3>1 DEF out
        <4>2. m = Len(file)
          BY <2>6, <2>9, <3>1
        <4> QED BY <1>3, <2>1, <2>5, <4>1, <4>2 DEF s
      <3>2. CASE n # 0
        <4>1. written' = written \o new /\ NextBlock
          BY <1>1, <2>9, <3>2 DEF out
        <4>2. pc' = "return"
          BY <2>2, <2>6, <4>1, Sizes DEF NextBlock
        <4>3. 1 \in Int /\ n \in Int /\ 1 <= 1 /\ 1 <= n + 1 /\ n <= BlockSize /\ n - 1 + 1 = n
              /\ \A k \in 1 .. n : 1 + k - 1 = k
          BY <2>9, Sizes
        <4> HIDE DEF n
        <4>4. new \in Seq(Char) /\ Len(new) = n
          BY <2>7, <4>3, PartOf
        <4>5. ASSUME NEW k \in 1 .. n PROVE new[k] = file[m + k]
          <5>1. new[k] = out[k]
            BY <2>7, <4>3, PartAt
          <5>2. k \in 1 .. BlockSize /\ m + k <= Len(file)
            BY <2>6, <2>9, <4>3, Sizes
          <5> QED BY <2>4, <5>1, <5>2 DEF PlainAt, PlainByte
        <4> HIDE DEF new
        <4>6. IsFront(s \o new, file, m + Len(new))
          <5>1. m + Len(new) <= Len(file) /\ \A k \in 1 .. Len(new) : new[k] = file[m + k]
            BY <2>5, <2>9, <4>4, <4>5
          <5> QED BY <2>2, <2>5, <2>6, <4>4, <5>1, GrowFront
        <4>7. s \o new = target \o (written \o new)
          BY <2>2, <4>4, JoinThree DEF s
        <4> QED BY <1>3, <2>1, <2>9, <4>1, <4>2, <4>4, <4>6, <4>7
      <3> QED BY <3>1, <3>2
    <2>11. IsEnd'
      BY <1>2, <2>3, ChunkStays
    <2>12. IsCipherText(source', file', class', keys'.encrypt) /\ Len(source') = PlainSize(file')
      BY <1>2, <1>3, <2>1 DEF Decrypting
    <2>13. IsFront(target', file', offset')
      BY <1>2, <1>3, <2>1 DEF Decrypting
    <2> QED BY <2>10, <2>11, <2>12, <2>13 DEF Decrypting
  <1>6. Encrypting'
    BY <1>2, <1>3 DEF Encrypting
  <1> QED BY <1>4, <1>5, <1>6 DEF RecoverInv

(* RecoverInv: at every place of a chunk, what is there so far is the cipher text *)
(* of the file, or the front of the file again (aes_cbc_crypt.cc:61-171).        *)
THEOREM RecoverSafety == BlockSpec => []RecoverInv
  <1>1. BlockInit => RecoverInv
    BY RecoverInit
  <1>2. ASSUME CallInv, RecoverInv, [BlockNext]_blockVars PROVE RecoverInv'
    <2>1. ASSUME UNCHANGED blockVars PROVE RecoverInv'
      <3>1. UNCHANGED files /\ UNCHANGED <<isEncrypt, source, offset, target, pc, i, iv, written>>
        BY <2>1 DEF blockVars, call
      <3>2. UNCHANGED chunk
        BY <3>1 DEF chunk
      <3>3. /\ Recoverable' <=> Recoverable
            /\ UNCHANGED <<class, passwordSize, keys, file>>
            /\ InSize' = InSize
            /\ IsEnd' <=> IsEnd
        BY <3>1, <3>2, RecoverableStays, ChunkStays
      <3>4. PlaceInv'
        BY <1>2, <3>1, <3>3 DEF RecoverInv, PlaceInv
      <3>5. Encrypting => Encrypting'
        BY <3>1, <3>3 DEF Encrypting
      <3>6. Decrypting => Decrypting'
        BY <3>1, <3>3 DEF Decrypting
      <3> QED BY <1>2, <3>3, <3>4, <3>5, <3>6 DEF RecoverInv
    <2> QED BY <1>2, <2>1, BeginCallRecovers, EndCallRecovers, EncryptInnerRecovers,
               EncryptLastPaddedRecovers, EncryptLastFullRecovers, DecryptInnerRecovers,
               DecryptLastRecovers DEF BlockNext
  <1> QED BY <1>1, <1>2, CallSafety, PTL DEF BlockSpec

(* DecryptRecovers: what Decrypt has put out is the front of the file that was     *)
(* given to Encrypt, and in the end the whole, for any file, any sizes of blocks   *)
(* and chunks and any cipher (aes_cbc_crypt.cc:61-171, des_crypt.cc:39-160).     *)
THEOREM DecryptionRecovers == BlockSpec => []DecryptRecovers
  <1>1. ASSUME CallInv, RecoverInv PROVE DecryptRecovers
    <2> SUFFICES ASSUME Recoverable, ~isEncrypt
                 PROVE  /\ IsPrefix(target, file)
                        /\ pc # "crashed"
                        /\ pc = "done" => target = file
      BY DEF DecryptRecovers, Recoverable
    <2>1. Decrypting
      BY <1>1 DEF RecoverInv
    <2>2. target \in Seq(Char) /\ file \in Seq(Char)
      BY <1>1 DEF CallInv, BlockTypeOK
    <2>3. pc # "crashed" /\ (pc = "done" => target = file)
      BY <2>1 DEF Decrypting
    <2>4. /\ Len(target) \in Nat /\ Len(target) <= Len(file)
          /\ \A n \in 1 .. Len(target) : target[n] = file[n]
      <3>1. CASE pc = "done"
        BY <2>2, <2>3, <3>1
      <3>2. CASE pc # "done"
        BY <2>1, <2>2, <3>2 DEF Decrypting, IsFront
      <3> QED BY <3>1, <3>2
    <2>5. IsPrefix(target, file)
      BY <2>2, <2>4 DEF IsPrefix
    <2> QED BY <2>3, <2>5
  <1> QED BY <1>1, CallSafety, RecoverSafety, PTL

==============================================================================
