------------------------------ MODULE BlockCrypt ------------------------------
(***************************************************************************)
(* The classes AesCBCCrypt and DesCrypt of crypt/: a file goes through        *)
(* Encrypt or Decrypt chunk by chunk, as the tasks hand it over, and what      *)
(* Encrypt made of it goes through Decrypt of another object, as when the      *)
(* program is run with -e and then with -d.  An action is one iteration of     *)
(* the loop in Encrypt or Decrypt.                                            *)
(*                                                                         *)
(* The classes differ in what the loop does with a block (cipher block        *)
(* chaining or not) and in how a password becomes a key.  The ciphers are      *)
(* OpenSSL's: what is assumed of them is CipherAssumption.                    *)
(***************************************************************************)
EXTENDS Sequences, SequencesExt, DataSizes

CONSTANTS
    ReadDataSize,     (* data_size of ReadTask::Main: the size of a chunk       *)
    MaxByte,          (* 255                                                    *)
    SizeRange,        (* the number of values of size_t, 2^64                   *)
    PasswordSizes,    (* how many characters the password may have              *)
    Residues,         (* what may follow a password in memory                   *)
    Files,            (* the files that may be given to the program             *)
    XorByte(_, _),    (* ^ on bytes                                             *)
    EncryptBlock(_, _),   (* AES_encrypt or DES_encrypt of a block under a key  *)
    DecryptBlock(_, _)

Char == 0 .. MaxByte
Block == [1 .. BlockSize -> Char]
Classes == {"AesCBCCrypt", "DesCrypt"}

(* How many bytes AesCBCCrypt::Init copies from a password of n characters;   *)
(* above 32 it asks for a key of no bits, which OpenSSL refuses.               *)
KeySize(n) == CASE n <= 16 -> 16
                [] n > 16 /\ n <= 24 -> 24
                [] n > 24 /\ n <= 32 -> 32
                [] n > 32 -> 0

(* The keys that Init of a class may set: the bytes past the end of the string  *)
(* and its 0, and a key schedule that is not set, are what was in memory.       *)
(* DesCrypt drops what is above 8 characters and fills with 0 below.            *)
Keys(class, n) ==
    IF class = "AesCBCCrypt"
    THEN [size : {KeySize(n)},
          residue : IF KeySize(n) \in 1 .. n + 1 THEN {0} ELSE Residues]
    ELSE [size : {8}, residue : {0}]

AllKeys == UNION {Keys(class, n) : class \in Classes, n \in PasswordSizes}

ASSUME CipherAssumption ==
    /\ \A a, b \in Char : XorByte(a, b) \in Char /\ XorByte(XorByte(a, b), b) = a
    /\ \A key \in AllKeys : \A block \in Block :
          /\ EncryptBlock(key, block) \in Block
          /\ DecryptBlock(key, block) \in Block
          /\ DecryptBlock(key, EncryptBlock(key, block)) = block

ASSUME WrapperAssumption ==
    /\ ReadDataSize \in Nat \ {0} /\ ReadDataSize % BlockSize = 0
    /\ MaxByte \in Nat /\ BlockSize <= MaxByte
    /\ SizeRange \in Nat /\ SizeRange > BlockSize + MaxByte
    /\ PasswordSizes \subseteq Nat
    /\ Files \subseteq Seq(Char) \ {<<>>}

VARIABLES
    class,       (* which of the two classes is used                           *)
    passwordSize,
    keys,        (* the keys of the encrypting and of the decrypting object     *)
    file,        (* the file given to the program                              *)
    roundTrip,   (* it is encrypted before it is decrypted                      *)
    isEncrypt,   (* which call it is                                           *)
    source,      (* the file that is read                                      *)
    offset,      (* the bytes of it that earlier calls have taken               *)
    target,      (* the file that is written                                   *)
    pc,          (* where the call is                                          *)
    i, iv, in,   (* the locals of Encrypt and Decrypt                          *)
    written      (* the bytes in _out_data; write_size is their number          *)

files == <<class, passwordSize, keys, file, roundTrip>>
call == <<i, iv, in, written>>
blockVars == <<files, isEncrypt, source, offset, target, pc, call>>

ZeroBlock == [n \in 1 .. BlockSize |-> 0]

BlockInit ==
    /\ class \in Classes
    /\ passwordSize \in PasswordSizes
    /\ keys \in [encrypt : Keys(class, passwordSize), decrypt : Keys(class, passwordSize)]
    /\ file \in Files
    /\ roundTrip \in BOOLEAN
    /\ isEncrypt = roundTrip
    /\ source = file
    /\ offset = 0
    /\ target = <<>>
    /\ pc = "call"
    /\ i = 0 /\ iv = ZeroBlock /\ in = ZeroBlock
    /\ written = <<>>

------------------------------------------------------------------------------
(* The arguments of the call: _in_data, _in_size, _is_end. *)
Rest == Len(source) - offset
InSize == IF Rest < ReadDataSize THEN Rest ELSE ReadDataSize
InData == SubSeq(source, offset + 1, offset + InSize)
IsEnd == offset + InSize = Len(source)

(* memcpy and memset: the first bytes of a block are replaced, the rest stays. *)
Overlay(block, front) == front \o SubSeq(block, Len(front) + 1, BlockSize)
PadFrom(block, n) ==
    SubSeq(block, 1, n) \o [k \in 1 .. BlockSize - n |-> GetMaxPaddingSize(InSize)]

(* What goes into the cipher before it, or out of it after it. *)
Chained(block, vector) ==
    IF class = "AesCBCCrypt" THEN [n \in 1 .. BlockSize |-> XorByte(block[n], vector[n])]
                             ELSE block

Encrypted(block, vector) == EncryptBlock(keys.encrypt, Chained(block, vector))
Decrypted(block, vector) == Chained(DecryptBlock(keys.decrypt, block), vector)

------------------------------------------------------------------------------
(* The caller. *)

BeginCall ==
    /\ pc = "call"
    /\ pc' = "loop"
    /\ i' = 0
    /\ iv' = ZeroBlock
    /\ in' = ZeroBlock
    /\ written' = <<>>
    /\ UNCHANGED <<files, isEncrypt, source, offset, target>>

(* The caller writes out what the call has returned and goes on with the next  *)
(* chunk, with the decryption of the whole, or ends.                           *)
EndCall ==
    /\ pc = "return"
    /\ IF ~IsEnd
       THEN /\ pc' = "call"
            /\ offset' = offset + InSize
            /\ target' = target \o written
            /\ UNCHANGED <<isEncrypt, source>>
       ELSE IF isEncrypt
       THEN /\ pc' = "call"
            /\ isEncrypt' = FALSE
            /\ offset' = 0
            /\ source' = target \o written
            /\ target' = <<>>
       ELSE /\ pc' = "done"
            /\ target' = target \o written
            /\ UNCHANGED <<isEncrypt, offset, source>>
    /\ UNCHANGED <<files, call>>

------------------------------------------------------------------------------
(* Encrypt *)

(* The block with the bytes of this iteration copied into it. *)
Loaded ==
    LET size == IF InSize - i < BlockSize THEN InSize - i ELSE BlockSize
    IN  Overlay(in, SubSeq(InData, Len(written) + 1, Len(written) + size))

(* A mutated form: a full block is not taken for the last one. *)
LateLastBlock == IsEnd /\ i + BlockSize > InSize

LastBlock == IsEnd /\ i + BlockSize >= InSize

(* A mutated form: the loop is entered once more when all is done. *)
OnceMore ==
    /\ i' = i + BlockSize
    /\ pc' = IF i + BlockSize <= InSize THEN "loop" ELSE "return"

(* A mutated form: the loop goes on with the next byte. *)
NextByte ==
    /\ i' = i + 1
    /\ pc' = IF i + 1 < InSize THEN "loop" ELSE "return"

(* The next iteration, or the end of the call. *)
NextBlock ==
    /\ i' = i + BlockSize
    /\ pc' = IF i + BlockSize < InSize THEN "loop" ELSE "return"

(* One iteration that puts out one block. *)
PutOne(block) ==
    /\ pc = "loop" /\ isEncrypt
    /\ in' = block
    /\ iv' = Encrypted(block, iv)
    /\ written' = written \o Encrypted(block, iv)
    /\ NextBlock
    /\ UNCHANGED <<files, isEncrypt, source, offset, target>>

EncryptInner == ~LastBlock /\ PutOne(Loaded)

(* The last block is not full: it is filled up. *)
EncryptLastPadded ==
    /\ LastBlock /\ GetMaxPaddingSize(InSize) # BlockSize
    /\ PutOne(PadFrom(Loaded, InSize % BlockSize))

(* The last block is full: a block of padding follows it. *)
EncryptLastFull ==
    LET one == Encrypted(Loaded, iv)
        padding == [n \in 1 .. BlockSize |-> GetMaxPaddingSize(InSize)]
        two == Encrypted(padding, one)
    IN  /\ pc = "loop" /\ isEncrypt
        /\ LastBlock /\ GetMaxPaddingSize(InSize) = BlockSize
        /\ in' = padding
        /\ iv' = two
        /\ written' = written \o one \o two
        /\ NextBlock
        /\ UNCHANGED <<files, isEncrypt, source, offset, target>>

------------------------------------------------------------------------------
(* Decrypt *)

(* memcpy of a whole block; what is past the data is what is in the buffer. *)
Fetched ==
    LET end == IF Len(written) + BlockSize < InSize THEN Len(written) + BlockSize ELSE InSize
        front == SubSeq(InData, Len(written) + 1, end)
    IN  {front \o rest : rest \in [1 .. BlockSize - Len(front) -> Char]}

LastToDecrypt == IsEnd /\ InSize - i <= BlockSize

(* A mutated form: the padding is one byte short. *)
DataSizeOffByOne(out) == (BlockSize - out[BlockSize] + 1) % SizeRange

(* data_size = block_size - out[15], unsigned *)
DataSize(out) == (BlockSize - out[BlockSize]) % SizeRange

DecryptInner ==
    /\ pc = "loop" /\ ~isEncrypt /\ ~LastToDecrypt
    /\ \E block \in Fetched :
          /\ in' = block
          /\ iv' = block
          /\ written' = written \o Decrypted(block, iv)
    /\ NextBlock
    /\ UNCHANGED <<files, isEncrypt, source, offset, target>>

(* break for a block that is padding as a whole; memcpy ends the process when   *)
(* the subtraction has wrapped around.                                        *)
DecryptLast ==
    /\ pc = "loop" /\ ~isEncrypt /\ LastToDecrypt
    /\ \E block \in Fetched :
          LET out == Decrypted(block, iv)
          IN  /\ in' = block
              /\ iv' = block
              /\ IF DataSize(out) > BlockSize
                 THEN pc' = "crashed" /\ UNCHANGED <<i, written>>
                 ELSE IF DataSize(out) = 0
                 THEN pc' = "return" /\ UNCHANGED <<i, written>>
                 ELSE /\ written' = written \o SubSeq(out, 1, DataSize(out))
                      /\ NextBlock
    /\ UNCHANGED <<files, isEncrypt, source, offset, target>>

------------------------------------------------------------------------------
BlockNext ==
    \/ BeginCall \/ EndCall
    \/ EncryptInner \/ EncryptLastPadded \/ EncryptLastFull
    \/ DecryptInner \/ DecryptLast

BlockSpec == BlockInit /\ [][BlockNext]_blockVars

------------------------------------------------------------------------------
BlockTypeOK ==
    /\ class \in Classes /\ roundTrip \in BOOLEAN /\ isEncrypt \in BOOLEAN
    /\ keys \in [encrypt : AllKeys, decrypt : AllKeys]
    /\ file \in Seq(Char) /\ source \in Seq(Char) /\ target \in Seq(Char)
    /\ offset \in 0 .. Len(source)
    /\ pc \in {"call", "loop", "return", "done", "crashed"}
    /\ i \in Nat /\ i % BlockSize = 0
    /\ iv \in Block /\ in \in Block
    /\ written \in Seq(Char)

(* Every block ends up where write_size says and the output never grows beyond  *)
(* the buffer that CryptTask allocates for it, the block of padding included.   *)
FitsBuffer ==
    pc \in {"loop", "return"} => Len(written) <= InSize + GetMaxPaddingSize(InSize)

(* The number of bytes a call returns is one that the chain of tasks is modelled *)
(* with, also for a file that Encrypt has not made and for a wrong key.         *)
SizeAsPromised == pc = "return" => Len(written) \in CryptSizes(isEncrypt, InSize, IsEnd)

KeysAreDetermined == Keys(class, passwordSize) = {keys.decrypt}

(* What has been encrypted is decrypted to what it was, chunk by chunk, if the   *)
(* password determines the key, unless AesCBCCrypt is given a file that is a     *)
(* multiple of the chunk: its block of padding is then a chunk of its own.       *)
DecryptRecovers ==
    roundTrip /\ ~isEncrypt /\ KeysAreDetermined
            /\ (class = "DesCrypt" \/ Len(file) % ReadDataSize # 0) =>
        /\ IsPrefix(target, file)
        /\ pc # "crashed"
        /\ pc = "done" => target = file

(* aes_cbc_crypt.cc:117 and :131: Decrypt takes the padding off at the end, and   *)
(* any vector will do if both sides use the same.                              *)
DecryptAlwaysRecovers ==
    roundTrip /\ ~isEncrypt /\ KeysAreDetermined =>
        /\ pc # "crashed"
        /\ pc = "done" => target = file

==============================================================================
