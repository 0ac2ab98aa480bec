------------------------------ MODULE DataSizes ------------------------------
(* The arithmetic on block sizes that the tasks use: LimitNum of memory/data.h  *)
(* and the number of bytes that AesCBCCrypt returns for a block.                *)
EXTENDS Integers

CONSTANT BlockSize   (* AES_BLOCK_SIZE *)

ASSUME BlockSizeAssumption == BlockSize \in Nat \ {0}

LimitNum(a, b) == a \div b

(* The bytes that are to be added to n; a full block of them when n is aligned. *)
GetMaxPaddingSize(n) == BlockSize - (n % BlockSize)

(* The loops of Encrypt and Decrypt produce one cipher block per begun block. *)
RoundUp(n) == ((n + BlockSize - 1) \div BlockSize) * BlockSize

(* A mutated form: more padding is taken off than a cipher block has bytes.     *)
BuggyCryptSizes(encrypt, n, end) ==
    IF end /\ ~encrypt THEN {RoundUp(n) - padding : padding \in 0 .. BlockSize + 1}
                       ELSE {RoundUp(n)}

(* What Encrypt or Decrypt may return for n bytes, n > 0.  The padding is added *)
(* to the end of the file, or is what the last byte of the last plain block says *)
(* it is.  A byte above BlockSize is not among these: the size then wraps around *)
(* and the memcpy of nearly 2^64 bytes ends the process.                        *)
CryptSizes(encrypt, n, end) ==
    CASE ~end             -> {RoundUp(n)}
      [] end /\ encrypt   -> {n + GetMaxPaddingSize(n)}
      [] end /\ ~encrypt  -> {RoundUp(n) - padding : padding \in 0 .. BlockSize}

(* The block with number no, of len bytes before and size bytes after the cipher. *)
Blocks == [no : Nat \ {0}, len : Nat \ {0}, size : Nat, end : BOOLEAN]

(* Data::Make and New for n bytes, filled with them, and set_end. *)
NewData(no, n, end) == [no |-> no, len |-> n, size |-> n, end |-> end]

==============================================================================
