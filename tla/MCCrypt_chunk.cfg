CONSTANTS
    BlockSize = 2
    ReadDataSize = 4
    MaxByte = 3
    SizeRange = 64
    PasswordSizes = {16}
    Residues = {0, 1}
    Files <- SmallFiles
    XorByte <- SmallXor
    EncryptBlock <- SmallEncrypt
    DecryptBlock <- SmallDecrypt
    Passwords <- SmallPasswords
    Texts <- SmallTexts

SPECIFICATION Spec

INVARIANT DecryptAlwaysRecovers

CHECK_DEADLOCK FALSE
