CONSTANTS
    BlockSize = 2
    ReadDataSize = 4
    MaxByte = 3
    SizeRange = 64
    PasswordSizes = {8, 16, 20, 23, 40}
    Residues = {0, 1}
    Files <- SmallFiles
    XorByte <- SmallXor
    EncryptBlock <- SmallEncrypt
    DecryptBlock <- SmallDecrypt
    Passwords <- SmallPasswords
    Texts <- SmallTexts

SPECIFICATION Spec

INVARIANTS
    BlockTypeOK
    FitsBuffer
    SizeAsPromised
    DecryptRecovers
    DesTypeOK
    DecryptUndoesEncrypt
    SubKeysAreTurnedKeys

\* The work ends with the last call.
CHECK_DEADLOCK FALSE
