CONSTANTS
  Messages <- MCMessages
  Bytes <- MCBytes
  Byte <- MCByte
  Rest <- MCRest
  Xor <- MCXor
  Encipher <- MCEncipher
  Decipher <- MCDecipher
  BF_BLKSIZE = 2
SPECIFICATION GroupSpec
INVARIANTS
  Deciphered
  NothingLost
  AsWritten
CHECK_DEADLOCK FALSE
