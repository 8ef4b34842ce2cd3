SPECIFICATION Spec
CONSTANTS
  Byte <- Bits
  PREFIX_LEN = 2
  Lengths = {0, 1, 2, 3}
  U64 <- TwoDigits
  KEY_LEN = 2
  NONCE_LEN = 1
  HASH_LEN = 2
  Sha256 <- Digest
  Keystream <- Stream
  Xor <- XorBits
  Slices <- SliceSet
  Texts <- TextSet
INVARIANTS OwnRunsSucceed OutputIsReadBack DecryptionInverts
