SPECIFICATION Spec
CONSTANTS
  Contents <- MCContents
  SignatureLists <- MCSignatureLists
  SignerLists <- MCSignerLists
  Needs <- MCNeeds
  MaxChecks = 2
  MaxSigs = 3
INVARIANTS
  TypeOK
  VerdictIsWeight
  OnlyAskedSignersConsume
  LastSignatureNeeded
CHECK_DEADLOCK FALSE
