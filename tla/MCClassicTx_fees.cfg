SPECIFICATION Spec
CONSTANTS
  None = None
  Keys = {"acct", "data"}
  KindOf <- MCKindOf
  BASE_FEE = 10
  MAX_RESOURCE_FEE = 1000
  Limits <- MCLimits
  MaxEntryTtl = 4
  MinPersistentTtl = 2
  MinTemporaryTtl = 1
  SizeLimit <- MCSizeLimit
  Sizes = {1, 2, 3}
  RentFee <- MCRentFee
  Accounts = {"a", "b"}
  Envelopes <- FeeEnvelopes
  SignerLists <- MCSignerLists
  FundedAccounts <- FeeAccounts
  InitialEntries <- FeeEntries
  BASE_RESERVE = 10
  MAX_BALANCE = 1000
  SEQ_SHIFT = 2
  CLOSE_TIME = 0
  EventFees = {0, 1}
  Sigverify = TRUE
  SequenceCheck = TRUE
  FeeCharging = TRUE
  Timebounds = TRUE
  FirstLedger = 1
  MaxLedger = 3
  Timestamps = {0}
  MaxFundings = 2
INVARIANTS
  TypeOK
  FeeWithinBid
PROPERTIES
  FeeReportedIsFeePaid
  ReserveKept
  FailedOnlyPays
  ArchiveOpensByRestore
