SPECIFICATION Spec
CONSTANTS
  None = None
  Keys = {"acct", "data"}
  KindOf <- MCKindOf
  BASE_FEE = 10
  MAX_RESOURCE_FEE = 1000
  Limits <- MCLimits
  MaxEntryTtl = 4
  MinPersistentTtl = 2
  MinTemporaryTtl = 1
  SizeLimit <- MCSizeLimit
  Sizes = {1, 2, 3}
  RentFee <- MCRentFee
  Accounts = {"a", "b"}
  Envelopes <- ReplayEnvelopes
  SignerLists <- MCSignerLists
  FundedAccounts <- ReplayAccounts
  InitialEntries <- MCNoEntries
  BASE_RESERVE = 10
  MAX_BALANCE = 1000
  SEQ_SHIFT = 2
  CLOSE_TIME = 5
  EventFees = {0}
  Sigverify = TRUE
  SequenceCheck = TRUE
  FeeCharging = TRUE
  Timebounds = TRUE
  FirstLedger = 1
  MaxLedger = 2
  Timestamps = {0}
  MaxFundings = 3
INVARIANTS
  SeqCoversApplied
PROPERTIES
  AppliedOnce
  AppliedIsAuthorized
  ImplementsTxLedger
