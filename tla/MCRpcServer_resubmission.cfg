SPECIFICATION RpcSpec
CHECK_DEADLOCK FALSE
CONSTANTS
  None = None
  Keys = {"acct"}
  KindOf <- MCKindOf
  BASE_FEE = 10
  MAX_RESOURCE_FEE = 1000
  Limits <- MCLimits
  MaxEntryTtl = 4
  MinPersistentTtl = 2
  MinTemporaryTtl = 1
  SizeLimit <- MCSizeLimit
  Sizes = {1}
  RentFee <- MCRentFee
  Accounts = {"a"}
  Envelopes <- MCEnvelopes
  SignerLists <- MCSignerLists
  FundedAccounts <- OnlyRich
  InitialEntries <- MCNoEntries
  BASE_RESERVE = 10
  MAX_BALANCE = 1000
  SEQ_SHIFT = 100
  CLOSE_TIME = 0
  EventFees = {0}
  Sigverify = FALSE
  SequenceCheck = TRUE
  FeeCharging = FALSE
  Timebounds = TRUE
  FirstLedger = 1
  MaxLedger = 2
  Timestamps = {0}
  MaxFundings = 2
  Clients = {"plain", "bumper"}
  Jobs <- MCJobs
  FriendbotAccount <- MCFriendbot
  EventCounts = {1}
  MaxInterference = 2
  MaxRestores = 1
INVARIANT ErrorMeansNotApplied
