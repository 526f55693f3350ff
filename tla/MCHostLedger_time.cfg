SPECIFICATION Spec
CONSTANTS
  None = None
  Keys = {"code"}
  KindOf <- MCKindOf
  BASE_FEE = 10
  MAX_RESOURCE_FEE = 1000
  Limits <- MCLimits
  MaxEntryTtl = 3
  MinPersistentTtl = 2
  MinTemporaryTtl = 1
  SizeLimit <- MCSizeLimit
  RentFee <- MCRentFee
  CodeKeys = {"code"}
  Compilable = {"code"}
  Values = {"short"}
  SizeOf <- MCSizeOf
  Sizes = {1}
  Calls <- TimeCalls
  FootprintRequests = {}
  ExtendTos = {2}
  EventFees = {0}
  ChecksDeclaredBytes = TRUE
  Timestamps = {0}
  CLOSE_TIME = 1
  U32Max = 3
  FirstLedger = 1
  PutTtls = {2}
  Advances = {1, 2}
  MaxSnapshots = 2
  MaxSimulations = 1
  MaxTimestamp = 2
INVARIANTS
  TypeOK
PROPERTIES
  CacheMirrorsLedger
  RestoreIsExact
