SPECIFICATION Spec
CONSTANTS
  None = None
  Keys = {"data", "temp"}
  KindOf <- MCKindOf
  BASE_FEE = 10
  MAX_RESOURCE_FEE = 1000
  Limits <- MCLimits
  MaxEntryTtl = 3
  MinPersistentTtl = 2
  MinTemporaryTtl = 1
  SizeLimit <- MCSizeLimit
  RentFee <- MCRentFee
  CodeKeys = {}
  Compilable = {}
  Values = {"short", "long"}
  SizeOf <- MCSizeOf
  Sizes = {1, 2}
  Calls <- MCCalls
  FootprintRequests <- MCRequests
  ExtendTos = {2}
  EventFees = {0}
  ChecksDeclaredBytes = TRUE
  Timestamps = {}
  CLOSE_TIME = 1
  U32Max = 9
  FirstLedger = 1
  PutTtls = {None, 2}
  Advances = {1, 3}
  MaxSnapshots = 0
  MaxSimulations = 0
  MaxTimestamp = 4
PROPERTIES
  MarkedEntriesRestored
