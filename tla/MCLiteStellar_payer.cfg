SPECIFICATION Spec
SYMMETRY Symmetry
CHECK_DEADLOCK FALSE
CONSTANTS
  None = None
  Accounts = {"issuer", "alice", "bob"}
  Assets = {"TEST"}
  IssuerOf <- MCIssuerOf
  ExplicitSalts = {0}
  r1 = r1
  r2 = r2
  RoundTrips = {r1, r2}
  AUTH_TTL = 1
  MinTemporaryTtl = 1
  LIMIT = 2
  FirstLedger = 1
  MaxLedger = 3
  MaxCalls = 5
  MaxSimulations = 4
  MaxSnapshots = 2
  MaxMinted = 2
INVARIANT PayerExists
