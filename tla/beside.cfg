SPECIFICATION BesideSpec
CONSTANTS
  w1 = w1
  bad = bad
  Seed = Seed
  Stance = Stance
  None = None
  MaxTrouble = 2
  Words <- TwoWords
  Bad <- OneBad
  t1 = t1
  t2 = t2
  t3 = t3
  s1 = s1
  s2 = s2
  c1 = c1
  Turns = {t1, t2, t3}
  SessionOf <- TwoSessions
  Calls = {c1}
  MaxEntries = 1
  MaxQueue = 2
  MaxRoots = 2
  MaxMishaps = 1
  register = register
  adapter = adapter
  Holders = {register, adapter}
  MaxWriters = 2
  MaxEvents = 2
  LastTrace = 2
  MaxRows = 2
  MaxTraces = 1
  MaxLine = 2
  MaxBatch = 2
  MaxLosses = 1
  a = a
  b = b
  Absent = Absent
  Series = {a, b}
  MaxValue = 1
  HeartbeatEvery = 2
  MaxSamples = 4
  MaxFaults = 2
  gateway = gateway
  serve = serve
  Processes = {gateway, serve}
  Gateway = gateway
  MaxLoops = 3
  MaxStarts = 4
  r1 = r1
  r2 = r2
  Rows = {r1, r2}
  Rotten = {r1}
  MaxBuilds = 3
  Sessions = {s1, s2}
  TopN = 1
  RingCap = 1
  Factor = 2
  Floor = 2
  MaxSurfaced = 1
  MaxBeliefs = 2
  MaxCommitments = 1
  MaxTurns = 3
  i1 = i1
  i2 = i2
  Ids = {i1, i2}
  Ttl = 1
  IdCap = 1
  UMax = 2
  Beta = 1
  Threshold = 2
  MaxNow = 4
  Window = 1
  Backoff1 = 1
  Growth = 2
  BackoffMax = 2
  Grace = 1
  Deadline = 1
  Day = 5
  MaxPerDay = 2
  Gap = 2
  Keep = 2
  LastNow = 8
  MaxLaunches = 3
  LastStamp = 6
INVARIANTS Types Recoverable Credited Felt WellRooted WellKept Believed Honest Preserved Sensed Spaced Voiced
PROPERTIES Remembered VerdictStands Spared Faithful
SYMMETRY Alike
CHECK_DEADLOCK FALSE
