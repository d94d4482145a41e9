SPECIFICATION Spec
CONSTANTS
  Event <- MCEvent
  NoEvent = NoEvent
  PageLimit = 2
  MaxRows = 2
  MaxQueue = 1
  Presets <- MCPresets
  Instant <- MCInstant
  NoInstant = NoInstant
  FilterKey = {}
  FilterMethod = {}
  FilterHost = {"h1"}
  FilterPath = {"/a"}
  Method = {"GET"}
  Status = {}
  Path = {}
  Direction = {"inbound"}
  Stream = {"true"}
  Bucket <- MCBucket
  MaxBuckets = 2
  MaxStale = 1
  MaxTrail = 1
  k1 = k1
  k2 = k2
  Key <- MCKey
  NoKey = NoKey
  Field = {"name", "cap"}
  Number = {"cap"}
  Value = {0, 1}
  Zero = 0
  Blank = Blank
  Days <- MCDays
  Offered <- MCOffered
  OtherDays = OtherDays
  p1 = p1
  p2 = p2
  Project <- MCProject
  NoProject = NoProject
  Text = {"t0", "t1"}
  DefaultText = "t0"
  MaxCalls = 2
SYMMETRY Symmetric
CHECK_DEADLOCK FALSE
INVARIANT NoSecretIsLost
