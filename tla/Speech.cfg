SPECIFICATION Spec
CONSTANTS
  Workers = {"piper_fly","piper_modal","readaloud","kokoro"}
  Socks = {s1}
  Streams = {h1}
  MaxConnections = 1
  MaxMessages = 2
  MaxSentences = 2
  Conns = {c1,c2}
  MaxActive = 1
  MaxSays = 3
  MaxBuffer = 1
  Endpoints = {4}
  ChunkSizes = {1,2}
  MaxClock = 14
  Speculative = 2
  HintExtra = 2
  HintMax = 5
  MaxUtterance = 5
  BatchKinds = {"stt_prod","stt","demucs"}
  Uploads = {u1,u2}
  MaxSeparations = 1
  MaxReports = 3
  CheckEvery = 2
  LeadIn = 2
  PartialEvery = 3
  TailUnits = 1
  FlushMin = 2
  MinSpeech = 2
  Pauses = {1, 2}
  MaxUnits = 8
  k1 = k1
  k2 = k2
  k3 = k3
  k4 = k4
  Calls = {k1, k2, k3, k4}
  SyncCalls = {k1, k2}
  HttpCalls = {k3}
  MaxStops = 1
  Lines = {l1, l2}
  MaxStreams = 2
  MaxSpoken = 2
  MaxAsks = 2
  MaxChunks = 2
  MaxCancels = 1
  Encodes = {n1, n2}
  MaxEncoders = 1
  Checkouts = {o1, o2}
  MaxKeys = 3
  CheckoutTtl = 1
  MaxHour = 3
  Addresses = {a1, a2}
  MaxVisits = 4
  PerIpConcurrent = 2
  GlobalConcurrent = 3
  PerIpPerHour = 1
  PerIpPerDay = 2
  HourLong = 1
  DayLong = 3
  MaxTime = 5
CHECK_DEADLOCK FALSE
INVARIANTS
  SlotsAndLocks
  ReportedIsDone
  SessionAnswers
PROPERTIES
  AllLetGo
