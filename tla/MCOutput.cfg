\* Texts, calls, days, sink trees, racing callers and the watermark build, each in turn.
CONSTANTS
  ByteBase = 12
  NANOS_PER_SEC = 2
  SecsPerMinute = 2
  MinutesPerHour = 2
  HoursPerDay = 24
  CounterMod = 16777216
  MaxFmt = 6
  MaxSpec = 5
  MaxPattern = 6
  MaxArgs = 2
  LastDay = 51500
  SinkTrees <- MCSinkTrees
  SinkRecords = 3
  BufCapacity = 3
  MemCapacity = 2
  Failures = 2
  Callers = {"c1", "c2"}
  SLOT_SIZE = 4
  DEFAULT_RING_SIZE = 16
  Capacities = {2, 4, 6, 8}
  WmCapacity = 8
  WmSizes = {1, 2}
  WmLargest = 2
  WmCalls = 7
  WATERMARK_HEAD_RECORDS = 4
SPECIFICATION Spec
CHECK_DEADLOCK FALSE
INVARIANTS
  CallRoundTrip
  AcceptedFormatRenders
  SpecScannersAgree
  PatternRenders
  IntegerReadsBack
  StampShowsLocalTime
  FanOutIsolation
  FlushOnlyDelays
  RetentionHolds
  WinnerInstalled
  WatermarkKeepsUp
