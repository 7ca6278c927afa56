SPECIFICATION Spec
CONSTANTS
  Profiles = {"home", "public"}
  Oids = {"fan", "ups"}
  Paces = {1, 2}
  Requests = {"a", "b"}
  Wrap = 3
  Speed = 1
  MaxTime = 4
  MaxRestarts = 2
  Five = 2
  Hour = 4
  RawKept = 3
  FiveKept = 6
  HourlyKept = 14
  MaxMoment = 24
  MaxGaps = 2
  MaxNights = 3
  Share = 2
  QueueSize = 2
  Batch = 2
  QuietFor = 2
  CacheFor = 1
  MaxMinute = 3
  MaxReceived = 3
  MaxChanges = 2
  LastDay = 5
  Week = 3
  Width = 1
  Wide = 2
  Latest = 1
  Folding = 2
  Longest = 2
  Windows <- FewWindows
  MaxWindows = 2
  MaxOutages = 2
  MaxUnwatched = 1
VIEW WithoutCounts
INVARIANTS
  NoSampleIsLost
CHECK_DEADLOCK FALSE
