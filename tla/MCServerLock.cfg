SPECIFICATION FairSpec
CONSTANTS
  Server = {s1, s2, s3}
  Client = {c1}
  MayStop = {s1, s2}
  MayCrash = {s1}
  MayFail = {s2}
  MaxCleans = 1
  Nobody = Nobody
INVARIANTS ServingIsReachable OnlyCrashesLeaveFiles
PROPERTIES AlreadyRunningIsTrue NobodyWaitsForEver
