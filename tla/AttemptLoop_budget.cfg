SPECIFICATION FairSpec
CONSTANTS
  s1 = s1
  s2 = s2
  s3 = s3
  u1 = u1
  u2 = u2
  u3 = u3
  q1 = q1
  q2 = q2
  q3 = q3
  temperature = temperature
  top_p = top_p
  Models = {1,2,3}
  NoModel = NoModel
  Source <- MCSource
  Upstream <- MCUpstream
  QuotaKey <- MCQuotaKey
  Context <- MCContext
  Pools <- Whole
  Reasons = {"rate_limited", "timeout", "request_deadline_exceeded", "pre_stream_failure"}
  Hints = {0,2,5}
  Sizes = {}
  FirstSize = 1
  Knobs = {temperature}
  MaxAttempts = 2
  PerSourceCap = 0
  CapacityPass = TRUE
  Deadline = 6
  InlineMax = 6
  InlineMargin = 0
  PassMin = 1
  PassDefault = 1
  PassMax = 3
  PassReserve = 1
  PassModels = 2
  DrainTime = 2
  CanLeave = TRUE
  CanStop = TRUE
INVARIANT WorkIsBounded
PROPERTY ImplementsContract
PROPERTY Terminates
