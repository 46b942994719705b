SPECIFICATION Spec
CONSTANTS
  s1 = s1
  s2 = s2
  s3 = s3
  u1 = u1
  u2 = u2
  u3 = u3
  q1 = q1
  q2 = q2
  q3 = q3
  temperature = temperature
  top_p = top_p
  Models = {1,2,3,4,5}
  NoModel = NoModel
  Source <- MCSource
  Upstream <- MCUpstream
  QuotaKey <- MCQuotaKey
  Context <- MCContext
  Pools <- SomePools
  Reasons = {"auth_or_credit", "quota_exhausted", "bad_upstream_contract", "empty_assistant_message", "context_length_exceeded", "rate_limited", "timeout", "bad_upstream_request"}
  Hints = {0}
  Sizes = {2}
  FirstSize = 1
  Knobs = {}
  MaxAttempts = 4
  PerSourceCap = 0
  CapacityPass = FALSE
  Deadline = 0
  InlineMax = 12
  InlineMargin = 0
  PassMin = 1
  PassDefault = 2
  PassMax = 6
  PassReserve = 6
  PassModels = 2
  DrainTime = 4
  CanLeave = FALSE
  CanStop = FALSE
PROPERTY BlockedIsLastResort
