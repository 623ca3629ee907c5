SPECIFICATION FairSpec
CONSTANTS
  c1 = c1
  c2 = c2
  Calls <- MCCalls
  Keys = {k1}
  Objects = {o1}
  None = None
  Held <- MCHeld
  MaxAttempts = 2
  RetryableStatusCodes <- MCRetryable
  Refusals = {409, 422}
  Failures = {500, 503}
INVARIANT EffectsOnce
INVARIANT ToldTheTruth
INVARIANT RepeatsOnlyWhatWasLost
PROPERTY EveryCallEnds
