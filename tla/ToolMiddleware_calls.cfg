CONSTANTS
  call1 = call1
  call2 = call2
  call3 = call3
  Calls = {call1, call2, call3}
  Keyed = {call1, call2}
  Policies <- MCPolicies
  Threshold = 2
  MaxParallel = 1
SPECIFICATION FairSpec
INVARIANTS BreakerInStep UntimedEffectStays EffectIsReported
PROPERTIES CallReturns
CHECK_DEADLOCK FALSE
