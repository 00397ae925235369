SPECIFICATION Spec
CONSTANTS
  w1 = w1
  Never = Never
  Workers <- OneWorker
  Expiries <- MCExpiries
  MaxGrants = 2
  MaxTime = 2
INVARIANT ExpiredStaysRevoked
