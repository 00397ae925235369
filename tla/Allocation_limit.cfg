SPECIFICATION Spec
CONSTANTS
  s1 = s1
  s2 = s2
  s3 = s3
  w1 = w1
  NoSlot = NoSlot
  Slots <- ThreeSlots
  Workers <- OneWorker
  Limits <- SomeLimits
INVARIANT WithinLimit
